--------------------------- MODULE MCSessionGate ----------------------------
(* Instances of SessionGate for TLC.                                       *)
EXTENDS SessionGate, TLC

CONSTANTS a, b, c1, c2

Two == {1, 2}

\* Any worktree of one file over any HEAD, with nobody at work: the report is
\* a pure function of the two.
Alone == {t \in Trees : /\ t.files[b] = [kind |-> "absent", marks |-> {}]
                        /\ \A s \in Slots : t.approvals[s] # b
                        /\ b \notin t.excluded}
AnyTrees == InitFrom(Alone) /\ steps = Steps /\ known = Files

\* What agents edit: markers of both files, one file's syntax, the manifest.
Toggles(f) == {ch \in FileChanges(f) : ch.from # ch.to /\ ch.at \in {0, 1}}
ManifestEdits == {ch \in ManifestChanges : ch.from # ch.to}
AttributeEdits == {ch \in AttributeChanges : ch.from # ch.to}

Marking(f) == {ch \in Toggles(f) : ch.at # 0}
MCEdits == {{ch} : ch \in Toggles(a) \cup Toggles(b) \cup ManifestEdits \cup AttributeEdits}
           \cup {{x, y} : x \in Marking(a), y \in Marking(b) \cup ManifestEdits}
MCWrites == Toggles(a) \cup ManifestEdits \cup AttributeEdits

\* Calls differ in nothing but their name.
Sym == Permutations({c1, c2})

\* Sessions start from a committed tree with one approved marker.
Approved == [files |-> [f \in Files |-> [kind |-> "ok", marks |-> IF f = a THEN {1} ELSE {}]],
             approvals |-> [s \in Slots |-> IF s = 1 THEN a ELSE Blank],
             excluded |-> {}]
Sessions == InitFrom({Approved}) /\ steps = 0 /\ known = {}

EitherSpec == (AnyTrees \/ Sessions) /\ [][Next]_vars
=============================================================================
