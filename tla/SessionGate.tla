----------------------------- MODULE SessionGate ----------------------------
(***************************************************************************)
(* The approvals gate of an agent session: approvals.check and             *)
(* session_report (py/tackbox/approvals.py), and the pre and post          *)
(* decisions the hooks take from them (py/tackbox/cli.py).  A suppression  *)
(* marker in a file needs a line in .tackbox/approvals; the session is     *)
(* what the worktree adds to HEAD; an edit outside the fix set is refused  *)
(* while the session has debt.  Calls of parallel agents, opaque writes    *)
(* (Bash) and commits interleave.                                          *)
(*                                                                         *)
(* Abstractions.  A line of a file holds the marker or code; every marker  *)
(* of a file has the same identity (address and text), so the identities   *)
(* are the files.  Line i of the worktree is diffed with line i of HEAD.   *)
(* A manifest line is an entry for a file, blank, or one that does not     *)
(* parse.  All files are lintable.  The lint half of the post decision is  *)
(* not here.                                                               *)
(***************************************************************************)
EXTENDS Naturals, FiniteSets, FiniteSetsExt

CONSTANTS Files,     \* source files
          Lines,     \* line numbers of a file
          Slots,     \* line numbers of the manifest
          Manifest,  \* .tackbox/approvals
          Attributes,\* .gitattributes
          Calls,     \* tool calls in flight at once
          Edits,     \* the edits agents make: sets of changes
          Writes,    \* the changes made past the hooks (Bash, a checkout)
          Steps      \* bound: edits, writes and commits in all

ASSUME NumbersAssumption ==
  Lines \subseteq Nat \ {0} /\ Slots \subseteq Nat \ {0} /\ Steps \in Nat
ASSUME LinesAssumption ==
  IsFiniteSet(Files) /\ IsFiniteSet(Lines) /\ IsFiniteSet(Slots) /\ Lines # {}
ASSUME TargetsAssumption == Manifest \notin Files /\ Attributes \notin Files /\ Manifest # Attributes

VARIABLES work,   \* the worktree
          head,   \* the tree of HEAD
          pc,     \* pc[c]: where tool call c is
          edit,   \* edit[c]: what it changes
          seen,   \* seen[c]: the difference its post hook has read
          steps,  \* edits, writes and commits so far
          given,  \* history: entries for f that came with HEAD, an owner's
                  \* yes, or a write past the hooks
          known   \* history: the debt the agents were told of, and the files
                  \* whose attributes changed

vars == <<work, head, pc, edit, seen, steps, given, known>>

-----------------------------------------------------------------------------
(* Trees.                                                                  *)

Blank == "blank"
Unparsable == "unparsable"
Entries == Files \cup {Blank, Unparsable}

ASSUME EntriesAssumption == {Blank, Unparsable} \cap Files = {}

\* A file: absent, in good syntax or not, and the lines that hold the marker.
Contents == {[kind |-> "absent", marks |-> {}]} \cup
            [kind : {"ok", "broken"}, marks : SUBSET Lines]

Trees == [files : [Files -> Contents], approvals : [Slots -> Entries],
          excluded : SUBSET Files]

Present(t) == {f \in Files : t.files[f].kind # "absent"}
Included(t) == Present(t) \ t.excluded
Parses(t) == \A s \in Slots : t.approvals[s] # Unparsable
EntriesOf(t, f) == {s \in Slots : t.approvals[s] = f}

(* The difference of a worktree t from a HEAD h.                            *)

Changed(t, h) == {f \in Files : t.files[f] # h.files[f]}
Untracked(t, h) == Present(t) \ Present(h)

AddedLines(t, h, f) ==
  IF f \in Untracked(t, h) THEN Lines
  ELSE {i \in Lines : (i \in t.files[f].marks) # (i \in h.files[f].marks)}

AddedSlots(t, h) == {s \in Slots : t.approvals[s] # h.approvals[s]}

\* Mutant: deletions are not looked at.
NoDeletions(t, h, f) == {}

\* The lines of HEAD that are gone or replaced, if a marker went with one.
RemovedLines(t, h, f) ==
  IF h.files[f].marks \subseteq t.files[f].marks THEN {}
  ELSE IF t.files[f].kind = "absent" THEN Lines
  ELSE {i \in Lines : (i \in t.files[f].marks) # (i \in h.files[f].marks)}

\* What session_report asks git, first for names and then file by file: the
\* patches of what was named.
Names(t, h) ==
  [none |-> t = h, changed |-> Changed(t, h), untracked |-> Untracked(t, h),
   manifest |-> t.approvals # h.approvals]

Patches(n, t, h) ==
  [none |-> n.none, changed |-> n.changed,
   slots |-> IF n.manifest THEN AddedSlots(t, h) ELSE {},
   added |-> [f \in Files |-> IF f \in n.untracked THEN Lines
                              ELSE IF f \in n.changed \ Untracked(t, h)
                              THEN AddedLines(t, h, f) ELSE {}],
   removed |-> [f \in Files |-> IF f \in n.changed \ n.untracked
                                THEN RemovedLines(t, h, f) ELSE {}]]

Diff(t, h) == Patches(Names(t, h), t, h)
NoDiff == Diff(head, head)

(* approvals.check over the files of `paths`; lines of `added` come last    *)
(* when marker occurrences and entries are paired off.                      *)

\* Mutant: the order is that of the lines.
ByLine(S, added, n) == {i \in S : Cardinality({j \in S : j < i}) >= n}

\* The members of S left when the first n, unchanged lines first, are taken.
Surplus(S, added, n) ==
  LET Before(j, i) == IF (j \in added) = (i \in added) THEN j < i ELSE i \in added
  IN  {i \in S : Cardinality({j \in S : Before(j, i)}) >= n}

Check(t, paths, addedIn, addedEntries) ==
  LET candidates == {f \in Included(t) \cap paths :
                       t.files[f].marks # {} \/ EntriesOf(t, f) # {}}
      unresolvable == {f \in candidates : t.files[f].kind = "broken"}
      occurrences(f) == IF f \in candidates THEN t.files[f].marks ELSE {}
      covered(f) == Min({Cardinality(occurrences(f)), Cardinality(EntriesOf(t, f))})
      paired == paths \ unresolvable
  IN [uncovered |->
        UNION {{<<f, i>> : i \in Surplus(occurrences(f), addedIn[f], covered(f))} :
               f \in paired},
      orphans |->
        UNION {{<<f, s>> : s \in Surplus(EntriesOf(t, f), addedEntries, covered(f))} :
               f \in paired},
      unresolvable |-> unresolvable]

Nowhere == [f \in Files |-> {}]

\* `tackbox approvals`, lint and CI: the whole tree.
TreeReport(t) == Check(t, Files, Nowhere, {})

\* Mutant: the HEAD version of every file that lost a marker is resolved.
EveryDeletion(d, now) == {f \in Files : d.removed[f] # {}}

\* Files whose HEAD version is resolved: a marker line went, an entry has no
\* marker.
Looked(d, now) == {f \in {x[1] : x \in now.orphans} : d.removed[f] # {}}

\* session_report: the debt that the difference d from HEAD brought, in the
\* files as they are in t and, for what is gone, in h.
SessionReport(d, t, h) ==
  LET newEntries == {t.approvals[s] : s \in d.slots} \cap Files
      now == Check(t, d.changed \cup newEntries, d.added, d.slots)
      looked == Looked(d, now)
      lost == {f \in looked : h.files[f].kind = "broken"}
      deleted(f) == IF f \in looked \ lost
                    THEN Cardinality(h.files[f].marks \cap d.removed[f]) ELSE 0
      old(f) == {s \in Slots \ d.slots : <<f, s>> \in now.orphans}
  IN IF d.none THEN [uncovered |-> {}, orphans |-> {}, unresolvable |-> {}]
     ELSE
     [uncovered |->
        {x \in now.uncovered : x[1] \in d.changed /\ x[2] \in d.added[x[1]]},
      orphans |->
        {x \in now.orphans :
           \/ x[2] \in d.slots
           \/ Cardinality({s \in old(x[1]) : s < x[2]}) < deleted(x[1])},
      unresolvable |-> now.unresolvable \cup lost]

\* The manifest is read only when there is a difference.
ReadableFrom(d, t) == d.none \/ Parses(t)

\* What the hooks see now.
Here == Diff(work, head)
Debt == SessionReport(Here, work, head)
Readable == ReadableFrom(Here, work)

Clean(r) == r.uncovered = {} /\ r.orphans = {} /\ r.unresolvable = {}

\* Mutant: the files whose scopes do not resolve are left out.
ResolvedFilesOf(r) == {x[1] : x \in r.uncovered \cup r.orphans}

FilesOf(r) == {x[1] : x \in r.uncovered \cup r.orphans} \cup r.unresolvable
FixSet(r) == FilesOf(r) \cup {Manifest}

-----------------------------------------------------------------------------
(* Changes: on a target, at a line (0 is the file as a whole), from what    *)
(* the agent saw to what it wants.                                          *)

FileChanges(f) ==
  [on : {f}, at : Lines, from : {"code", "mark"}, to : {"code", "mark"}]
  \cup [on : {f}, at : {0}, from : {"absent", "ok", "broken"},
        to : {"absent", "ok", "broken"}]
ManifestChanges == [on : {Manifest}, at : Slots, from : Entries, to : Entries]
AttributeChanges == [on : {Attributes}, at : Files, from : {"in", "out"}, to : {"in", "out"}]
AllChanges == ManifestChanges \cup UNION {FileChanges(f) : f \in Files}

\* An edit changes a place once.
ASSUME EditsAssumption ==
  /\ Writes \subseteq AllChanges \cup AttributeChanges
  /\ \A e \in Edits :
       /\ e \subseteq AllChanges \cup AttributeChanges /\ IsFiniteSet(e)
       /\ \A x, y \in e : x.on = y.on /\ x.at = y.at => x = y

Holds(t, ch) ==
  CASE ch.on = Manifest -> t.approvals[ch.at] = ch.from
    [] ch.on = Attributes -> (ch.at \in t.excluded) = (ch.from = "out")
    [] OTHER -> IF ch.at = 0 THEN t.files[ch.on].kind = ch.from
                ELSE /\ t.files[ch.on].kind # "absent"
                     /\ (ch.at \in t.files[ch.on].marks) = (ch.from = "mark")

\* What an edit puts at a place where something was.
After(e, on, at, was) ==
  LET here == {ch \in e : ch.on = on /\ ch.at = at}
  IN  IF here = {} THEN was ELSE (CHOOSE ch \in here : TRUE).to

Edited(e, f, was) ==
  LET kind == After(e, f, 0, was.kind)
  IN  [kind |-> kind,
       marks |-> {i \in Lines : /\ kind # "absent"
                                /\ After(e, f, i, IF i \in was.marks THEN "mark" ELSE "code") = "mark"}]

Applies(t, e) == \A ch \in e : Holds(t, ch) /\ ch.from # ch.to
Apply(t, e) ==
  [files |-> [f \in Files |-> Edited(e, f, t.files[f])],
   approvals |-> [s \in Slots |-> After(e, Manifest, s, t.approvals[s])],
   excluded |-> {f \in Files : After(e, Attributes, f, IF f \in t.excluded THEN "out" ELSE "in") = "out"}]

TargetsOf(e) == {ch.on : ch \in e}

-----------------------------------------------------------------------------
(* The pre decision.                                                        *)

\* Mutant: an entry that the manifest has already is not a new one.
NewKinds(e, entry) ==
  IF \/ EntriesOf(work, entry) # {}
     \/ ~\E ch \in e : ch.on = Manifest /\ ch.to = entry
  THEN 0 ELSE 1

\* _pre_added for the manifest: lines the edit adds, net of those it removes.
NetAdded(e, entry) ==
  LET on(x) == Cardinality({ch \in e : ch.on = Manifest /\ ch.to = x})
      off(x) == Cardinality({ch \in e : ch.on = Manifest /\ ch.from = x})
  IN  IF on(entry) > off(entry) THEN on(entry) - off(entry) ELSE 0

\* _pre_gate_reasons: what only the owner may allow.
NeedsOwner(e) ==
  \/ \E x \in Entries \ {Blank} : NetAdded(e, x) > 0
  \/ \E ch \in e : ch.on = Attributes /\ ch.to = "out"
  \/ TargetsOf(e) \cap work.excluded # {}

PreDecision(e) ==
  IF TargetsOf(e) # {Manifest} /\ ~Readable THEN "unverified"
  ELSE IF /\ TargetsOf(e) # {Manifest}
          /\ ~Clean(Debt)
          /\ ~(TargetsOf(e) \subseteq FixSet(Debt))
       THEN "violation"
       ELSE IF NeedsOwner(e) THEN "ask" ELSE "allow"

\* Mutant: only the touched files, whichever file was edited.
TouchedOnly(e, debt) == FilesOf(debt) \cap TargetsOf(e)

\* The post decision's share of the session debt: that of the touched files,
\* all of it when the manifest was touched.
Reported(e, debt) ==
  IF Manifest \in TargetsOf(e) THEN FilesOf(debt)
  ELSE FilesOf(debt) \cap TargetsOf(e)

-----------------------------------------------------------------------------
InitFrom(trees) ==
  /\ work \in trees
  /\ head \in trees
  /\ pc = [c \in Calls |-> "idle"]
  /\ edit = [c \in Calls |-> {}]
  /\ seen = [c \in Calls |-> NoDiff]
  /\ given = [f \in Files |-> Cardinality(EntriesOf(work, f))]

\* A worktree that agrees with its HEAD.
Init == /\ InitFrom(Trees)
        /\ work = head
        /\ steps = 0
        /\ known = {}

Count == steps < Steps /\ steps' = steps + 1
Go(c, at) == pc' = [pc EXCEPT ![c] = at]

\* The pre hook of a call.  A blocked call is over at once.
Pre(c) ==
  /\ pc[c] = "idle"
  /\ Count
  /\ \E e \in Edits :
       /\ Applies(work, e)
       /\ edit' = [edit EXCEPT ![c] = e]
       /\ \/ PreDecision(e) = "allow" /\ Go(c, "cleared")
          \/ PreDecision(e) = "ask" /\ Go(c, "asking")
          \/ PreDecision(e) \in {"violation", "unverified"} /\ Go(c, "idle")
  /\ UNCHANGED <<work, head, seen, given, known>>

\* The owner answers the ask; a yes covers the entries it quotes.
Owner(c) ==
  /\ pc[c] = "asking"
  /\ \/ /\ Go(c, "cleared")
        /\ given' = [f \in Files |-> given[f] + NetAdded(edit[c], f)]
     \/ /\ Go(c, "idle")
        /\ UNCHANGED given
  /\ UNCHANGED <<work, head, edit, seen, steps, known>>

\* What an edit makes unknown: the debt of its files, and of any file when it
\* touches the manifest.
Doubtful(e) == IF Manifest \in TargetsOf(e) THEN Files ELSE TargetsOf(e)

\* The tool edits the files, or fails because somebody changed them first.
Land(c) ==
  /\ pc[c] = "cleared"
  /\ \/ /\ Applies(work, edit[c])
        /\ work' = Apply(work, edit[c])
        /\ Go(c, "landed")
        /\ known' = (known \ Doubtful(edit[c]))
                      \cup {ch.at : ch \in {x \in edit[c] : x.on = Attributes}}
     \/ /\ ~Applies(work, edit[c])
        /\ Go(c, "idle")
        /\ UNCHANGED <<work, known>>
  /\ UNCHANGED <<head, edit, seen, steps, given>>

\* The post hook asks git, then reads the manifest and the files, while other
\* calls go on.
PostNames(c) ==
  /\ pc[c] = "landed"
  /\ seen' = [seen EXCEPT ![c] = Names(work, head)]
  /\ Go(c, "named")
  /\ UNCHANGED <<work, head, edit, steps, given, known>>

PostPatches(c) ==
  /\ pc[c] = "named"
  /\ seen' = [seen EXCEPT ![c] = Patches(seen[c], work, head)]
  /\ Go(c, "diffed")
  /\ UNCHANGED <<work, head, edit, steps, given, known>>

\* An unparsable manifest makes the report unverified.
Post(c) ==
  /\ pc[c] = "diffed"
  /\ known' = IF ~ReadableFrom(seen[c], work) THEN known
              ELSE known \cup Reported(edit[c], SessionReport(seen[c], work, head))
  /\ Go(c, "idle")
  /\ seen' = [seen EXCEPT ![c] = NoDiff]
  /\ UNCHANGED <<work, head, edit, steps, given>>

\* A write the hooks do not see.
Write ==
  /\ Count
  /\ \E ch \in Writes :
       /\ Applies(work, {ch})
       /\ work' = Apply(work, {ch})
       /\ given' = [f \in Files |-> given[f] + NetAdded({ch}, f)]
       /\ known' = known \cup Files
  /\ UNCHANGED <<head, pc, edit, seen>>

\* git commit of some of the changed paths.
Commit ==
  /\ Count
  /\ \E S \in SUBSET (Files \cup {Manifest, Attributes}) :
       head' = [files |-> [f \in Files |-> IF f \in S THEN work.files[f] ELSE head.files[f]],
                approvals |-> IF Manifest \in S THEN work.approvals ELSE head.approvals,
                excluded |-> IF Attributes \in S THEN work.excluded ELSE head.excluded]
  /\ head' # head
  /\ UNCHANGED <<work, pc, edit, seen, given, known>>

Next == \/ \E c \in Calls : Pre(c) \/ Owner(c) \/ Land(c)
                      \/ PostNames(c) \/ PostPatches(c) \/ Post(c)
        \/ Write \/ Commit

Spec == Init /\ [][Next]_vars

-----------------------------------------------------------------------------
(* Correctness.                                                            *)

\* Every approval entry in the worktree came with the repository, an owner's
\* yes or a write past the hooks, occurrence by occurrence, whatever parallel
\* calls did between the question and the write (D011, "an edit adding a
\* manifest line draws the PreToolUse ask").
NoSilentApproval ==
  \A f \in Files : Cardinality(EntriesOf(work, f)) <= given[f]

\* When no call is in flight, every file with session debt was named by a post
\* hook that ended after the last call that touched the file or the manifest
\* had landed, whatever landed or was committed while the hook was reading: no
\* debt comes as a surprise in a later, unrelated call (approvals.py:255-285).  A file that an attribute change
\* brought into linting is exempt: the hook reports on the files of the edit.
NoUnseenDebt ==
  (\A c \in Calls : pc[c] = "idle") /\ Readable =>
     FilesOf(Debt) \subseteq known

\* A consistent tree has no session debt: the session report, which looks at
\* changed paths only, never refuses an edit of a tree that CI would pass.
NoFalseDebt ==
  Parses(work) /\ Clean(TreeReport(work)) => Clean(Debt)

\* A session that started from a consistent HEAD, took back no approval and
\* changed no exclusion is clean only when the whole tree is.
NothingEscapes ==
  (/\ Parses(work) /\ Parses(head) /\ Clean(TreeReport(head))
   /\ work.excluded = head.excluded
   /\ \A s \in Slots : head.approvals[s] \in Files => work.approvals[s] = head.approvals[s]
   /\ Clean(Debt)) => Clean(TreeReport(work))

\* D020: "unchanged occurrences consume approval capacity before added lines;
\* prepending a duplicate cannot shift new debt into HEAD": of a file's added
\* markers, exactly those that the entries left by the unchanged ones do not
\* cover are debt.
CapacityRule ==
  Parses(work) =>
  \A f \in Changed(work, head) \cap Included(work) :
     work.files[f].kind = "ok" =>
     LET added == Cardinality(work.files[f].marks \cap AddedLines(work, head, f))
         kept == Cardinality(work.files[f].marks \ AddedLines(work, head, f))
         entries == Cardinality(EntriesOf(work, f))
         free == IF entries > kept THEN entries - kept ELSE 0
         debt == Cardinality({x \in Debt.uncovered : x[1] = f})
     IN  debt = IF added > free THEN added - free ELSE 0

\* What is left to repair: manifest lines that do not parse, files that do not,
\* debt, and the entries that a repair may still have to take out.
Burden(t, r) ==
  LET lines == Cardinality(Lines) * Cardinality(Files) + Cardinality(Slots) + 1
      bad == Cardinality({s \in Slots : t.approvals[s] = Unparsable})
      entries == Cardinality({s \in Slots : t.approvals[s] # Blank})
  IN  ((bad * lines + Cardinality(r.unresolvable)) * lines
         + Cardinality(r.uncovered) + Cardinality(r.orphans)) * lines + entries

\* The gate never wedges the agent: whatever the session's debt, or the state
\* of the manifest, some edit that needs no owner is allowed and leaves less to
\* repair (cli.py:1321-1346: the fix set, the manifest always in it).
DebtIsRepairable ==
  ~(Readable /\ Clean(Debt)) =>
     \E ch \in AllChanges :
        /\ Applies(work, {ch})
        /\ PreDecision({ch}) = "allow"
        /\ LET next == Apply(work, {ch})
           IN  Burden(next, SessionReport(Diff(next, head), next, head)) < Burden(work, Debt)
=============================================================================
