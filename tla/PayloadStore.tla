---------------------------- MODULE PayloadStore ----------------------------
(***************************************************************************)
(* What the engine store promises its users, with no lock, work directory  *)
(* or download in sight: a payload version is absent until it appears      *)
(* whole and verified, it never changes or goes away afterwards, and an    *)
(* invocation is told "ready" only when every payload it asked for is      *)
(* there.  EngineStore implements this specification.                      *)
(***************************************************************************)
EXTENDS Naturals, Sequences

CONSTANTS Procs,     \* tackbox invocations (hooks, lint runs)
          Roots,     \* store directories, one per payload version
          Needs      \* Needs[p]: the roots invocation p asks for, in order

VARIABLES store,     \* store[r]: what a reader finds at r
          answer     \* answer[p]: what ensure_payloads told invocation p

absVars == <<store, answer>>

Absent == "absent"
Pinned == "pinned"

Init == /\ store = [r \in Roots |-> Absent]
        /\ answer = [p \in Procs |-> "open"]

\* A verified payload appears at r, in one step.
Publish(r) == /\ store[r] = Absent
              /\ store' = [store EXCEPT ![r] = Pinned]
              /\ UNCHANGED answer

\* p is told that everything it needs is in place.
Grant(p) == /\ answer[p] = "open"
            /\ \A i \in 1..Len(Needs[p]) : store[Needs[p][i]] = Pinned
            /\ answer' = [answer EXCEPT ![p] = "ready"]
            /\ UNCHANGED store

\* p fails loudly, or dies.
Refuse(p) == /\ answer[p] = "open"
             /\ answer' = [answer EXCEPT ![p] = "refused"]
             /\ UNCHANGED store

Next == \/ \E r \in Roots : Publish(r)
        \/ \E p \in Procs : Grant(p) \/ Refuse(p)

Spec == Init /\ [][Next]_absVars
=============================================================================
