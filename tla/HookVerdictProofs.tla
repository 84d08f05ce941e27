------------------------- MODULE HookVerdictProofs -------------------------
(***************************************************************************)
(* Proofs about HookVerdict: whatever could not be verified is told, for   *)
(* any number of repositories, files, targets, engines and other writers.  *)
(***************************************************************************)
EXTENDS HookVerdict, SequenceTheorems, TLAPS

Deciding == {"failed", "inactive", "pre", "post", "scope", "verdict"}
Grave == {"violation", "unverified"}
Told == kinds \cap Grave # {}
GroupOf(t) == <<Home[t.file], found[t]>>

\* The locals belong to the group being decided, and are blank between groups.
Struct ==
  /\ event \in Events
  /\ pc \in Deciding \cup {"start", "decide", "done"}
  /\ found \in [Targets -> States]
  /\ text \in [Files -> Seq(Engines \cup {"fine"})]
  /\ pc \notin {"start", "done"} => \A t \in Targets : found[t] # "unknown"
  /\ pc \notin {"start", "done"} => left \subseteq Groups
  /\ pc \in Deciding => /\ group \in left
                        /\ pc = "failed" <=> group[2] = "failed"
                        /\ pc = "inactive" <=> group[2] = "inactive"
  /\ pc = "pre" => event.phase = "pre"
  /\ pc \in {"post", "scope", "verdict"} => event.phase = "post"
  /\ pc \notin {"scope", "verdict", "done"} => doubt = FALSE /\ DOMAIN scope = {}
  /\ pc = "scope" => unread \subseteq {t \in Members : t.stays} /\ DOMAIN scope \subseteq FilesOf(Repo)
  /\ pc = "start" => kinds = {} /\ heard = {}
  /\ Answered => pc = "done"

\* A failure has its outcome, or is on its way to one.
FailurePending ==
  failed # {} =>
    /\ pc = "start" => \E t \in Targets : found[t] = "failed"
    /\ pc \in Deciding \cup {"decide"} =>
         Told \/ doubt \/ \E g \in left : g[2] = "failed"

\* An engine has failed in a repository in which there is nothing to find.
Trouble(r) ==
  (\E e \in Engines : EngineFailed(r, e)) /\ Faultless(r) /\ disturbed \cap FilesOf(r) = {}

TroublePending ==
  pc # "done" => \A r \in Repos : Trouble(r) =>
    Told \/ (pc = "verdict" /\ Visible = {} /\ \E result \in results : result.nonzero)

\* The event has taken away the dev.py of a repository.
Lost(t) ==
  /\ event.phase = "post" /\ RemovesDevPy(t)
  /\ ~Active(Home[t.file]) /\ t.file \notin disturbed

LossPending ==
  pc # "done" => \A t \in Targets : Lost(t) =>
    /\ found[t] # "active"
    /\ pc # "start" => Told \/ GroupOf(t) \in left

Pending == FailurePending /\ TroublePending /\ LossPending /\ FailureTold

-----------------------------------------------------------------------------
\* A grave outcome of one group is the answer to the whole event.
LEMMA GraveAnswer ==
  ASSUME Told, event.phase \in {"pre", "post"}
  PROVE  Wire(Gravest(kinds)) \in {"warn", "block"}
BY DEF Told, Grave, Wire, Gravest

\* An event starts with nothing decided.
LEMMA StructInit == Init => Struct
BY EventsAssumption, LayoutAssumption DEF Init, Struct, Deciding, Answered, Targets, States

\* Every step keeps the structure of the state.
LEMMA StructNext == Struct /\ [Next]_vars => Struct'
<1> SUFFICES ASSUME Struct, [Next]_vars PROVE Struct'
  OBVIOUS
<1> USE DEF Struct, Deciding, Answered, Targets, States, disk, locals, history
<1>0. CASE UNCHANGED vars
  BY <1>0 DEF vars, Groups, Members, Repo, FilesOf
<1>1. CASE Unclassified
  BY <1>1 DEF Unclassified, Finish
<1>2. CASE Untargeted
  BY <1>2 DEF Untargeted, Finish
<1>3. CASE Discovered
  BY <1>3 DEF Discovered, Groups
<1>4. ASSUME NEW t \in Targets, Discover(t) PROVE Struct'
  BY <1>4 DEF Discover
<1>5. ASSUME NEW g \in left, Enter(g) PROVE Struct'
  <2>1. PICK t \in Targets : g = <<Home[t.file], found[t]>>
    BY <1>5 DEF Enter, Groups
  <2>2. g[2] \in {"active", "inactive", "failed"}
    BY <1>5, <2>1 DEF Enter
  <2>3. event.phase \in {"pre", "post"}
    BY EventsAssumption
  <2> QED BY <1>5, <2>2, <2>3 DEF Enter, Groups
<1>6. ASSUME NEW kind, Decided(kind), pc \in Deciding,
             UNCHANGED <<event, text, found, answer, heard>>
      PROVE  Struct'
  BY <1>6 DEF Decided, Groups
<1>7. CASE Undiscovered
  BY <1>6, <1>7 DEF Undiscovered
<1>8. CASE Inactive
  BY <1>6, <1>8 DEF Inactive
<1>9. CASE PreDecision
  BY <1>6, <1>9 DEF PreDecision
<1>10. CASE PreFailure \/ SessionFailure \/ LintFailure
  BY <1>6, <1>10 DEF PreFailure, SessionFailure, LintFailure, Raise
<1>11. CASE Session
  BY <1>11 DEF Session, Groups, Members, Repo
<1>12. ASSUME NEW t \in unread, Locate(t) PROVE Struct'
  <2>1. t \in Members /\ t.file \in FilesOf(Repo)
    BY <1>12, EventsAssumption DEF Locate, Members, FilesOf, Repo
  <2> QED BY <1>12, <2>1 DEF Locate, Groups, Members, Repo, FilesOf, Widen
<1>13. ASSUME NEW t \in unread, Unlocated(t) PROVE Struct'
  BY <1>13 DEF Unlocated, Groups, Members, Repo, FilesOf
<1>14. CASE Lint
  BY <1>14 DEF Lint, Groups
<1>15. CASE Verdict
  BY <1>6, <1>15 DEF Verdict
<1>16. CASE Answer
  BY <1>16 DEF Answer, Finish
<1>17. CASE Disturb
  <2>1. text' \in [Files -> Seq(Engines \cup {"fine"})]
    <3>1. CASE UNCHANGED text
      BY <3>1
    <3>2. ASSUME NEW f \in Shared, NEW tree \in Trees, text' = [text EXCEPT ![f] = tree[f]]
          PROVE  text' \in [Files -> Seq(Engines \cup {"fine"})]
      <4>1. f \in Files /\ tree \in [Files -> Seq(Engines \cup {"fine"})]
        BY LayoutAssumption
      <4>2. tree[f] \in Seq(Engines \cup {"fine"})
        BY <4>1
      <4> QED BY <3>2, <4>2
    <3> QED BY <1>17, <3>1, <3>2 DEF Disturb
  <2> QED BY <1>17, <2>1 DEF Disturb, Groups, Members, Repo, FilesOf
<1>18. CASE Done
  BY <1>18, <1>0 DEF Done
<1> QED
  BY <1>0, <1>1, <1>2, <1>3, <1>4, <1>5, <1>7, <1>8, <1>9, <1>10, <1>11, <1>12,
     <1>13, <1>14, <1>15, <1>16, <1>17, <1>18 DEF Next

\* In every reachable state the locals belong to the group being decided.
THEOREM StructInvariant == Spec => []Struct
BY StructInit, StructNext, PTL DEF Spec

-----------------------------------------------------------------------------
\* A failure that was noticed has its outcome, or its group is still at work.
LEMMA FailureNext == Struct /\ FailurePending /\ [Next]_vars => FailurePending'
<1> SUFFICES ASSUME Struct, FailurePending, [Next]_vars PROVE FailurePending'
  OBVIOUS
<1> USE DEF FailurePending, Told, Grave, Deciding, Targets, disk, locals, history
<1>0. CASE UNCHANGED vars
  BY <1>0 DEF vars
<1>1. CASE Unclassified \/ Untargeted \/ Answer
  BY <1>1 DEF Unclassified, Untargeted, Answer, Finish
<1>2. CASE Discovered
  <2>1. ASSUME NEW t \in Targets, found[t] = "failed" PROVE \E g \in Groups : g[2] = "failed"
    <3>1. <<Home[t.file], found[t]>> \in Groups
      BY DEF Groups
    <3> QED BY <2>1, <3>1
  <2> QED BY <1>2, <2>1 DEF Discovered
<1>3. ASSUME NEW t \in Targets, Discover(t) PROVE FailurePending'
  <2>1. PICK state : found' = [found EXCEPT ![t] = state]
                     /\ failed' = IF state = "failed" THEN failed \cup {<<Home[t.file], "discovery">>} ELSE failed
    BY <1>3 DEF Discover
  <2>2. found'[t] = state /\ \A u \in Targets : u # t => found'[u] = found[u]
    BY <2>1 DEF Struct
  <2> QED BY <1>3, <2>1, <2>2 DEF Discover
<1>4. ASSUME NEW g \in left, Enter(g) PROVE FailurePending'
  <2>1. g[2] # "start" /\ event.phase # "start"
    BY <1>4, EventsAssumption DEF Enter, Struct, Groups, States
  <2> QED BY <1>4, <2>1 DEF Enter
<1>5. ASSUME NEW kind, Decided(kind), pc \in Deciding, failed' = failed,
             doubt \/ pc = "failed" => kind \in Grave
      PROVE  FailurePending'
  BY <1>5 DEF Decided, Struct
<1>6. CASE Undiscovered
  BY <1>5, <1>6 DEF Undiscovered
<1>7. CASE Inactive
  BY <1>5, <1>7 DEF Inactive, Struct
<1>8. CASE PreDecision
  BY <1>5, <1>8 DEF PreDecision, Struct
<1>9. CASE PreFailure \/ SessionFailure \/ LintFailure
  BY <1>9 DEF PreFailure, SessionFailure, LintFailure, Raise, Decided
<1>10. CASE Session
  BY <1>10 DEF Session
<1>11. ASSUME NEW t \in unread, Locate(t) PROVE FailurePending'
  BY <1>11 DEF Locate
<1>12. ASSUME NEW t \in unread, Unlocated(t) PROVE FailurePending'
  BY <1>12 DEF Unlocated
<1>13. CASE Lint
  BY <1>13 DEF Lint
<1>14. CASE Verdict
  <2>1. doubt => PostOutcome \in Grave
    BY DEF PostOutcome, WithScopeFailures
  <2> QED BY <1>5, <1>14, <2>1 DEF Verdict
<1>15. CASE Disturb
  BY <1>15 DEF Disturb
<1>16. CASE Done
  BY <1>0, <1>16 DEF Done
<1> QED
  BY <1>0, <1>1, <1>2, <1>3, <1>4, <1>6, <1>7, <1>8, <1>9, <1>10, <1>11, <1>12,
     <1>13, <1>14, <1>15, <1>16 DEF Next

\* A root dev.py that the event removed is not forgotten.
LEMMA LossNext == Struct /\ LossPending /\ [Next]_vars => LossPending'
<1> SUFFICES ASSUME Struct, LossPending, [Next]_vars PROVE LossPending'
  OBVIOUS
<1> USE DEF LossPending, Lost, RemovesDevPy, Active, GroupOf, Told, Grave, Deciding,
            Targets, disk, locals, history
<1>0. CASE UNCHANGED vars
  BY <1>0 DEF vars
<1>1. CASE Unclassified \/ Untargeted \/ Answer
  BY <1>1 DEF Unclassified, Untargeted, Answer, Finish
<1>2. CASE Discovered
  BY <1>2 DEF Discovered, Groups
<1>3. ASSUME NEW t \in Targets, Discover(t) PROVE LossPending'
  <2>1. PICK state : found' = [found EXCEPT ![t] = state]
                     /\ (DevPy[Home[t.file]] \notin present => state # "active")
    BY <1>3 DEF Discover
  <2>2. found'[t] = state /\ \A u \in Targets : u # t => found'[u] = found[u]
    BY <2>1 DEF Struct
  <2> QED BY <1>3, <2>1, <2>2 DEF Discover
<1>4. ASSUME NEW g \in left, Enter(g) PROVE LossPending'
  BY <1>4 DEF Enter
<1>5. ASSUME NEW kind, Decided(kind), pc \in Deciding,
             UNCHANGED <<event, present, disturbed, found>>,
             \A t \in Targets : Lost(t) /\ GroupOf(t) = group => kind \in Grave
      PROVE  LossPending'
  BY <1>5 DEF Decided
<1>6. CASE Undiscovered
  BY <1>5, <1>6 DEF Undiscovered
<1>7. CASE Inactive
  <2>1. ASSUME NEW t \in Targets, Lost(t), GroupOf(t) = group
        PROVE  event.phase = "post" /\ \E u \in Members : RemovesDevPy(u)
    BY <2>1 DEF Members
  <2> QED BY <1>5, <1>7, <2>1 DEF Inactive
<1>8. ASSUME pc \in {"pre", "post", "scope", "verdict"},
             NEW t \in Targets, Lost(t), GroupOf(t) = group
      PROVE  FALSE
  <2>1. found[t] \in {"inactive", "failed"}
    BY <1>8 DEF Struct, States
  <2> QED BY <1>8, <2>1 DEF Struct
<1>9. CASE PreDecision
  BY <1>5, <1>8, <1>9 DEF PreDecision
<1>10. CASE PreFailure \/ SessionFailure \/ LintFailure
  BY <1>5, <1>8, <1>10 DEF PreFailure, SessionFailure, LintFailure, Raise
<1>11. CASE Session
  BY <1>11 DEF Session
<1>12. ASSUME NEW t \in unread, Locate(t) \/ Unlocated(t) PROVE LossPending'
  BY <1>12 DEF Locate, Unlocated
<1>13. CASE Lint
  BY <1>13 DEF Lint
<1>14. CASE Verdict
  BY <1>5, <1>8, <1>14 DEF Verdict
<1>15. CASE Disturb
  <2>1. \A t \in Targets : Lost(t)' => Lost(t)
    BY <1>15 DEF Disturb
  <2> QED BY <1>15, <2>1 DEF Disturb
<1>16. CASE Done
  BY <1>0, <1>16 DEF Done
<1> QED
  BY <1>0, <1>1, <1>2, <1>3, <1>4, <1>6, <1>7, <1>9, <1>10, <1>11, <1>12,
     <1>13, <1>14, <1>15, <1>16 DEF Next

-----------------------------------------------------------------------------
\* Where there is nothing to find, an engine that returns has found nothing.
LEMMA NothingFound ==
  ASSUME Struct, pc = "scope", Faultless(Repo), NEW e \in Engines, NEW mood
  PROVE  Located(e, mood, DOMAIN scope) = {}
<1>1. Reads(e, DOMAIN scope) \subseteq FilesOf(Repo) \ Excluded
  BY DEF Reads, Dispatched, Struct
<1>2. ASSUME NEW v \in Faults(e, Reads(e, DOMAIN scope)) PROVE FALSE
  <2>1. v[1] \in Reads(e, DOMAIN scope) /\ v[2] \in 1..MaxLines
        /\ v[2] <= Len(text[v[1]]) /\ text[v[1]][v[2]] = e
    BY DEF Faults, AllLines
  <2>2. v[1] \in Files /\ Len(text[v[1]]) \in Nat
    BY <1>1, <2>1 DEF FilesOf, Struct
  <2>3. v[2] \in 1..Len(text[v[1]])
    BY <2>1, <2>2, LayoutAssumption
  <2>4. text[v[1]][v[2]] = "fine"
    BY <1>1, <2>1, <2>3 DEF Faultless
  <2> QED BY <2>1, <2>4, LayoutAssumption
<1> QED BY <1>2 DEF Located

\* Trouble is not made by another writer.
LEMMA TroubleBefore ==
  ASSUME Struct, NEW r \in Repos, heard' = heard, Trouble(r)',
         UNCHANGED <<text, disturbed>> \/ Disturb
  PROVE  Trouble(r)
<1>1. CASE UNCHANGED <<text, disturbed>>
  BY <1>1 DEF Trouble, EngineFailed, Faultless, FilesOf
<1>2. CASE Disturb
  <2>1. PICK f \in Shared : disturbed' = {f} /\ \A g \in Files : g # f => text'[g] = text[g]
    BY <1>2 DEF Disturb, Struct
  <2>2. \A g \in FilesOf(r) : text'[g] = text[g]
    BY <2>1 DEF Trouble, FilesOf
  <2> QED BY <1>2, <2>1, <2>2 DEF Trouble, EngineFailed, Faultless, FilesOf, Disturb
<1> QED BY <1>1, <1>2

\* An engine that failed shows in the results until they are judged.
LEMMA TroubleNext == Struct /\ TroublePending /\ [Next]_vars => TroublePending'
<1> SUFFICES ASSUME Struct, TroublePending, [Next]_vars PROVE TroublePending'
  OBVIOUS
<1> USE DEF TroublePending, Told, Grave, disk, locals, history
<1>1. ASSUME heard' = heard, UNCHANGED <<text, disturbed>> \/ Disturb,
             UNCHANGED kinds, pc # "verdict", pc # "done"
      PROVE  TroublePending'
  BY <1>1, TroubleBefore
<1>2. ASSUME NEW kind, Decided(kind), UNCHANGED <<heard, text, disturbed>>, pc \in Deciding,
             pc = "verdict" /\ Visible = {} /\ (\E result \in results : result.nonzero)
               => kind \in Grave
      PROVE  TroublePending'
  BY <1>2, TroubleBefore DEF Decided, Deciding
<1>3. ASSUME UNCHANGED <<heard, kinds, pc, results>>, UNCHANGED <<text, disturbed>> \/ Disturb
      PROVE  TroublePending'
  BY <1>3, TroubleBefore DEF Visible
<1>4. CASE Unclassified \/ Untargeted \/ Answer
  BY <1>4 DEF Unclassified, Untargeted, Answer, Finish
<1>5. CASE Discovered
  BY <1>1, <1>5 DEF Discovered
<1>6. ASSUME NEW t \in Targets, Discover(t) PROVE TroublePending'
  BY <1>1, <1>6 DEF Discover
<1>7. ASSUME NEW g \in left, Enter(g) PROVE TroublePending'
  BY <1>1, <1>7 DEF Enter
<1>8. CASE Undiscovered \/ Inactive \/ PreFailure \/ SessionFailure \/ LintFailure
  BY <1>2, <1>8 DEF Undiscovered, Inactive, PreFailure, SessionFailure, LintFailure, Raise, Deciding
<1>9. CASE PreDecision
  BY <1>2, <1>9 DEF PreDecision, Deciding
<1>10. CASE Session
  BY <1>1, <1>10 DEF Session
<1>11. ASSUME NEW t \in unread, Locate(t) \/ Unlocated(t) PROVE TroublePending'
  BY <1>1, <1>11 DEF Locate, Unlocated
<1>12. CASE Lint
  <2> SUFFICES ASSUME NEW r \in Repos, Trouble(r)'
               PROVE  Told' \/ (Visible' = {} /\ \E result \in results' : result.nonzero)
    BY <1>12 DEF Lint
  <2>1. PICK mood :
          /\ DOMAIN mood \subseteq Engines
          /\ results' = {[engine |-> e,
                          findings |-> Located(e, mood[e], DOMAIN scope),
                          unlocated |-> mood[e] = "vague",
                          broken |-> mood[e] = "skipped",
                          nonzero |-> mood[e] # "ran" \/ Located(e, mood[e], DOMAIN scope) # {}]
                            : e \in DOMAIN mood}
          /\ heard' = heard \cup {<<Repo, e, mood[e]>> : e \in {d \in DOMAIN mood : mood[d] # "ran"}}
    BY <1>12 DEF Lint, Plan
  <2>2. Faultless(r) /\ disturbed \cap FilesOf(r) = {}
    BY <1>12 DEF Lint, Trouble, Faultless, FilesOf
  <2>3. PICK e \in Engines, state \in {"died", "partial", "skipped"} : <<r, e, state>> \in heard'
    BY DEF Trouble, EngineFailed
  <2>4. CASE <<r, e, state>> \in heard
    BY <1>12, <2>2, <2>3, <2>4 DEF Trouble, EngineFailed, Lint
  <2>5. CASE <<r, e, state>> \notin heard
    <3>1. r = Repo /\ e \in DOMAIN mood /\ mood[e] # "ran"
      BY <2>1, <2>3, <2>5
    <3>2. \A d \in DOMAIN mood : Located(d, mood[d], DOMAIN scope) = {}
      BY <1>12, <2>1, <2>2, <3>1, NothingFound DEF Lint
    <3>3. Visible' = {}
      BY <2>1, <3>2 DEF Visible
    <3>4. \E result \in results' : result.nonzero
      <4>1. [engine |-> e,
             findings |-> Located(e, mood[e], DOMAIN scope),
             unlocated |-> mood[e] = "vague",
             broken |-> mood[e] = "skipped",
             nonzero |-> mood[e] # "ran" \/ Located(e, mood[e], DOMAIN scope) # {}] \in results'
        BY <2>1, <3>1
      <4> QED BY <3>1, <4>1
    <3> QED BY <3>3, <3>4
  <2> QED BY <2>4, <2>5
<1>13. CASE Verdict
  <2>1. Visible = {} /\ (\E result \in results : result.nonzero) => PostOutcome \in Grave
    BY DEF PostOutcome, WithScopeFailures, InfraOrClean
  <2> QED BY <1>2, <1>13, <2>1 DEF Verdict, Deciding
<1>14. CASE Disturb
  BY <1>3, <1>14 DEF Disturb
<1>15. CASE UNCHANGED vars
  BY <1>3, <1>15 DEF vars
<1>16. CASE Done
  BY <1>15, <1>16 DEF Done
<1> QED
  BY <1>4, <1>5, <1>6, <1>7, <1>8, <1>9, <1>10, <1>11, <1>12, <1>13, <1>14, <1>15,
     <1>16 DEF Next

-----------------------------------------------------------------------------
\* Nothing was wrong with an event without targets, and whatever was wrong with
\* another has its outcome when the last group is decided.
LEMMA ToldNext ==
  Struct /\ Pending /\ [Next]_vars => FailureTold'
<1> SUFFICES ASSUME Struct, Pending, [Next]_vars PROVE FailureTold'
  OBVIOUS
<1> USE DEF disk, locals, history
<1>1. CASE Answer
  <2>1. event.phase \in {"pre", "post"}
    BY EventsAssumption DEF Struct
  <2>2. Told => answer' \in {"warn", "block"}
    BY <1>1, <2>1, GraveAnswer DEF Answer, Finish
  <2>3. failed # {} => Told
    BY <1>1 DEF Pending, FailurePending, Answer, Struct
  <2>4. \A r \in Repos : Trouble(r) => Told
    BY <1>1 DEF Pending, TroublePending, Answer
  <2>5. \A t \in Targets : Lost(t) => Told
    BY <1>1 DEF Pending, LossPending, Answer
  <2>6. UNCHANGED <<event, failed, heard, disturbed, text, present>>
    BY <1>1 DEF Answer
  <2> QED
    BY <2>2, <2>3, <2>4, <2>5, <2>6 DEF FailureTold, Trouble, Lost, EngineFailed, Faultless,
       FilesOf, RemovesDevPy, Active, Targets
<1>2. CASE Unclassified
  BY <1>2 DEF Unclassified, FailureTold
<1>3. CASE Untargeted
  <2>1. Targets = {} /\ failed = {} /\ heard = {}
    BY <1>3 DEF Untargeted, Pending, FailurePending, Struct
  <2> QED BY <1>3, <2>1 DEF Untargeted, FailureTold, EngineFailed, Targets
<1>4. CASE UNCHANGED vars
  BY <1>4 DEF Pending, vars, FailureTold, EngineFailed, Faultless, FilesOf, RemovesDevPy,
     Active, Targets, Answered
<1>5. CASE answer' = "none"
  BY <1>5 DEF FailureTold, Answered
<1>6. ASSUME UNCHANGED answer, pc # "done" PROVE FailureTold'
  BY <1>5, <1>6 DEF Struct, Answered
<1>7. CASE Discovered \/ (\E t \in Targets : Discover(t)) \/ (\E g \in left : Enter(g))
  BY <1>6, <1>7 DEF Discovered, Discover, Enter
<1>8. CASE Undiscovered \/ Inactive \/ PreDecision \/ PreFailure \/ Session \/ SessionFailure
  BY <1>6, <1>8 DEF Undiscovered, Inactive, PreDecision, PreFailure, Session, SessionFailure, Raise
<1>9. CASE (\E t \in unread : Locate(t) \/ Unlocated(t)) \/ Lint \/ LintFailure \/ Verdict \/ Disturb
  BY <1>6, <1>9 DEF Locate, Unlocated, Lint, LintFailure, Raise, Verdict, Disturb
<1>10. CASE Done
  BY <1>4, <1>10 DEF Done
<1> QED
  BY <1>1, <1>2, <1>3, <1>4, <1>7, <1>8, <1>9, <1>10 DEF Next

\* Nothing has gone wrong yet.
LEMMA PendingInit == Init => Pending
BY DEF Init, Pending, FailurePending, TroublePending, LossPending, FailureTold, Trouble,
       EngineFailed, Answered, Targets

\* Whatever could not be verified has its outcome or is on its way to one.
THEOREM PendingInvariant == Spec => []Pending
<1>1. Struct /\ Pending /\ [Next]_vars => Pending'
  BY FailureNext, TroubleNext, LossNext, ToldNext DEF Pending
<1> QED BY StructInvariant, PendingInit, <1>1, PTL DEF Spec

\* What could not be verified is never passed as clean.
THEOREM FailureSafe == Spec => []FailureTold
<1>1. Pending => FailureTold
  BY DEF Pending
<1> QED BY PendingInvariant, <1>1, PTL

-----------------------------------------------------------------------------
(* Lines and fragments.                                                    *)

Text == Seq(Engines \cup {"fine"})

\* Where a fragment occurs, it is the text.
LEMMA StartsAre ==
  ASSUME NEW content \in Text, NEW fragment \in Text, NEW s
  PROVE  s \in Starts(content, fragment) <=>
           /\ s \in 1..Len(content) /\ s + Len(fragment) - 1 <= Len(content)
           /\ \A k \in 1..Len(fragment) : content[s + k - 1] = fragment[k]
<1> DEFINE S == Engines \cup {"fine"}
<1>1. ASSUME s \in 1..Len(content), s + Len(fragment) - 1 <= Len(content)
      PROVE  SubSeq(content, s, s + Len(fragment) - 1) = fragment
               <=> \A k \in 1..Len(fragment) : content[s + k - 1] = fragment[k]
  <2> DEFINE part == SubSeq(content, s, s + Len(fragment) - 1)
  <2>1. part \in Seq(S) /\ Len(part) = Len(fragment)
    BY <1>1 DEF Text
  <2>2. \A k \in 1..Len(fragment) : part[k] = content[s + k - 1]
    BY <1>1 DEF Text
  <2> HIDE DEF part
  <2>3. part = fragment <=> \A k \in 1..Len(fragment) : part[k] = fragment[k]
    BY <2>1, SeqEqual DEF Text
  <2> QED BY <2>2, <2>3 DEF part
<1> QED BY <1>1 DEF Starts

\* The lines the fragments occupy are those that some fragment wrote.
LEMMA SpanIs ==
  ASSUME NEW content \in Text, NEW fragments \in SUBSET Text, NEW i \in Int
  PROVE  i \in SpanLines(content, fragments) <=>
           \E fragment \in fragments : \E j \in 1..Len(fragment) :
             /\ i >= j /\ i - j + Len(fragment) <= Len(content)
             /\ \A k \in 1..Len(fragment) : content[i - j + k] = fragment[k]
<1>1. i \in SpanLines(content, fragments) <=>
        \E fragment \in fragments : \E s \in Starts(content, fragment) : i \in s .. s + Len(fragment) - 1
  BY DEF SpanLines
<1>2. ASSUME NEW fragment \in fragments, NEW s \in Starts(content, fragment),
             i \in s .. s + Len(fragment) - 1
      PROVE  \E j \in 1..Len(fragment) :
               /\ i >= j /\ i - j + Len(fragment) <= Len(content)
               /\ \A k \in 1..Len(fragment) : content[i - j + k] = fragment[k]
  <2>1. /\ fragment \in Text /\ Len(fragment) \in Nat /\ Len(content) \in Nat
        /\ s \in 1..Len(content) /\ s + Len(fragment) - 1 <= Len(content)
        /\ \A k \in 1..Len(fragment) : content[s + k - 1] = fragment[k]
    BY StartsAre DEF Text
  <2> DEFINE j == i - s + 1
  <2>2. j \in 1..Len(fragment) /\ i >= j /\ i - j = s - 1
    BY <1>2, <2>1
  <2>3. \A k \in 1..Len(fragment) : i - j + k = s + k - 1
    BY <2>1, <2>2
  <2>4. \A k \in 1..Len(fragment) : content[i - j + k] = fragment[k]
    BY <2>1, <2>3
  <2>5. i - j + Len(fragment) <= Len(content)
    BY <2>1, <2>2
  <2> HIDE DEF j
  <2> QED BY <2>2, <2>4, <2>5
<1>3. ASSUME NEW fragment \in fragments, NEW j \in 1..Len(fragment),
             i >= j, i - j + Len(fragment) <= Len(content),
             \A k \in 1..Len(fragment) : content[i - j + k] = fragment[k]
      PROVE  \E s \in Starts(content, fragment) : i \in s .. s + Len(fragment) - 1
  <2>1. fragment \in Text /\ Len(fragment) \in Nat /\ Len(content) \in Nat
    BY DEF Text
  <2> DEFINE s == i - j + 1
  <2>2. /\ s \in 1..Len(content) /\ s + Len(fragment) - 1 <= Len(content)
        /\ i \in s .. s + Len(fragment) - 1
    BY <1>3, <2>1
  <2>3. \A k \in 1..Len(fragment) : s + k - 1 = i - j + k
    BY <2>1, <2>2
  <2>4. s \in Starts(content, fragment)
    <3>1. \A k \in 1..Len(fragment) : content[s + k - 1] = fragment[k]
      BY <1>3, <2>3
    <3> HIDE DEF s
    <3> QED BY <2>1, <2>2, <3>1, StartsAre
  <2> QED BY <2>2, <2>4
<1> QED BY <1>1, <1>2, <1>3

\* The lines in scope for a target are those it wrote, or all of them when a
\* fragment was not found.
LEMMA AffectedIs ==
  ASSUME Struct, NEW t \in Targets
  PROVE  \A i \in AllLines : /\ Wrote(t, i) => i \in Affected(t)
                             /\ i \in Affected(t) => Wrote(t, i) \/ Missing(text[t.file], t.added) # {}
<1>1. text[t.file] \in Text /\ t.added \in SUBSET Text
  BY EventsAssumption DEF Struct, Targets, Text
<1>2. \A i \in AllLines : i \in Int
  BY DEF AllLines
<1>3. \A i \in AllLines : i \in SpanLines(text[t.file], t.added) <=>
        \E fragment \in t.added : \E j \in 1..Len(fragment) :
          /\ i >= j /\ i - j + Len(fragment) <= Len(text[t.file])
          /\ \A k \in 1..Len(fragment) : text[t.file][i - j + k] = fragment[k]
  BY <1>1, <1>2, SpanIs
<1> QED BY <1>3 DEF Affected, Wrote

-----------------------------------------------------------------------------
(* Types.                                                                  *)

\* Contents stay within the bound of lines.
Short == \A f \in Files : Len(text[f]) <= MaxLines

\* The scope of a target lies within the lines of a content.
LEMMA AffectedLines ==
  ASSUME Struct, Short, NEW t \in Targets
  PROVE  Affected(t) \subseteq AllLines
<1>0. t.file \in Files /\ t.added \in SUBSET Text
  BY EventsAssumption DEF Struct, Targets, Text
<1>1. text[t.file] \in Text /\ t.added \in SUBSET Text /\ Len(text[t.file]) <= MaxLines
      /\ MaxLines \in Nat /\ Len(text[t.file]) \in Nat
  <2>1. text[t.file] \in Text
    BY <1>0 DEF Struct, Text
  <2> QED BY <1>0, <2>1, LayoutAssumption DEF Short, Text
<1>2. ASSUME NEW i \in SpanLines(text[t.file], t.added) PROVE i \in AllLines
  <2>1. PICK fragment \in t.added :
          \E s \in Starts(text[t.file], fragment) : i \in s .. s + Len(fragment) - 1
    BY <1>2 DEF SpanLines
  <2>2. fragment \in Text /\ Len(fragment) \in Nat
    BY <1>1 DEF Text
  <2>3. PICK s \in Starts(text[t.file], fragment) : i \in s .. s + Len(fragment) - 1
    BY <2>1
  <2>4. s \in 1..Len(text[t.file]) /\ s + Len(fragment) - 1 <= Len(text[t.file])
    BY <1>1, <2>2, StartsAre
  <2> QED BY <1>1, <2>2, <2>3, <2>4 DEF AllLines
<1> QED BY <1>2 DEF Affected

\* The types, the bound on lines they rest on, and that no group is left before
\* there are any.
Typed == TypeOK /\ Short /\ (pc = "start" => left = {})

\* The outcomes of a group and the answers the host may get.
LEMMA OutcomeKinds ==
  /\ PostOutcome \in Kinds
  /\ \A all \in SUBSET Kinds : Gravest(all) \in Kinds
  /\ event.phase \in {"pre", "post"} => \A kind \in Kinds :
       /\ Wire(kind) \in {"allow", "ask", "block", "warn"}
       /\ Wire(kind) = "ask" => event.phase = "pre"
       /\ Wire(kind) = "warn" => event.phase = "post"
<1>1. PostOutcome \in Kinds
  BY DEF PostOutcome, WithScopeFailures, LintOutcome, InfraOrClean, Kinds
<1>2. \A all \in SUBSET Kinds : Gravest(all) \in Kinds
  BY DEF Gravest, Kinds
<1>3. event.phase \in {"pre", "post"} => \A kind \in Kinds :
       /\ Wire(kind) \in {"allow", "ask", "block", "warn"}
       /\ Wire(kind) = "ask" => event.phase = "pre"
       /\ Wire(kind) = "warn" => event.phase = "post"
  BY DEF Wire, Kinds
<1> QED BY <1>1, <1>2, <1>3

\* An event finds the disk in one of its states.
LEMMA TypedInit == Init => Typed
<1> SUFFICES ASSUME Init PROVE Typed
  OBVIOUS
<1>1. \A f \in Files : text[f] \in Text /\ Len(text[f]) <= MaxLines
  BY LayoutAssumption DEF Init, Text
<1>2. \A f \in Files : \A i \in 1..Len(text[f]) : text[f][i] \in Engines \cup {"fine"}
  BY <1>1 DEF Text
<1>3. event \in Events /\ present \subseteq Files /\ owed \subseteq Files
  BY LayoutAssumption DEF Init
<1>4. found \in [Targets -> States]
  BY DEF Init, Targets, States
<1>5. DOMAIN scope = {}
  BY DEF Init
<1> QED BY <1>1, <1>2, <1>3, <1>4, <1>5 DEF Init, Typed, TypeOK, Short

\* Every step keeps the types.
LEMMA TypedNext == Struct /\ Typed /\ [Next]_vars => Typed'
<1> SUFFICES ASSUME Struct, Typed, [Next]_vars PROVE Typed'
  OBVIOUS
<1> USE DEF Typed, Short, TypeOK, Targets, disk, locals, history
<1>p. event.phase \in {"pre", "post"}
  BY EventsAssumption DEF Struct
<1>0. CASE UNCHANGED vars
  BY <1>0 DEF vars, Groups, AllLines
<1>1. ASSUME NEW kind \in Kinds, Finish(kind),
             UNCHANGED <<event, disk, disturbed, found, left, locals, kinds>>
      PROVE  Typed'
  <2>1. answer' = Wire(kind) /\ pc' = "done"
    BY <1>1 DEF Finish
  <2> QED BY <1>p, <1>1, <2>1, OutcomeKinds DEF Groups, AllLines
<1>2. CASE Unclassified \/ Untargeted
  BY <1>1, <1>2 DEF Unclassified, Untargeted, Kinds
<1>3. CASE Answer
  BY <1>1, <1>3, OutcomeKinds DEF Answer
<1>4. CASE Discovered
  BY <1>4 DEF Discovered, Groups, AllLines
<1>5. ASSUME NEW t \in Targets, Discover(t) PROVE Typed'
  <2>1. left = {}
    BY <1>5 DEF Discover
  <2>2. found' \in [Targets -> States]
    BY <1>5 DEF Discover, States
  <2> QED BY <1>5, <2>1, <2>2 DEF Discover, Groups, AllLines
<1>6. ASSUME NEW g \in left, Enter(g) PROVE Typed'
  <2>1. PICK t \in Targets : g = <<Home[t.file], found[t]>>
    BY <1>6 DEF Groups
  <2>2. g[2] \in {"active", "inactive", "failed"}
    BY <1>6, <2>1 DEF Enter, Struct, States
  <2> QED BY <1>p, <1>6, <2>2 DEF Enter, Groups, AllLines
<1>7. ASSUME NEW kind \in Kinds, Decided(kind), UNCHANGED <<event, disk, disturbed, found, answer>>
      PROVE  Typed'
  <2>1. DOMAIN scope' = {} /\ results' = {}
    BY <1>7 DEF Decided
  <2> QED BY <1>7, <2>1 DEF Decided, Groups, AllLines
<1>8. CASE Undiscovered \/ Inactive \/ PreDecision
  BY <1>7, <1>8 DEF Undiscovered, Inactive, PreDecision, Kinds
<1>9. CASE PreFailure \/ SessionFailure \/ LintFailure
  BY <1>7, <1>9 DEF PreFailure, SessionFailure, LintFailure, Raise, Kinds
<1>10. CASE Verdict
  BY <1>7, <1>10, OutcomeKinds DEF Verdict
<1>11. CASE Session
  <2>1. debt' \subseteq Files /\ unread' \subseteq Targets
    BY <1>11 DEF Session, Members
  <2> QED BY <1>11, <2>1 DEF Session, Groups, AllLines
<1>12. ASSUME NEW t \in unread, Locate(t) PROVE Typed'
  <2>1. t \in Targets /\ t.file \in Files
    BY <1>12, EventsAssumption
  <2>2. Affected(t) \subseteq AllLines
    BY <2>1, AffectedLines
  <2>3. scope' = Widen(scope, t.file, Affected(t))
    BY <1>12 DEF Locate
  <2>4. DOMAIN scope' \subseteq Files /\ \A f \in DOMAIN scope' : scope'[f] \subseteq AllLines
    BY <2>1, <2>2, <2>3 DEF Widen
  <2>5. doubt' \in BOOLEAN
    BY <1>12 DEF Locate
  <2> QED BY <1>12, <2>4, <2>5 DEF Locate, Groups, AllLines
<1>13. ASSUME NEW t \in unread, Unlocated(t) PROVE Typed'
  BY <1>13 DEF Unlocated, Groups, AllLines
<1>14. CASE Lint
  <2>1. \A r \in results' : r.engine \in Engines
    BY <1>14 DEF Lint, Plan
  <2> QED BY <1>14, <2>1 DEF Lint, Groups, AllLines
<1>15. CASE Disturb
  <2>1. disturbed' \subseteq Shared /\ present' \subseteq Files
    BY <1>15, LayoutAssumption DEF Disturb
  <2>2. \A f \in Files : text'[f] = text[f] \/ \E tree \in Trees : text'[f] = tree[f]
    BY <1>15 DEF Disturb, Struct
  <2>3. ASSUME NEW f \in Files PROVE text'[f] \in Text /\ Len(text'[f]) <= MaxLines
    <3>1. text[f] \in Text /\ Len(text[f]) <= MaxLines
      BY DEF Struct, Text
    <3>2. \A tree \in Trees : tree[f] \in Text /\ Len(tree[f]) <= MaxLines
      BY LayoutAssumption DEF Text
    <3> QED BY <2>2, <3>1, <3>2
  <2>4. \A f \in Files : \A i \in 1..Len(text'[f]) : text'[f][i] \in Engines \cup {"fine"}
    BY <2>3 DEF Text
  <2> QED BY <1>15, <2>1, <2>3, <2>4 DEF Disturb, Groups, AllLines
<1>16. CASE Done
  BY <1>0, <1>16 DEF Done
<1> QED
  BY <1>0, <1>2, <1>3, <1>4, <1>5, <1>6, <1>8, <1>9, <1>10, <1>11, <1>12, <1>13, <1>14,
     <1>15, <1>16 DEF Next

\* The invariant of types, with the bound on lines it rests on.
THEOREM TypedInvariant == Spec => []Typed
BY StructInvariant, TypedInit, TypedNext, PTL DEF Spec

\* Every variable keeps its type, whatever the engines do and whoever writes.
THEOREM TypeSafe == Spec => []TypeOK
<1>1. Typed => TypeOK
  BY DEF Typed
<1> QED BY TypedInvariant, <1>1, PTL

-----------------------------------------------------------------------------
(* A finding on the edit.                                                  *)

\* The event stays, the histories grow, and only a file that counts as
\* disturbed has changed.
LEMMA StepFrame ==
  ASSUME Struct, [Next]_vars
  PROVE  /\ event' = event /\ owed' = owed
         /\ failed \subseteq failed' /\ heard \subseteq heard' /\ disturbed \subseteq disturbed'
         /\ \A f \in Files \ disturbed' : text'[f] = text[f] /\ (f \in present' <=> f \in present)
<1> USE DEF disk, locals, history
<1>1. CASE UNCHANGED vars
  BY <1>1 DEF vars
<1>2. CASE Disturb
  <2>1. PICK f \in Shared :
          /\ disturbed' = {f}
          /\ \/ /\ present' = (IF f \in present THEN present \ {f} ELSE present \cup {f})
                /\ UNCHANGED text
             \/ /\ f \in present
                /\ \E tree \in Trees : tree[f] # text[f] /\ text' = [text EXCEPT ![f] = tree[f]]
                /\ UNCHANGED present
    BY <1>2 DEF Disturb
  <2>2. disturbed = {} /\ UNCHANGED <<event, owed, failed, heard>>
    BY <1>2 DEF Disturb
  <2> QED BY <2>1, <2>2 DEF Struct
<1>3. CASE Unclassified \/ Untargeted \/ Discovered \/ Undiscovered \/ Inactive \/ PreDecision
           \/ PreFailure \/ Session \/ SessionFailure \/ LintFailure \/ Verdict \/ Answer \/ Done
  BY <1>1, <1>3 DEF Unclassified, Untargeted, Discovered, Undiscovered, Inactive, PreDecision,
     PreFailure, Session, SessionFailure, LintFailure, Verdict, Answer, Done, Raise
<1>4. CASE Lint
  BY <1>4 DEF Lint
<1>5. CASE (\E t \in Targets : Discover(t)) \/ \E g \in left : Enter(g)
  BY <1>5 DEF Discover, Enter
<1>6. CASE \E t \in unread : Locate(t) \/ Unlocated(t)
  BY <1>6 DEF Locate, Unlocated
<1> QED BY <1>1, <1>2, <1>3, <1>4, <1>5, <1>6 DEF Next

\* What FindingOnEditTold asks of a finding, in any state.
Evident(t, i, e) ==
  /\ event.phase = "post"
  /\ Faulty(t, i, e) /\ Wrote(t, i) /\ Active(Home[t.file])
  /\ {t.file, DevPy[Home[t.file]]} \cap disturbed = {}
  /\ ~\E what \in {"discovery", "session", "lint"} : Failed(Home[t.file], what)
  /\ ~Failed(t.file, "unread")
  /\ ~EngineFailed(Home[t.file], e)

InScope(t, i) == t.file \in DOMAIN scope /\ i \in scope[t.file]

\* Evidence has made its violation, or the group that will make it is left; in
\* that group it is on its way from the targets to the results.
Ahead(t, i) ==
  \/ "violation" \in kinds
  \/ /\ GroupOf(t) \in left
     /\ pc = "scope" /\ group = GroupOf(t) => t \in unread \/ InScope(t, i)
     /\ pc = "verdict" /\ group = GroupOf(t) =>
          InScope(t, i) /\ \E r \in results : <<t.file, i>> \in r.findings

EvidencePending ==
  pc # "done" => \A t \in Targets, i \in AllLines, e \in Engines : Evident(t, i, e) =>
    /\ found[t] \in {"unknown", "active"}
    /\ pc # "start" => Ahead(t, i)

\* What is evident after a step was so before: no step makes a failure
\* unhappen, and a file that nobody disturbed has not changed.
LEMMA EvidentBefore ==
  ASSUME Struct, [Next]_vars, NEW t \in Targets, NEW i \in AllLines, NEW e \in Engines,
         Evident(t, i, e)'
  PROVE  Evident(t, i, e)
<1>1. t.file \in Files /\ DevPy[Home[t.file]] \in Files /\ Targets' = Targets
  BY StepFrame, EventsAssumption, LayoutAssumption DEF Struct, Targets
<1>2. {t.file, DevPy[Home[t.file]]} \cap disturbed' = {}
  BY DEF Evident
<1>3. /\ text'[t.file] = text[t.file] /\ (t.file \in present' <=> t.file \in present)
      /\ DevPy[Home[t.file]] \in present' <=> DevPy[Home[t.file]] \in present
      /\ event' = event
  BY <1>1, <1>2, StepFrame
<1>4. Faulty(t, i, e)' => Faulty(t, i, e)
  BY <1>3 DEF Faulty
<1>5. Wrote(t, i)' => Wrote(t, i)
  BY <1>3 DEF Wrote
<1>6. /\ \A where, what : ~Failed(where, what)' => ~Failed(where, what)
      /\ \A r : ~EngineFailed(r, e)' => ~EngineFailed(r, e)
  BY StepFrame DEF Failed, EngineFailed
<1>7. disturbed \subseteq disturbed'
  BY StepFrame
<1> QED BY <1>2, <1>3, <1>4, <1>5, <1>6, <1>7 DEF Evident, Active

\* The engine that reads the file reports the line, if it runs.
LEMMA EngineFinds ==
  ASSUME Struct, Lint, NEW t \in Targets, NEW i \in AllLines, NEW e \in Engines,
         Evident(t, i, e)', Evident(t, i, e), group = GroupOf(t), t.file \in DOMAIN scope
  PROVE  \E r \in results' : <<t.file, i>> \in r.findings
<1>1. PICK mood :
        /\ DOMAIN mood = Plan(DOMAIN scope) /\ \A d \in DOMAIN mood : mood[d] \in Moods(d)
        /\ results' = {[engine |-> d,
                        findings |-> Located(d, mood[d], DOMAIN scope),
                        unlocated |-> mood[d] = "vague",
                        broken |-> mood[d] = "skipped",
                        nonzero |-> mood[d] # "ran" \/ Located(d, mood[d], DOMAIN scope) # {}]
                          : d \in DOMAIN mood}
        /\ heard' = heard \cup {<<Repo, d, mood[d]>> : d \in {x \in DOMAIN mood : mood[x] # "ran"}}
  BY DEF Lint
<1>2. t.file \in Files /\ Repo = Home[t.file]
  BY EventsAssumption DEF Struct, Targets, GroupOf, Repo
<1>3. /\ t.file \in present /\ t.file \in Lints[e] /\ t.file \notin Excluded
      /\ i <= Len(text[t.file]) /\ text[t.file][i] = e
  BY DEF Evident, Faulty
<1>4. e \in DOMAIN mood
  BY <1>1, <1>3 DEF Plan, Dispatched
<1>5. mood[e] \in {"ran", "vague"}
  <2>1. ASSUME mood[e] \notin {"ran", "vague"} PROVE FALSE
    <3>1. mood[e] \in {"died", "partial", "skipped"}
      BY <1>1, <1>4, <2>1 DEF Moods
    <3>2. <<Home[t.file], e, mood[e]>> \in heard'
      BY <1>1, <1>2, <1>4, <3>1
    <3> QED BY <3>1, <3>2 DEF Evident, EngineFailed
  <2> QED BY <2>1
<1>6. t.file \in Reads(e, DOMAIN scope)
  BY <1>2, <1>3 DEF Reads, Dispatched, FilesOf
<1>7. <<t.file, i>> \in Located(e, mood[e], DOMAIN scope)
  BY <1>3, <1>5, <1>6 DEF Located, Faults
<1>8. [engine |-> e,
       findings |-> Located(e, mood[e], DOMAIN scope),
       unlocated |-> mood[e] = "vague",
       broken |-> mood[e] = "skipped",
       nonzero |-> mood[e] # "ran" \/ Located(e, mood[e], DOMAIN scope) # {}] \in results'
  BY <1>1, <1>4
<1> QED BY <1>7, <1>8

\* An evident finding in the results makes its group a violation.
LEMMA EvidenceTells ==
  ASSUME NEW t, NEW i, InScope(t, i), NEW r \in results, <<t.file, i>> \in r.findings
  PROVE  PostOutcome = "violation"
<1>1. <<t.file, i>> \in OnDiff
  BY DEF OnDiff, Visible, InScope
<1>2. LintOutcome = "violation"
  BY <1>1 DEF LintOutcome
<1> QED BY <1>2 DEF PostOutcome, WithScopeFailures

\* The evidence of a finding on the edit is never lost.
LEMMA EvidenceNext == Struct /\ EvidencePending /\ [Next]_vars => EvidencePending'
<1> SUFFICES ASSUME Struct, EvidencePending, [Next]_vars, pc' # "done",
                    NEW t \in Targets', NEW i \in AllLines, NEW e \in Engines, Evident(t, i, e)'
             PROVE  /\ found'[t] \in {"unknown", "active"}
                    /\ pc' # "start" => Ahead(t, i)'
  BY DEF EvidencePending, AllLines
<1> USE DEF disk, locals, history
<1>1. t \in Targets /\ event' = event
  BY StepFrame DEF Targets
<1>2. Evident(t, i, e)
  BY <1>1, EvidentBefore
<1>3. /\ event.phase = "post" /\ DevPy[Home[t.file]] \in present
      /\ t.file \in Files /\ Home[t.file] \in Repos /\ t.stays
      /\ \A what \in {"discovery", "session", "lint"} : <<Home[t.file], what>> \notin failed'
      /\ <<t.file, "unread">> \notin failed'
  BY <1>1, <1>2, EventsAssumption, LayoutAssumption DEF Evident, Active, Faulty, Failed, Struct, Targets
<1>4. pc # "done" => /\ found[t] \in {"unknown", "active"}
                     /\ pc # "start" => found[t] = "active" /\ Ahead(t, i)
  BY <1>1, <1>2 DEF EvidencePending, Struct, Deciding
<1>5. CASE UNCHANGED vars
  BY <1>4, <1>5 DEF vars, Ahead, GroupOf, InScope
<1>6. CASE Unclassified \/ Untargeted \/ Answer
  BY <1>6 DEF Unclassified, Untargeted, Answer, Finish
<1>7. CASE Done
  BY <1>5, <1>7 DEF Done
<1>8. CASE Discovered
  BY <1>1, <1>4, <1>8 DEF Discovered, Groups, Ahead, GroupOf
<1>9. ASSUME NEW u \in Targets, Discover(u)
      PROVE  found'[t] \in {"unknown", "active"} /\ pc' = "start"
  <2>1. PICK state \in {IF DevPy[Home[u.file]] \in present THEN "active" ELSE "inactive", "failed"} :
          /\ found' = [found EXCEPT ![u] = state]
          /\ failed' = IF state = "failed" THEN failed \cup {<<Home[u.file], "discovery">>} ELSE failed
    BY <1>9 DEF Discover
  <2>2. CASE u = t
    <3>1. state = "active"
      BY <1>3, <2>1, <2>2
    <3> QED BY <1>9, <2>1, <2>2, <3>1 DEF Discover, Struct
  <2>3. CASE u # t
    BY <1>1, <1>4, <1>9, <2>1, <2>3 DEF Discover, Struct
  <2> QED BY <2>2, <2>3
<1>10. ASSUME NEW g \in left, Enter(g)
       PROVE  found'[t] \in {"unknown", "active"} /\ Ahead(t, i)'
  <2>1. pc' \in {"failed", "inactive", "pre", "post"}
    <3>1. PICK u \in Targets : g = <<Home[u.file], found[u]>>
      BY <1>10 DEF Enter, Struct, Groups, Deciding
    <3>2. g[2] \in {"active", "inactive", "failed"}
      BY <1>10, <3>1 DEF Enter, Struct, States, Deciding
    <3> QED BY <1>3, <1>10, <3>2 DEF Enter
  <2> QED BY <1>4, <1>10, <2>1 DEF Enter, Ahead, GroupOf
\* A group that is decided without a violation is another one.
<1>11. ASSUME NEW kind, Decided(kind), pc \in Deciding, UNCHANGED <<event, found>>,
              group = GroupOf(t) => kind = "violation" \/ "violation" \in kinds
       PROVE  found'[t] \in {"unknown", "active"} /\ Ahead(t, i)'
  BY <1>4, <1>11 DEF Decided, Ahead, GroupOf, Deciding
<1>12. CASE Undiscovered \/ Inactive
  <2>1. group # GroupOf(t)
    BY <1>4, <1>12 DEF Undiscovered, Inactive, Struct, Deciding, GroupOf
  <2> QED BY <1>11, <1>12, <2>1 DEF Undiscovered, Inactive, Deciding
<1>13. CASE PreDecision \/ PreFailure
  BY <1>3, <1>13 DEF PreDecision, PreFailure, Struct
<1>14. CASE SessionFailure \/ LintFailure
  <2>1. group # GroupOf(t)
    BY <1>3, <1>14 DEF SessionFailure, LintFailure, Raise, Repo, GroupOf
  <2> QED BY <1>11, <1>14, <2>1 DEF SessionFailure, LintFailure, Raise, Deciding
<1>15. CASE Session
  <2>1. group = GroupOf(t) => t \in unread'
    BY <1>1, <1>3, <1>15 DEF Session, Members, GroupOf
  <2> QED BY <1>4, <1>15, <2>1 DEF Session, Ahead, GroupOf
<1>16. ASSUME NEW u \in unread, Locate(u)
       PROVE  found'[t] \in {"unknown", "active"} /\ Ahead(t, i)'
  <2>1. scope' = Widen(scope, u.file, Affected(u))
    BY <1>16 DEF Locate
  <2>2. InScope(t, i) => InScope(t, i)'
    BY <2>1 DEF InScope, Widen
  <2>3. u = t => InScope(t, i)'
    <3>1. i \in Affected(t)
      BY <1>1, <1>2, AffectedIs DEF Evident
    <3> QED BY <2>1, <3>1 DEF InScope, Widen
  <2> QED BY <1>4, <1>16, <2>2, <2>3 DEF Locate, Ahead, GroupOf
<1>17. ASSUME NEW u \in unread, Unlocated(u)
       PROVE  found'[t] \in {"unknown", "active"} /\ Ahead(t, i)'
  <2>1. u # t
    BY <1>3, <1>17 DEF Unlocated
  <2> QED BY <1>4, <1>17, <2>1 DEF Unlocated, Ahead, GroupOf, InScope
<1>18. CASE Lint
  <2>1. pc = "scope" /\ unread = {} /\ pc' = "verdict"
        /\ UNCHANGED <<kinds, left, group, found, scope>>
    BY <1>18 DEF Lint
  <2>2. group = GroupOf(t) /\ "violation" \notin kinds =>
          InScope(t, i) /\ \E r \in results' : <<t.file, i>> \in r.findings
    BY <1>1, <1>2, <1>4, <1>18, <2>1, EngineFinds DEF Ahead, InScope
  <2> QED BY <1>4, <2>1, <2>2 DEF Ahead, GroupOf, InScope
<1>19. CASE Verdict
  <2>1. group = GroupOf(t) /\ "violation" \notin kinds => PostOutcome = "violation"
    BY <1>4, <1>19, EvidenceTells DEF Verdict, Ahead
  <2> QED BY <1>11, <1>19, <2>1 DEF Verdict, Deciding
<1>20. CASE Disturb
  BY <1>4, <1>20 DEF Disturb, Ahead, GroupOf, InScope
<1> QED
  BY <1>5, <1>6, <1>7, <1>8, <1>9, <1>10, <1>12, <1>13, <1>14, <1>15, <1>16, <1>17, <1>18,
     <1>19, <1>20 DEF Next

\* Evidence that is pending when the last group is decided is the answer.
LEMMA EvidenceTold ==
  Struct /\ EvidencePending /\ FindingOnEditTold /\ [Next]_vars => FindingOnEditTold'
<1> SUFFICES ASSUME Struct, EvidencePending, FindingOnEditTold, [Next]_vars, Answered',
                    NEW t \in Targets', NEW e \in Engines, NEW i \in AllLines, Evident(t, i, e)'
             PROVE  answer' = "block"
  BY DEF FindingOnEditTold, Evident, AllLines
<1> USE DEF disk, locals, history
<1>1. t \in Targets /\ event' = event
  BY StepFrame DEF Targets
<1>2. Evident(t, i, e)
  BY <1>1, EvidentBefore
<1>3. CASE answer' = answer
  BY <1>1, <1>2, <1>3 DEF FindingOnEditTold, Evident, Answered
<1>4. CASE Answer
  <2>1. "violation" \in kinds
    BY <1>1, <1>2, <1>4 DEF Answer, EvidencePending, Ahead
  <2>2. answer' = Wire("violation")
    BY <1>4, <2>1 DEF Answer, Finish, Gravest
  <2> QED BY <2>2 DEF Wire
<1>5. CASE Unclassified \/ Untargeted
  <2>1. Targets = {}
    BY <1>5, EventsAssumption DEF Unclassified, Untargeted, Struct, Targets
  <2> QED BY <1>1, <2>1
<1>6. CASE UNCHANGED vars
  BY <1>3, <1>6 DEF vars
<1>7. CASE Discovered \/ Undiscovered \/ Inactive \/ PreDecision
           \/ PreFailure \/ Session \/ SessionFailure \/ Lint \/ LintFailure \/ Verdict \/ Disturb
  BY <1>3, <1>7 DEF Discovered, Undiscovered, Inactive, PreDecision,
     PreFailure, Session, SessionFailure, Lint, LintFailure, Verdict, Disturb, Raise
<1>8. CASE Done
  BY <1>6, <1>8 DEF Done
<1>9. CASE (\E u \in Targets : Discover(u)) \/ \E g \in left : Enter(g)
  BY <1>3, <1>9 DEF Discover, Enter
<1>10. CASE \E u \in unread : Locate(u) \/ Unlocated(u)
  BY <1>3, <1>10 DEF Locate, Unlocated
<1> QED BY <1>4, <1>5, <1>6, <1>7, <1>8, <1>9, <1>10 DEF Next

\* A finding on a line the edit wrote is told, whatever else is in the event.
THEOREM FindingSafe == Spec => []FindingOnEditTold
<1>1. Init => EvidencePending /\ FindingOnEditTold
  BY DEF Init, EvidencePending, FindingOnEditTold, Answered, Targets
<1>2. Struct /\ EvidencePending /\ FindingOnEditTold /\ [Next]_vars
         => EvidencePending' /\ FindingOnEditTold'
  BY EvidenceNext, EvidenceTold
<1> QED BY <1>1, <1>2, StructInvariant, PTL DEF Spec

-----------------------------------------------------------------------------
(* The blame on an edit.                                                   *)

\* What BlameHasReason accepts as a reason in repository r.
OnTheEdit(t, i, e) ==
  Faulty(t, i, e) /\ (Wrote(t, i) \/ Missing(text[t.file], t.added) # {})

Indebted(t, r) ==
  Home[t.file] = r /\ (t.file \in owed \/ (t.file = Manifest[r] /\ owed \cap FilesOf(r) # {}))

Grounds(r) ==
  /\ Active(r)
  /\ \/ \E e \in Engines : {<<r, e, "vague">>, <<r, e, "skipped">>} \cap heard # {}
     \/ \E t \in Targets : Indebted(t, r)
     \/ \E t \in Targets, e \in Engines, i \in AllLines :
          Home[t.file] = r /\ OnTheEdit(t, i, e)

\* A line in scope belongs to a target of the group that wrote it or was widened.
ScopeFounded ==
  \A f \in DOMAIN scope : \A i \in scope[f] : \E t \in Members :
    t.file = f /\ t.stays /\ (Wrote(t, i) \/ Missing(text[t.file], t.added) # {})

\* A finding is at a fault that its engine reads, and trouble was heard of.
ResultsFounded ==
  \A result \in results :
    LET e == result.engine IN
      /\ e \in Engines
      /\ \A v \in result.findings :
           /\ v[1] \in present \cap Lints[e] /\ v[1] \notin Excluded
           /\ v[2] \in AllLines /\ v[2] <= Len(text[v[1]]) /\ text[v[1]][v[2]] = e
      /\ result.unlocated => <<Repo, e, "vague">> \in heard
      /\ result.broken => <<Repo, e, "skipped">> \in heard

BlamePending ==
  event.phase = "post" /\ disturbed = {} =>
    /\ \A t \in Targets : found[t] = "active" => Active(Home[t.file])
    /\ "approval" \notin kinds
    /\ "violation" \in kinds => \E r \in Repos : Grounds(r)
    /\ pc \in {"scope", "verdict"} => (debt # {} => Grounds(Repo)) /\ ScopeFounded
    /\ pc = "verdict" => ResultsFounded

\* Without another writer the disk stays as it is.
LEMMA QuietStep ==
  ASSUME Struct, [Next]_vars, disturbed' = {}
  PROVE  /\ disturbed = {} /\ event' = event /\ owed' = owed /\ heard \subseteq heard'
         /\ \A f \in Files : text'[f] = text[f] /\ (f \in present' <=> f \in present)
BY StepFrame

\* Without another writer what an edit wrote stays where it is.
LEMMA WroteStays ==
  ASSUME Struct, [Next]_vars, disturbed' = {}, NEW t \in Targets, NEW i
  PROVE  /\ Wrote(t, i)' <=> Wrote(t, i)
         /\ Missing(text[t.file], t.added)' = Missing(text[t.file], t.added)
         /\ \A e \in Engines : Faulty(t, i, e)' <=> Faulty(t, i, e)
<1>1. t.file \in Files
  BY EventsAssumption DEF Struct, Targets
<1>2. text'[t.file] = text[t.file] /\ (t.file \in present' <=> t.file \in present)
  BY <1>1, QuietStep
<1>3. Wrote(t, i)' <=> Wrote(t, i)
  BY <1>2 DEF Wrote
<1>4. Missing(text[t.file], t.added)' = Missing(text[t.file], t.added)
  BY <1>2 DEF Missing
<1>5. \A e \in Engines : Faulty(t, i, e)' <=> Faulty(t, i, e)
  BY <1>2 DEF Faulty
<1> QED BY <1>3, <1>4, <1>5

\* Without another writer the grounds stay.
LEMMA GroundsStay ==
  ASSUME Struct, [Next]_vars, disturbed' = {}, NEW r \in Repos, Grounds(r)
  PROVE  Grounds(r)'
<1> USE QuietStep DEF Targets
<1>1. Active(r)'
  BY LayoutAssumption DEF Grounds, Active
<1>2. \A t \in Targets : t.file \in Files
  BY EventsAssumption DEF Struct
<1>3. CASE \E e \in Engines : {<<r, e, "vague">>, <<r, e, "skipped">>} \cap heard # {}
  <2>1. \E e \in Engines : {<<r, e, "vague">>, <<r, e, "skipped">>} \cap heard' # {}
    BY <1>3
  <2> QED BY <1>1, <2>1 DEF Grounds
<1>4. CASE \E t \in Targets : Indebted(t, r)
  <2>1. \E t \in Targets' : Indebted(t, r)'
    BY <1>4 DEF Indebted, FilesOf
  <2> QED BY <1>1, <2>1 DEF Grounds
<1>5. ASSUME NEW t \in Targets, NEW e \in Engines, NEW i \in AllLines,
             Home[t.file] = r, OnTheEdit(t, i, e)
      PROVE  Grounds(r)'
  <2>1. OnTheEdit(t, i, e)'
    BY <1>5, WroteStays DEF OnTheEdit
  <2>2. t \in Targets' /\ i \in AllLines'
    BY DEF AllLines
  <2> QED BY <1>1, <1>5, <2>1, <2>2 DEF Grounds
<1> QED BY <1>3, <1>4, <1>5 DEF Grounds

\* The post decision blames the edit for something.
LEMMA OutcomeFounded ==
  ASSUME Struct, ScopeFounded, ResultsFounded, debt # {} => Grounds(Repo), Active(Repo),
         PostOutcome = "violation"
  PROVE  Grounds(Repo)
<1>1. debt # {} \/ OnDiff # {} \/ (\E r \in results : r.unlocated) \/ \E r \in results : r.broken
  BY DEF PostOutcome, WithScopeFailures, LintOutcome, InfraOrClean
<1>2. CASE \E r \in results : r.unlocated \/ r.broken
  <2>1. PICK r \in results : r.unlocated \/ r.broken
    BY <1>2
  <2>2. \E e \in Engines : <<Repo, e, "vague">> \in heard \/ <<Repo, e, "skipped">> \in heard
    BY <2>1 DEF ResultsFounded
  <2>3. \E e \in Engines : {<<Repo, e, "vague">>, <<Repo, e, "skipped">>} \cap heard # {}
    BY <2>2
  <2> QED BY <2>3 DEF Grounds
<1>3. ASSUME NEW v \in OnDiff PROVE Grounds(Repo)
  <2>1. PICK result \in results : v \in result.findings
    BY DEF OnDiff, Visible
  <2>2. v[1] \in DOMAIN scope /\ v[2] \in scope[v[1]]
    BY DEF OnDiff
  <2>3. PICK t \in Members :
          t.file = v[1] /\ t.stays /\ (Wrote(t, v[2]) \/ Missing(text[t.file], t.added) # {})
    BY <2>2 DEF ScopeFounded
  <2> DEFINE e == result.engine
  <2>4. /\ e \in Engines /\ v[1] \in present \cap Lints[e] /\ v[1] \notin Excluded
        /\ v[2] \in AllLines /\ v[2] <= Len(text[v[1]]) /\ text[v[1]][v[2]] = e
    BY <2>1 DEF ResultsFounded
  <2> HIDE DEF e
  <2>5. OnTheEdit(t, v[2], e)
    BY <2>3, <2>4 DEF OnTheEdit, Faulty
  <2>6. t \in Targets /\ Home[t.file] = Repo
    BY DEF Members, Repo
  <2> QED BY <2>4, <2>5, <2>6 DEF Grounds
<1> QED BY <1>1, <1>2, <1>3

\* The group being decided belongs to a target.
LEMMA GroupActive ==
  ASSUME Struct, pc \in {"post", "scope", "verdict"},
         \A t \in Targets : found[t] = "active" => Active(Home[t.file])
  PROVE  Active(Repo) /\ Repo \in Repos
<1>1. PICK t \in Targets : group = <<Home[t.file], found[t]>>
  BY DEF Struct, Deciding, Groups
<1>2. found[t] = "active"
  BY <1>1 DEF Struct, Deciding, States
<1>3. Home[t.file] \in Repos
  BY EventsAssumption, LayoutAssumption DEF Struct, Targets
<1> QED BY <1>1, <1>2, <1>3 DEF Repo

\* A step adds no blame without grounds, and the grounds do not go away.
LEMMA BlameNext == Struct /\ Typed /\ BlamePending /\ [Next]_vars => BlamePending'
<1> SUFFICES ASSUME Struct, Typed, BlamePending, [Next]_vars,
                    event'.phase = "post", disturbed' = {}
             PROVE  /\ \A t \in Targets' : found'[t] = "active" => Active(Home[t.file])'
                    /\ "approval" \notin kinds'
                    /\ "violation" \in kinds' => \E r \in Repos : Grounds(r)'
                    /\ pc' \in {"scope", "verdict"} => (debt' # {} => Grounds(Repo)') /\ ScopeFounded'
                    /\ pc' = "verdict" => ResultsFounded'
  BY DEF BlamePending
<1> DEFINE Goal == /\ \A t \in Targets' : found'[t] = "active" => Active(Home[t.file])'
                   /\ "approval" \notin kinds'
                   /\ "violation" \in kinds' => \E r \in Repos : Grounds(r)'
                   /\ pc' \in {"scope", "verdict"} => (debt' # {} => Grounds(Repo)') /\ ScopeFounded'
                   /\ pc' = "verdict" => ResultsFounded'
<1> USE DEF disk, locals, history
<1>1. /\ event.phase = "post" /\ Targets' = Targets
      /\ \A t \in Targets : found[t] = "active" => Active(Home[t.file])
      /\ "approval" \notin kinds
      /\ "violation" \in kinds => \E r \in Repos : Grounds(r)
      /\ pc \in {"scope", "verdict"} => (debt # {} => Grounds(Repo)) /\ ScopeFounded
      /\ pc = "verdict" => ResultsFounded
  BY QuietStep DEF BlamePending, Targets
<1>2. \A t \in Targets : t.file \in Files /\ Home[t.file] \in Repos /\ DevPy[Home[t.file]] \in Files
  BY EventsAssumption, LayoutAssumption DEF Struct, Targets
<1>3. ASSUME UNCHANGED found PROVE \A t \in Targets' : found'[t] = "active" => Active(Home[t.file])'
  BY <1>1, <1>2, <1>3, QuietStep DEF Active
<1>4. (\E r \in Repos : Grounds(r)) => \E r \in Repos : Grounds(r)'
  BY GroundsStay
<1>5. ASSUME UNCHANGED <<found, kinds>>, pc' \notin {"scope", "verdict"} PROVE Goal
  BY <1>1, <1>3, <1>4, <1>5
<1>6. CASE Unclassified \/ Untargeted \/ Answer \/ Discovered
  BY <1>5, <1>6 DEF Unclassified, Untargeted, Answer, Discovered, Finish
<1>7. ASSUME NEW u \in Targets, Discover(u) PROVE Goal
  <2>1. PICK state \in {IF DevPy[Home[u.file]] \in present THEN "active" ELSE "inactive", "failed"} :
          found' = [found EXCEPT ![u] = state]
    BY <1>7 DEF Discover
  <2>2. \A t \in Targets' : found'[t] = "active" => Active(Home[t.file])'
    BY <1>1, <1>2, <2>1, QuietStep DEF Active, Struct
  <2> QED BY <1>1, <1>4, <1>7, <2>2 DEF Discover
<1>8. ASSUME NEW g \in left, Enter(g) PROVE Goal
  <2>1. pc' \notin {"scope", "verdict"}
    <3>1. PICK u \in Targets : g = <<Home[u.file], found[u]>>
      BY <1>8 DEF Enter, Struct, Groups, Deciding
    <3>2. g[2] \in {"active", "inactive", "failed"}
      BY <1>8, <3>1 DEF Enter, Struct, States, Deciding
    <3> QED BY <1>1, <1>8, <3>2 DEF Enter
  <2> QED BY <1>5, <1>8, <2>1 DEF Enter
<1>9. ASSUME NEW kind, Decided(kind), UNCHANGED found, kind # "approval",
             kind = "violation" => \E r \in Repos : Grounds(r)
      PROVE  Goal
  BY <1>1, <1>3, <1>4, <1>9 DEF Decided
<1>10. CASE Undiscovered \/ Inactive
  BY <1>9, <1>10 DEF Undiscovered, Inactive
<1>11. CASE PreDecision \/ PreFailure
  BY <1>1, <1>11 DEF PreDecision, PreFailure, Struct
<1>12. CASE SessionFailure \/ LintFailure
  BY <1>9, <1>12 DEF SessionFailure, LintFailure, Raise
<1>13. CASE Session
  <2>1. Active(Repo) /\ Repo \in Repos /\ Repo' = Repo /\ pc' = "scope"
    BY <1>1, <1>13, GroupActive DEF Session, Repo
  <2>2. debt' # {} => Grounds(Repo)
    <3>1. \A t \in Members : t \in Targets /\ Home[t.file] = Repo
      BY DEF Members, Repo
    <3>2. ASSUME debt' # {} PROVE \E t \in Targets : Indebted(t, Repo)
      BY <1>13, <3>1, <3>2 DEF Session, Touched, Indebted
    <3> QED BY <2>1, <3>2 DEF Grounds
  <2>3. DOMAIN scope' = {}
    BY <1>13 DEF Session, Struct
  <2>4. ScopeFounded'
    BY <2>3 DEF ScopeFounded
  <2> QED BY <1>1, <1>3, <1>4, <1>13, <2>1, <2>2, <2>4, GroundsStay DEF Session
<1>14. ASSUME UNCHANGED <<found, group>> PROVE Members' = Members /\ Repo' = Repo
  BY <1>1, <1>14 DEF Members, Repo
<1>15. ASSUME ScopeFounded, UNCHANGED <<found, group>>, NEW f \in DOMAIN scope, NEW i \in scope[f]
       PROVE  \E t \in Members' : /\ t.file = f /\ t.stays
                                  /\ (Wrote(t, i) \/ Missing(text[t.file], t.added) # {})'
  <2>1. PICK t \in Members :
          t.file = f /\ t.stays /\ (Wrote(t, i) \/ Missing(text[t.file], t.added) # {})
    BY <1>15 DEF ScopeFounded
  <2>2. t \in Targets
    BY DEF Members
  <2>3. Wrote(t, i)' \/ Missing(text[t.file], t.added)' # {}
    BY <2>1, <2>2, WroteStays
  <2> QED BY <1>14, <1>15, <2>1, <2>3
<1>16. ASSUME NEW u \in unread, Locate(u) PROVE Goal
  <2>1. pc = "scope" /\ pc' = "scope" /\ UNCHANGED <<found, group, kinds, debt>>
        /\ scope' = Widen(scope, u.file, Affected(u))
    BY <1>16 DEF Locate
  <2>2. Active(Repo) /\ Repo \in Repos /\ Repo' = Repo
    BY <1>1, <1>14, <2>1, GroupActive
  <2>3. u \in Members /\ u \in Targets /\ u.file \in Files /\ u.stays
    <3>1. unread \subseteq Members /\ \A t \in Members : t \in Targets
      BY <2>1 DEF Struct, Members
    <3>2. u.stays
      BY <2>1 DEF Struct
    <3> QED BY <1>2, <3>1, <3>2
  <2>4. ASSUME NEW f \in DOMAIN scope', NEW i \in scope'[f]
        PROVE  \E t \in Members' : /\ t.file = f /\ t.stays
                                   /\ (Wrote(t, i) \/ Missing(text[t.file], t.added) # {})'
    <3>1. CASE f \in DOMAIN scope /\ i \in scope[f]
      BY <1>1, <1>15, <2>1, <3>1
    <3>2. CASE f = u.file /\ i \in Affected(u)
      <4>1. Wrote(u, i) \/ Missing(text[u.file], u.added) # {}
        BY <2>3, <3>2, AffectedIs, AffectedLines DEF Typed
      <4>2. Wrote(u, i)' \/ Missing(text[u.file], u.added)' # {}
        BY <2>3, <4>1, WroteStays
      <4> QED BY <1>14, <2>1, <2>3, <3>2, <4>2
    <3> QED BY <2>1, <3>1, <3>2 DEF Widen
  <2>5. ScopeFounded'
    BY <2>4 DEF ScopeFounded
  <2> QED BY <1>1, <1>3, <1>4, <2>1, <2>2, <2>5, GroundsStay
<1>17. ASSUME NEW u \in unread, Unlocated(u) PROVE Goal
  <2>1. pc = "scope" /\ pc' = "scope" /\ UNCHANGED <<found, group, kinds, debt, scope>>
    BY <1>17 DEF Unlocated
  <2>2. Repo \in Repos /\ Repo' = Repo
    BY <1>1, <1>14, <2>1, GroupActive
  <2>3. ScopeFounded'
    BY <1>1, <1>15, <2>1 DEF ScopeFounded
  <2> QED BY <1>1, <1>3, <1>4, <2>1, <2>2, <2>3, GroundsStay
<1>18. CASE Lint
  <2>1. pc = "scope" /\ pc' = "verdict" /\ UNCHANGED <<found, group, kinds, debt, scope>>
    BY <1>18 DEF Lint
  <2>2. Repo \in Repos /\ Repo' = Repo
    BY <1>1, <1>14, <2>1, GroupActive
  <2>3. ScopeFounded'
    BY <1>1, <1>15, <2>1 DEF ScopeFounded
  <2>4. ResultsFounded'
    <3>1. PICK mood :
            /\ DOMAIN mood \subseteq Engines
            /\ results' = {[engine |-> e,
                            findings |-> Located(e, mood[e], DOMAIN scope),
                            unlocated |-> mood[e] = "vague",
                            broken |-> mood[e] = "skipped",
                            nonzero |-> mood[e] # "ran" \/ Located(e, mood[e], DOMAIN scope) # {}]
                              : e \in DOMAIN mood}
            /\ heard' = heard \cup {<<Repo, e, mood[e]>> : e \in {d \in DOMAIN mood : mood[d] # "ran"}}
      BY <1>18 DEF Lint, Plan
    <3>2. ASSUME NEW result \in results'
          PROVE  /\ result.engine \in Engines
                 /\ \A v \in result.findings :
                      /\ v[1] \in present' \cap Lints[result.engine] /\ v[1] \notin Excluded
                      /\ v[2] \in AllLines /\ v[2] <= Len(text'[v[1]])
                      /\ text'[v[1]][v[2]] = result.engine
                 /\ result.unlocated => <<Repo, result.engine, "vague">> \in heard'
                 /\ result.broken => <<Repo, result.engine, "skipped">> \in heard'
      <4>1. PICK e \in DOMAIN mood :
              result = [engine |-> e,
                        findings |-> Located(e, mood[e], DOMAIN scope),
                        unlocated |-> mood[e] = "vague",
                        broken |-> mood[e] = "skipped",
                        nonzero |-> mood[e] # "ran" \/ Located(e, mood[e], DOMAIN scope) # {}]
        BY <3>1
      <4>2. UNCHANGED <<text, present>>
        BY <1>18 DEF Lint
      <4>3. \A v \in Located(e, mood[e], DOMAIN scope) : v \in Faults(e, Reads(e, DOMAIN scope))
        BY DEF Located
      <4>4. \A v \in Located(e, mood[e], DOMAIN scope) :
              /\ v[1] \in Reads(e, DOMAIN scope) /\ v[2] \in AllLines
              /\ v[2] <= Len(text[v[1]]) /\ text[v[1]][v[2]] = e
        BY <4>3 DEF Faults
      <4>5. \A f \in Reads(e, DOMAIN scope) : f \in present \cap Lints[e] /\ f \notin Excluded
        BY DEF Reads, Dispatched
      <4>6. \A state \in {"vague", "skipped"} : mood[e] = state => <<Repo, e, state>> \in heard'
        BY <3>1
      <4> QED BY <3>1, <4>1, <4>2, <4>4, <4>5, <4>6
    <3> QED BY <2>2, <3>2 DEF ResultsFounded, AllLines
  <2> QED BY <1>1, <1>3, <1>4, <2>1, <2>2, <2>3, <2>4, GroundsStay
<1>19. CASE Verdict
  <2>1. Repo \in Repos /\ (PostOutcome = "violation" => Grounds(Repo))
    BY <1>1, <1>19, GroupActive, OutcomeFounded DEF Verdict
  <2>2. PostOutcome # "approval"
    BY DEF PostOutcome, WithScopeFailures, LintOutcome, InfraOrClean
  <2> QED BY <1>9, <1>19, <2>1, <2>2 DEF Verdict
<1>20. CASE Disturb
  BY <1>20 DEF Disturb
<1>21. CASE UNCHANGED vars
  <2>1. ScopeFounded' <=> ScopeFounded
    BY <1>21 DEF vars, ScopeFounded, Members, Targets, Wrote
  <2>2. ResultsFounded' <=> ResultsFounded
    BY <1>21 DEF vars, ResultsFounded, Repo, AllLines
  <2>3. Repo' = Repo /\ (Grounds(Repo)' <=> Grounds(Repo))
    BY <1>21 DEF vars, Repo, Grounds, Active, Targets, Indebted, FilesOf, OnTheEdit, Faulty, Wrote, AllLines
  <2> QED BY <1>1, <1>3, <1>4, <1>21, <2>1, <2>2, <2>3 DEF vars
<1>22. CASE Done
  BY <1>21, <1>22 DEF Done
<1> QED
  BY <1>6, <1>7, <1>8, <1>10, <1>11, <1>12, <1>13, <1>16, <1>17, <1>18, <1>19, <1>20, <1>21,
     <1>22 DEF Next

\* Nothing is blamed at first.
LEMMA BlameInit == Init => BlamePending
BY DEF Init, BlamePending, Targets

\* Every outcome that blames an edit has its grounds.
THEOREM BlameInvariant == Spec => []BlamePending
BY StructInvariant, TypedInvariant, BlameInit, BlameNext, PTL DEF Spec

\* The answer blames nothing that no group was blamed for.
LEMMA BlameTold ==
  Struct /\ Typed /\ BlamePending /\ BlameHasReason /\ [Next]_vars => BlameHasReason'
<1> SUFFICES ASSUME Struct, Typed, BlamePending, BlameHasReason, [Next]_vars,
                    event'.phase = "post", answer' = "block", disturbed' = {}
             PROVE  \E r \in Repos : Grounds(r)'
  BY DEF BlameHasReason, Grounds, Indebted, OnTheEdit
<1> USE DEF disk, locals, history
<1>0. event.phase = "post" /\ disturbed = {}
  BY QuietStep
<1>1. CASE UNCHANGED answer
  <2>1. \E r \in Repos : Grounds(r)
    BY <1>0, <1>1 DEF BlameHasReason, Grounds, Indebted, OnTheEdit
  <2> QED BY <2>1, GroundsStay
<1>2. CASE Answer
  <2>1. "approval" \notin kinds /\ ("violation" \in kinds => \E r \in Repos : Grounds(r))
    BY <1>0 DEF BlamePending
  <2>2. answer' = Wire(Gravest(kinds))
    BY <1>2 DEF Answer, Finish
  <2>3. "violation" \in kinds
    BY <1>0, <2>1, <2>2 DEF Wire, Gravest
  <2> QED BY <2>1, <2>3, GroundsStay
<1>3. CASE Unclassified \/ Untargeted
  <2>1. answer' \in {"warn", "allow"}
    BY <1>0, <1>3 DEF Unclassified, Untargeted, Finish, Wire
  <2> QED BY <2>1
<1>4. CASE Discovered \/ (\E t \in Targets : Discover(t)) \/ (\E g \in left : Enter(g))
  BY <1>1, <1>4 DEF Discovered, Discover, Enter
<1>5. CASE Undiscovered \/ Inactive \/ PreDecision \/ PreFailure \/ Session \/ SessionFailure
  BY <1>1, <1>5 DEF Undiscovered, Inactive, PreDecision, PreFailure, Session, SessionFailure, Raise
<1>6. CASE (\E t \in unread : Locate(t) \/ Unlocated(t)) \/ Lint \/ LintFailure \/ Verdict \/ Disturb
  BY <1>1, <1>6 DEF Locate, Unlocated, Lint, LintFailure, Raise, Verdict, Disturb
<1>7. CASE UNCHANGED vars
  BY <1>1, <1>7 DEF vars
<1>8. CASE Done
  BY <1>7, <1>8 DEF Done
<1> QED BY <1>2, <1>3, <1>4, <1>5, <1>6, <1>7, <1>8 DEF Next

\* A finding is blamed on the edit only for a reason.
THEOREM BlameSafe == Spec => []BlameHasReason
<1>1. Init => BlameHasReason
  BY DEF Init, BlameHasReason
<1> QED BY StructInvariant, TypedInvariant, BlameInvariant, <1>1, BlameTold, PTL DEF Spec

-----------------------------------------------------------------------------
(* One decision before an edit.                                            *)

\* Before an edit, with everything verified and no dev.py coming or going.
Plain ==
  /\ event.phase = "pre" /\ ~event.unknown /\ failed = {}
  /\ disturbed \cap {DevPy[r] : r \in Repos} = {}

Refusing(r) == Active(r) /\ IndebtedStray(r)

\* The groups decided so far are refused exactly for the debt of one of them,
\* and an approval is among the outcomes exactly when one was asked for.
DecisionPending ==
  Plain =>
    /\ \A t \in Targets : /\ found[t] # "failed"
                          /\ found[t] = "active" => Active(Home[t.file])
                          /\ found[t] = "inactive" => ~Active(Home[t.file])
    /\ "unverified" \notin kinds
    /\ pc = "start" => asked = {}
    /\ pc \notin {"start", "done"} =>
         /\ "violation" \in kinds <=> \E r \in Repos : Refusing(r) /\ <<r, "active">> \notin left
         /\ "approval" \in kinds => asked # {}
         /\ "violation" \notin kinds /\ asked # {} => "approval" \in kinds

\* An event that is plain after a step was so before, and the repositories in
\* which the edit strays are the same.
LEMMA PlainBefore ==
  ASSUME Struct, [Next]_vars, Plain'
  PROVE  /\ Plain /\ Targets' = Targets
         /\ \A r \in Repos : /\ Active(r)' <=> Active(r)
                             /\ IndebtedStray(r)' <=> IndebtedStray(r)
                             /\ Refusing(r)' <=> Refusing(r)
<1>1. /\ event' = event /\ owed' = owed /\ failed \subseteq failed' /\ disturbed \subseteq disturbed'
      /\ \A f \in Files \ disturbed' : f \in present' <=> f \in present
  BY StepFrame
<1>2. Plain /\ Targets' = Targets
  BY <1>1 DEF Plain, Targets
<1>3. ASSUME NEW r \in Repos PROVE Active(r)' <=> Active(r)
  <2>1. DevPy[r] \in Files \ disturbed'
    BY LayoutAssumption DEF Plain
  <2> QED BY <1>1, <2>1 DEF Active
<1>4. ASSUME NEW r \in Repos PROVE IndebtedStray(r)' <=> IndebtedStray(r)
  BY <1>1, <1>2 DEF IndebtedStray, FilesOf
<1> QED BY <1>2, <1>3, <1>4 DEF Refusing

\* The edit strays in the group being decided exactly when its targets in that
\* repository do.
LEMMA StraysAre ==
  ASSUME Struct, DecisionPending, Plain, pc = "pre"
  PROVE  \E r \in Repos : /\ group = <<r, "active">> /\ Repo = r /\ Active(r)
                          /\ Strays <=> IndebtedStray(r)
<1>1. PICK t \in Targets : group = <<Home[t.file], found[t]>>
  BY DEF Struct, Deciding, Groups
<1>2. found[t] = "active" /\ Active(Home[t.file])
  BY <1>1 DEF Struct, Deciding, States, DecisionPending
<1>3. Home[t.file] \in Repos
  BY EventsAssumption, LayoutAssumption DEF Struct, Targets
<1>4. PICK r \in Repos : r = Home[t.file]
  BY <1>3
<1>5. group = <<r, "active">> /\ Repo = r /\ Active(r)
  BY <1>1, <1>2, <1>4 DEF Repo
<1>6. \A u \in Targets : Home[u.file] = r => found[u] = "active"
  <2> SUFFICES ASSUME NEW u \in Targets, Home[u.file] = r PROVE found[u] = "active"
    OBVIOUS
  <2>1. found[u] \in States /\ found[u] # "unknown"
    BY DEF Struct
  <2>2. found[u] # "failed" /\ found[u] # "inactive"
    BY <1>5 DEF DecisionPending
  <2> QED BY <2>1, <2>2 DEF States
<1>7. Members = {u \in Targets : Home[u.file] = r}
  BY <1>5, <1>6 DEF Members
<1>8. Touched = {u.file : u \in {v \in Targets : Home[v.file] = r}}
  BY <1>7 DEF Touched
<1>9. Touched # {} /\ \A f \in Touched : f \in FilesOf(r)
  <2>1. t.file \in Touched
    BY <1>4, <1>8
  <2>2. \A u \in Targets : u.file \in Files
    BY EventsAssumption DEF Struct, Targets
  <2> QED BY <1>8, <2>1, <2>2 DEF FilesOf
<1>10. Touched \ FixFiles(r) # {} <=> \E f \in Touched : f \notin owed /\ f # Manifest[r]
  BY <1>9 DEF FixFiles
<1>11. Strays <=> IndebtedStray(r)
  BY <1>5, <1>8, <1>9, <1>10 DEF Strays, IndebtedStray
<1> QED BY <1>5, <1>11

\* Nothing is decided at first.
LEMMA DecisionInit == Init => DecisionPending
BY DEF Init, DecisionPending, Targets

\* The outcome of one group adds to what the groups before it decided.
LEMMA DecisionNext == Struct /\ Typed /\ DecisionPending /\ [Next]_vars => DecisionPending'
<1> SUFFICES ASSUME Struct, Typed, DecisionPending, [Next]_vars, Plain'
             PROVE  /\ \A t \in Targets' : /\ found'[t] # "failed"
                                           /\ found'[t] = "active" => Active(Home[t.file])'
                                           /\ found'[t] = "inactive" => ~Active(Home[t.file])'
                    /\ "unverified" \notin kinds'
                    /\ pc' = "start" => asked' = {}
                    /\ pc' \notin {"start", "done"} =>
                         /\ "violation" \in kinds' <=>
                              \E r \in Repos : Refusing(r)' /\ <<r, "active">> \notin left'
                         /\ "approval" \in kinds' => asked' # {}
                         /\ "violation" \notin kinds' /\ asked' # {} => "approval" \in kinds'
  BY DEF DecisionPending
<1> DEFINE FoundRight == \A t \in Targets' : /\ found'[t] # "failed"
                                             /\ found'[t] = "active" => Active(Home[t.file])'
                                             /\ found'[t] = "inactive" => ~Active(Home[t.file])'
           DecidedRight == /\ "violation" \in kinds' <=>
                                \E r \in Repos : Refusing(r)' /\ <<r, "active">> \notin left'
                           /\ "approval" \in kinds' => asked' # {}
                           /\ "violation" \notin kinds' /\ asked' # {} => "approval" \in kinds'
           Goal == /\ FoundRight
                   /\ "unverified" \notin kinds'
                   /\ pc' = "start" => asked' = {}
                   /\ pc' \notin {"start", "done"} => DecidedRight
<1> SUFFICES Goal
  OBVIOUS
<1> USE DEF disk, locals, history
<1>1. /\ Plain /\ Targets' = Targets
      /\ \A r \in Repos : (Active(r)' <=> Active(r)) /\ (Refusing(r)' <=> Refusing(r))
  BY PlainBefore
<1>2. /\ \A t \in Targets : /\ found[t] # "failed"
                            /\ found[t] = "active" => Active(Home[t.file])
                            /\ found[t] = "inactive" => ~Active(Home[t.file])
      /\ "unverified" \notin kinds
      /\ pc = "start" => asked = {}
      /\ pc \notin {"start", "done"} =>
           /\ "violation" \in kinds <=> \E r \in Repos : Refusing(r) /\ <<r, "active">> \notin left
           /\ "approval" \in kinds => asked # {}
           /\ "violation" \notin kinds /\ asked # {} => "approval" \in kinds
  BY <1>1 DEF DecisionPending
<1>3. \A t \in Targets : Home[t.file] \in Repos
  BY EventsAssumption, LayoutAssumption DEF Struct, Targets
<1>4. ASSUME UNCHANGED found PROVE FoundRight
  BY <1>1, <1>2, <1>3, <1>4
<1> HIDE DEF FoundRight
<1>5. ASSUME UNCHANGED <<found, left, kinds, asked>>, pc \notin {"start", "done"}, pc' # "start"
      PROVE  Goal
  BY <1>1, <1>2, <1>4, <1>5
<1>6. ASSUME UNCHANGED <<found, kinds>>, pc' = "done" PROVE Goal
  BY <1>2, <1>4, <1>6
<1>16. ASSUME UNCHANGED <<found, left, kinds, asked, pc>> PROVE Goal
  BY <1>1, <1>2, <1>4, <1>16
<1> HIDE DEF Goal
<1>7. CASE Unclassified \/ Untargeted \/ Answer
  BY <1>6, <1>7 DEF Unclassified, Untargeted, Answer, Finish
<1>8. CASE Discovered
  <2>1. ASSUME NEW r \in Repos, Refusing(r) PROVE <<r, "active">> \in Groups
    <3>1. PICK u \in Targets : Home[u.file] = r
      BY <2>1 DEF Refusing, IndebtedStray
    <3>2. found[u] = "active"
      BY <1>2, <1>8, <2>1, <3>1 DEF Discovered, Refusing, Struct, States
    <3> QED BY <3>1, <3>2 DEF Groups
  <2>2. kinds = {} /\ asked = {}
    BY <1>2, <1>8 DEF Discovered, Struct
  <2> QED BY <1>1, <1>4, <1>8, <2>1, <2>2 DEF Discovered, Goal
<1>9. ASSUME NEW u \in Targets, Discover(u) PROVE Goal
  <2>1. PICK state \in {IF DevPy[Home[u.file]] \in present THEN "active" ELSE "inactive", "failed"} :
          /\ found' = [found EXCEPT ![u] = state]
          /\ failed' = IF state = "failed" THEN failed \cup {<<Home[u.file], "discovery">>} ELSE failed
    BY <1>9 DEF Discover
  <2>2. state # "failed"
    BY <2>1 DEF Plain
  <2>3. found'[u] = state /\ \A t \in Targets : t # u => found'[t] = found[t]
    BY <2>1 DEF Struct
  <2>4. state = (IF Active(Home[u.file]) THEN "active" ELSE "inactive")
    BY <2>1, <2>2 DEF Active
  <2>5. FoundRight
    BY <1>1, <1>2, <1>3, <2>3, <2>4 DEF FoundRight
  <2> QED BY <1>2, <1>9, <2>5 DEF Discover, Goal
<1>10. ASSUME NEW g \in left, Enter(g) PROVE Goal
  <2>1. PICK t \in Targets : g = <<Home[t.file], found[t]>>
    BY <1>10 DEF Enter, Struct, Groups, Deciding
  <2>2. g[2] # "start" /\ event.phase # "start"
    BY <1>1, <1>10, <2>1 DEF Enter, Struct, States, Plain
  <2> QED BY <1>5, <1>10, <2>2 DEF Enter
<1>11. CASE Undiscovered
  <2>1. PICK t \in Targets : group = <<Home[t.file], found[t]>>
    BY <1>11 DEF Undiscovered, Struct, Groups, Deciding
  <2> QED BY <1>2, <1>11, <2>1 DEF Undiscovered, Struct, Deciding
<1>12. CASE Inactive
  <2>1. Decided("inactive") /\ UNCHANGED <<found, asked>>
    BY <1>1, <1>12 DEF Inactive, Plain
  <2>2. \A r \in Repos : group # <<r, "active">>
    BY <1>12 DEF Inactive, Struct, Deciding
  <2>3. kinds' = kinds \cup {"inactive"} /\ pc' = "decide"
        /\ \A r \in Repos : <<r, "active">> \notin left' <=> <<r, "active">> \notin left
    BY <2>1, <2>2 DEF Decided
  <2> QED BY <1>1, <1>2, <1>4, <1>12, <2>1, <2>3 DEF Inactive, Goal
<1>13. CASE PreDecision
  <2>1. PICK asks \in BOOLEAN :
          /\ Decided(IF Strays THEN "violation" ELSE IF asks THEN "approval" ELSE "allow")
          /\ asked' = IF asks THEN asked \cup {Repo} ELSE asked
          /\ pc = "pre" /\ UNCHANGED found
    BY <1>13 DEF PreDecision
  <2>2. PICK r \in Repos : /\ group = <<r, "active">> /\ Repo = r /\ Active(r)
                           /\ Strays <=> IndebtedStray(r)
    BY <1>1, <2>1, StraysAre
  <2>3. Strays <=> Refusing(r)
    BY <2>2 DEF Refusing
  <2>4. \A q \in Repos : <<q, "active">> \notin left' <=> q = r \/ <<q, "active">> \notin left
    BY <2>1, <2>2 DEF Decided
  <2>5. kinds' = kinds \cup {IF Strays THEN "violation" ELSE IF asks THEN "approval" ELSE "allow"}
        /\ pc' = "decide"
    BY <2>1 DEF Decided
  <2>6. "violation" \in kinds' <=> Strays \/ "violation" \in kinds
    BY <2>5
  <2>7. "violation" \in kinds' <=> \E q \in Repos : Refusing(q)' /\ <<q, "active">> \notin left'
    BY <1>1, <1>2, <2>1, <2>3, <2>4, <2>6
  <2>8. /\ "approval" \in kinds' => asked' # {}
        /\ "violation" \notin kinds' /\ asked' # {} => "approval" \in kinds'
        /\ "unverified" \notin kinds'
    BY <1>2, <2>1, <2>5
  <2> QED BY <1>4, <2>1, <2>5, <2>7, <2>8 DEF Goal
<1>14. CASE PreFailure
  BY <1>14 DEF PreFailure, Raise, Plain
<1>15. CASE Session \/ SessionFailure \/ (\E t \in unread : Locate(t) \/ Unlocated(t))
            \/ Lint \/ LintFailure \/ Verdict
  BY <1>1, <1>15 DEF Session, SessionFailure, Locate, Unlocated, Lint, LintFailure, Verdict, Struct, Plain
<1>17. CASE Disturb
  BY <1>16, <1>17 DEF Disturb
<1>18. CASE UNCHANGED vars
  BY <1>16, <1>18 DEF vars
<1>19. CASE Done
  BY <1>18, <1>19 DEF Done
<1> QED
  BY <1>7, <1>8, <1>9, <1>10, <1>11, <1>12, <1>13, <1>14, <1>15, <1>17, <1>18, <1>19 DEF Next

\* The groups decided so far are refused for the debt of one of them only.
THEOREM DecisionInvariant == Spec => []DecisionPending
BY StructInvariant, TypedInvariant, DecisionInit, DecisionNext, PTL DEF Spec

\* The answer is the decision of the groups together.
LEMMA DecisionTold ==
  Struct /\ Typed /\ DecisionPending /\ OneDecision /\ [Next]_vars => OneDecision'
<1> SUFFICES ASSUME Struct, Typed, DecisionPending, OneDecision, [Next]_vars, Plain', Answered'
             PROVE  /\ (answer' = "block") <=> (\E r \in Repos : Refusing(r)')
                    /\ (answer' = "ask") <=> (answer' # "block" /\ asked' # {})
  BY DEF OneDecision, Plain, Refusing
<1> USE DEF disk, locals, history
<1>1. Plain /\ event.phase = "pre" /\ \A r \in Repos : Refusing(r)' <=> Refusing(r)
  BY PlainBefore DEF Plain
<1>2. CASE UNCHANGED <<answer, asked>>
  BY <1>1, <1>2 DEF OneDecision, Plain, Refusing, Answered
<1>3. CASE Answer
  <2>1. /\ answer' = Wire(Gravest(kinds)) /\ asked' = asked /\ left = {}
        /\ pc = "decide"
    BY <1>3 DEF Answer, Finish
  <2>2. /\ "violation" \in kinds <=> \E r \in Repos : Refusing(r)
        /\ "approval" \in kinds => asked # {}
        /\ "violation" \notin kinds /\ asked # {} => "approval" \in kinds
        /\ "unverified" \notin kinds
    BY <1>1, <2>1 DEF DecisionPending
  <2>3. /\ answer' = "block" <=> "violation" \in kinds
        /\ answer' = "ask" <=> "violation" \notin kinds /\ "approval" \in kinds
    BY <1>1, <2>1, <2>2 DEF Wire, Gravest
  <2> QED BY <1>1, <2>1, <2>2, <2>3
<1>4. CASE Unclassified
  BY <1>1, <1>4 DEF Unclassified, Plain
<1>5. CASE Untargeted
  <2>1. answer' = "allow" /\ asked' = {} /\ Targets = {}
    BY <1>1, <1>5 DEF Untargeted, Finish, Wire, DecisionPending
  <2>2. \A r \in Repos : ~Refusing(r)
    BY <2>1 DEF Refusing, IndebtedStray
  <2> QED BY <1>1, <2>1, <2>2
<1>6. ASSUME pc # "done", UNCHANGED answer PROVE FALSE
  BY <1>6 DEF Struct, Answered
<1>7. CASE Discovered \/ (\E t \in Targets : Discover(t)) \/ (\E g \in left : Enter(g))
  BY <1>6, <1>7 DEF Discovered, Discover, Enter
<1>8. CASE Undiscovered \/ Inactive \/ PreDecision \/ PreFailure \/ Session \/ SessionFailure
  BY <1>6, <1>8 DEF Undiscovered, Inactive, PreDecision, PreFailure, Session, SessionFailure, Raise
<1>9. CASE (\E t \in unread : Locate(t) \/ Unlocated(t)) \/ Lint \/ LintFailure \/ Verdict \/ Disturb
  BY <1>6, <1>9 DEF Locate, Unlocated, Lint, LintFailure, Raise, Verdict, Disturb
<1>10. CASE UNCHANGED vars
  BY <1>2, <1>10 DEF vars
<1>11. CASE Done
  BY <1>10, <1>11 DEF Done
<1> QED BY <1>3, <1>4, <1>5, <1>7, <1>8, <1>9, <1>10, <1>11 DEF Next

\* Before an edit the answer covers all of its repositories or none.
THEOREM DecisionSafe == Spec => []OneDecision
<1>1. Init => OneDecision
  BY DEF Init, OneDecision, Answered
<1> QED BY StructInvariant, TypedInvariant, DecisionInvariant, <1>1, DecisionTold, PTL DEF Spec
=============================================================================
