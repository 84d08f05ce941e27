--------------------------- MODULE HookCallProofs ---------------------------
(***************************************************************************)
(* Proofs about HookCall: what the host does with a tool call, whatever    *)
(* the child, its pipes, the deadline and the user do, in any order and    *)
(* for any time.  And about HookPayload: the targets that an input of any  *)
(* number of rows and files is reduced to say what its rows do.            *)
(***************************************************************************)
EXTENDS HookCall, HookPayload, FiniteSetTheorems, TLAPS

\* The values that are told apart.
TypeOK ==
  /\ step \in {"called", "pre", "confirm", "tool", "post", "over"}
  /\ tool \in {"other", "opaque", "mutation"}
  /\ ran \in BOOLEAN
  /\ child \in {"none", "running", "dying", "stillborn", "gone"}
  /\ exit \in {"none", "zero", "nonzero", "signal"}
  /\ input \in {"unsent", "sent", "flushed", "broken"}
  /\ closed \in BOOLEAN
  /\ timer \in {"off", "armed"}
  /\ settled \in BOOLEAN
  /\ answer \in Kinds \cup {"none"}
  /\ fault \in BOOLEAN

\* One spawn at a time: a child that has not ended has no exit code, 'close'
\* comes after both streams did, only a promise still open has a deadline or a
\* child that runs, and none is open once 'close' and 'finish' both came.
Conversation ==
  /\ exit = "none" <=> child # "gone"
  /\ closed => child = "gone" /\ heard = said
  /\ settled <=> answer # "none"
  /\ fault => settled
  /\ step \notin Hooking => timer = "off" /\ child # "running"
  /\ closed /\ input = "flushed" => settled

\* A verdict stays what it is after it was given: nothing that comes later can
\* be a failure of its conversation.  And whatever a child that was told to end
\* does later, its conversation was a failure.
Verdict == settled => closed \/ (answer = "unverified" /\ fault)

\* Where the host is with the call, and what it knows there.
Passage ==
  /\ step \in {"called", "pre", "confirm", "tool"} => ~ran /\ told = "none"
  /\ step = "post" => told = "none" /\ tool # "other"
  /\ step \in {"pre", "confirm"} => tool = "mutation"
  /\ step = "confirm" => word = "ask"
  /\ tool = "mutation" /\ step \in {"tool", "post"} => word \in {"allow", "approved"}

-----------------------------------------------------------------------------
\* A decoded answer is one the extension knows to render.
LEMMA DecodedKinds == \A code, text : Decoded(code, text) \in Kinds
BY DEF Decoded, Kinds, Decisions

\* The promise resolves with an answer, and disarms the deadline.
LEMMA FinishTyped ==
  ASSUME TypeOK, NEW kind \in Kinds, Finish(kind) \/ UNCHANGED <<settled, answer, timer>>
  PROVE  settled' \in BOOLEAN /\ answer' \in Kinds \cup {"none"} /\ timer' \in {"off", "armed"}
BY DEF TypeOK, Finish

\* A child that is killed is told to end.
LEMMA KillTyped ==
  ASSUME TypeOK, Kill
  PROVE  child' \in {"none", "running", "dying", "stillborn", "gone"}
         /\ exit' \in {"none", "zero", "nonzero", "signal"}
BY DEF TypeOK, Kill

\* No handler makes a value of another kind.
LEMMA TypeStep ==
  ASSUME TypeOK, [Next]_vars
  PROVE  TypeOK'
<1>. USE DEF TypeOK, Kinds
<1>1. CASE Unasked
  BY <1>1 DEF Unasked, host, proc, execute
<1>2. CASE Ask
  BY <1>2 DEF Ask, host, proc, execute
<1>3. CASE NoChild
  BY <1>3 DEF NoChild, Idle, host, proc, execute
<1>4. CASE Spawn
  BY <1>4 DEF Spawn, Idle, Fresh, host, proc, execute
<1>5. CASE SpawnUnfed
  BY <1>5 DEF SpawnUnfed, Idle, host, proc, execute
<1>6. CASE Say
  BY <1>6 DEF Say, Alive, Whole, Decisions, host, proc, execute
<1>7. CASE Exit
  BY <1>7 DEF Exit, Alive, host, proc, execute
<1>8. CASE StdinFinish
  <2>1. Decoded(exit, heard) \in Kinds
    BY DecodedKinds
  <2>2. settled' \in BOOLEAN /\ answer' \in Kinds \cup {"none"} /\ timer' \in {"off", "armed"}
    BY <1>8, <2>1, FinishTyped DEF StdinFinish, FinishClose
  <2>. QED BY <1>8, <2>2 DEF StdinFinish, host, proc
<1>9. CASE StdinError
  <2>1. settled' \in BOOLEAN /\ answer' \in Kinds \cup {"none"} /\ timer' \in {"off", "armed"}
    BY <1>9, FinishTyped DEF StdinError, Stop
  <2>2. child' \in {"none", "running", "dying", "stillborn", "gone"}
        /\ exit' \in {"none", "zero", "nonzero", "signal"}
    BY <1>9, KillTyped DEF StdinError, Stop
  <2>. QED BY <1>9, <2>1, <2>2 DEF StdinError, host, proc
<1>10. CASE Data
  BY <1>10 DEF Data, host, proc, execute
<1>11. CASE StreamError
  <2>1. settled' \in BOOLEAN /\ answer' \in Kinds \cup {"none"} /\ timer' \in {"off", "armed"}
    BY <1>11, FinishTyped DEF StreamError, Stop
  <2>2. child' \in {"none", "running", "dying", "stillborn", "gone"}
        /\ exit' \in {"none", "zero", "nonzero", "signal"}
    BY <1>11, KillTyped DEF StreamError, Stop
  <2>. QED BY <1>11, <2>1, <2>2 DEF StreamError, host, proc
<1>12. CASE ChildError
  <2>1. settled' \in BOOLEAN /\ answer' \in Kinds \cup {"none"} /\ timer' \in {"off", "armed"}
    BY <1>12, FinishTyped DEF ChildError
  <2>. QED BY <1>12, <2>1 DEF ChildError, host, proc
<1>13. CASE Close
  <2>1. Decoded(exit, heard) \in Kinds
    BY DecodedKinds
  <2>2. settled' \in BOOLEAN /\ answer' \in Kinds \cup {"none"} /\ timer' \in {"off", "armed"}
    BY <1>13, <2>1, FinishTyped DEF Close, FinishClose
  <2>. QED BY <1>13, <2>2 DEF Close, host, proc
<1>14. CASE Deadline
  <2>1. settled' \in BOOLEAN /\ answer' \in Kinds \cup {"none"} /\ timer' \in {"off", "armed"}
    BY <1>14, FinishTyped DEF Deadline, Stop
  <2>2. child' \in {"none", "running", "dying", "stillborn", "gone"}
        /\ exit' \in {"none", "zero", "nonzero", "signal"}
    BY <1>14, KillTyped DEF Deadline, Stop
  <2>. QED BY <1>14, <2>1, <2>2 DEF Deadline, host, proc
<1>15. CASE ApplyPre
  BY <1>15 DEF ApplyPre, Forget, Fresh, host, proc, execute
<1>16. CASE Confirm
  BY <1>16 DEF Confirm, host, proc, execute
<1>17. CASE Tool
  BY <1>17 DEF Tool, host, proc, execute
<1>18. CASE ApplyPost
  BY <1>18 DEF ApplyPost, host, proc, execute
<1>19. CASE UNCHANGED vars
  BY <1>19 DEF vars, host, proc, execute
<1>. QED
  BY <1>1, <1>2, <1>3, <1>4, <1>5, <1>6, <1>7, <1>8, <1>9, <1>10,
     <1>11, <1>12, <1>13, <1>14, <1>15, <1>16, <1>17, <1>18, <1>19
     DEF Next, Host, Handler

\* Every variable that has a fixed range stays in it.
THEOREM TypeInvariant == Spec => []TypeOK
<1>1. Init => TypeOK
  BY DEF Init, TypeOK
<1>2. TypeOK /\ [Next]_vars => TypeOK'
  BY TypeStep
<1>. QED BY <1>1, <1>2, PTL DEF Spec

\* The bookkeeping of one conversation survives every handler; whoever
\* resolves the promise clears the deadline and leaves no child running.
LEMMA ConversationStep ==
  ASSUME TypeOK, Conversation, NothingLeft, [Next]_vars
  PROVE  Conversation' /\ NothingLeft'
<1>. USE DEF TypeOK, Conversation, NothingLeft, Kinds, Hooking, Decisions
<1>1. CASE Unasked
  BY <1>1 DEF Unasked, host, proc, execute
<1>2. CASE Ask
  BY <1>2 DEF Ask, host, proc, execute
<1>3. CASE NoChild
  BY <1>3 DEF NoChild, Idle, host, proc, execute
<1>4. CASE Spawn
  BY <1>4 DEF Spawn, Idle, Fresh, host, proc, execute
<1>5. CASE SpawnUnfed
  BY <1>5 DEF SpawnUnfed, Idle, host, proc, execute
<1>6. CASE Say
  BY <1>6 DEF Say, Alive, Whole, Decisions, host, proc, execute
<1>7. CASE Exit
  BY <1>7 DEF Exit, Alive, host, proc, execute
<1>8. CASE StdinFinish
  BY <1>8 DEF StdinFinish, FinishClose, Finish, Decoded, host, proc, execute
<1>9. CASE StdinError
  BY <1>9 DEF StdinError, Stop, Kill, Finish, host, proc, execute
<1>10. CASE Data
  BY <1>10 DEF Data, host, proc, execute
<1>11. CASE StreamError
  BY <1>11 DEF StreamError, Stop, Kill, Finish, host, proc, execute
<1>12. CASE ChildError
  BY <1>12 DEF ChildError, Finish, host, proc, execute
<1>13. CASE Close
  BY <1>13 DEF Close, FinishClose, Finish, Decoded, host, proc, execute
<1>14. CASE Deadline
  BY <1>14 DEF Deadline, Stop, Kill, Finish, host, proc, execute
<1>15. CASE ApplyPre
  BY <1>15 DEF ApplyPre, Forget, Fresh, host, proc, execute
<1>16. CASE Confirm
  BY <1>16 DEF Confirm, host, proc, execute
<1>17. CASE Tool
  BY <1>17 DEF Tool, host, proc, execute
<1>18. CASE ApplyPost
  BY <1>18 DEF ApplyPost, host, proc, execute
<1>19. CASE UNCHANGED vars
  BY <1>19 DEF vars, host, proc, execute
<1>. QED
  BY <1>1, <1>2, <1>3, <1>4, <1>5, <1>6, <1>7, <1>8, <1>9, <1>10,
     <1>11, <1>12, <1>13, <1>14, <1>15, <1>16, <1>17, <1>18, <1>19
     DEF Next, Host, Handler

\* The bookkeeping holds throughout.
THEOREM ConversationInvariant == Spec => [](Conversation /\ NothingLeft)
<1>1. Init => Conversation /\ NothingLeft
  BY DEF Init, Conversation, NothingLeft, Hooking
<1>2. TypeOK /\ (Conversation /\ NothingLeft) /\ [Next]_vars => (Conversation /\ NothingLeft)'
  BY ConversationStep
<1>. QED BY <1>1, <1>2, TypeInvariant, PTL DEF Spec

\* No deadline and no running child outlive the answer (hook.js:91-101).
THEOREM NothingLeftSafe == Spec => []NothingLeft
BY ConversationInvariant, PTL

\* An answer is made of the conversation as it stands when it is given, and
\* nothing that comes later disturbs that conversation.
LEMMA VerdictStep ==
  ASSUME TypeOK, Conversation, NothingLeft, Verdict, WholeVerdict, NoFalseAlarm, [Next]_vars
  PROVE  Verdict' /\ WholeVerdict' /\ NoFalseAlarm'
<1>. USE DEF TypeOK, Conversation, NothingLeft, Verdict, WholeVerdict, NoFalseAlarm,
            Kinds, Hooking, Decisions
<1>1. CASE Unasked
  BY <1>1 DEF Unasked, host, proc, execute
<1>2. CASE Ask
  BY <1>2 DEF Ask, host, proc, execute
<1>3. CASE NoChild
  BY <1>3 DEF NoChild, Idle, host, proc, execute
<1>4. CASE Spawn
  BY <1>4 DEF Spawn, Idle, Fresh, host, proc, execute
<1>5. CASE SpawnUnfed
  BY <1>5 DEF SpawnUnfed, Idle, host, proc, execute
<1>6. CASE Say
  BY <1>6 DEF Say, Alive, Whole, Decisions, host, proc, execute
<1>7. CASE Exit
  BY <1>7 DEF Exit, Alive, host, proc, execute
<1>8. CASE StdinFinish
  BY <1>8 DEF StdinFinish, FinishClose, Finish, Decoded, host, proc, execute
<1>9. CASE StdinError
  BY <1>9 DEF StdinError, Stop, Kill, Finish, host, proc, execute
<1>10. CASE Data
  BY <1>10 DEF Data, host, proc, execute
<1>11. CASE StreamError
  BY <1>11 DEF StreamError, Stop, Kill, Finish, host, proc, execute
<1>12. CASE ChildError
  BY <1>12 DEF ChildError, Finish, host, proc, execute
<1>13. CASE Close
  BY <1>13 DEF Close, FinishClose, Finish, Decoded, host, proc, execute
<1>14. CASE Deadline
  BY <1>14 DEF Deadline, Stop, Kill, Finish, host, proc, execute
<1>15. CASE ApplyPre
  BY <1>15 DEF ApplyPre, Forget, Fresh, host, proc, execute
<1>16. CASE Confirm
  BY <1>16 DEF Confirm, host, proc, execute
<1>17. CASE Tool
  BY <1>17 DEF Tool, host, proc, execute
<1>18. CASE ApplyPost
  BY <1>18 DEF ApplyPost, host, proc, execute
<1>19. CASE UNCHANGED vars
  BY <1>19 DEF vars, host, proc, execute
<1>. QED
  BY <1>1, <1>2, <1>3, <1>4, <1>5, <1>6, <1>7, <1>8, <1>9, <1>10,
     <1>11, <1>12, <1>13, <1>14, <1>15, <1>16, <1>17, <1>18, <1>19
     DEF Next, Host, Handler

\* What an answer says of its conversation, and of its having ended.
THEOREM VerdictInvariant == Spec => [](Verdict /\ WholeVerdict /\ NoFalseAlarm)
<1> DEFINE Exact == Verdict /\ WholeVerdict /\ NoFalseAlarm
<1>1. Init => Exact
  BY DEF Init, Verdict, WholeVerdict, NoFalseAlarm, Kinds
<1>2. TypeOK /\ (Conversation /\ NothingLeft) /\ Exact /\ [Next]_vars => Exact'
  BY VerdictStep
<1>. HIDE DEF Exact
<1>3. Spec => []Exact
  BY <1>1, <1>2, TypeInvariant, ConversationInvariant, PTL DEF Spec
<1>. QED BY <1>3 DEF Exact

\* A verdict is the whole decision of a child that exited zero, after the whole
\* event was out to it, on streams that held, although the child may decide and
\* 'close' may come before 'finish' does (hook.js:102-104, 123-131).
THEOREM WholeVerdictSafe == Spec => []WholeVerdict
BY VerdictInvariant, PTL

\* "Unverified" always has a cause: a fault, an exit code, or a text that is no
\* decision.  The order of 'close' and 'finish' is none, and neither is a
\* deadline that is still armed when both have come.
THEOREM NoFalseAlarmSafe == Spec => []NoFalseAlarm
BY VerdictInvariant, PTL

\* Only an "allow", or a question answered with yes, takes a mutation from
\* "called" to "tool"; and a result goes uncommented only on an "allow".
LEMMA PassageStep ==
  ASSUME TypeOK, Conversation, NothingLeft, WholeVerdict, Passage, FailClosed, SilenceIsClean, [Next]_vars
  PROVE  Passage' /\ FailClosed' /\ SilenceIsClean'
<1>. USE DEF TypeOK, Conversation, NothingLeft, WholeVerdict, Passage, FailClosed,
            SilenceIsClean, Kinds, Hooking
<1>1. CASE Unasked
  BY <1>1 DEF Unasked, host, proc, execute
<1>2. CASE Ask
  BY <1>2 DEF Ask, host, proc, execute
<1>3. CASE NoChild
  BY <1>3 DEF NoChild, Idle, host, proc, execute
<1>4. CASE Spawn
  BY <1>4 DEF Spawn, Idle, Fresh, host, proc, execute
<1>5. CASE SpawnUnfed
  BY <1>5 DEF SpawnUnfed, Idle, host, proc, execute
<1>6. CASE Say
  BY <1>6 DEF Say, Alive, Whole, Decisions, host, proc, execute
<1>7. CASE Exit
  BY <1>7 DEF Exit, Alive, host, proc, execute
<1>8. CASE StdinFinish
  BY <1>8 DEF StdinFinish, FinishClose, Finish, Decoded, host, proc, execute
<1>9. CASE StdinError
  BY <1>9 DEF StdinError, Stop, Kill, Finish, host, proc, execute
<1>10. CASE Data
  BY <1>10 DEF Data, host, proc, execute
<1>11. CASE StreamError
  BY <1>11 DEF StreamError, Stop, Kill, Finish, host, proc, execute
<1>12. CASE ChildError
  BY <1>12 DEF ChildError, Finish, host, proc, execute
<1>13. CASE Close
  BY <1>13 DEF Close, FinishClose, Finish, Decoded, host, proc, execute
<1>14. CASE Deadline
  BY <1>14 DEF Deadline, Stop, Kill, Finish, host, proc, execute
<1>15. CASE ApplyPre
  BY <1>15 DEF ApplyPre, Forget, Fresh, host, proc, execute
<1>16. CASE Confirm
  BY <1>16 DEF Confirm, host, proc, execute
<1>17. CASE Tool
  BY <1>17 DEF Tool, host, proc, execute
<1>18. CASE ApplyPost
  BY <1>18 DEF ApplyPost, host, proc, execute
<1>19. CASE UNCHANGED vars
  BY <1>19 DEF vars, host, proc, execute
<1>. QED
  BY <1>1, <1>2, <1>3, <1>4, <1>5, <1>6, <1>7, <1>8, <1>9, <1>10,
     <1>11, <1>12, <1>13, <1>14, <1>15, <1>16, <1>17, <1>18, <1>19
     DEF Next, Host, Handler

\* What the host knows of the call at each of its steps.
THEOREM PassageInvariant == Spec => [](Passage /\ FailClosed /\ SilenceIsClean)
<1> DEFINE Careful == Passage /\ FailClosed /\ SilenceIsClean
<1>1. Init => Careful
  BY DEF Init, Passage, FailClosed, SilenceIsClean
<1>2. TypeOK /\ (Conversation /\ NothingLeft) /\ WholeVerdict /\ Careful /\ [Next]_vars => Careful'
  BY PassageStep
<1>. HIDE DEF Careful
<1>3. Spec => []Careful
  BY <1>1, <1>2, TypeInvariant, ConversationInvariant, WholeVerdictSafe, PTL DEF Spec
<1>. QED BY <1>3 DEF Careful

\* Fail closed: a tool that changes files ran only on an "allow" or on the
\* user's yes to a question (index.js:44-58).
THEOREM FailClosedSafe == Spec => []FailClosed
BY PassageInvariant, PTL

\* After a tool whose result is checked, silence means the child cleared it.
THEOREM SilenceIsCleanSafe == Spec => []SilenceIsClean
BY PassageInvariant, PTL

-----------------------------------------------------------------------------
(* HookPayload: the reduction of one input.                                *)

\* The values that are told apart.
Rows == SUBSET (Paths \X Nat)
Draft ==
  [op : {"edit", "write", "delete", "move"}, stays : BOOLEAN, added : Rows, content : BOOLEAN,
   ambiguous : BOOLEAN, to : Paths \cup {NoPath}, pair : {<<>>} \cup (Paths \X Paths)]
Entries ==
  [op : {"edit", "write", "delete", "move"}, path : Paths, to : Paths \cup {NoPath}, rows : Rows]

PayloadTyped ==
  /\ form \in {"patch", "edits", "direct"}
  /\ reading \in {"input", "sent", "refused", "reported", "unverified"}
  /\ drafts \in [Paths -> Draft \cup {NoDraft}]
  /\ current \in Paths \cup {NoPath}
  /\ unknown \in BOOLEAN /\ clean \in BOOLEAN /\ plain \in BOOLEAN
  /\ steps \in Nat
  /\ DOMAIN disk \subseteq Paths
  /\ log \in Seq(Entries)

\* An open section has a draft and an entry of the log, and a draft moves to
\* a draft.  The one entry of an edits list is that of its file, which is away
\* after a rename.
Opened ==
  /\ current \in Paths => drafts[current] # NoDraft /\ log # <<>> /\ form # "direct"
  /\ log = <<>> => \A f \in Paths : drafts[f] = NoDraft
  /\ \A f \in Paths : drafts[f] # NoDraft /\ drafts[f].to # NoPath =>
                        drafts[drafts[f].to] # NoDraft
  /\ form = "edits" => /\ current \in Paths /\ Len(log) = 1 /\ log[1].path = current
                       /\ drafts[current].op = "move" =>
                            /\ drafts[current].to \in Paths
                            /\ drafts[current].stays => drafts[current].to = current

\* The drafts mirror the disk; only a file that is removed and then written
\* again is there without the draft expecting it.
FullText(d) == d.content \/ d.ambiguous
Mirror(f) ==
  IF drafts[f] = NoDraft
  THEN (There(f) <=> f \in Existing) /\ (There(f) => disk[f] = Original[f])
  ELSE /\ drafts[f].stays => There(f)
       /\ There(f) /\ ~drafts[f].stays => drafts[f].op = "write"
       /\ There(f) /\ ~FullText(drafts[f]) =>
            \A x \in disk[f] : x \in drafts[f].added \/ (f \in Existing /\ x \in Original[f])
Mirrored == clean => \A f \in Paths : Mirror(f)

\* The file an entry leaves behind is in a draft, with the entry's rows as
\* long as it stays; those to come are for that file too.
Left(e) == IF e.op = "move" THEN e.to ELSE e.path
Account(ds, e) ==
  e.op # "delete" =>
    /\ Left(e) \in Paths /\ ds[Left(e)] # NoDraft
    /\ ds[Left(e)].stays => FullText(ds[Left(e)]) \/ e.rows \subseteq ds[Left(e)].added
Accounted ==
  /\ \A i \in DOMAIN log : Account(drafts, log[i])
  /\ current \in Paths /\ Last(log).op # "delete" =>
       Left(Last(log)) = Here \/ ~drafts[Left(Last(log))].stays

\* A plain input makes whole pairs: x was moved to y and nothing else was said
\* of either.
Paired(ds, f, x, y) ==
  /\ x # y /\ f \in {x, y}
  /\ ds[x].op = "move" /\ ds[x].pair = <<x, y>> /\ ~ds[x].stays
  /\ ds[y].op = "move" /\ ds[y].pair = <<x, y>> /\ ds[y].stays
Pairing(ds, f) ==
  /\ ds[f].op \in {"edit", "write"} => ds[f].stays
  /\ ds[f].op = "delete" => ~ds[f].stays
  /\ ds[f].op = "move" => \E x, y \in Paths : Paired(ds, f, x, y)
Pairs == plain => \A f \in Paths : Pairing(drafts, f)

\* What was sent on was accepted, what was refused was not.
Judged ==
  /\ reading = "sent" => ParseRequest(Targets)
  /\ reading = "refused" => unknown \/ Drafted(drafts) = {} \/ ~ParseRequest(Targets)

-----------------------------------------------------------------------------
\* A draft is something, and a new one is an edit of a file that is there.
LEMMA DraftFacts ==
  /\ \A d \in Draft : d # NoDraft /\ d.op # "none"
  /\ NewDraft \in Draft /\ NewDraft.op = "edit" /\ NewDraft.stays /\ NewDraft.added = {}
  /\ ~NewDraft.content /\ ~NewDraft.ambiguous /\ NewDraft.to = NoPath /\ NewDraft.pair = <<>>
  /\ NoDraft.op = "none" /\ NoPath \notin Paths
BY PathsAssumption DEF Draft, NoDraft, NewDraft, Rows

Ledger == [Paths -> Draft \cup {NoDraft}]

\* The draft of a file is made when it is first named.
LEMMA DraftForIs ==
  ASSUME NEW ds \in Ledger, NEW f \in Paths
  PROVE  /\ DraftFor(ds, f) \in Ledger
         /\ DraftFor(ds, f)[f] = IF ds[f] = NoDraft THEN NewDraft ELSE ds[f]
         /\ DraftFor(ds, f)[f] \in Draft
         /\ \A g \in Paths \ {f} : DraftFor(ds, f)[g] = ds[g]
         /\ \A g \in Paths : ds[g] # NoDraft => DraftFor(ds, f)[g] = ds[g]
BY DraftFacts DEF DraftFor, Ledger

\* A removal keeps nothing of the draft.
LEMMA MarkDeleteIs ==
  ASSUME NEW ds \in Ledger, NEW f \in Paths
  PROVE  LET new == MarkDelete(ds, f) IN
         /\ new \in Ledger /\ new[f] \in Draft
         /\ new[f].op = "delete" /\ ~new[f].stays /\ new[f].to = NoPath
         /\ \A g \in Paths \ {f} : new[g] = ds[g]
<1> DEFINE gone == [NewDraft EXCEPT !.op = "delete", !.stays = FALSE]
<1>1. gone \in Draft /\ gone.op = "delete" /\ ~gone.stays /\ gone.to = NoPath
  BY DraftFacts DEF NewDraft, Draft, Rows
<1>2. MarkDelete(ds, f) = [ds EXCEPT ![f] = gone]
  BY DEF MarkDelete
<1>. HIDE DEF gone
<1>. QED
  BY <1>1, <1>2 DEF Ledger

\* A move leaves the pair in both drafts, of which the first keeps nothing else.
LEMMA MarkMoveIs ==
  ASSUME NEW ds \in Ledger, NEW f \in Paths, NEW g \in Paths, ds[g] \in Draft
  PROVE  LET new == MarkMove(ds, f, g) IN
         /\ new \in Ledger /\ new[f] \in Draft /\ new[g] \in Draft
         /\ new[f].op = "move" /\ new[f].to = g /\ new[f].pair = <<f, g>>
         /\ new[g].op = "move" /\ new[g].stays /\ new[g].ambiguous /\ new[g].pair = <<f, g>>
         /\ f # g => ~new[f].stays /\ new[g].to = ds[g].to
         /\ \A h \in Paths \ {f, g} : new[h] = ds[h]
<1> DEFINE away == [NewDraft EXCEPT !.op = "move", !.stays = FALSE, !.to = g, !.pair = <<f, g>>]
           from == [ds EXCEPT ![f] = away]
           come == [from[g] EXCEPT !.op = "move", !.stays = TRUE, !.ambiguous = TRUE,
                                   !.pair = <<f, g>>]
<1>1. /\ away \in Draft /\ away.op = "move" /\ ~away.stays
      /\ away.to = g /\ away.pair = <<f, g>>
  BY DraftFacts DEF NewDraft, Draft, Rows
<1>2. MarkMove(ds, f, g) = [from EXCEPT ![g] = come]
  BY DEF MarkMove
<1>3. from \in Ledger /\ from[g] \in Draft /\ from[f] = away
      /\ (f # g => from[g] = ds[g]) /\ \A h \in Paths \ {f} : from[h] = ds[h]
  <2>. HIDE DEF away
  <2>. QED
    BY <1>1 DEF Ledger
<1>. HIDE DEF away, from
<1>4. /\ come \in Draft /\ come.op = "move" /\ come.stays /\ come.ambiguous
      /\ come.pair = <<f, g>> /\ come.to = from[g].to
  BY <1>3 DEF Draft
<1>. HIDE DEF come
<1>5. /\ MarkMove(ds, f, g) \in Ledger /\ MarkMove(ds, f, g)[g] = come
      /\ \A h \in Paths \ {g} : MarkMove(ds, f, g)[h] = from[h]
  BY <1>2, <1>3, <1>4 DEF Ledger
<1>. QED
  BY <1>1, <1>3, <1>4, <1>5

\* The file a row is for has a draft.
LEMMA HereIs ==
  ASSUME PayloadTyped, Opened, current \in Paths
  PROVE  /\ Here \in Paths /\ drafts[Here] \in Draft
         /\ Here # current => form = "edits" /\ drafts[current].op = "move"
                              /\ Here = drafts[current].to /\ ~drafts[current].stays
<1>1. drafts[current] \in Draft
  BY DEF PayloadTyped, Opened
<1>2. CASE Here = current
  BY <1>1, <1>2
<1>3. CASE Here # current
  <2>1. form = "edits" /\ drafts[current].op = "move" /\ Here = drafts[current].to
        /\ drafts[current].to # NoPath
    BY <1>3 DEF Here, Landing
  <2>2. Here \in Paths /\ drafts[Here] # NoDraft
    BY <1>1, <2>1 DEF Opened, Draft
  <2>3. ~drafts[current].stays
    BY <1>3, <2>1 DEF Opened
  <2>. QED
    BY <2>1, <2>2, <2>3 DEF PayloadTyped
<1>. QED
  BY <1>2, <1>3

\* The log with one more entry.
LEMMA LogAppended ==
  ASSUME log \in Seq(Entries), NEW e \in Entries
  PROVE  /\ Append(log, e) \in Seq(Entries) /\ Len(Append(log, e)) = Len(log) + 1
         /\ Append(log, e) # <<>> /\ Last(Append(log, e)) = e
         /\ \A i \in DOMAIN Append(log, e) : Append(log, e)[i] = e
                                             \/ (i \in DOMAIN log /\ Append(log, e)[i] = log[i])
BY DEF Last

\* The same, with an entry in place of the last one.
LEMMA LogAmended ==
  ASSUME log \in Seq(Entries), log # <<>>, NEW e \in Entries
  PROVE  LET new == [log EXCEPT ![Len(log)] = e] IN
         /\ new \in Seq(Entries) /\ Len(new) = Len(log)
         /\ new # <<>> /\ Last(new) = e
         /\ \A i \in DOMAIN new : new[i] = e \/ (i \in DOMAIN log /\ new[i] = log[i])
BY DEF Last

\* The last entry is one.
LEMMA LastIs ==
  ASSUME log \in Seq(Entries), log # <<>>
  PROVE  Last(log) \in Entries /\ Len(log) \in DOMAIN log /\ Last(log) = log[Len(log)]
BY DEF Last

\* What a section does to the drafts.
LEMMA OpenEffect ==
  ASSUME PayloadTyped, OpenSection
  PROVE  \E f \in Paths, op \in {"edit", "write", "delete"} :
           LET d == IF drafts[f] = NoDraft THEN NewDraft ELSE drafts[f] IN
           /\ current' = f
           /\ drafts' \in Ledger /\ drafts'[f] \in Draft
           /\ \A g \in Paths \ {f} : drafts'[g] = drafts[g]
           /\ d \in Draft
           /\ op = "edit" => drafts'[f] = d
           /\ op = "write" => /\ drafts'[f].op = "write" /\ drafts'[f].stays = d.stays
                              /\ drafts'[f].added = d.added /\ drafts'[f].to = d.to
                              /\ FullText(drafts'[f]) <=> FullText(d)
           /\ op = "delete" => /\ drafts'[f].op = "delete" /\ ~drafts'[f].stays
                               /\ drafts'[f].to = NoPath
           /\ Applied(op = "write" \/ There(f),
                      CASE op = "edit" -> disk
                        [] op = "write" -> Put(f, {})
                        [] op = "delete" -> Without(f))
           /\ Plainly(drafts[f] = NoDraft \/ (op = "edit" /\ drafts[f].op = "edit"))
           /\ Logged(Entry(op, f, NoPath, {}))
<1>1. drafts \in Ledger
  BY DEF PayloadTyped, Ledger
<1>2. PICK f \in Paths, op \in {"edit", "write", "delete"} :
        LET ds == DraftFor(drafts, f)
        IN  /\ current' = f
            /\ drafts' = CASE op = "edit" -> ds
                           [] op = "write" -> [ds EXCEPT ![f].op = "write"]
                           [] op = "delete" -> MarkDelete(ds, f)
            /\ Applied(op = "write" \/ There(f),
                       CASE op = "edit" -> disk
                         [] op = "write" -> Put(f, {})
                         [] op = "delete" -> Without(f))
            /\ Plainly(drafts[f] = NoDraft \/ (op = "edit" /\ drafts[f].op = "edit"))
            /\ Logged(Entry(op, f, NoPath, {}))
  BY DEF OpenSection
<1> DEFINE ds == DraftFor(drafts, f)
           d == IF drafts[f] = NoDraft THEN NewDraft ELSE drafts[f]
<1>3. /\ ds \in Ledger /\ ds[f] = d /\ d \in Draft
      /\ \A g \in Paths \ {f} : ds[g] = drafts[g]
  BY <1>1, DraftForIs
<1>4. drafts' = CASE op = "edit" -> ds
                  [] op = "write" -> [ds EXCEPT ![f].op = "write"]
                  [] op = "delete" -> MarkDelete(ds, f)
  BY <1>2
<1>. HIDE DEF ds
<1>5. CASE op = "edit"
  BY <1>2, <1>3, <1>4, <1>5
<1>6. CASE op = "write"
  <2>1. drafts' = [ds EXCEPT ![f] = [ds[f] EXCEPT !.op = "write"]]
    BY <1>4, <1>6
  <2> DEFINE n == [ds[f] EXCEPT !.op = "write"]
  <2>2. /\ n \in Draft /\ n.op = "write" /\ n.stays = d.stays /\ n.added = d.added
        /\ n.to = d.to /\ n.content = d.content /\ n.ambiguous = d.ambiguous
    BY <1>3 DEF Draft
  <2>. HIDE DEF n, d
  <2>3. drafts' \in Ledger /\ drafts'[f] = n /\ \A g \in Paths \ {f} : drafts'[g] = ds[g]
    BY <1>3, <2>1, <2>2 DEF Ledger, n
  <2>4. /\ drafts' \in Ledger /\ drafts'[f] \in Draft
        /\ \A g \in Paths \ {f} : drafts'[g] = drafts[g]
        /\ drafts'[f].op = "write" /\ drafts'[f].stays = d.stays
        /\ drafts'[f].added = d.added /\ drafts'[f].to = d.to
        /\ FullText(drafts'[f]) <=> FullText(d)
    BY <1>3, <2>2, <2>3 DEF FullText
  <2>. QED
    BY <1>2, <1>3, <1>6, <2>4 DEF d
<1>7. CASE op = "delete"
  BY <1>2, <1>3, <1>4, <1>7, MarkDeleteIs
<1>. QED
  BY <1>5, <1>6, <1>7

\* What a text row does to them.
LEMMA TextEffect ==
  ASSUME PayloadTyped, Opened, TextRow
  PROVE  LET d == drafts[Here]
             row == <<Here, steps'>>
         IN  /\ current \in Paths /\ Here \in Paths /\ d \in Draft
             /\ drafts' \in Ledger /\ drafts'[Here] \in Draft
             /\ \A g \in Paths \ {Here} : drafts'[g] = drafts[g]
             /\ drafts'[Here].op = d.op /\ drafts'[Here].stays = d.stays
             /\ drafts'[Here].to = d.to /\ drafts'[Here].pair = d.pair
             /\ d.added \subseteq drafts'[Here].added /\ (FullText(d) => FullText(drafts'[Here]))
             /\ row \in drafts'[Here].added \/ FullText(drafts'[Here])
<1> DEFINE h == Here
           row == <<h, steps'>>
<1>1. current \in Paths /\ h \in Paths /\ drafts[h] \in Draft /\ row \in Paths \X Nat
  BY HereIs DEF PayloadTyped, TextRow, SectionRow, Row
<1>2. \/ drafts' = [drafts EXCEPT ![h].added = @ \cup {row}]
      \/ drafts' = [drafts EXCEPT ![h].ambiguous = TRUE]
  BY DEF TextRow
<1>3. drafts \in Ledger
  BY DEF PayloadTyped, Ledger
<1>. HIDE DEF h, row
<1> DEFINE more == [drafts[h] EXCEPT !.added = @ \cup {row}]
           vague == [drafts[h] EXCEPT !.ambiguous = TRUE]
<1>4. /\ more \in Draft /\ more.op = drafts[h].op /\ more.stays = drafts[h].stays
      /\ more.to = drafts[h].to /\ more.pair = drafts[h].pair
      /\ more.added = drafts[h].added \cup {row} /\ more.content = drafts[h].content
      /\ more.ambiguous = drafts[h].ambiguous
  BY <1>1 DEF Draft, Rows
<1>5. /\ vague \in Draft /\ vague.op = drafts[h].op /\ vague.stays = drafts[h].stays
      /\ vague.to = drafts[h].to /\ vague.pair = drafts[h].pair
      /\ vague.added = drafts[h].added /\ vague.ambiguous
  BY <1>1 DEF Draft, Rows
<1>6. drafts' = [drafts EXCEPT ![h] = more] \/ drafts' = [drafts EXCEPT ![h] = vague]
  BY <1>1, <1>2, <1>3 DEF Ledger
<1>. HIDE DEF more, vague
<1>7. /\ drafts' \in Ledger /\ \A g \in Paths \ {h} : drafts'[g] = drafts[g]
      /\ drafts'[h] = more \/ drafts'[h] = vague
  BY <1>1, <1>3, <1>4, <1>5, <1>6 DEF Ledger
<1>. QED
  BY <1>1, <1>4, <1>5, <1>7 DEF FullText, h, row

\* What a "create" does to them.
LEMMA CreateEffect ==
  ASSUME PayloadTyped, Opened, CreateEntry
  PROVE  /\ current \in Paths /\ Here \in Paths /\ drafts[Here] \in Draft
         /\ drafts' \in Ledger /\ drafts'[Here] \in Draft
         /\ \A g \in Paths \ {Here} : drafts'[g] = drafts[g]
         /\ drafts'[Here].op = "write" /\ drafts'[Here].stays /\ FullText(drafts'[Here])
         /\ drafts'[Here].to = drafts[Here].to
<1> DEFINE h == Here
<1>1. current \in Paths /\ h \in Paths /\ drafts[h] \in Draft
  BY HereIs DEF PayloadTyped, CreateEntry, SectionRow, Row
<1>2. drafts' = [drafts EXCEPT ![h].op = "write", ![h].stays = TRUE, ![h].ambiguous = TRUE]
  BY DEF CreateEntry
<1>3. drafts \in Ledger
  BY DEF PayloadTyped, Ledger
<1>. HIDE DEF h
<1> DEFINE new == [drafts[h] EXCEPT !.op = "write", !.stays = TRUE, !.ambiguous = TRUE]
<1>4. new \in Draft /\ new.op = "write" /\ new.stays /\ new.ambiguous /\ new.to = drafts[h].to
  BY <1>1 DEF Draft, Rows
<1>5. drafts' = [drafts EXCEPT ![h] = new]
  BY <1>1, <1>2, <1>3 DEF Ledger
<1>. HIDE DEF new
<1>6. drafts' \in Ledger /\ drafts'[h] = new /\ \A g \in Paths \ {h} : drafts'[g] = drafts[g]
  BY <1>1, <1>3, <1>4, <1>5 DEF Ledger
<1>. QED
  BY <1>1, <1>4, <1>6 DEF FullText, h

\* What a move does to them.
LEMMA MoveEffect ==
  ASSUME PayloadTyped, Opened, MoveTo
  PROVE  \E g \in Paths :
           LET d == IF drafts[g] = NoDraft THEN NewDraft ELSE drafts[g] IN
           /\ current \in Paths /\ d \in Draft
           /\ drafts' \in Ledger /\ drafts'[current] \in Draft /\ drafts'[g] \in Draft
           /\ drafts'[current].op = "move" /\ drafts'[current].to = g
           /\ drafts'[current].pair = <<current, g>>
           /\ drafts'[g].op = "move" /\ drafts'[g].stays /\ drafts'[g].ambiguous
           /\ drafts'[g].pair = <<current, g>>
           /\ current # g => ~drafts'[current].stays /\ drafts'[g].to = d.to
           /\ \A h \in Paths \ {current, g} : drafts'[h] = drafts[h]
           /\ current' = IF form = "patch" THEN g ELSE current
           /\ Applied(There(Here) /\ Certain,
                      IF There(Here) THEN Moved(Here, g) ELSE disk)
           /\ Plainly(drafts[g] = NoDraft /\ drafts[current].op \in {"edit", "write"})
           /\ IF form = "edits" \/ Last(log).op = "edit"
              THEN Amended([Last(log) EXCEPT !.op = "move", !.to = g])
              ELSE Logged(Entry("move", current, g, {}))
<1>1. current \in Paths /\ drafts \in Ledger
  BY DEF PayloadTyped, MoveTo, SectionRow, Ledger
<1>2. PICK g \in Paths :
        /\ drafts' = MarkMove(DraftFor(drafts, g), current, g)
        /\ current' = IF form = "patch" THEN g ELSE current
        /\ Applied(There(Here) /\ Certain,
                   IF There(Here) THEN Moved(Here, g) ELSE disk)
        /\ Plainly(drafts[g] = NoDraft /\ drafts[current].op \in {"edit", "write"})
        /\ IF form = "edits" \/ Last(log).op = "edit"
           THEN Amended([Last(log) EXCEPT !.op = "move", !.to = g])
           ELSE Logged(Entry("move", current, g, {}))
  BY DEF MoveTo
<1> DEFINE ds == DraftFor(drafts, g)
           d == IF drafts[g] = NoDraft THEN NewDraft ELSE drafts[g]
<1>3. ds \in Ledger /\ ds[g] = d /\ d \in Draft /\ \A h \in Paths \ {g} : ds[h] = drafts[h]
  BY <1>1, DraftForIs
<1>4. drafts' = MarkMove(ds, current, g)
  BY <1>2
<1>. HIDE DEF ds, d
<1>5. /\ drafts' \in Ledger /\ drafts'[current] \in Draft /\ drafts'[g] \in Draft
      /\ drafts'[current].op = "move" /\ drafts'[current].to = g
      /\ drafts'[current].pair = <<current, g>>
      /\ drafts'[g].op = "move" /\ drafts'[g].stays /\ drafts'[g].ambiguous
      /\ drafts'[g].pair = <<current, g>>
      /\ current # g => ~drafts'[current].stays /\ drafts'[g].to = d.to
      /\ \A h \in Paths \ {current, g} : drafts'[h] = drafts[h]
  <2> DEFINE new == MarkMove(ds, current, g)
  <2>1. ds[g] \in Draft
    BY <1>3
  <2>2. /\ new \in Ledger /\ new[current] \in Draft /\ new[g] \in Draft
        /\ new[current].op = "move" /\ new[current].to = g
        /\ new[current].pair = <<current, g>>
        /\ new[g].op = "move" /\ new[g].stays /\ new[g].ambiguous
        /\ new[g].pair = <<current, g>>
        /\ current # g => ~new[current].stays /\ new[g].to = ds[g].to
        /\ \A h \in Paths \ {current, g} : new[h] = ds[h]
    BY <1>1, <1>3, <2>1, MarkMoveIs
  <2>3. drafts' = new
    BY <1>4
  <2>. HIDE DEF new
  <2>. QED
    BY <1>3, <2>2, <2>3
<1>. QED
  BY <1>1, <1>2, <1>3, <1>5 DEF d

\* What a removal does to them.
LEMMA RemoveEffect ==
  ASSUME PayloadTyped, RemoveRow
  PROVE  /\ current \in Paths
         /\ drafts' \in Ledger /\ drafts'[current] \in Draft
         /\ drafts'[current].op = "delete" /\ ~drafts'[current].stays
         /\ drafts'[current].to = NoPath
         /\ \A g \in Paths \ {current} : drafts'[g] = drafts[g]
<1>1. current \in Paths /\ drafts \in Ledger
  BY DEF PayloadTyped, RemoveRow, SectionRow, Ledger
<1>. QED
  BY <1>1, MarkDeleteIs DEF RemoveRow

\* A finite set can be listed.
LEMMA ListOf ==
  ASSUME NEW S, IsFiniteSet(S)
  PROVE  SetToSeq(S) \in [1..Cardinality(S) -> S] /\ Cardinality(S) \in Nat
<1>1. ExistsBijection(1..Cardinality(S), S) /\ Cardinality(S) \in Nat
  BY FS_CardinalityType
<1>2. \E f \in [1..Cardinality(S) -> S] : IsInjective(f)
  BY <1>1 DEF ExistsBijection, Bijection, Injection, IsInjective
<1>. QED
  BY <1>1, <1>2 DEF SetToSeq

\* What an input of one step does: the files F are written, with their text in
\* the drafts or the word that it is not.
Outright(F) ==
  /\ drafts' \in Ledger
  /\ \A f \in F : /\ drafts'[f] \in Draft /\ drafts'[f].op \in {"edit", "write"}
                  /\ drafts'[f].stays /\ drafts'[f].to = NoPath
  /\ \A f \in Paths \ F : drafts'[f] = NoDraft
  /\ log' \in Seq(Entries) /\ (log' = <<>> => F = {})
  /\ \A i \in DOMAIN log' :
       /\ log'[i].op \in {"edit", "write"} /\ log'[i].path \in F
       /\ FullText(drafts'[log'[i].path]) \/ log'[i].rows \subseteq drafts'[log'[i].path].added
  /\ clean' \in BOOLEAN /\ DOMAIN disk' \subseteq Paths
  /\ clean' => /\ clean
               /\ \A f \in F : /\ f \in DOMAIN disk'
                               /\ FullText(drafts'[f]) \/ disk'[f] \subseteq drafts'[f].added
               /\ \A f \in Paths \ F : /\ f \in DOMAIN disk' <=> f \in Existing
                                       /\ f \in Existing => disk'[f] = Original[f]

\* Every form of one step writes its files outright.
LEMMA DirectEffect ==
  ASSUME PayloadTyped, Opened, Mirrored, Direct
  PROVE  \E F \in SUBSET Paths : Outright(F)
<1>1. /\ log = <<>> /\ drafts \in Ledger /\ \A f \in Paths : drafts[f] = NoDraft
      /\ clean \in BOOLEAN /\ DOMAIN disk \subseteq Paths
  BY DEF Direct, PayloadTyped, Ledger, Opened
<1>2. clean => \A f \in Paths : /\ f \in DOMAIN disk <=> f \in Existing
                                /\ f \in Existing => disk[f] = Original[f]
  BY <1>1 DEF Mirrored, Mirror, There
<1>3. ASSUME NEW f \in Paths, NEW can \in BOOLEAN, NEW n \in Draft, NEW op \in {"edit", "write"},
             n.op = op, n.stays, n.to = NoPath, FullText(n) \/ n.added = {<<f, 1>>},
             drafts' = [drafts EXCEPT ![f] = n],
             Applied(can, Put(f, {<<f, 1>>})), Logged(Entry(op, f, NoPath, {<<f, 1>>}))
      PROVE  Outright({f})
  <2> DEFINE e == Entry(op, f, NoPath, {<<f, 1>>})
  <2>1. e \in Entries /\ e.op = op /\ e.path = f /\ e.rows = {<<f, 1>>}
    BY DEF Entry, Entries, Rows
  <2>2. log' = <<e>>
    BY <1>1, <1>3 DEF Logged
  <2>. HIDE DEF e
  <2>3. drafts' \in Ledger /\ drafts'[f] = n /\ \A g \in Paths \ {f} : drafts'[g] = NoDraft
    BY <1>1, <1>3 DEF Ledger
  <2>4. log' \in Seq(Entries) /\ DOMAIN log' = {1} /\ log'[1] = e /\ log' # <<>>
    BY <2>1, <2>2
  <2>5. /\ clean' \in BOOLEAN /\ (clean' => clean) /\ DOMAIN disk' \subseteq Paths
        /\ clean' => disk' = Put(f, {<<f, 1>>})
    BY <1>1, <1>3 DEF Applied, Put
  <2>6. clean' => /\ DOMAIN disk' = DOMAIN disk \cup {f} /\ disk'[f] = {<<f, 1>>}
                  /\ \A g \in DOMAIN disk \ {f} : disk'[g] = disk[g]
    BY <2>5 DEF Put
  <2>7. clean' => /\ f \in DOMAIN disk' /\ (FullText(n) \/ disk'[f] \subseteq n.added)
                  /\ \A g \in Paths \ {f} : /\ g \in DOMAIN disk' <=> g \in Existing
                                            /\ g \in Existing => disk'[g] = Original[g]
    BY <1>2, <1>3, <2>5, <2>6
  <2>. QED
    BY <1>3, <2>1, <2>3, <2>4, <2>5, <2>7 DEF Outright
<1>4. CASE \E f \in Paths :
             /\ drafts' = [drafts EXCEPT ![f] = [NewDraft EXCEPT !.op = "write", !.content = TRUE]]
             /\ Applied(TRUE, Put(f, {<<f, 1>>}))
             /\ Logged(Entry("write", f, NoPath, {<<f, 1>>}))
  <2>1. PICK f \in Paths :
             /\ drafts' = [drafts EXCEPT ![f] = [NewDraft EXCEPT !.op = "write", !.content = TRUE]]
             /\ Applied(TRUE, Put(f, {<<f, 1>>}))
             /\ Logged(Entry("write", f, NoPath, {<<f, 1>>}))
    BY <1>4
  <2> DEFINE n == [NewDraft EXCEPT !.op = "write", !.content = TRUE]
  <2>2. n \in Draft /\ n.op = "write" /\ n.stays /\ n.to = NoPath /\ FullText(n)
    BY DraftFacts DEF NewDraft, Draft, Rows, FullText
  <2>3. drafts' = [drafts EXCEPT ![f] = n]
    BY <2>1
  <2>. HIDE DEF n
  <2>. QED
    BY <1>3, <2>1, <2>2, <2>3
<1>5. CASE \E f \in Paths :
             /\ drafts' = [drafts EXCEPT ![f] = [NewDraft EXCEPT !.added = {<<f, 1>>}]]
             /\ Applied(There(f), Put(f, {<<f, 1>>}))
             /\ Logged(Entry("edit", f, NoPath, {<<f, 1>>}))
  <2>1. PICK f \in Paths :
             /\ drafts' = [drafts EXCEPT ![f] = [NewDraft EXCEPT !.added = {<<f, 1>>}]]
             /\ Applied(There(f), Put(f, {<<f, 1>>}))
             /\ Logged(Entry("edit", f, NoPath, {<<f, 1>>}))
    BY <1>5
  <2> DEFINE n == [NewDraft EXCEPT !.added = {<<f, 1>>}]
  <2>2. n \in Draft /\ n.op = "edit" /\ n.stays /\ n.to = NoPath /\ n.added = {<<f, 1>>}
    <3>1. {<<f, 1>>} \in Rows
      BY DEF Rows
    <3>. QED
      BY <3>1, DraftFacts DEF NewDraft, Draft
  <2>3. drafts' = [drafts EXCEPT ![f] = n]
    BY <2>1
  <2>4. There(f) \in BOOLEAN
    BY DEF There
  <2>. HIDE DEF n
  <2>. QED
    BY <1>3, <2>1, <2>2, <2>3, <2>4
<1>6. CASE \E fs \in (SUBSET Existing) \ {{}} :
             /\ drafts' = [f \in Paths |->
                  IF f \in fs THEN [NewDraft EXCEPT !.ambiguous = TRUE] ELSE NoDraft]
             /\ Applied(TRUE, [f \in Existing |-> IF f \in fs THEN {<<f, 1>>} ELSE disk[f]])
             /\ log' = SetToSeq({Entry("edit", f, NoPath, {<<f, 1>>}) : f \in fs})
  <2>1. PICK fs \in (SUBSET Existing) \ {{}} :
             /\ drafts' = [f \in Paths |->
                  IF f \in fs THEN [NewDraft EXCEPT !.ambiguous = TRUE] ELSE NoDraft]
             /\ Applied(TRUE, [f \in Existing |-> IF f \in fs THEN {<<f, 1>>} ELSE disk[f]])
             /\ log' = SetToSeq({Entry("edit", f, NoPath, {<<f, 1>>}) : f \in fs})
    BY <1>6
  <2> DEFINE n == [NewDraft EXCEPT !.ambiguous = TRUE]
             S == {Entry("edit", f, NoPath, {<<f, 1>>}) : f \in fs}
  <2>2. n \in Draft /\ n.op = "edit" /\ n.stays /\ n.to = NoPath /\ FullText(n)
    BY DraftFacts DEF NewDraft, Draft, Rows, FullText
  <2>3. drafts' = [f \in Paths |-> IF f \in fs THEN n ELSE NoDraft] /\ fs \subseteq Paths
    BY <2>1, PathsAssumption
  <2>4. IsFiniteSet(S)
    <3>1. IsFiniteSet(fs)
      BY <2>1, PathsAssumption, FS_Subset
    <3> DEFINE m == [f \in fs |-> Entry("edit", f, NoPath, {<<f, 1>>})]
    <3>2. m \in Surjection(fs, S)
      BY DEF Surjection
    <3>. QED
      BY <3>1, <3>2, FS_Surjection
  <2>5. /\ S \subseteq Entries
        /\ \A e \in S : e.op = "edit" /\ e.path \in fs
    BY <2>3 DEF Entry, Entries, Rows
  <2>6. S # {}
    <3>1. PICK f \in fs : TRUE
      BY <2>1
    <3>2. Entry("edit", f, NoPath, {<<f, 1>>}) \in S
      BY <3>1
    <3>. QED
      BY <3>2
  <2>7. log' = SetToSeq(S)
    BY <2>1
  <2>. HIDE DEF S, n
  <2>8. log' \in [1..Cardinality(S) -> S] /\ Cardinality(S) \in Nat
    BY <2>4, <2>7, ListOf
  <2>9. log' \in Seq(Entries) /\ \A i \in DOMAIN log' : log'[i] \in S
    BY <2>5, <2>8
  <2>10. log' # <<>>
    <3>1. Cardinality(S) # 0
      BY <2>4, <2>6, FS_EmptySet
    <3>. QED
      BY <2>8, <3>1
  <2>11. /\ drafts' \in Ledger /\ \A f \in fs : drafts'[f] = n
         /\ \A f \in Paths \ fs : drafts'[f] = NoDraft
    BY <2>2, <2>3 DEF Ledger
  <2>12. /\ clean' = clean
         /\ clean => disk' = [f \in Existing |-> IF f \in fs THEN {<<f, 1>>} ELSE disk[f]]
         /\ ~clean => disk' = disk
    BY <1>1, <2>1 DEF Applied
  <2>13. clean => /\ DOMAIN disk' = Existing
                  /\ \A f \in Existing \ fs : disk'[f] = Original[f]
    BY <1>2, <2>12, PathsAssumption
  <2>14. DOMAIN disk' \subseteq Paths
    BY <1>1, <2>12, <2>13, PathsAssumption
  <2>15. fs \subseteq Existing
    BY <2>1
  <2>16. Outright(fs)
    BY <1>1, <2>2, <2>3, <2>5, <2>9, <2>10, <2>11, <2>12, <2>13, <2>14, <2>15 DEF Outright
  <2>. QED
    BY <2>3, <2>16
<1>. QED
  BY <1>4, <1>5, <1>6 DEF Direct

\* The entries that an action makes, and what it makes of the last one.
LEMMA EntryIs ==
  ASSUME NEW op \in {"edit", "write", "delete", "move"}, NEW f \in Paths,
         NEW g \in Paths \cup {NoPath}
  PROVE  LET e == Entry(op, f, g, {})
         IN  e \in Entries /\ e.op = op /\ e.path = f /\ e.to = g /\ e.rows = {}
BY DEF Entry, Entries, Rows

\* An entry with another row, or with one row alone, is still that of its file.
LEMMA EntryAmended ==
  ASSUME NEW e \in Entries, NEW x \in Paths \X Nat
  PROVE  /\ [e EXCEPT !.rows = @ \cup {x}] \in Entries
         /\ [e EXCEPT !.rows = @ \cup {x}].path = e.path
         /\ [e EXCEPT !.op = "write", !.rows = {x}] \in Entries
         /\ [e EXCEPT !.op = "write", !.rows = {x}].path = e.path
<1>1. {x} \in Rows /\ e.rows \cup {x} \in Rows
  BY DEF Entries, Rows
<1>. QED
  BY <1>1 DEF Entries

\* A row is applied or not, and the disk has none but named files.
LEMMA AppliedTyped ==
  ASSUME PayloadTyped, NEW can, NEW result, Applied(can, result),
         can => DOMAIN result \subseteq Paths
  PROVE  DOMAIN disk' \subseteq Paths /\ clean' \in BOOLEAN /\ (clean' => clean /\ can)
         /\ (clean' => disk' = result)
BY DEF PayloadTyped, Applied

\* No row makes a value of another kind, and a section stays open.
LEMMA TypedStep ==
  ASSUME PayloadTyped, Opened, Mirrored, [PayloadNext]_payloadVars
  PROVE  PayloadTyped' /\ Opened'
<1>0. /\ drafts \in Ledger /\ log \in Seq(Entries) /\ steps \in Nat /\ DOMAIN disk \subseteq Paths
      /\ plain \in BOOLEAN /\ unknown \in BOOLEAN
  BY DEF PayloadTyped, Ledger
<1>1. CASE Direct
  <2>1. PICK F \in SUBSET Paths : Outright(F)
    BY <1>1, DirectEffect
  <2>2. UNCHANGED <<form, reading, current, unknown, steps, plain>>
    BY <1>1 DEF Direct, Kept
  <2>3. form = "direct" /\ current \notin Paths
    BY <1>1 DEF Direct, Opened
  <2>4. PayloadTyped'
    BY <2>1, <2>2 DEF PayloadTyped, Outright, Ledger
  <2>5. Opened'
    BY <2>1, <2>2, <2>3 DEF Opened, Outright
  <2>. QED
    BY <2>4, <2>5
<1>2. CASE OpenSection
  <2>1. PICK f \in Paths, op \in {"edit", "write", "delete"} :
           LET d == IF drafts[f] = NoDraft THEN NewDraft ELSE drafts[f] IN
           /\ current' = f
           /\ drafts' \in Ledger /\ drafts'[f] \in Draft
           /\ \A g \in Paths \ {f} : drafts'[g] = drafts[g]
           /\ d \in Draft
           /\ op = "edit" => drafts'[f] = d
           /\ op = "write" => /\ drafts'[f].op = "write" /\ drafts'[f].stays = d.stays
                              /\ drafts'[f].added = d.added /\ drafts'[f].to = d.to
                              /\ FullText(drafts'[f]) <=> FullText(d)
           /\ op = "delete" => /\ drafts'[f].op = "delete" /\ ~drafts'[f].stays
                               /\ drafts'[f].to = NoPath
           /\ Applied(op = "write" \/ There(f),
                      CASE op = "edit" -> disk
                        [] op = "write" -> Put(f, {})
                        [] op = "delete" -> Without(f))
           /\ Plainly(drafts[f] = NoDraft \/ (op = "edit" /\ drafts[f].op = "edit"))
           /\ Logged(Entry(op, f, NoPath, {}))
    BY <1>2, OpenEffect
  <2>2. /\ UNCHANGED <<form, reading, unknown>> /\ steps' \in Nat /\ form = "patch"
    BY <1>0, <1>2 DEF OpenSection, Row, Kept
  <2>3. Entry(op, f, NoPath, {}) \in Entries
    BY EntryIs
  <2>4. log' \in Seq(Entries) /\ log' # <<>>
    BY <1>0, <2>1, <2>3, LogAppended DEF Logged
  <2>5. plain' \in BOOLEAN
    BY <2>1 DEF Plainly
  <2>6. clean' \in BOOLEAN /\ DOMAIN disk' \subseteq Paths
    <3> DEFINE result == CASE op = "edit" -> disk
                           [] op = "write" -> Put(f, {})
                           [] op = "delete" -> Without(f)
    <3>1. DOMAIN result \subseteq Paths
      BY <1>0 DEF Put, Without
    <3>. QED
      BY <2>1, <3>1, AppliedTyped
  <2>7. PayloadTyped'
    BY <2>1, <2>2, <2>4, <2>5, <2>6 DEF PayloadTyped, Ledger
  <2>8. drafts'[f].to # NoPath => drafts[f] # NoDraft /\ drafts'[f].to = drafts[f].to
    BY <2>1, DraftFacts
  <2>9. \A g \in Paths : drafts[g] # NoDraft => drafts'[g] # NoDraft
    BY <2>1, DraftFacts
  <2>10. ASSUME NEW g \in Paths, drafts'[g] # NoDraft, drafts'[g].to # NoPath
         PROVE  drafts'[drafts'[g].to] # NoDraft
    <3>1. drafts[g] # NoDraft /\ drafts'[g].to = drafts[g].to
      BY <2>1, <2>8, <2>10
    <3>2. drafts[g].to \in Paths
      BY <1>0, <2>10, <3>1 DEF Ledger, Draft
    <3>. QED
      BY <2>9, <2>10, <3>1, <3>2 DEF Opened
  <2>11. Opened'
    BY <2>1, <2>2, <2>4, <2>10, DraftFacts DEF Opened
  <2>. QED
    BY <2>7, <2>11
<1>3. CASE EarlyRow
  <2>1. /\ UNCHANGED <<form, reading, drafts, current, ghost>> /\ steps' \in Nat
        /\ unknown' \in BOOLEAN
    BY <1>0, <1>3 DEF EarlyRow, Row, Kept
  <2>. QED
    BY <2>1 DEF PayloadTyped, Opened, ghost
<1>4. CASE TextRow
  <2> DEFINE h == Here
             row == <<h, steps'>>
             d == drafts[h]
             e == [Last(log) EXCEPT !.rows = @ \cup {row}]
  <2>1. /\ current \in Paths /\ h \in Paths /\ d \in Draft
        /\ drafts' \in Ledger /\ drafts'[h] \in Draft
        /\ \A g \in Paths \ {h} : drafts'[g] = drafts[g]
        /\ drafts'[h].op = d.op /\ drafts'[h].stays = d.stays /\ drafts'[h].to = d.to
    BY <1>4, TextEffect
  <2>2. /\ UNCHANGED <<form, reading, unknown, current, plain>> /\ steps' \in Nat
    BY <1>0, <1>4 DEF TextRow, SectionRow, Row, Kept
  <2>3. log # <<>> /\ row \in Paths \X Nat
    BY <2>1, <2>2 DEF Opened
  <2>4. Last(log) \in Entries /\ log[Len(log)] = Last(log) /\ Len(log) \in DOMAIN log
    BY <1>0, <2>3, LastIs
  <2>5. e \in Entries /\ e.path = Last(log).path
    <3>. HIDE DEF row
    <3>. QED
      BY <2>3, <2>4, EntryAmended
  <2>6. log' = [log EXCEPT ![Len(log)] = e]
    BY <1>4 DEF TextRow, Amended
  <2>7. log' \in Seq(Entries) /\ log' # <<>> /\ Len(log') = Len(log) /\ Last(log') = e
    <3>. HIDE DEF e
    <3>. QED
      BY <1>0, <2>3, <2>5, <2>6, LogAmended
  <2>8. clean' \in BOOLEAN /\ DOMAIN disk' \subseteq Paths
    <3> DEFINE result == IF There(h) THEN Put(h, disk[h] \cup {row}) ELSE disk
    <3>1. DOMAIN result \subseteq Paths
      BY <1>0, <2>1 DEF Put
    <3>2. Applied(There(h), result)
      BY <1>4 DEF TextRow
    <3>. QED
      BY <3>1, <3>2, AppliedTyped
  <2>. HIDE DEF e, h
  <2>9. PayloadTyped'
    BY <1>0, <2>1, <2>2, <2>7, <2>8 DEF PayloadTyped, Ledger
  <2>10. \A g \in Paths : /\ drafts'[g] # NoDraft <=> drafts[g] # NoDraft
                          /\ drafts[g] # NoDraft => /\ drafts'[g].to = drafts[g].to
                                                    /\ drafts'[g].op = drafts[g].op
                                                    /\ drafts'[g].stays = drafts[g].stays
    BY <2>1, DraftFacts
  <2>11. \A g \in Paths : drafts'[g] # NoDraft /\ drafts'[g].to # NoPath =>
                             drafts'[drafts'[g].to] # NoDraft
    BY <1>0, <2>10 DEF Opened, Ledger, Draft
  <2>12. form = "edits" => Len(log') = 1 /\ log'[1].path = current
    BY <2>4, <2>5, <2>7 DEF Opened, Last
  <2>13. Opened'
    BY <2>1, <2>2, <2>7, <2>10, <2>11, <2>12, DraftFacts DEF Opened
  <2>. QED
    BY <2>9, <2>13
<1>5. CASE MoveTo
  <2>1. PICK g \in Paths :
           LET d == IF drafts[g] = NoDraft THEN NewDraft ELSE drafts[g] IN
           /\ current \in Paths /\ d \in Draft
           /\ drafts' \in Ledger /\ drafts'[current] \in Draft /\ drafts'[g] \in Draft
           /\ drafts'[current].op = "move" /\ drafts'[current].to = g
           /\ drafts'[current].pair = <<current, g>>
           /\ drafts'[g].op = "move" /\ drafts'[g].stays /\ drafts'[g].ambiguous
           /\ drafts'[g].pair = <<current, g>>
           /\ current # g => ~drafts'[current].stays /\ drafts'[g].to = d.to
           /\ \A h \in Paths \ {current, g} : drafts'[h] = drafts[h]
           /\ current' = IF form = "patch" THEN g ELSE current
           /\ Applied(There(Here) /\ Certain,
                      IF There(Here) THEN Moved(Here, g) ELSE disk)
           /\ Plainly(drafts[g] = NoDraft /\ drafts[current].op \in {"edit", "write"})
           /\ IF form = "edits" \/ Last(log).op = "edit"
              THEN Amended([Last(log) EXCEPT !.op = "move", !.to = g])
              ELSE Logged(Entry("move", current, g, {}))
    BY <1>5, MoveEffect
  <2>2. UNCHANGED <<form, reading, unknown>> /\ steps' \in Nat
    BY <1>0, <1>5 DEF MoveTo, SectionRow, Row, Kept
  <2>3. log # <<>> /\ form # "direct"
    BY <2>1 DEF Opened
  <2>4. Last(log) \in Entries /\ log[Len(log)] = Last(log) /\ Len(log) \in DOMAIN log
    BY <1>0, <2>3, LastIs
  <2> DEFINE e == [Last(log) EXCEPT !.op = "move", !.to = g]
             n == Entry("move", current, g, {})
  <2>5. e \in Entries /\ e.path = Last(log).path /\ n \in Entries
    <3>1. e \in Entries /\ e.path = Last(log).path
      BY <2>1, <2>4 DEF Entries
    <3>2. n \in Entries
      BY <2>1, EntryIs
    <3>. QED
      BY <3>1, <3>2
  <2>6. \/ log' = [log EXCEPT ![Len(log)] = e]
        \/ form # "edits" /\ log' = Append(log, n)
    BY <2>1 DEF Amended, Logged
  <2>. HIDE DEF e, n
  <2>7. /\ log' \in Seq(Entries) /\ log' # <<>>
        /\ form = "edits" => Len(log') = Len(log) /\ Last(log') = e
    BY <1>0, <2>3, <2>5, <2>6, LogAmended, LogAppended
  <2>8. Here \in Paths
    BY <2>1, HereIs
  <2>9. clean' \in BOOLEAN /\ DOMAIN disk' \subseteq Paths
    <3> DEFINE result == IF There(Here) THEN Moved(Here, g) ELSE disk
    <3>1. DOMAIN result \subseteq Paths
      BY <1>0, <2>1, <2>8 DEF Moved
    <3>2. Applied(There(Here) /\ Certain, result)
      BY <2>1
    <3>. QED
      BY <3>1, <3>2, AppliedTyped
  <2>10. plain' \in BOOLEAN
    BY <2>1 DEF Plainly
  <2>11. PayloadTyped'
    BY <1>0, <2>1, <2>2, <2>7, <2>9, <2>10 DEF PayloadTyped, Ledger
  <2>12. \A h \in Paths : drafts[h] # NoDraft => drafts'[h] # NoDraft
    BY <2>1, DraftFacts
  <2>13. ASSUME NEW h \in Paths, drafts'[h] # NoDraft, drafts'[h].to # NoPath
         PROVE  drafts'[drafts'[h].to] # NoDraft
    <3>1. CASE h = current
      BY <2>1, <3>1, DraftFacts
    <3>2. CASE h # current
      <4>1. drafts[h] # NoDraft /\ drafts'[h].to = drafts[h].to
        BY <2>1, <2>13, <3>2, DraftFacts
      <4>2. drafts[h].to \in Paths
        BY <1>0, <2>13, <4>1 DEF Ledger, Draft
      <4>. QED
        BY <2>12, <2>13, <4>1, <4>2 DEF Opened
    <3>. QED
      BY <3>1, <3>2
  <2>14. form = "edits" => Len(log') = 1 /\ log'[1].path = current
    BY <2>4, <2>5, <2>7 DEF Opened, Last
  <2>15. Opened'
    <3>1. drafts'[current'] # NoDraft /\ current' \in Paths
      BY <2>1, DraftFacts
    <3>2. form = "edits" => /\ drafts'[current].to \in Paths
                            /\ drafts'[current].stays => drafts'[current].to = current
      BY <2>1
    <3>. QED
      BY <2>1, <2>2, <2>3, <2>7, <2>13, <2>14, <3>1, <3>2 DEF Opened
  <2>. QED
    BY <2>11, <2>15
<1>6. CASE RemoveRow
  <2>1. /\ current \in Paths
        /\ drafts' \in Ledger /\ drafts'[current] \in Draft
        /\ drafts'[current].op = "delete" /\ ~drafts'[current].stays
        /\ drafts'[current].to = NoPath
        /\ \A g \in Paths \ {current} : drafts'[g] = drafts[g]
    BY <1>6, RemoveEffect
  <2>2. UNCHANGED <<form, reading, unknown, current>> /\ steps' \in Nat
    BY <1>0, <1>6 DEF RemoveRow, SectionRow, Row, Kept
  <2>3. log # <<>> /\ form # "direct"
    BY <2>1 DEF Opened
  <2>4. Last(log) \in Entries /\ log[Len(log)] = Last(log) /\ Len(log) \in DOMAIN log
    BY <1>0, <2>3, LastIs
  <2> DEFINE e == [Last(log) EXCEPT !.op = "delete"]
             n == Entry("delete", current, NoPath, {})
  <2>5. e \in Entries /\ e.path = Last(log).path /\ n \in Entries
    <3>1. e \in Entries /\ e.path = Last(log).path
      BY <2>1, <2>4 DEF Entries
    <3>2. n \in Entries
      BY <2>1, EntryIs
    <3>. QED
      BY <3>1, <3>2
  <2>6. \/ log' = [log EXCEPT ![Len(log)] = e]
        \/ form # "edits" /\ log' = Append(log, n)
    BY <1>6 DEF RemoveRow, Amended, Logged
  <2>. HIDE DEF e, n
  <2>7. /\ log' \in Seq(Entries) /\ log' # <<>>
        /\ form = "edits" => Len(log') = Len(log) /\ Last(log') = e
    BY <1>0, <2>3, <2>5, <2>6, LogAmended, LogAppended
  <2>8. clean' \in BOOLEAN /\ DOMAIN disk' \subseteq Paths
    <3>1. DOMAIN Without(Here) \subseteq Paths
      BY <1>0 DEF Without
    <3>2. Applied(There(Here) /\ Certain, Without(Here))
      BY <1>6 DEF RemoveRow
    <3>. QED
      BY <3>1, <3>2, AppliedTyped
  <2>9. plain' \in BOOLEAN
    BY <1>6 DEF RemoveRow, Plainly
  <2>10. PayloadTyped'
    BY <1>0, <2>1, <2>2, <2>7, <2>8, <2>9 DEF PayloadTyped, Ledger
  <2>11. \A h \in Paths : drafts[h] # NoDraft => drafts'[h] # NoDraft
    BY <2>1, DraftFacts
  <2>12. ASSUME NEW h \in Paths, drafts'[h] # NoDraft, drafts'[h].to # NoPath
         PROVE  drafts'[drafts'[h].to] # NoDraft
    <3>1. h # current /\ drafts'[h] = drafts[h]
      BY <2>1, <2>12
    <3>2. drafts[h].to \in Paths
      BY <1>0, <2>12, <3>1 DEF Ledger, Draft
    <3>. QED
      BY <2>11, <2>12, <3>1, <3>2 DEF Opened
  <2>13. form = "edits" => Len(log') = 1 /\ log'[1].path = current
    BY <2>4, <2>5, <2>7 DEF Opened, Last
  <2>14. Opened'
    BY <2>1, <2>2, <2>3, <2>7, <2>12, <2>13, DraftFacts DEF Opened
  <2>. QED
    BY <2>10, <2>14
<1>7. CASE CreateEntry
  <2> DEFINE h == Here
             row == <<h, steps'>>
             e == [Last(log) EXCEPT !.op = "write", !.rows = {row}]
  <2>1. /\ current \in Paths /\ h \in Paths /\ drafts[h] \in Draft
        /\ drafts' \in Ledger /\ drafts'[h] \in Draft
        /\ \A g \in Paths \ {h} : drafts'[g] = drafts[g]
        /\ drafts'[h].op = "write" /\ drafts'[h].to = drafts[h].to
    BY <1>7, CreateEffect
  <2>2. /\ UNCHANGED <<form, reading, unknown, current>> /\ steps' \in Nat
    BY <1>0, <1>7 DEF CreateEntry, SectionRow, Row, Kept
  <2>3. log # <<>> /\ form # "direct" /\ row \in Paths \X Nat
    BY <2>1, <2>2 DEF Opened
  <2>4. Last(log) \in Entries /\ log[Len(log)] = Last(log) /\ Len(log) \in DOMAIN log
    BY <1>0, <2>3, LastIs
  <2>5. e \in Entries /\ e.path = Last(log).path
    <3>. HIDE DEF row
    <3>. QED
      BY <2>3, <2>4, EntryAmended
  <2>6. log' = [log EXCEPT ![Len(log)] = e]
    BY <1>7 DEF CreateEntry, Amended
  <2>7. log' \in Seq(Entries) /\ log' # <<>> /\ Len(log') = Len(log) /\ Last(log') = e
    <3>. HIDE DEF e
    <3>. QED
      BY <1>0, <2>3, <2>5, <2>6, LogAmended
  <2>8. clean' \in BOOLEAN /\ DOMAIN disk' \subseteq Paths
    <3>1. DOMAIN Put(h, {row}) \subseteq Paths
      BY <1>0, <2>1 DEF Put
    <3>2. Applied(TRUE, Put(h, {row}))
      BY <1>7 DEF CreateEntry
    <3>. QED
      BY <3>1, <3>2, AppliedTyped
  <2>9. plain' \in BOOLEAN
    BY <1>7 DEF CreateEntry, Plainly
  <2>. HIDE DEF e, h
  <2>10. PayloadTyped'
    BY <1>0, <2>1, <2>2, <2>7, <2>8, <2>9 DEF PayloadTyped, Ledger
  <2>11. \A g \in Paths : /\ drafts'[g] # NoDraft <=> drafts[g] # NoDraft
                          /\ drafts[g] # NoDraft => drafts'[g].to = drafts[g].to
    BY <2>1, DraftFacts
  <2>12. \A g \in Paths : drafts'[g] # NoDraft /\ drafts'[g].to # NoPath =>
                             drafts'[drafts'[g].to] # NoDraft
    BY <1>0, <2>11 DEF Opened, Ledger, Draft
  <2>13. form = "edits" => Len(log') = 1 /\ log'[1].path = current
    BY <2>4, <2>5, <2>7 DEF Opened, Last
  <2>14. drafts'[current].op = "move" => drafts'[current] = drafts[current]
    BY <2>1
  <2>15. Opened'
    BY <2>1, <2>2, <2>3, <2>7, <2>11, <2>12, <2>13, <2>14 DEF Opened
  <2>. QED
    BY <2>10, <2>15
<1>8. CASE Send
  <2>1. UNCHANGED <<form, drafts, current, unknown, steps, ghost>>
        /\ reading' \in {"refused", "sent"}
    BY <1>8 DEF Send
  <2>. QED
    BY <2>1 DEF PayloadTyped, Opened, ghost
<1>9. CASE Report
  <2>1. UNCHANGED <<form, drafts, current, unknown, steps, ghost>>
        /\ reading' \in {"reported", "unverified"}
    BY <1>9 DEF Report
  <2>. QED
    BY <2>1 DEF PayloadTyped, Opened, ghost
<1>10. CASE UNCHANGED payloadVars
  BY <1>10 DEF PayloadTyped, Opened, payloadVars, ghost
<1>. QED
  BY <1>1, <1>2, <1>3, <1>4, <1>5, <1>6, <1>7, <1>8, <1>9, <1>10 DEF PayloadNext

\* The drafts mirror the disk after every row the tool can apply.
LEMMA MirroredStep ==
  ASSUME PayloadTyped, Opened, Mirrored, [PayloadNext]_payloadVars
  PROVE  Mirrored'
<1>0. drafts \in Ledger /\ DOMAIN disk \subseteq Paths
  BY DEF PayloadTyped, Ledger
<1>1. CASE Direct
  <2>1. PICK F \in SUBSET Paths : Outright(F)
    BY <1>1, DirectEffect
  <2>. QED
    BY <2>1, DraftFacts DEF Mirrored, Mirror, There, Outright
<1>2. CASE OpenSection
  <2>1. PICK f \in Paths, op \in {"edit", "write", "delete"} :
           LET d == IF drafts[f] = NoDraft THEN NewDraft ELSE drafts[f] IN
           /\ current' = f
           /\ drafts' \in Ledger /\ drafts'[f] \in Draft
           /\ \A g \in Paths \ {f} : drafts'[g] = drafts[g]
           /\ d \in Draft
           /\ op = "edit" => drafts'[f] = d
           /\ op = "write" => /\ drafts'[f].op = "write" /\ drafts'[f].stays = d.stays
                              /\ drafts'[f].added = d.added /\ drafts'[f].to = d.to
                              /\ FullText(drafts'[f]) <=> FullText(d)
           /\ op = "delete" => /\ drafts'[f].op = "delete" /\ ~drafts'[f].stays
                               /\ drafts'[f].to = NoPath
           /\ Applied(op = "write" \/ There(f),
                      CASE op = "edit" -> disk
                        [] op = "write" -> Put(f, {})
                        [] op = "delete" -> Without(f))
           /\ Plainly(drafts[f] = NoDraft \/ (op = "edit" /\ drafts[f].op = "edit"))
           /\ Logged(Entry(op, f, NoPath, {}))
    BY <1>2, OpenEffect
  <2> SUFFICES ASSUME clean', NEW g \in Paths
               PROVE  Mirror(g)'
    BY DEF Mirrored
  <2>2. /\ clean /\ (op = "write" \/ There(f))
        /\ op = "edit" => disk' = disk
        /\ op = "write" => disk' = Put(f, {})
        /\ op = "delete" => disk' = Without(f)
    BY <2>1 DEF Applied
  <2>3. Mirror(g) /\ Mirror(f)
    BY <2>2 DEF Mirrored
  <2>4. drafts'[f] # NoDraft
    BY <2>1, DraftFacts
  <2>5. CASE g = f /\ op = "edit"
    <3>1. CASE drafts[f] = NoDraft
      BY <2>1, <2>2, <2>3, <2>4, <2>5, <3>1, DraftFacts DEF Mirror, There
    <3>2. CASE drafts[f] # NoDraft
      BY <2>1, <2>2, <2>3, <2>4, <2>5, <3>2, DraftFacts DEF Mirror, There
    <3>. QED
      BY <3>1, <3>2
  <2>6. CASE g = f /\ op = "write"
    <3>1. f \in DOMAIN disk' /\ disk'[f] = {}
      BY <2>2, <2>6 DEF Put
    <3>. QED
      BY <2>1, <2>4, <2>6, <3>1 DEF Mirror, There
  <2>7. CASE g = f /\ op = "delete"
    <3>1. f \notin DOMAIN disk'
      BY <2>2, <2>7 DEF Without
    <3>. QED
      BY <2>1, <2>4, <2>7, <3>1 DEF Mirror, There
  <2>8. CASE g # f
    <3>1. /\ g \in DOMAIN disk' <=> g \in DOMAIN disk
          /\ g \in DOMAIN disk => disk'[g] = disk[g]
      BY <2>1, <2>2, <2>8 DEF Put, Without
    <3>2. drafts'[g] = drafts[g]
      BY <2>1, <2>8
    <3>. QED
      BY <2>3, <3>1, <3>2 DEF Mirror, There
  <2>. QED
    BY <2>1, <2>5, <2>6, <2>7, <2>8
<1>3. CASE EarlyRow
  BY <1>3 DEF EarlyRow, ghost, Mirrored, Mirror, There
<1>4. CASE TextRow
  <2> DEFINE h == Here
             row == <<h, steps'>>
  <2>1. /\ h \in Paths /\ drafts[h] \in Draft
        /\ drafts' \in Ledger /\ drafts'[h] \in Draft
        /\ \A g \in Paths \ {h} : drafts'[g] = drafts[g]
        /\ drafts'[h].op = drafts[h].op /\ drafts'[h].stays = drafts[h].stays
        /\ drafts[h].added \subseteq drafts'[h].added
        /\ FullText(drafts[h]) => FullText(drafts'[h])
        /\ row \in drafts'[h].added \/ FullText(drafts'[h])
    BY <1>4, TextEffect
  <2> SUFFICES ASSUME clean', NEW g \in Paths
               PROVE  Mirror(g)'
    BY DEF Mirrored
  <2>2. clean /\ There(h) /\ disk' = Put(h, disk[h] \cup {row})
    BY <1>4 DEF TextRow, Applied
  <2>. HIDE DEF h, row
  <2>3. Mirror(g) /\ Mirror(h)
    BY <2>1, <2>2 DEF Mirrored
  <2>4. drafts'[h] # NoDraft /\ drafts[h] # NoDraft
    BY <2>1, DraftFacts
  <2>5. CASE g = h
    <3>1. h \in DOMAIN disk /\ h \in DOMAIN disk' /\ disk'[h] = disk[h] \cup {row}
      BY <2>2 DEF Put, There
    <3>. QED
      BY <2>1, <2>3, <2>4, <2>5, <3>1 DEF Mirror, There
  <2>6. CASE g # h
    <3>1. /\ g \in DOMAIN disk' <=> g \in DOMAIN disk
          /\ g \in DOMAIN disk => disk'[g] = disk[g]
      BY <2>2, <2>6 DEF Put
    <3>2. drafts'[g] = drafts[g]
      BY <2>1, <2>6
    <3>. QED
      BY <2>3, <3>1, <3>2 DEF Mirror, There
  <2>. QED
    BY <2>5, <2>6
<1>5. CASE MoveTo
  <2>1. PICK g \in Paths :
           LET d == IF drafts[g] = NoDraft THEN NewDraft ELSE drafts[g] IN
           /\ current \in Paths /\ d \in Draft
           /\ drafts' \in Ledger /\ drafts'[current] \in Draft /\ drafts'[g] \in Draft
           /\ drafts'[current].op = "move" /\ drafts'[current].to = g
           /\ drafts'[current].pair = <<current, g>>
           /\ drafts'[g].op = "move" /\ drafts'[g].stays /\ drafts'[g].ambiguous
           /\ drafts'[g].pair = <<current, g>>
           /\ current # g => ~drafts'[current].stays /\ drafts'[g].to = d.to
           /\ \A h \in Paths \ {current, g} : drafts'[h] = drafts[h]
           /\ current' = IF form = "patch" THEN g ELSE current
           /\ Applied(There(Here) /\ Certain,
                      IF There(Here) THEN Moved(Here, g) ELSE disk)
           /\ Plainly(drafts[g] = NoDraft /\ drafts[current].op \in {"edit", "write"})
           /\ IF form = "edits" \/ Last(log).op = "edit"
              THEN Amended([Last(log) EXCEPT !.op = "move", !.to = g])
              ELSE Logged(Entry("move", current, g, {}))
    BY <1>5, MoveEffect
  <2> SUFFICES ASSUME clean', NEW f \in Paths
               PROVE  Mirror(f)'
    BY DEF Mirrored
  <2>2. clean /\ There(Here) /\ Certain /\ disk' = Moved(Here, g)
    BY <2>1 DEF Applied
  <2>3. Here = current
    BY <2>2 DEF Certain, Here
  <2>4. /\ DOMAIN disk' = (DOMAIN disk \ {current}) \cup {g}
        /\ \A h \in DOMAIN disk \ {current, g} : disk'[h] = disk[h]
    BY <2>2, <2>3 DEF Moved
  <2>5. CASE f = g
    BY <2>1, <2>4, <2>5, DraftFacts DEF Mirror, There, FullText
  <2>6. CASE f = current /\ f # g
    <3>1. f \notin DOMAIN disk' /\ ~drafts'[f].stays /\ drafts'[f] # NoDraft
      BY <2>1, <2>4, <2>6, DraftFacts
    <3>. QED
      BY <3>1 DEF Mirror, There
  <2>7. CASE f \notin {current, g}
    <3>1. /\ f \in DOMAIN disk' <=> f \in DOMAIN disk
          /\ f \in DOMAIN disk => disk'[f] = disk[f]
      BY <2>4, <2>7
    <3>2. drafts'[f] = drafts[f]
      BY <2>1, <2>7
    <3>3. Mirror(f)
      BY <2>2 DEF Mirrored
    <3>. QED
      BY <3>1, <3>2, <3>3 DEF Mirror, There
  <2>. QED
    BY <2>5, <2>6, <2>7
<1>6. CASE RemoveRow
  <2>1. /\ current \in Paths
        /\ drafts' \in Ledger /\ drafts'[current] \in Draft
        /\ drafts'[current].op = "delete" /\ ~drafts'[current].stays
        /\ \A g \in Paths \ {current} : drafts'[g] = drafts[g]
    BY <1>6, RemoveEffect
  <2> SUFFICES ASSUME clean', NEW f \in Paths
               PROVE  Mirror(f)'
    BY DEF Mirrored
  <2>2. clean /\ There(Here) /\ Certain /\ disk' = Without(Here)
    BY <1>6 DEF RemoveRow, Applied
  <2>3. Here = current
    BY <2>2 DEF Certain, Here
  <2>4. /\ DOMAIN disk' = DOMAIN disk \ {current}
        /\ \A h \in DOMAIN disk \ {current} : disk'[h] = disk[h]
    BY <2>2, <2>3 DEF Without
  <2>5. CASE f = current
    BY <2>1, <2>4, <2>5, DraftFacts DEF Mirror, There
  <2>6. CASE f # current
    <3>1. Mirror(f)
      BY <2>2 DEF Mirrored
    <3>. QED
      BY <2>1, <2>4, <2>6, <3>1 DEF Mirror, There
  <2>. QED
    BY <2>5, <2>6
<1>7. CASE CreateEntry
  <2> DEFINE h == Here
             row == <<h, steps'>>
  <2>1. /\ h \in Paths /\ drafts[h] \in Draft
        /\ drafts' \in Ledger /\ drafts'[h] \in Draft
        /\ \A g \in Paths \ {h} : drafts'[g] = drafts[g]
        /\ drafts'[h].op = "write" /\ drafts'[h].stays /\ FullText(drafts'[h])
    BY <1>7, CreateEffect
  <2> SUFFICES ASSUME clean', NEW g \in Paths
               PROVE  Mirror(g)'
    BY DEF Mirrored
  <2>2. clean /\ disk' = Put(h, {row})
    BY <1>7 DEF CreateEntry, Applied
  <2>. HIDE DEF h, row
  <2>3. CASE g = h
    <3>1. h \in DOMAIN disk'
      BY <2>2 DEF Put
    <3>. QED
      BY <2>1, <2>3, <3>1, DraftFacts DEF Mirror, There
  <2>4. CASE g # h
    <3>1. /\ g \in DOMAIN disk' <=> g \in DOMAIN disk
          /\ g \in DOMAIN disk => disk'[g] = disk[g]
      BY <2>2, <2>4 DEF Put
    <3>2. drafts'[g] = drafts[g]
      BY <2>1, <2>4
    <3>3. Mirror(g)
      BY <2>2 DEF Mirrored
    <3>. QED
      BY <3>1, <3>2, <3>3 DEF Mirror, There
  <2>. QED
    BY <2>3, <2>4
<1>8. CASE Send \/ Report \/ UNCHANGED payloadVars
  BY <1>8 DEF Send, Report, payloadVars, ghost, Mirrored, Mirror, There
<1>. QED
  BY <1>1, <1>2, <1>3, <1>4, <1>5, <1>6, <1>7, <1>8 DEF PayloadNext

\* What keeps the account of an entry: its file's draft keeps its rows, or does
\* not expect the file, or says that its text is not known.
LEMMA AccountKept ==
  ASSUME NEW ds, NEW new, NEW e, Account(ds, e),
         \A f \in Paths : ds[f] # NoDraft =>
            /\ new[f] # NoDraft
            /\ \/ ~new[f].stays
               \/ FullText(new[f])
               \/ /\ new[f].stays = ds[f].stays /\ ds[f].added \subseteq new[f].added
                  /\ FullText(ds[f]) => FullText(new[f])
  PROVE  Account(new, e)
BY DEF Account

\* The drafts account for what the tool goes on to report.
LEMMA AccountedStep ==
  ASSUME PayloadTyped, Opened, Mirrored, Accounted, [PayloadNext]_payloadVars
  PROVE  Accounted'
<1>0. drafts \in Ledger /\ log \in Seq(Entries)
  BY DEF PayloadTyped, Ledger
<1>1. CASE Direct
  <2>1. PICK F \in SUBSET Paths : Outright(F)
    BY <1>1, DirectEffect
  <2>2. current' \notin Paths
    BY <1>1 DEF Direct, Opened
  <2>3. \A i \in DOMAIN log' : Account(drafts', log'[i])
    BY <2>1, DraftFacts DEF Outright, Account, Left
  <2>. QED
    BY <2>2, <2>3 DEF Accounted
<1>2. CASE OpenSection
  <2>1. PICK f \in Paths, op \in {"edit", "write", "delete"} :
           LET d == IF drafts[f] = NoDraft THEN NewDraft ELSE drafts[f] IN
           /\ current' = f
           /\ drafts' \in Ledger /\ drafts'[f] \in Draft
           /\ \A g \in Paths \ {f} : drafts'[g] = drafts[g]
           /\ d \in Draft
           /\ op = "edit" => drafts'[f] = d
           /\ op = "write" => /\ drafts'[f].op = "write" /\ drafts'[f].stays = d.stays
                              /\ drafts'[f].added = d.added /\ drafts'[f].to = d.to
                              /\ FullText(drafts'[f]) <=> FullText(d)
           /\ op = "delete" => /\ drafts'[f].op = "delete" /\ ~drafts'[f].stays
                               /\ drafts'[f].to = NoPath
           /\ Applied(op = "write" \/ There(f),
                      CASE op = "edit" -> disk
                        [] op = "write" -> Put(f, {})
                        [] op = "delete" -> Without(f))
           /\ Plainly(drafts[f] = NoDraft \/ (op = "edit" /\ drafts[f].op = "edit"))
           /\ Logged(Entry(op, f, NoPath, {}))
    BY <1>2, OpenEffect
  <2>2. form' = "patch"
    BY <1>2 DEF OpenSection, Row, Kept
  <2> DEFINE n == Entry(op, f, NoPath, {})
  <2>3. n \in Entries /\ n.op = op /\ n.path = f /\ n.rows = {}
    BY EntryIs
  <2>4. log' = Append(log, n)
    BY <2>1 DEF Logged
  <2>. HIDE DEF n
  <2>5. /\ Last(log') = n
        /\ \A i \in DOMAIN log' : log'[i] = n \/ (i \in DOMAIN log /\ log'[i] = log[i])
    BY <1>0, <2>3, <2>4, LogAppended
  <2>6. ASSUME NEW i \in DOMAIN log
        PROVE  Account(drafts', log[i])
    <3>1. Account(drafts, log[i])
      BY DEF Accounted
    <3>2. \A g \in Paths : drafts[g] # NoDraft =>
            /\ drafts'[g] # NoDraft
            /\ \/ ~drafts'[g].stays
               \/ FullText(drafts'[g])
               \/ /\ drafts'[g].stays = drafts[g].stays /\ drafts[g].added \subseteq drafts'[g].added
                  /\ FullText(drafts[g]) => FullText(drafts'[g])
      BY <2>1, DraftFacts
    <3>. QED
      BY <3>1, <3>2, AccountKept
  <2>7. Account(drafts', n)
    BY <2>1, <2>3, DraftFacts DEF Account, Left
  <2>8. Here' = f
    BY <2>1, <2>2 DEF Here
  <2>9. n.op # "delete" => Left(n) = f
    BY <2>3 DEF Left
  <2>. QED
    BY <2>5, <2>6, <2>7, <2>8, <2>9 DEF Accounted
<1>3. CASE EarlyRow
  <2>1. UNCHANGED <<log, drafts, current>> /\ current \notin Paths
    BY <1>3, DraftFacts DEF EarlyRow, ghost
  <2>. QED
    BY <2>1 DEF Accounted
<1>4. CASE TextRow
  <2> DEFINE h == Here
             row == <<h, steps'>>
             e == Last(log)
             n == [e EXCEPT !.rows = @ \cup {row}]
  <2>1. /\ current \in Paths /\ h \in Paths /\ drafts[h] \in Draft
        /\ drafts' \in Ledger /\ drafts'[h] \in Draft
        /\ \A g \in Paths \ {h} : drafts'[g] = drafts[g]
        /\ drafts'[h].op = drafts[h].op /\ drafts'[h].stays = drafts[h].stays
        /\ drafts'[h].to = drafts[h].to
        /\ drafts[h].added \subseteq drafts'[h].added
        /\ FullText(drafts[h]) => FullText(drafts'[h])
        /\ row \in drafts'[h].added \/ FullText(drafts'[h])
    BY <1>4, TextEffect
  <2>2. UNCHANGED <<form, current>> /\ row \in Paths \X Nat
    BY <1>4, <2>1 DEF PayloadTyped, TextRow, SectionRow, Row, Kept
  <2>3. log # <<>>
    BY <2>1 DEF Opened
  <2>4. e \in Entries /\ Len(log) \in DOMAIN log /\ e = log[Len(log)]
    BY <1>0, <2>3, LastIs
  <2>5. log' = [log EXCEPT ![Len(log)] = n]
    BY <1>4 DEF TextRow, Amended
  <2>6. Left(e) = h \/ ~drafts[Left(e)].stays \/ e.op = "delete"
    BY <2>1 DEF Accounted
  <2>7. Account(drafts, e)
    BY <2>4 DEF Accounted
  <2>8. Here' = h
    BY <2>1, <2>2 DEF Here, Landing
  <2>. HIDE DEF e, h, row
  <2>9. n \in Entries /\ n.op = e.op /\ n.path = e.path /\ n.to = e.to /\ n.rows = e.rows \cup {row}
    <3>1. e.rows \cup {row} \in Rows
      BY <2>2, <2>4 DEF Entries, Rows
    <3>. QED
      BY <2>4, <3>1 DEF Entries
  <2>. HIDE DEF n
  <2>10. /\ Last(log') = n
         /\ \A i \in DOMAIN log' : log'[i] = n \/ (i \in DOMAIN log /\ log'[i] = log[i])
    BY <1>0, <2>3, <2>5, <2>9, LogAmended
  <2>11. Left(n) = Left(e)
    BY <2>9 DEF Left
  <2>12. \A g \in Paths : drafts[g] # NoDraft =>
           /\ drafts'[g] # NoDraft
           /\ drafts'[g].stays = drafts[g].stays /\ drafts[g].added \subseteq drafts'[g].added
           /\ FullText(drafts[g]) => FullText(drafts'[g])
    BY <2>1, DraftFacts
  <2>13. \A i \in DOMAIN log : Account(drafts', log[i])
    BY <2>12, AccountKept DEF Accounted
  <2>14. Account(drafts', n)
    BY <2>1, <2>6, <2>7, <2>9, <2>11, <2>12 DEF Account
  <2>15. n.op # "delete" => Left(n) = h \/ ~drafts'[Left(n)].stays
    BY <2>1, <2>6, <2>7, <2>9, <2>11, <2>12 DEF Account
  <2>. QED
    BY <2>8, <2>10, <2>13, <2>14, <2>15 DEF Accounted
<1>5. CASE MoveTo
  <2>1. PICK g \in Paths :
           LET d == IF drafts[g] = NoDraft THEN NewDraft ELSE drafts[g] IN
           /\ current \in Paths /\ d \in Draft
           /\ drafts' \in Ledger /\ drafts'[current] \in Draft /\ drafts'[g] \in Draft
           /\ drafts'[current].op = "move" /\ drafts'[current].to = g
           /\ drafts'[current].pair = <<current, g>>
           /\ drafts'[g].op = "move" /\ drafts'[g].stays /\ drafts'[g].ambiguous
           /\ drafts'[g].pair = <<current, g>>
           /\ current # g => ~drafts'[current].stays /\ drafts'[g].to = d.to
           /\ \A h \in Paths \ {current, g} : drafts'[h] = drafts[h]
           /\ current' = IF form = "patch" THEN g ELSE current
           /\ Applied(There(Here) /\ Certain,
                      IF There(Here) THEN Moved(Here, g) ELSE disk)
           /\ Plainly(drafts[g] = NoDraft /\ drafts[current].op \in {"edit", "write"})
           /\ IF form = "edits" \/ Last(log).op = "edit"
              THEN Amended([Last(log) EXCEPT !.op = "move", !.to = g])
              ELSE Logged(Entry("move", current, g, {}))
    BY <1>5, MoveEffect
  <2>2. form' = form /\ log # <<>> /\ form # "direct"
    BY <1>5, <2>1 DEF MoveTo, SectionRow, Row, Kept, Opened
  <2> DEFINE e == Last(log)
             n == Entry("move", current, g, {})
             c == [e EXCEPT !.op = "move", !.to = g]
  <2>3. e \in Entries
    BY <1>0, <2>2, LastIs
  <2>4. log' = [log EXCEPT ![Len(log)] = c] \/ log' = Append(log, n)
    BY <2>1 DEF Amended, Logged
  <2>. HIDE DEF e
  <2>5. /\ n \in Entries /\ n.op = "move" /\ n.to = g
        /\ c \in Entries /\ c.op = "move" /\ c.to = g
    <3>1. c \in Entries /\ c.op = "move" /\ c.to = g
      BY <2>1, <2>3 DEF Entries
    <3>2. n \in Entries /\ n.op = "move" /\ n.to = g
      BY <2>1, EntryIs
    <3>. QED
      BY <3>1, <3>2
  <2>. HIDE DEF n, c
  <2>6. \E x \in {n, c} :
          /\ Last(log') = x
          /\ \A i \in DOMAIN log' : log'[i] = x \/ (i \in DOMAIN log /\ log'[i] = log[i])
    <3>1. CASE log' = [log EXCEPT ![Len(log)] = c]
      <4>1. /\ Last(log') = c
            /\ \A i \in DOMAIN log' : log'[i] = c \/ (i \in DOMAIN log /\ log'[i] = log[i])
        BY <1>0, <2>2, <2>5, <3>1, LogAmended
      <4>. QED
        BY <4>1
    <3>2. CASE log' = Append(log, n)
      <4>1. /\ Last(log') = n
            /\ \A i \in DOMAIN log' : log'[i] = n \/ (i \in DOMAIN log /\ log'[i] = log[i])
        BY <1>0, <2>5, <3>2, LogAppended
      <4>. QED
        BY <4>1
    <3>. QED
      BY <2>4, <3>1, <3>2
  <2>7. \A h \in Paths : drafts[h] # NoDraft =>
           /\ drafts'[h] # NoDraft
           /\ ~drafts'[h].stays \/ FullText(drafts'[h]) \/ drafts'[h] = drafts[h]
    BY <2>1, DraftFacts DEF FullText
  <2>8. \A i \in DOMAIN log : Account(drafts', log[i])
    BY <2>7, AccountKept DEF Accounted
  <2>9. \A x \in {n, c} : Left(x) = g /\ Account(drafts', x)
    BY <2>1, <2>5, DraftFacts DEF Left, Account, FullText
  <2>10. Here' = g
    BY <2>1, <2>2, DraftFacts DEF Here, Landing, PayloadTyped
  <2>. QED
    BY <2>6, <2>8, <2>9, <2>10 DEF Accounted
<1>6. CASE RemoveRow
  <2>1. /\ current \in Paths
        /\ drafts' \in Ledger /\ drafts'[current] \in Draft
        /\ drafts'[current].op = "delete" /\ ~drafts'[current].stays
        /\ \A g \in Paths \ {current} : drafts'[g] = drafts[g]
    BY <1>6, RemoveEffect
  <2>2. log # <<>>
    BY <2>1 DEF Opened
  <2> DEFINE e == Last(log)
             n == Entry("delete", current, NoPath, {})
             c == [e EXCEPT !.op = "delete"]
  <2>3. e \in Entries
    BY <1>0, <2>2, LastIs
  <2>4. log' = [log EXCEPT ![Len(log)] = c] \/ log' = Append(log, n)
    BY <1>6 DEF RemoveRow, Amended, Logged
  <2>. HIDE DEF e
  <2>5. n \in Entries /\ n.op = "delete" /\ c \in Entries /\ c.op = "delete"
    <3>1. c \in Entries /\ c.op = "delete"
      BY <2>3 DEF Entries
    <3>2. n \in Entries /\ n.op = "delete"
      BY <2>1, EntryIs
    <3>. QED
      BY <3>1, <3>2
  <2>. HIDE DEF n, c
  <2>6. \E x \in {n, c} :
          /\ Last(log') = x
          /\ \A i \in DOMAIN log' : log'[i] = x \/ (i \in DOMAIN log /\ log'[i] = log[i])
    <3>1. CASE log' = [log EXCEPT ![Len(log)] = c]
      <4>1. /\ Last(log') = c
            /\ \A i \in DOMAIN log' : log'[i] = c \/ (i \in DOMAIN log /\ log'[i] = log[i])
        BY <1>0, <2>2, <2>5, <3>1, LogAmended
      <4>. QED
        BY <4>1
    <3>2. CASE log' = Append(log, n)
      <4>1. /\ Last(log') = n
            /\ \A i \in DOMAIN log' : log'[i] = n \/ (i \in DOMAIN log /\ log'[i] = log[i])
        BY <1>0, <2>5, <3>2, LogAppended
      <4>. QED
        BY <4>1
    <3>. QED
      BY <2>4, <3>1, <3>2
  <2>7. \A h \in Paths : drafts[h] # NoDraft =>
           /\ drafts'[h] # NoDraft
           /\ ~drafts'[h].stays \/ FullText(drafts'[h]) \/ drafts'[h] = drafts[h]
    BY <2>1, DraftFacts
  <2>8. \A i \in DOMAIN log : Account(drafts', log[i])
    BY <2>7, AccountKept DEF Accounted
  <2>9. \A x \in {n, c} : Account(drafts', x) /\ x.op = "delete"
    BY <2>5 DEF Account
  <2>. QED
    BY <2>6, <2>8, <2>9 DEF Accounted
<1>7. CASE CreateEntry
  <2> DEFINE h == Here
             row == <<h, steps'>>
             e == Last(log)
             c == [e EXCEPT !.op = "write", !.rows = {row}]
  <2>1. /\ current \in Paths /\ h \in Paths /\ drafts[h] \in Draft
        /\ drafts' \in Ledger /\ drafts'[h] \in Draft
        /\ \A g \in Paths \ {h} : drafts'[g] = drafts[g]
        /\ drafts'[h].op = "write" /\ FullText(drafts'[h])
    BY <1>7, CreateEffect
  <2>2. UNCHANGED <<form, current>> /\ form = "edits" /\ row \in Paths \X Nat
    BY <1>7, <2>1 DEF PayloadTyped, CreateEntry, SectionRow, Row, Kept
  <2>3. log # <<>> /\ Len(log) = 1 /\ log[1].path = current
    BY <2>1, <2>2 DEF Opened
  <2>4. e \in Entries /\ e.path = current
    BY <1>0, <2>3, LastIs
  <2>5. log' = [log EXCEPT ![Len(log)] = c]
    BY <1>7 DEF CreateEntry, Amended
  <2>6. h # current => ~drafts[current].stays
    BY <2>1, HereIs
  <2>7. drafts'[current].op = "write" => Here' = current
    BY <2>2 DEF Here, Landing
  <2>. HIDE DEF e, h, row
  <2>8. c \in Entries /\ c.op = "write" /\ c.path = current
    <3>1. {row} \in Rows
      BY <2>2 DEF Rows
    <3>. QED
      BY <2>4, <3>1 DEF Entries
  <2>. HIDE DEF c
  <2>9. /\ Last(log') = c
        /\ \A i \in DOMAIN log' : log'[i] = c \/ (i \in DOMAIN log /\ log'[i] = log[i])
    BY <1>0, <2>3, <2>5, <2>8, LogAmended
  <2>10. \A g \in Paths : drafts[g] # NoDraft =>
           /\ drafts'[g] # NoDraft
           /\ ~drafts'[g].stays \/ FullText(drafts'[g]) \/ drafts'[g] = drafts[g]
    BY <2>1, DraftFacts
  <2>11. \A i \in DOMAIN log : Account(drafts', log[i])
    BY <2>10, AccountKept DEF Accounted
  <2>12. Left(c) = current /\ drafts[current] # NoDraft
    BY <2>1, <2>8 DEF Left, Opened
  <2>13. Account(drafts', c)
    BY <2>1, <2>6, <2>10, <2>12 DEF Account
  <2>14. Left(c) = Here' \/ ~drafts'[Left(c)].stays
    BY <2>1, <2>6, <2>7, <2>12
  <2>. QED
    BY <2>9, <2>11, <2>13, <2>14 DEF Accounted
<1>8. CASE Send \/ Report \/ UNCHANGED payloadVars
  <2>1. UNCHANGED <<form, current, drafts, log>>
    BY <1>8 DEF Send, Report, payloadVars, ghost
  <2>2. Here' = Here
    BY <2>1 DEF Here
  <2>. QED
    BY <2>1, <2>2 DEF Accounted
<1>. QED
  BY <1>1, <1>2, <1>3, <1>4, <1>5, <1>6, <1>7, <1>8 DEF PayloadNext

\* Pairs stay pairs while nothing is said of their files.
LEMMA PairsKept ==
  ASSUME NEW ds, NEW new, \A f \in Paths : Pairing(ds, f),
         \A f \in Paths : IF ds[f].op = "move"
                          THEN /\ new[f].op = "move" /\ new[f].pair = ds[f].pair
                               /\ new[f].stays = ds[f].stays
                          ELSE Pairing(new, f)
  PROVE  \A f \in Paths : Pairing(new, f)
<1> SUFFICES ASSUME NEW f \in Paths, ds[f].op = "move" PROVE Pairing(new, f)
  OBVIOUS
<1>1. PICK x \in Paths, y \in Paths : Paired(ds, f, x, y)
  BY DEF Pairing
<1>2. Paired(new, f, x, y)
  BY <1>1 DEF Paired
<1>. QED
  BY <1>2 DEF Pairing

\* A plain row makes whole pairs.
LEMMA PairsStep ==
  ASSUME PayloadTyped, Opened, Mirrored, Pairs, [PayloadNext]_payloadVars
  PROVE  Pairs'
<1> SUFFICES ASSUME plain' PROVE \A f \in Paths : Pairing(drafts', f)
  BY DEF Pairs
<1>1. CASE Direct
  <2>1. PICK F \in SUBSET Paths : Outright(F)
    BY <1>1, DirectEffect
  <2>. QED
    BY <2>1, DraftFacts DEF Outright, Pairing
<1>2. CASE OpenSection
  <2>1. PICK f \in Paths, op \in {"edit", "write", "delete"} :
           LET d == IF drafts[f] = NoDraft THEN NewDraft ELSE drafts[f] IN
           /\ current' = f
           /\ drafts' \in Ledger /\ drafts'[f] \in Draft
           /\ \A g \in Paths \ {f} : drafts'[g] = drafts[g]
           /\ d \in Draft
           /\ op = "edit" => drafts'[f] = d
           /\ op = "write" => /\ drafts'[f].op = "write" /\ drafts'[f].stays = d.stays
                              /\ drafts'[f].added = d.added /\ drafts'[f].to = d.to
                              /\ FullText(drafts'[f]) <=> FullText(d)
           /\ op = "delete" => /\ drafts'[f].op = "delete" /\ ~drafts'[f].stays
                               /\ drafts'[f].to = NoPath
           /\ Applied(op = "write" \/ There(f),
                      CASE op = "edit" -> disk
                        [] op = "write" -> Put(f, {})
                        [] op = "delete" -> Without(f))
           /\ Plainly(drafts[f] = NoDraft \/ (op = "edit" /\ drafts[f].op = "edit"))
           /\ Logged(Entry(op, f, NoPath, {}))
    BY <1>2, OpenEffect
  <2>2. /\ drafts[f] = NoDraft \/ (op = "edit" /\ drafts[f].op = "edit")
        /\ \A g \in Paths : Pairing(drafts, g)
    BY <2>1 DEF Plainly, Pairs
  <2>3. drafts[f].op # "move" /\ Pairing(drafts', f)
    <3>1. CASE drafts[f] = NoDraft
      BY <2>1, <3>1, DraftFacts DEF Pairing
    <3>2. CASE drafts[f] # NoDraft
      BY <2>1, <2>2, <3>2 DEF Pairing
    <3>. QED
      BY <3>1, <3>2
  <2>4. \A g \in Paths \ {f} : drafts[g].op # "move" => Pairing(drafts', g)
    BY <2>1, <2>2 DEF Pairing
  <2>5. \A g \in Paths \ {f} : drafts'[g] = drafts[g]
    BY <2>1
  <2>. QED
    BY <2>2, <2>3, <2>4, <2>5, PairsKept
<1>3. CASE EarlyRow
  BY <1>3 DEF EarlyRow, ghost, Pairs
<1>4. CASE TextRow
  <2> DEFINE h == Here
  <2>1. /\ h \in Paths
        /\ \A g \in Paths \ {h} : drafts'[g] = drafts[g]
        /\ drafts'[h].op = drafts[h].op /\ drafts'[h].stays = drafts[h].stays
        /\ drafts'[h].pair = drafts[h].pair
    BY <1>4, TextEffect
  <2>2. \A g \in Paths : Pairing(drafts, g)
    BY <1>4 DEF TextRow, Pairs
  <2>. HIDE DEF h
  <2>3. \A g \in Paths : /\ drafts'[g].op = drafts[g].op /\ drafts'[g].pair = drafts[g].pair
                         /\ drafts'[g].stays = drafts[g].stays
    BY <2>1
  <2>4. \A g \in Paths : drafts[g].op # "move" => Pairing(drafts', g)
    BY <2>2, <2>3 DEF Pairing
  <2>. QED
    BY <2>2, <2>3, <2>4, PairsKept
<1>5. CASE MoveTo
  <2>1. PICK g \in Paths :
           LET d == IF drafts[g] = NoDraft THEN NewDraft ELSE drafts[g] IN
           /\ current \in Paths /\ d \in Draft
           /\ drafts' \in Ledger /\ drafts'[current] \in Draft /\ drafts'[g] \in Draft
           /\ drafts'[current].op = "move" /\ drafts'[current].to = g
           /\ drafts'[current].pair = <<current, g>>
           /\ drafts'[g].op = "move" /\ drafts'[g].stays /\ drafts'[g].ambiguous
           /\ drafts'[g].pair = <<current, g>>
           /\ current # g => ~drafts'[current].stays /\ drafts'[g].to = d.to
           /\ \A h \in Paths \ {current, g} : drafts'[h] = drafts[h]
           /\ current' = IF form = "patch" THEN g ELSE current
           /\ Applied(There(Here) /\ Certain,
                      IF There(Here) THEN Moved(Here, g) ELSE disk)
           /\ Plainly(drafts[g] = NoDraft /\ drafts[current].op \in {"edit", "write"})
           /\ IF form = "edits" \/ Last(log).op = "edit"
              THEN Amended([Last(log) EXCEPT !.op = "move", !.to = g])
              ELSE Logged(Entry("move", current, g, {}))
    BY <1>5, MoveEffect
  <2>2. /\ drafts[g] = NoDraft /\ drafts[current].op \in {"edit", "write"}
        /\ \A h \in Paths : Pairing(drafts, h)
    BY <2>1 DEF Plainly, Pairs
  <2>3. current # g /\ drafts[g].op # "move" /\ drafts[current].op # "move"
    BY <2>2, DraftFacts
  <2>4. \A h \in {current, g} : Paired(drafts', h, current, g)
    BY <2>1, <2>3 DEF Paired
  <2>5. \A h \in {current, g} : Pairing(drafts', h)
    BY <2>1, <2>4 DEF Pairing, Paired
  <2>6. \A h \in Paths \ {current, g} : drafts[h].op # "move" => Pairing(drafts', h)
    BY <2>1, <2>2 DEF Pairing
  <2>7. \A h \in Paths \ {current, g} : drafts'[h] = drafts[h]
    BY <2>1
  <2>. QED
    BY <2>2, <2>3, <2>5, <2>6, <2>7, PairsKept
<1>6. CASE RemoveRow
  <2>1. /\ current \in Paths
        /\ drafts'[current].op = "delete" /\ ~drafts'[current].stays
        /\ \A g \in Paths \ {current} : drafts'[g] = drafts[g]
    BY <1>6, RemoveEffect
  <2>2. drafts[current].op \in {"edit", "write"} /\ \A g \in Paths : Pairing(drafts, g)
    BY <1>6 DEF RemoveRow, Plainly, Pairs
  <2>3. Pairing(drafts', current)
    BY <2>1 DEF Pairing
  <2>4. \A g \in Paths \ {current} : drafts[g].op # "move" => Pairing(drafts', g)
    BY <2>1, <2>2 DEF Pairing
  <2>. QED
    BY <2>1, <2>2, <2>3, <2>4, PairsKept
<1>7. CASE CreateEntry
  <2>1. drafts[current].op # "move" /\ \A g \in Paths : Pairing(drafts, g)
    BY <1>7 DEF CreateEntry, Plainly, Pairs
  <2>2. Here = current
    BY <2>1 DEF Here, Landing
  <2>3. /\ current \in Paths
        /\ \A g \in Paths \ {current} : drafts'[g] = drafts[g]
        /\ drafts'[current].op = "write" /\ drafts'[current].stays
    BY <1>7, <2>2, CreateEffect
  <2>4. Pairing(drafts', current)
    BY <2>3 DEF Pairing
  <2>5. \A g \in Paths \ {current} : drafts[g].op # "move" => Pairing(drafts', g)
    BY <2>1, <2>3 DEF Pairing
  <2>. QED
    BY <2>1, <2>3, <2>4, <2>5, PairsKept
<1>8. CASE Send \/ Report \/ UNCHANGED payloadVars
  BY <1>8 DEF Send, Report, payloadVars, ghost, Pairs
<1>. QED
  BY <1>1, <1>2, <1>3, <1>4, <1>5, <1>6, <1>7, <1>8 DEF PayloadNext

\* The parser is asked once, when the input has been read.
LEMMA JudgedStep ==
  ASSUME Judged, [PayloadNext]_payloadVars
  PROVE  Judged'
<1>1. CASE Send
  <2>1. UNCHANGED <<drafts, unknown>> /\ Targets' = Targets
    BY <1>1 DEF Send, Targets
  <2>2. reading' = IF unknown \/ Drafted(drafts) = {} \/ ~ParseRequest(Targets)
                   THEN "refused" ELSE "sent"
    BY <1>1 DEF Send
  <2>. QED
    BY <2>1, <2>2 DEF Judged
<1>2. CASE Report
  BY <1>2 DEF Report, Judged
<1>3. CASE UNCHANGED payloadVars
  <2>1. UNCHANGED <<drafts, unknown, reading>> /\ Targets' = Targets
    BY <1>3 DEF payloadVars, Targets
  <2>. QED
    BY <2>1 DEF Judged
<1>4. CASE reading' = "input"
  BY <1>4 DEF Judged
<1>5. Direct \/ OpenSection \/ EarlyRow \/ TextRow \/ MoveTo \/ RemoveRow \/ CreateEntry
        => reading' = "input"
  BY DEF Direct, OpenSection, EarlyRow, TextRow, MoveTo, RemoveRow, CreateEntry, SectionRow,
         Row, Kept
<1>. QED
  BY <1>1, <1>2, <1>3, <1>4, <1>5 DEF PayloadNext

\* The inductive invariant.
Reduced == PayloadTyped /\ Opened /\ Mirrored /\ Accounted /\ Pairs /\ Judged

\* Before the first row the drafts and the log say what the form of the input
\* does.
LEMMA ReducedInit == PayloadInit => Reduced
<1> SUFFICES ASSUME PayloadInit PROVE Reduced
  OBVIOUS
<1> DEFINE e == Entry("edit", current, NoPath, {})
<1>1. /\ form \in {"patch", "edits", "direct"} /\ reading = "input"
      /\ unknown = FALSE /\ steps = 0 /\ disk = Original /\ clean = TRUE /\ plain = TRUE
      /\ \/ form = "edits" /\ current \in Existing /\ current \in Paths /\ log = <<e>>
         \/ form # "edits" /\ current = NoPath /\ log = <<>>
      /\ DOMAIN disk = Existing /\ Existing \subseteq Paths
  BY PathsAssumption DEF PayloadInit, Original
<1>2. drafts = [f \in Paths |-> IF f = current THEN NewDraft ELSE NoDraft]
  BY DEF PayloadInit
<1>3. /\ drafts \in [Paths -> Draft \cup {NoDraft}]
      /\ \A f \in Paths : drafts[f] = IF f = current THEN NewDraft ELSE NoDraft
  BY <1>2, DraftFacts
<1>4. current \in Paths => /\ e \in Entries /\ e.op = "edit" /\ e.path = current /\ e.rows = {}
  BY EntryIs
<1>. HIDE DEF e
<1>5. log \in Seq(Entries)
  <2>1. CASE form = "edits"
    <3>1. log = <<e>> /\ e \in Entries
      BY <1>1, <1>4, <2>1
    <3>. QED
      BY <3>1
  <2>2. CASE form # "edits"
    <3>1. log = <<>>
      BY <1>1, <2>2
    <3>. QED
      BY <3>1
  <2>. QED
    BY <2>1, <2>2
<1>6. PayloadTyped
  BY <1>1, <1>3, <1>5 DEF PayloadTyped
<1>7. Opened
  BY <1>1, <1>3, <1>4, DraftFacts DEF Opened
<1>8. Mirrored
  <2> SUFFICES ASSUME NEW f \in Paths PROVE Mirror(f)
    BY DEF Mirrored
  <2>1. There(f) <=> f \in Existing
    BY <1>1 DEF There
  <2>2. CASE f = current
    <3>1. drafts[f] = NewDraft /\ f \in Existing
      BY <1>1, <1>3, <2>2, DraftFacts
    <3>. QED
      BY <1>1, <2>1, <3>1, DraftFacts DEF Mirror
  <2>3. CASE f # current
    <3>1. drafts[f] = NoDraft
      BY <1>3, <2>3
    <3>. QED
      BY <1>1, <2>1, <3>1 DEF Mirror
  <2>. QED
    BY <2>2, <2>3
<1>9. Accounted
  <2>1. CASE form = "edits"
    <3>1. current \in Paths /\ log = <<e>>
      BY <1>1, <2>1
    <3>2. Len(log) = 1 /\ log[1] = e
      BY <3>1
    <3>3. DOMAIN log = {1} /\ Last(log) = e /\ drafts[current] = NewDraft
      BY <1>3, <1>5, <3>1, <3>2 DEF Last
    <3>4. Left(e) = current /\ Here = current
      BY <1>4, <2>1, <3>1, <3>3, DraftFacts DEF Left, Here, Landing
    <3>. QED
      BY <1>4, <3>1, <3>2, <3>3, <3>4, DraftFacts DEF Accounted, Account
  <2>2. CASE form # "edits"
    BY <1>1, <2>2, DraftFacts DEF Accounted
  <2>. QED
    BY <2>1, <2>2
<1>10. Pairs /\ Judged
  BY <1>1, <1>3, DraftFacts DEF Pairs, Pairing, Judged
<1>. QED
  BY <1>6, <1>7, <1>8, <1>9, <1>10 DEF Reduced

\* The drafts mirror the disk and account for the log, for any input.
THEOREM ReducedInvariant == PayloadSpec => []Reduced
<1>1. PayloadInit => Reduced
  BY ReducedInit
<1>2. Reduced /\ [PayloadNext]_payloadVars => Reduced'
  BY TypedStep, MirroredStep, AccountedStep, PairsStep, JudgedStep DEF Reduced
<1>. QED
  BY <1>1, <1>2, PTL DEF PayloadSpec

\* What a draft becomes.
LEMMA TargetIs ==
  ASSUME PayloadTyped, NEW f \in Drafted(drafts)
  PROVE  LET t == Targets[f]
             d == drafts[f]
         IN  /\ f \in Paths /\ d \in Draft
             /\ t.path = f /\ t.op = d.op /\ t.stays = d.stays
             /\ t.pair = IF d.op = "move" THEN d.pair ELSE <<>>
             /\ t.added = IF d.op = "delete" \/ (d.op = "move" /\ ~d.stays) THEN {} ELSE d.added
             /\ t.whole <=> FullText(d)
<1>1. f \in Paths /\ drafts[f] \in Draft
  BY DEF Drafted, PayloadTyped
<1>2. Targets[f] = FinalizeDraft(f, drafts[f])
  BY DEF Targets
<1>. QED
  BY <1>1, <1>2 DEF FinalizeDraft, Target, FullText

\* What tackbox accepts before the tool is what the tool then does, whatever the
\* rows of the input and however many.
THEOREM PreSafe == PayloadSpec => []PreFaithful
<1>1. Reduced => PreFaithful
  <2> SUFFICES ASSUME Reduced, reading = "sent", clean
               PROVE  PreFaithful
    BY DEF PreFaithful
  <2>1. PayloadTyped /\ (\A f \in Paths : Mirror(f)) /\ DOMAIN disk \subseteq Paths
    BY DEF Reduced, Mirrored, PayloadTyped
  <2>2. \A f \in Drafted(drafts) : ParseTarget(Targets[f])
    BY DEF Reduced, Judged, ParseRequest, Targets
  <2>3. ASSUME NEW f \in Drafted(drafts)
        PROVE  /\ drafts[f].stays <=> There(f)
               /\ There(f) => Targets[f].added = drafts[f].added
    <3>1. Mirror(f) /\ drafts[f] # NoDraft
      BY <2>1 DEF Drafted
    <3>2. drafts[f] \in Draft /\ Targets[f].op = drafts[f].op /\ Targets[f].stays = drafts[f].stays
      BY <2>1, TargetIs
    <3>3. drafts[f].stays <=> There(f)
      BY <2>2, <3>1, <3>2 DEF Mirror, ParseTarget, Draft
    <3>4. There(f) => drafts[f].op # "delete" /\ drafts[f].stays
      BY <2>2, <3>2, <3>3 DEF ParseTarget
    <3>. QED
      BY <2>1, <3>3, <3>4, TargetIs
  <2>4. ASSUME NEW f \in Existing, f \notin Drafted(drafts)
        PROVE  There(f) /\ disk[f] = Original[f]
    BY <2>1, <2>4, PathsAssumption DEF Mirror, Drafted
  <2>5. ASSUME NEW f \in DOMAIN disk
        PROVE  LET kept == IF f \in Existing THEN Original[f] ELSE {}
               IN  disk[f] \subseteq kept \/
                   /\ f \in Drafted(drafts)
                   /\ Targets[f].whole \/ disk[f] \ kept \subseteq Targets[f].added
    <3>1. f \in Paths /\ There(f) /\ Mirror(f)
      BY <2>1 DEF There
    <3>2. CASE f \notin Drafted(drafts)
      BY <3>1, <3>2 DEF Mirror, Drafted
    <3>3. CASE f \in Drafted(drafts)
      <4>1. Targets[f].whole <=> FullText(drafts[f])
        BY <2>1, <3>3, TargetIs
      <4>2. Targets[f].added = drafts[f].added /\ drafts[f] # NoDraft
        BY <2>3, <3>1, <3>3 DEF Drafted
      <4>. QED
        BY <3>1, <3>3, <4>1, <4>2 DEF Mirror
    <3>. QED
      BY <3>2, <3>3
  <2>. QED
    BY <2>3, <2>4, <2>5 DEF PreFaithful
<1>. QED
  BY <1>1, ReducedInvariant, PTL

\* The strict reader refuses no plain input.
THEOREM PlainSafe == PayloadSpec => []PlainAccepted
<1>1. Reduced => PlainAccepted
  <2> SUFFICES ASSUME Reduced, plain
               PROVE  ParseRequest(Targets)
    BY DEF Reduced, Judged, PlainAccepted
  <2>1. PayloadTyped /\ \A f \in Paths : Pairing(drafts, f)
    BY DEF Reduced, Pairs
  <2>2. DOMAIN Targets = Drafted(drafts) /\ Drafted(drafts) \subseteq Paths
    BY DEF Targets, Drafted
  <2>3. \A f \in Drafted(drafts) :
          /\ drafts[f] \in Draft /\ Targets[f].path = f /\ Targets[f].op = drafts[f].op
          /\ Targets[f].stays = drafts[f].stays
          /\ Targets[f].pair = IF drafts[f].op = "move" THEN drafts[f].pair ELSE <<>>
    BY <2>1, TargetIs
  <2>4. ASSUME NEW f \in Drafted(drafts) PROVE ParseTarget(Targets[f])
    <3>1. ASSUME drafts[f].op = "move" PROVE drafts[f].pair # <<>>
      <4>1. PICK x \in Paths, y \in Paths : Paired(drafts, f, x, y)
        BY <2>1, <2>2, <3>1 DEF Pairing
      <4>2. drafts[f].pair = <<x, y>>
        BY <4>1 DEF Paired
      <4>. QED
        BY <4>2
    <3>. QED
      BY <2>1, <2>2, <2>3, <3>1 DEF ParseTarget, Pairing
  <2>5. ASSUME NEW f \in DOMAIN Targets, Targets[f].op = "move"
        PROVE  LET pair == {j \in DOMAIN Targets : Targets[j].op = "move"
                                                    /\ Targets[j].pair = Targets[f].pair}
               IN  \E source, destination \in pair :
                     /\ pair = {source, destination}
                     /\ ~Targets[source].stays /\ Targets[destination].stays
                     /\ Targets[source].path # Targets[destination].path
    <3>1. drafts[f].op = "move" /\ f \in Paths
      BY <2>2, <2>3, <2>5
    <3>2. PICK x \in Paths, y \in Paths : Paired(drafts, f, x, y)
      BY <2>1, <3>1 DEF Pairing
    <3>3. x \in Drafted(drafts) /\ y \in Drafted(drafts) /\ drafts[f].pair = <<x, y>>
      BY <3>2, DraftFacts DEF Paired, Drafted
    <3>4. ASSUME NEW j \in Drafted(drafts), Targets[j].op = "move", Targets[j].pair = <<x, y>>
          PROVE  j \in {x, y}
      <4>1. drafts[j].op = "move" /\ drafts[j].pair = <<x, y>>
        BY <2>3, <3>4
      <4>2. PICK u \in Paths, v \in Paths : Paired(drafts, j, u, v)
        BY <2>1, <2>2, <4>1 DEF Pairing
      <4>. QED
        BY <4>1, <4>2 DEF Paired
    <3>5. Targets[f].pair = <<x, y>>
      BY <2>2, <2>3, <3>1, <3>3
    <3>6. /\ Targets[x].op = "move" /\ Targets[x].pair = <<x, y>> /\ ~Targets[x].stays
          /\ Targets[y].op = "move" /\ Targets[y].pair = <<x, y>> /\ Targets[y].stays
          /\ Targets[x].path # Targets[y].path
      BY <2>3, <3>2, <3>3 DEF Paired
    <3> DEFINE pair == {j \in DOMAIN Targets : Targets[j].op = "move"
                                                /\ Targets[j].pair = Targets[f].pair}
    <3>7. pair = {x, y}
      BY <2>2, <3>3, <3>4, <3>5, <3>6
    <3>. QED
      BY <3>6, <3>7
  <2>6. \A f \in DOMAIN Targets : ParseTarget(Targets[f])
    BY <2>2, <2>4
  <2>7. ValidateMovePairs(Targets)
    BY <2>5 DEF ValidateMovePairs
  <2>. QED
    BY <2>6, <2>7 DEF ParseRequest
<1>. QED
  BY <1>1, ReducedInvariant, PTL

\* What a record of the result says of a file.
Told ==
  [path : Paths \cup {NoPath}, op : {"edit", "write", "delete", "move"}, stays : BOOLEAN,
   pair : {<<>>} \cup (Paths \X (Paths \cup {NoPath})), added : {{}}, whole : BOOLEAN]

\* A record speaks of its own files, and of the one it leaves behind says that
\* the rows are not known.
LEMMA DetailIs ==
  ASSUME NEW e \in Entries, NEW j \in DOMAIN DetailTargets(e)
  PROVE  LET t == DetailTargets(e)[j]
         IN  /\ t \in Told /\ t.path \in {e.path, e.to}
             /\ t.stays => t.whole /\ t.path = Left(e) /\ e.op # "delete" /\ t.op # "delete"
<1>1. e.op \in {"edit", "write", "delete", "move"} /\ e.path \in Paths
      /\ e.to \in Paths \cup {NoPath}
  BY DEF Entries
<1>2. CASE e.op = "delete"
  <2> DEFINE gone == Target(e.path, "delete", FALSE, <<>>)
  <2>1. DetailTargets(e) = <<gone>>
    BY <1>2 DEF DetailTargets
  <2>2. gone \in Told /\ gone.path = e.path /\ ~gone.stays
    BY <1>1 DEF Target, Told
  <2>. HIDE DEF gone
  <2>3. DetailTargets(e)[j] = gone
    BY <2>1
  <2>. QED
    BY <2>2, <2>3
<1>3. CASE e.op = "move"
  <2> DEFINE gone == Target(e.path, "move", FALSE, <<e.path, e.to>>)
             come == [Target(e.to, "move", TRUE, <<e.path, e.to>>) EXCEPT !.whole = TRUE]
  <2>1. DetailTargets(e) = <<gone, come>>
    BY <1>3 DEF DetailTargets
  <2>2. /\ gone \in Told /\ gone.path = e.path /\ ~gone.stays
        /\ come \in Told /\ come.path = e.to /\ come.whole /\ come.op = "move"
    BY <1>1 DEF Target, Told
  <2>. HIDE DEF gone, come
  <2>3. DetailTargets(e)[j] \in {gone, come}
    BY <2>1
  <2>. QED
    BY <1>3, <2>2, <2>3 DEF Left
<1>4. CASE e.op \in {"edit", "write"}
  <2> DEFINE here == [Target(e.path, e.op, TRUE, <<>>) EXCEPT !.whole = TRUE]
  <2>1. DetailTargets(e) = <<here>>
    BY <1>4 DEF DetailTargets
  <2>2. here \in Told /\ here.path = e.path /\ here.whole /\ here.op = e.op
    BY <1>1, <1>4 DEF Target, Told
  <2>. HIDE DEF here
  <2>3. DetailTargets(e)[j] = here
    BY <2>1
  <2>. QED
    BY <1>4, <2>2, <2>3 DEF Left
<1>. QED
  BY <1>1, <1>2, <1>3, <1>4

\* A pruned target stays what it is and takes the text of an intent for it.
LEMMA MergedIs ==
  ASSUME NEW t \in Told, Matches(t) # {}
  PROVE  LET n == MergePruned(t)
         IN  /\ n.path = t.path /\ n.op = t.op /\ n.stays = t.stays
             /\ t.stays => \E f \in Matches(t) : /\ n.added = Targets[f].added
                                                 /\ n.whole = Targets[f].whole
<1> DEFINE f == CHOOSE f \in Matches(t) : TRUE
           intent == Targets[f]
           more == [t EXCEPT !.added = intent.added, !.whole = intent.whole]
<1>1. f \in Matches(t)
  OBVIOUS
<1>2. MergePruned(t) = IF t.stays THEN more ELSE t
  BY DEF MergePruned
<1>. HIDE DEF f
<1>3. /\ more.path = t.path /\ more.op = t.op /\ more.stays = t.stays
      /\ more.added = intent.added /\ more.whole = intent.whole
  BY DEF Told
<1>. HIDE DEF more
<1>. QED
  BY <1>1, <1>2, <1>3

\* A pruned target that is accepted carries the rows of its record.
LEMMA PrunedIs ==
  ASSUME PayloadTyped, Accounted, NEW i \in DOMAIN log, NEW j \in DOMAIN DetailTargets(log[i]),
         Matches(DetailTargets(log[i])[j]) # {}
  PROVE  LET t == DetailTargets(log[i])[j]
             n == MergePruned(t)
         IN  /\ n.path = t.path /\ n.op = t.op /\ n.stays = t.stays
             /\ t.stays => n.whole \/ log[i].rows \subseteq n.added
<1> DEFINE t == DetailTargets(log[i])[j]
           n == MergePruned(t)
<1>1. log[i] \in Entries
  BY DEF PayloadTyped
<1>2. /\ t \in Told
      /\ t.stays => t.path = Left(log[i]) /\ log[i].op # "delete" /\ t.op # "delete"
  BY <1>1, DetailIs
<1>3. Matches(t) # {}
  OBVIOUS
<1>. HIDE DEF t
<1>4. n.path = t.path /\ n.op = t.op /\ n.stays = t.stays
  BY <1>2, <1>3, MergedIs
<1>5. ASSUME t.stays PROVE n.whole \/ log[i].rows \subseteq n.added
  <2>1. PICK f \in Matches(t) : n.added = Targets[f].added /\ n.whole = Targets[f].whole
    BY <1>2, <1>3, <1>5, MergedIs
  <2>2. f \in Drafted(drafts) /\ SameTarget(t, Targets[f])
    BY DEF Matches
  <2>3. /\ Targets[f].path = f /\ Targets[f].op = drafts[f].op /\ Targets[f].stays = drafts[f].stays
        /\ Targets[f].added = IF drafts[f].op = "delete"
                                 \/ (drafts[f].op = "move" /\ ~drafts[f].stays)
                              THEN {} ELSE drafts[f].added
        /\ Targets[f].whole <=> FullText(drafts[f])
    BY <2>2, TargetIs
  <2>4. f = Left(log[i]) /\ drafts[f].stays /\ drafts[f].op # "delete"
    BY <1>2, <1>5, <2>2, <2>3 DEF SameTarget
  <2>5. FullText(drafts[f]) \/ log[i].rows \subseteq drafts[f].added
    BY <1>2, <1>5, <2>4 DEF Accounted, Account
  <2>. QED
    BY <2>1, <2>3, <2>4, <2>5
<1>. QED
  BY <1>4, <1>5 DEF t

\* What tackbox accepts after the tool is what landed, however many records the
\* result has and whichever of them failed or were pruned.
THEOREM PostSafe == PayloadSpec => []PostFaithful
<1>1. PayloadInit => PostFaithful
  BY DEF PayloadInit, PostFaithful
<1>2. Reduced /\ PostFaithful /\ [PayloadNext]_payloadVars => PostFaithful'
  <2> SUFFICES ASSUME Reduced, PostFaithful, [PayloadNext]_payloadVars, reading' = "reported"
               PROVE  PostFaithful'
    BY DEF PostFaithful
  <2>1. CASE UNCHANGED payloadVars
    <3>1. UNCHANGED <<reading, log, fate, after>>
      BY <2>1 DEF payloadVars, ghost
    <3>2. \A i \in DOMAIN log : DetailTargets(log[i])' = DetailTargets(log[i])
      BY <3>1 DEF DetailTargets, Target
    <3>. QED
      BY <3>1, <3>2 DEF PostFaithful
  <2>2. CASE Report
    <3> DEFINE places == UNION {{i} \X DOMAIN DetailTargets(log[i]) :
                                  i \in {k \in DOMAIN log : fate'[k] # "failed"}}
               Result(t, f) == IF f = "pruned" THEN MergePruned(t) ELSE t
               results == [p \in places |->
                             Result(DetailTargets(log[p[1]])[p[2]], fate'[p[1]])]
               pruned == UNION {{<<i, j>> : j \in DOMAIN DetailTargets(log[i])} :
                                i \in {k \in DOMAIN log : fate'[k] = "pruned"}}
    <3>1. /\ ~Unmatched(fate') /\ after' = results /\ log' = log
          /\ fate' \in [DOMAIN log -> Fates]
      BY <2>2 DEF Report, ghost
    <3>2. \A p \in pruned : Matches(DetailTargets(log[p[1]])[p[2]]) # {}
      BY <3>1 DEF Unmatched
    <3>3. PayloadTyped /\ Accounted
      BY DEF Reduced
    <3>4. ASSUME NEW i \in DOMAIN log, fate'[i] # "failed",
                 NEW j \in DOMAIN DetailTargets(log[i])
          PROVE  LET t == DetailTargets(log[i])[j]
                     n == Result(t, fate'[i])
                 IN  /\ <<i, j>> \in places /\ results[<<i, j>>] = n
                     /\ n.path = t.path /\ n.op = t.op /\ n.stays = t.stays
                     /\ t.stays => n.whole \/ log[i].rows \subseteq n.added
                     /\ n.path \in {log[i].path, log[i].to}
      <4>1. <<i, j>> \in places
        BY <3>4
      <4>2. results[<<i, j>>] = Result(DetailTargets(log[i])[j], fate'[i])
        BY <4>1
      <4>3. log[i] \in Entries
        BY <3>3 DEF PayloadTyped
      <4>4. CASE fate'[i] = "pruned"
        <5>1. <<i, j>> \in pruned
          BY <4>4
        <5>2. Matches(DetailTargets(log[i])[j]) # {}
          BY <3>2, <5>1
        <5>. QED
          BY <3>3, <4>1, <4>2, <4>3, <4>4, <5>2, DetailIs, PrunedIs
      <4>5. CASE fate'[i] # "pruned"
        BY <4>1, <4>2, <4>3, <4>5, DetailIs
      <4>. QED
        BY <4>4, <4>5
    <3>5. \A p \in places : \E i \in DOMAIN log : \E j \in DOMAIN DetailTargets(log[i]) :
            fate'[i] # "failed" /\ p = <<i, j>>
      OBVIOUS
    <3>6. DOMAIN results = places
      OBVIOUS
    <3>. HIDE DEF places, results
    <3>7. ASSUME NEW i \in DOMAIN log, fate'[i] # "failed",
                 NEW j \in DOMAIN DetailTargets(log[i])
          PROVE  LET t == DetailTargets(log[i])[j]
                 IN  \E k \in DOMAIN results :
                       /\ results[k].path = t.path
                       /\ results[k].op = t.op /\ results[k].stays = t.stays
                       /\ t.stays => results[k].whole \/ log[i].rows \subseteq results[k].added
      <4> DEFINE k == <<i, j>>
      <4>1. LET t == DetailTargets(log[i])[j]
            IN  /\ k \in DOMAIN results
                /\ results[k].path = t.path /\ results[k].op = t.op
                /\ results[k].stays = t.stays
                /\ t.stays => results[k].whole \/ log[i].rows \subseteq results[k].added
        BY <3>4, <3>6, <3>7
      <4>. HIDE DEF k
      <4>. QED
        BY <4>1
    <3>8. ASSUME NEW k \in DOMAIN results
          PROVE  \E i \in DOMAIN log :
                   fate'[i] # "failed" /\ results[k].path \in {log[i].path, log[i].to}
      BY <3>4, <3>5, <3>6
    <3>9. \A i \in DOMAIN log : DetailTargets(log[i])' = DetailTargets(log[i])
      BY <3>1 DEF DetailTargets, Target
    <3>. QED
      BY <3>1, <3>7, <3>8, <3>9 DEF PostFaithful
  <2>3. Direct \/ OpenSection \/ EarlyRow \/ TextRow \/ MoveTo \/ RemoveRow \/ CreateEntry \/ Send
          => reading' # "reported"
    BY DEF Direct, OpenSection, EarlyRow, TextRow, MoveTo, RemoveRow, CreateEntry, SectionRow,
           Row, Kept, Send
  <2>. QED
    BY <2>1, <2>2, <2>3 DEF PayloadNext
<1>. QED
  BY <1>1, <1>2, ReducedInvariant, PTL DEF PayloadSpec
=============================================================================
