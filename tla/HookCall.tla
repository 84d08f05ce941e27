------------------------------ MODULE HookCall ------------------------------
(***************************************************************************)
(* One tool call of an agent host under the tackbox extension: js/omp/     *)
(* hook.js and js/omp/index.js (js/codex/hook.js renders the same answers  *)
(* for a host that cannot ask).  Before the tool runs, and again after it, *)
(* the extension spawns `tackbox hook-protocol`, writes one event to its   *)
(* stdin and waits for one decision on its stdout.  The child, its pipes,  *)
(* the deadline and the host interleave freely; a decision is a verdict    *)
(* only when it arrived whole from a child that exited zero.               *)
(*                                                                         *)
(* Every execute() has locals of its own, so one call stands for any       *)
(* number of parallel ones.                                                *)
(*                                                                         *)
(* Abstractions.  What the child says is a decision, something asDecision  *)
(* refuses ("garbage"), or a prefix of either ("part", which does not      *)
(* parse).  Reasons and messages are left out.  The child is any program   *)
(* (TACKBOX_OMP_COMMAND, uvx without a network): it may decide before it   *)
(* has read the event, and before the host learns that the event is out.   *)
(***************************************************************************)
EXTENDS Naturals

VARIABLES step,    \* where the host is with the tool call
          tool,    \* "other": normalize() knows it not; "opaque": it names no
                   \* file (bash, eval); "mutation": it changes files
          ran,     \* the tool ran
          word,    \* history: what tackbox really said to the call, and the
                   \* user's yes
          told,    \* what the agent was told afterwards
          child,   \* the child process: "running", "dying" once SIGTERM was
                   \* sent, "gone"; "stillborn" when it could not be started
          exit,    \* how it ended
          said,    \* what it has written to stdout
          \* the locals of execute()
          input,   \* the event on its way into stdin
          heard,   \* the part of `said` that has arrived
          closed,  \* the child's 'close' event has come
          timer,   \* the deadline
          settled, \* the promise is resolved
          answer,  \* what decide() makes of it
          fault    \* history: the conversation failed or was cut short

host == <<step, tool, ran, word, told>>
proc == <<child, exit, said>>
execute == <<input, heard, closed, timer, settled, answer, fault>>
vars == <<host, proc, execute>>

-----------------------------------------------------------------------------
Decisions == {"allow", "ask", "block", "warn"}
Whole == Decisions \cup {"garbage"}
Kinds == {"allow", "ask", "block", "unverified"}
Hooking == {"pre", "post"}

\* asDecision and the checks decide() makes before it.
Decoded(code, text) ==
  IF code = "zero" /\ text \in Decisions \ {"warn"} THEN text ELSE "unverified"

\* finish(failure, code): the first caller wins.
Finish(kind) ==
  IF settled THEN UNCHANGED <<settled, answer, timer>>
  ELSE settled' = TRUE /\ answer' = kind /\ timer' = "off"

\* Mutant: the child is left to itself.
LetRun == UNCHANGED <<child, exit>>

\* stop(failure): send SIGTERM, which the child may be slow to obey or ignore,
\* then finish with the failure.
Kill == /\ child' = IF child = "running" THEN "dying" ELSE child
        /\ UNCHANGED exit
Stop == Kill /\ Finish("unverified")

\* Mutant: the event need not be out.
CloseIsEnough(isClosed, isFinished) ==
  IF isClosed THEN Finish(Decoded(exit, heard))
  ELSE UNCHANGED <<settled, answer, timer>>

\* finishClose(), given what the calling handler has just set.
FinishClose(isClosed, isFinished) ==
  IF isClosed /\ isFinished THEN Finish(Decoded(exit, heard))
  ELSE UNCHANGED <<settled, answer, timer>>

Fresh == /\ heard' = "nothing"
         /\ closed' = FALSE
         /\ said' = "nothing"
         /\ exit' = "none"

-----------------------------------------------------------------------------
Init ==
  /\ step = "called" /\ tool \in {"other", "opaque", "mutation"} /\ ran = FALSE
  /\ word = "none" /\ told = "none"
  /\ child = "none" /\ exit = "none" /\ said = "nothing"
  /\ input = "unsent" /\ heard = "nothing" /\ closed = FALSE
  /\ timer = "off" /\ settled = FALSE /\ answer = "none" /\ fault = FALSE

\* tool_call: a tool that is no file mutation, or an opaque one, goes through
\* unasked.
Unasked ==
  /\ step = "called" /\ tool # "mutation"
  /\ step' = "tool"
  /\ UNCHANGED <<tool, ran, word, told, proc, execute>>

Ask ==
  /\ step = "called" /\ tool = "mutation"
  /\ step' = "pre"
  /\ UNCHANGED <<tool, ran, word, told, proc, execute>>

Idle == step \in Hooking /\ ~settled /\ timer = "off" /\ child = "none"

\* No child: the event could not be normalized, the command override is not
\* an argv, spawn throws or leaves a stream out.
NoChild ==
  /\ Idle
  /\ settled' = TRUE /\ answer' = "unverified" /\ fault' = TRUE
  /\ UNCHANGED <<host, proc, input, heard, closed, timer>>

\* spawn returns: handlers and deadline are set and the event is handed to
\* stdin.  A child that could not be started reports that later ("stillborn").
Spawn ==
  /\ Idle
  /\ child' \in {"running", "stillborn"}
  /\ input' = "sent" /\ timer' = "armed"
  /\ Fresh
  /\ UNCHANGED <<host, settled, answer, fault>>

\* stdin.end() throws, in the same turn as the spawn.
SpawnUnfed ==
  /\ Idle
  /\ child' = "dying"
  /\ input' = "broken"
  /\ settled' = TRUE /\ answer' = "unverified" /\ fault' = TRUE
  /\ UNCHANGED <<host, exit, said, heard, closed, timer>>

(* The child says anything at any time, and ends at any time.               *)

Alive == child \in {"running", "dying"}

Say ==
  /\ Alive
  /\ said \notin Whole
  /\ said' \in Whole \cup {"part"}
  /\ UNCHANGED <<host, child, exit, execute>>

Exit ==
  /\ Alive
  /\ child' = "gone"
  /\ exit' \in {"zero", "nonzero", "signal"}
  /\ UNCHANGED <<host, said, execute>>

(* The event loop: each action is one handler of execute().                 *)

\* Mutant: the handler of 'finish' leaves it to 'close'.
LeaveItToClose ==
  /\ step \in Hooking /\ input = "sent" /\ (Alive \/ child = "gone")
  /\ input' = "flushed"
  /\ UNCHANGED <<host, proc, heard, closed, timer, settled, answer, fault>>

\* 'finish': all of the event is out.  The child may have read it, decided and
\* ended before this handler runs.
StdinFinish ==
  /\ step \in Hooking /\ input = "sent" /\ (Alive \/ child = "gone")
  /\ input' = "flushed"
  /\ FinishClose(closed, TRUE)
  /\ UNCHANGED <<host, proc, heard, closed, fault>>

StdinError ==
  /\ step \in Hooking /\ input = "sent"
  /\ input' = "broken" /\ fault' = TRUE
  /\ Stop
  /\ UNCHANGED <<host, said, heard, closed>>

Data ==
  /\ step \in Hooking /\ heard # said /\ ~closed
  /\ heard' = said
  /\ UNCHANGED <<host, proc, input, closed, timer, settled, answer, fault>>

StreamError ==
  /\ step \in Hooking /\ (Alive \/ child = "gone") /\ ~closed
  /\ fault' = TRUE
  /\ Stop
  /\ UNCHANGED <<host, said, input, heard, closed>>

ChildError ==
  /\ step \in Hooking /\ child = "stillborn"
  /\ child' = "gone" /\ exit' = "nonzero" /\ fault' = TRUE
  /\ Finish("unverified")
  /\ UNCHANGED <<host, said, input, heard, closed>>

\* 'close' comes after the process ended and both output streams did.
Close ==
  /\ step \in Hooking /\ child = "gone" /\ heard = said /\ ~closed
  /\ closed' = TRUE
  /\ FinishClose(TRUE, input = "flushed")
  /\ UNCHANGED <<host, proc, input, heard, fault>>

\* Mutant: the deadline kills the child and leaves the rest to 'close'.
KillAndWait ==
  /\ timer = "armed"
  /\ fault' = TRUE /\ timer' = "off"
  /\ Kill
  /\ UNCHANGED <<host, said, input, heard, closed, settled, answer>>

\* The deadline cuts a conversation short, unless all of it had come.
Deadline ==
  /\ timer = "armed"
  /\ fault' = ~(closed /\ input = "flushed")
  /\ Stop
  /\ UNCHANGED <<host, said, input, heard, closed>>

(* The host.                                                                *)

Forget == /\ child' = "none"
          /\ input' = "unsent"
          /\ settled' = FALSE /\ answer' = "none" /\ fault' = FALSE
          /\ timer' = "off"
          /\ Fresh

\* Mutant: what cannot be verified is let through.
FailOpen ==
  /\ step = "pre" /\ settled
  /\ \/ answer \in {"allow", "unverified"} /\ step' = "tool"
     \/ answer = "ask" /\ step' \in {"confirm", "over"}
     \/ answer = "block" /\ step' = "over"
  /\ word' = IF exit = "zero" /\ ~fault THEN said ELSE "none"
  /\ told' = IF step' = "over" THEN "blocked" ELSE told
  /\ Forget
  /\ UNCHANGED <<tool, ran>>

\* applyPre: run the tool, block the call, or put the question to the user; a
\* host that cannot ask blocks (HEADLESS_NOTE, Codex).
ApplyPre ==
  /\ step = "pre" /\ settled
  /\ \/ answer = "allow" /\ step' = "tool"
     \/ answer = "ask" /\ step' \in {"confirm", "over"}
     \/ answer \in {"block", "unverified"} /\ step' = "over"
  /\ word' = IF exit = "zero" /\ ~fault THEN said ELSE "none"
  /\ told' = IF step' = "over" THEN "blocked" ELSE told
  /\ Forget
  /\ UNCHANGED <<tool, ran>>

Confirm ==
  /\ step = "confirm"
  /\ \/ step' = "tool" /\ UNCHANGED told
        /\ word' = IF word = "ask" THEN "approved" ELSE word
     \/ step' = "over" /\ told' = "blocked" /\ UNCHANGED word
  /\ UNCHANGED <<tool, ran, proc, execute>>

\* The tool runs; its result goes to tool_result, that of an opaque one too.
Tool ==
  /\ step = "tool"
  /\ ran' = TRUE
  /\ \/ tool # "other" /\ step' = "post" /\ UNCHANGED told
     \/ tool = "other" /\ step' = "over" /\ told' = "nothing"
  /\ UNCHANGED <<tool, word, proc, execute>>

\* Mutant: only findings are worth a word.
OnlyFindings ==
  /\ step = "post" /\ settled
  /\ told' = IF answer = "block" THEN "findings" ELSE "nothing"
  /\ step' = "over"
  /\ UNCHANGED <<tool, ran, word, proc, execute>>

\* applyPost: a question makes no sense after the fact.
ApplyPost ==
  /\ step = "post" /\ settled
  /\ told' = CASE answer = "allow" -> "nothing"
               [] answer = "block" -> "findings"
               [] OTHER -> "unverified"
  /\ step' = "over"
  /\ UNCHANGED <<tool, ran, word, proc, execute>>

Handler == \/ StdinFinish \/ StdinError \/ Data \/ StreamError \/ ChildError
           \/ Close \/ Deadline
Host == Unasked \/ Ask \/ NoChild \/ Spawn \/ SpawnUnfed \/ ApplyPre \/ Tool \/ ApplyPost

Next == Say \/ Exit \/ Handler \/ Host \/ Confirm

Spec == Init /\ [][Next]_vars

\* The host runs and the deadline fires.  Nothing is assumed of the child, of
\* its pipes or of the user.
FairSpec == Spec /\ WF_vars(Host) /\ WF_vars(Deadline)

-----------------------------------------------------------------------------
(* Correctness.                                                            *)

\* A verdict is never made of half a conversation: an answer other than
\* "unverified" is the decision the child wrote, completely, before it exited
\* zero; the whole event had gone out to it, and no stream failed meanwhile.  A
\* child that decides and closes its streams while the event is still on its
\* way is not believed until 'finish' says that it got out (hook.js:102-104;
\* an EPIPE instead outranks the decision).
WholeVerdict ==
  answer \in Kinds \ {"unverified"} =>
     /\ said = answer /\ heard = said
     /\ child = "gone" /\ exit = "zero"
     /\ input = "flushed" /\ ~fault

\* The other way round, the extension cries "unverified" only with a cause: a
\* complete decision of a child that exited zero, on streams that held, is
\* what the host acts upon, in whichever order 'close' and 'finish' come, and
\* once both have come the deadline is no cause (hook.js:102-104, 123-131).
NoFalseAlarm ==
  answer = "unverified" =>
     \/ fault
     \/ exit # "zero"
     \/ said \notin Decisions \ {"warn"}

\* Fail closed: a tool that changes files ran only when a tackbox that exited
\* zero, heard without a fault, had said "allow", or had asked and the user said
\* yes (index.js:44-58; every other outcome blocks the call).
FailClosed == ran /\ tool = "mutation" => word \in {"allow", "approved"}

\* After a tool whose result is checked the agent hears nothing only when the
\* child cleared it.
SilenceIsClean ==
  step = "over" /\ tool # "other" /\ ran /\ told = "nothing" =>
     said = "allow" /\ exit = "zero" /\ ~fault

\* Once the promise is resolved no deadline is left armed, and no child is left
\* that was not told to end (hook.js:91-101; whether it obeys SIGTERM is its
\* own affair).
NothingLeft == settled => timer = "off" /\ child # "running"

\* A hung child, a pipe that never drains, a close that never comes: the host
\* always gets its answer, by the deadline at the latest.
HookReturns == step \in Hooking ~> step \notin Hooking
=============================================================================
