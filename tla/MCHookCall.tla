----------------------------- MODULE MCHookCall -----------------------------
(***************************************************************************)
(* The two halves of the extension side by side: a tool call from the      *)
(* event to its end (HookCall has no constants), or the reduction of one   *)
(* input and its result (HookPayload).  They share no state: a request     *)
(* refused is one way to the "unverified" of the call.                     *)
(***************************************************************************)
EXTENDS HookCall, HookPayload

VARIABLE half
CONSTANTS a, b, c

MCPaths == {a, b, c}
MCExisting == {a, b}
MCSteps == 4
MCSections == 2

Call == half = "call"
MCInit == half \in {"call", "payload"} /\ Init /\ PayloadInit
          /\ (Call => form = "direct")
MCNext == /\ UNCHANGED half
          /\ \/ Call /\ Next /\ UNCHANGED payloadVars
             \/ ~Call /\ PayloadNext /\ UNCHANGED vars

\* FairSpec of HookCall, for its half.
MCSpec == /\ MCInit /\ [][MCNext]_<<half, vars, payloadVars>>
          /\ WF_vars(Call /\ Host /\ UNCHANGED payloadVars)
          /\ WF_vars(Call /\ Deadline /\ UNCHANGED payloadVars)
=============================================================================
