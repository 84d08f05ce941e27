\* One tool call, gated or not, with every order of events; or one input of up
\* to four rows on two files that are there and one that is not.
SPECIFICATION MCSpec
CONSTANTS
  a = a
  b = b
  c = c
  NoPath = NoPath
  Paths <- MCPaths
  Existing <- MCExisting
  Steps <- MCSteps
  Sections <- MCSections
INVARIANTS WholeVerdict NoFalseAlarm FailClosed SilenceIsClean NothingLeft
INVARIANTS PreFaithful PostFaithful PlainAccepted
PROPERTY HookReturns
\* The call is over, or the user has not answered; the input is dealt with.
CHECK_DEADLOCK FALSE
