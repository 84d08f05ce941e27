\* Three invocations, two payloads, one host that its wheel was not built for.
CONSTANTS
  p1 = p1
  p2 = p2
  p3 = p3
  e1 = e1
  o1 = o1
  NoProc = NoProc
  Procs = {p1, p2, p3}
  Roots = {e1, o1}
  Needs <- MCNeeds
  Drifted = {p3}
  Attempts = 2
SPECIFICATION FairSpec
INVARIANTS TypeOK LockDiscipline OnlyVerifiedVisible FetchedOnce ReadyMeansInstalled
PROPERTIES EveryInvocationEnds ImplementsPayloadStore
