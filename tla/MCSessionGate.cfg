\* Every worktree over every HEAD (one file, two lines, two manifest lines);
\* and two agents who edit two files, the manifest and the attributes, one or
\* two changes a call, with commits and writes past the hooks in between.
CONSTANTS
  a = a
  b = b
  c1 = c1
  c2 = c2
  Files = {a, b}
  Lines <- Two
  Slots <- Two
  Manifest = Manifest
  Attributes = Attributes
  Calls = {c1, c2}
  Edits <- MCEdits
  Writes <- MCWrites
  Steps = 3
SYMMETRY Sym
SPECIFICATION EitherSpec
INVARIANTS NoFalseDebt NothingEscapes CapacityRule DebtIsRepairable NoSilentApproval NoUnseenDebt
\* Steps is a bound: the session may end there.
CHECK_DEADLOCK FALSE
