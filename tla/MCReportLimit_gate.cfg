\* Every runtime: three threads of one report each, a clock that may go back and forth.
CONSTANTS
  t1 = t1
  t2 = t2
  t3 = t3
  Threads = {t1, t2, t3}
  Keys = {"k"}
  NotifierKey = "report.notifier"
  Window = 2
  Runtimes = {"lock", "race", "turn"}
  Reports = 1
  End = 2
  MaxLag = 1
  MaxAhead = 1
SYMMETRY Sym
SPECIFICATION Spec
INVARIANTS UserLaneComplete WindowHeld DropIsCovered
\* Every thread has made its reports.
CHECK_DEADLOCK FALSE
