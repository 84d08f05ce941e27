CONSTANTS
  a = a
  b = b
  x = x
  c = c
  dev1 = dev1
  dev2 = dev2
  man1 = man1
  man2 = man2
  r1 = r1
  r2 = r2
  Repos = {r1, r2}
  Files = {a, b, x, c, dev1, dev2, man1, man2}
  Engines = {"erclint", "jscpd"}
  PackageEngine = "erclint"
  Excluded = {x}
  MaxLines = 2
  Home <- MCHome
  DevPy <- MCDevPy
  Manifest <- MCManifest
  Lints <- MCLints
  Trees <- MCTrees
  Events <- MCEvents
  Marked = {a}
  Shared = {a, dev1}
SPECIFICATION Spec
INVARIANTS
  TypeOK
  FindingOnEditTold
  FailureTold
  BlameHasReason
  OneDecision
