\* Two runs, of one release or two; edits only while nobody lints.
CONSTANTS
  r1 = r1
  r2 = r2
  r3 = r3
  pkg = pkg
  js = js
  a = a
  b = b
  dep = dep
  tdep = tdep
  go = go
  eslint = eslint
  v1 = v1
  v2 = v2
  Runs = {r1, r2, r3}
  Units = {pkg, js}
  Files = {a, b, dep, tdep}
  Contents = {"ok", "bug"}
  Engines = {go, eslint}
  Release <- MCRelease
  Engine <- MCEngine
  Located = {go}
  NeverCached = {}
  Own <- MCOwn
  Covered <- MCCovered
  Reads <- MCReads
  Finds <- MCFinds
  SoftCap = 1
  Edits = 1
  Quiet = TRUE
SYMMETRY Sym
SPECIFICATION Spec
CONSTRAINT Pair
INVARIANTS MarkersSound CapAtRest CacheTransparent
\* Every run has ended.
CHECK_DEADLOCK FALSE
