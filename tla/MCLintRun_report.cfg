\* A quiet tree, and an engine that may crash half way.
CONSTANTS
  a = a
  gen = gen
  con = con
  orphan = orphan
  w = w
  j = j
  doc = doc
  sym = sym
  sub = sub
  root = root
  m = m
  y = y
  x = x
  erclint = erclint
  eslint = eslint
  javalint = javalint
  mdlint = mdlint
  generated = generated
  Paths = {a, gen, con, orphan, w, j, doc, sym, sub}
  Dirs = {root, m, y, x}
  Root = root
  Home <- MCHome
  Parent <- MCParent
  GoFiles = {a, gen, con, orphan}
  GoMods = {m}
  Constrained = {con}
  Ignored = {}
  Attributes = {generated}
  Contents = {"ok", "bug", "sup", "broken"}
  Engines = {erclint, eslint, javalint, mdlint}
  Lints <- MCLints
  PackageMode = {erclint}
  Json = {erclint, javalint}
  Cacheable = {erclint, eslint, javalint}
  LinkAware = {mdlint}
  Links <- MCLinks
  Branch = {a}
  Worlds <- MCSickWorlds
  Tools <- MCTools
  Declarable = {a, gen, con, orphan, w, j}
  JavaRun = {javalint}
  JavaFiles = {j}
  store = store
  thin = thin
  ercbin = ercbin
  nodebin = nodebin
  rules = rules
  jar = jar
  Payloads = {store}
  Thin = thin
  Parts = {ercbin, nodebin, rules, jar}
  Top <- MCTop
  Probed = {ercbin, nodebin}
SPECIFICATION Spec
INVARIANT FailureReported
\* A run ends.
CHECK_DEADLOCK FALSE
