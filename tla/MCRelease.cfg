\* Two tags over two platforms and two payloads: between them one part is edited
\* and one version bumped, and one fault, one drifting build and one re-run.
CONSTANTS
  engines = engines
  opengrep = opengrep
  linux = linux
  android = android
  node = node
  jscpd = jscpd
  lockfile = lockfile
  og = og
  notice = notice
  Platforms = {linux, android}
  Payloads = {engines, opengrep}
  Thin = Thin
  Parts = {node, jscpd, lockfile, og, notice}
  Root <- MCRoot
  Absent <- MCAbsent
  Pinned = {node, og}
  Vendored = {lockfile}
  Dotted = {lockfile}
  Compiled <- MCCompiled
  Unlisted = {notice}
  LastTag = 2
  Edits = 1
  Bumps = 1
  Drifts = 1
  Faults = 1
  Reruns = 1
SPECIFICATION Spec
INVARIANTS EveryPinResolves RefusedForReason ReleaseComplete
\* Every tag has been pushed and every run is over.
CHECK_DEADLOCK FALSE
