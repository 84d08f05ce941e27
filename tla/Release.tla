------------------------------ MODULE Release -------------------------------
(***************************************************************************)
(* A release of tackbox: .github/workflows/publish.yml with the lock check *)
(* (scripts/lock_engines.py), the build (Wheels), the guard                *)
(* (scripts/guard_engines_publish.py) and the uploads, and the npm         *)
(* workflow after it.  Tags are pushed while runs are going, jobs fail at  *)
(* any point and are run again, and sources change between tags.           *)
(*                                                                         *)
(* A file on PyPI never changes once it is there.  A thin wheel pins a     *)
(* version and the tree of each payload, and an install that finds another *)
(* tree under that version is refused for good, so what is uploaded with   *)
(* skip-existing must be what is already there.                            *)
(***************************************************************************)
EXTENDS Wheels, FiniteSets

CONSTANTS LastTag,  \* tags are numbered in the order they are pushed
          \* bounds: parts edited and versions bumped between two tags; failing
          \* jobs, lagging listings and parts without a glob; builds of a
          \* compiled part that come out differently; re-runs
          Edits, Bumps, Faults, Drifts, Reruns

ASSUME TagsAssumption == {LastTag, Edits, Bumps, Faults, Drifts, Reruns} \subseteq Nat

\* A job is known by its name: the builds and the payload publications share
\* none, and none is called like one of the other five.
ASSUME JobNamesAssumption ==
  /\ Platforms \cap Payloads = {}
  /\ {"lock-check", "smoke", "thin", "verify", "release"} \cap (Platforms \cup Payloads) = {}

Tags == 1..LastTag

VARIABLES runs,     \* runs[t]: the publish run of tag t
          active, pending,  \* the concurrency group: at most one run each
          pypi,     \* payload wheels on PyPI
          thins,    \* thin wheels on PyPI
          releases, npm,
          fooled,   \* history: tags whose guard was given a listing that
                    \* lacked a file
          refused,  \* history: the payload publications the guard stopped
          spent     \* faults, drifts and re-runs so far

published == <<pypi, thins, releases, npm>>
history == <<fooled, refused>>
vars == <<runs, active, pending, published, history, spent>>

NoTag == 0
NoWheel == [payload |-> {}]

\* The builds are named by their platform and the payload publications by
\* their payload; smoke and smoke-android are one job.
Jobs == Platforms \cup Payloads \cup {"lock-check", "smoke", "thin", "verify", "release"}
Waiting == [j \in Jobs |-> "wait"]

\* `needs:` of job j.
Needs(t, j) ==
  LET ok(k) == runs[t].job[k] = "ok"
  IN  CASE j = "lock-check" -> TRUE
        [] j \in Platforms -> ok("lock-check")
        [] j = "smoke" -> \A pl \in Platforms : ok(pl)
        [] j \in Payloads -> ok("smoke")
        [] j = "thin" -> \A p \in Payloads : ok(p)
        [] j = "verify" -> ok("thin")
        [] j = "release" -> ok("verify")

Ready(t, j) == active = t /\ runs[t].job[j] = "wait" /\ Needs(t, j)
Going(t, j) == Ready(t, j) \/ (active = t /\ runs[t].job[j] = "cleared")

Become(t, j, state) == runs' = [runs EXCEPT ![t].job[j] = state]

\* The sources that the first tag is put on.
Head == [part |-> [x \in Parts |-> [pl \in Platforms |-> 0]], manifest |-> 0,
         version |-> [p \in Payloads |-> 0],
         lock |-> [version |-> [p \in Payloads |-> 0], manifest |-> 0]]

Init ==
  /\ runs = [t \in Tags |-> [status |-> "none", source |-> Head, job |-> Waiting,
                             dist |-> [pl \in Platforms |-> NoWheel]]]
  /\ active = NoTag /\ pending = NoTag
  /\ pypi = {} /\ thins = {} /\ releases = {} /\ npm = {}
  /\ fooled = {} /\ refused = {}
  /\ spent = [faults |-> 0, drifts |-> 0, reruns |-> 0]

Spend(what, bound) == spent[what] < bound /\ spent' = [spent EXCEPT ![what] = @ + 1]

-----------------------------------------------------------------------------
(* The repository.                                                         *)

\* A part changes, on some platforms; a change of a pin is a change of
\* manifest.json or package-lock.json.
EditPart(s, x) ==
  {[s EXCEPT !.part[x] = [pl \in Platforms |-> IF pl \in on THEN @[pl] + 1 ELSE @[pl]],
             !.manifest = IF x \in Pinned THEN @ + 1 ELSE @]
     : on \in (SUBSET {pl \in Platforms : x \notin Absent[pl]}) \ {{}}}

BumpVersion(s) == {[s EXCEPT !.version[p] = @ + 1] : p \in Payloads}

\* lock_engines.py --write
ComputeLock(s) == [version |-> s.version, manifest |-> s.manifest]
WriteLock(s) == [s EXCEPT !.lock = ComputeLock(s)]

\* What may be committed on s before the next tag.
Commits(s) ==
  LET edits(u) == UNION {EditPart(u, x) : x \in Parts}
      edited[n \in 0..Edits] == IF n = 0 THEN {s}
                                ELSE edited[n - 1] \cup UNION {edits(u) : u \in edited[n - 1]}
      bumped[n \in 0..Bumps] ==
        IF n = 0 THEN edited[Edits]
        ELSE bumped[n - 1] \cup UNION {BumpVersion(u) : u \in bumped[n - 1]}
  IN  bumped[Bumps] \cup {WriteLock(u) : u \in bumped[Bumps]}

-----------------------------------------------------------------------------
(* The workflow.                                                           *)

\* One run at a time, one more waits, and a third takes its place.
Enqueue(t, run) ==
  \/ /\ active = NoTag
     /\ active' = t /\ UNCHANGED pending
     /\ runs' = [runs EXCEPT ![t] = [run EXCEPT !.status = "running"]]
  \/ /\ active # NoTag
     /\ pending' = t /\ UNCHANGED active
     /\ runs' = [s \in Tags |-> IF s = t THEN [run EXCEPT !.status = "pending"]
                                ELSE IF s = pending THEN [runs[s] EXCEPT !.status = "cancelled"]
                                ELSE runs[s]]

PushTag(t) ==
  /\ runs[t].status = "none" /\ \A s \in 1..(t - 1) : runs[s].status # "none"
  /\ \E head \in IF t = 1 THEN {Head} ELSE Commits(runs[t - 1].source) :
        Enqueue(t, [runs[t] EXCEPT !.source = head])
  /\ UNCHANGED <<published, history, spent>>

\* Re-run all jobs, or those that failed and what was skipped after them.
Rerun(t) ==
  /\ runs[t].status \in {"failed", "cancelled"}
  /\ Spend("reruns", Reruns)
  /\ \/ Enqueue(t, [runs[t] EXCEPT !.job = Waiting,
                                   !.dist = [pl \in Platforms |-> NoWheel]])
     \/ Enqueue(t, [runs[t] EXCEPT !.job = [j \in Jobs |-> IF @[j] = "ok" THEN "ok"
                                                                         ELSE "wait"]])
  /\ UNCHANGED <<published, history>>

\* A step of job j fails: the network, a runner, a tool.
FailJob(t, j) ==
  /\ Going(t, j)
  /\ Spend("faults", Faults)
  /\ Become(t, j, "failed")
  /\ UNCHANGED <<active, pending, published, history>>

LockCheck(t) ==
  /\ Ready(t, "lock-check")
  /\ Become(t, "lock-check",
            IF runs[t].source.lock = ComputeLock(runs[t].source) THEN "ok" ELSE "failed")
  /\ UNCHANGED <<active, pending, published, history, spent>>

\* fail-fast is off: the builds of the platforms do not mind each other.
Build(t, pl) ==
  /\ Ready(t, pl)
  /\ \E luck \in {0, 1}, missed \in {{}} \cup {{x} : x \in Parts} :
        LET s == runs[t].source
        IN  /\ CASE luck = 0 /\ missed = {} -> UNCHANGED spent
                 [] luck = 1 /\ missed = {} -> Compiled[pl] # {} /\ Spend("drifts", Drifts)
                 [] OTHER -> luck = 0 /\ Spend("faults", Faults)
            /\ \/ /\ ~BuildFails(s, pl, luck, missed)
                  /\ runs' = [runs EXCEPT ![t].job[pl] = "ok",
                                          ![t].dist[pl] = Built(s, pl, luck, missed, spent.reruns)]
               \/ /\ BuildFails(s, pl, luck, missed)
                  /\ Become(t, pl, "failed")
  /\ UNCHANGED <<active, pending, published, history>>

\* doctor and lint on an install of the built wheels.
Smoke(t) ==
  /\ Ready(t, "smoke")
  /\ LET Sound(d) == ChecksumsHold(d.thin, [p \in Payloads |-> d.payload[p].content])
     IN  Become(t, "smoke", IF \A pl \in Platforms : Sound(runs[t].dist[pl])
                            THEN "ok" ELSE "failed")
  /\ UNCHANGED <<active, pending, published, history, spent>>

-----------------------------------------------------------------------------
(* The payload publications.                                               *)

\* A wheel is found by its name: the project, the version and the platform.
Local(t, p, pl) == runs[t].dist[pl].payload[p]
Named(t, p, pl) == {f \in pypi : /\ f.project = p /\ f.platform = pl
                                 /\ f.version = runs[t].source.version[p]}

\* Mutants: one platform stands for all; whatever the version.
CompareOne(t, p, listing) ==
  \E pl \in Platforms : \A f \in Named(t, p, pl) \cap listing : f.content = Local(t, p, pl).content
CompareLatest(t, p, listing) ==
  \A pl \in Platforms, f \in listing : f.platform = pl => f.content = Local(t, p, pl).content

\* compare_wheel: fresh or a match, for every local wheel.
Compare(t, p, listing) ==
  \A pl \in Platforms : \A f \in Named(t, p, pl) \cap listing : f.content = Local(t, p, pl).content

\* guard_wheels reads the project's listing once; the listing may lag.
Guard(t, p) ==
  /\ Ready(t, p)
  /\ \E listing \in SUBSET {f \in pypi : f.project = p} :
        /\ IF listing = {f \in pypi : f.project = p} THEN UNCHANGED spent
           ELSE Spend("faults", Faults)
        /\ fooled' = IF \E pl \in Platforms : ~(Named(t, p, pl) \subseteq listing)
                     THEN fooled \cup {t} ELSE fooled
        /\ \/ /\ Compare(t, p, listing)
              /\ Become(t, p, "cleared")
              /\ UNCHANGED refused
           \/ /\ ~Compare(t, p, listing)
              /\ Become(t, p, "failed")
              /\ refused' = refused \cup
                    {[tag |-> t, project |-> p,
                      content |-> [pl \in Platforms |-> Local(t, p, pl).content]]}
  /\ UNCHANGED <<active, pending, published>>

\* skip-existing: a name that is taken is passed over.
Upload(t, p, pl) ==
  /\ active = t /\ runs[t].job[p] = "cleared" /\ Named(t, p, pl) = {}
  /\ pypi' = pypi \cup {[project |-> p, platform |-> pl, version |-> Local(t, p, pl).version,
                         content |-> Local(t, p, pl).content]}
  /\ UNCHANGED <<runs, active, pending, thins, releases, npm, history, spent>>

Uploaded(t, p) ==
  /\ active = t /\ runs[t].job[p] = "cleared"
  /\ \A pl \in Platforms : Named(t, p, pl) # {}
  /\ Become(t, p, "ok")
  /\ UNCHANGED <<active, pending, published, history, spent>>

-----------------------------------------------------------------------------
(* The thin wheels and what follows.                                       *)

ThinOf(t, pl) == {w \in thins : w.tag = t /\ w.platform = pl}

\* No skip-existing: a name that is taken fails the job, unless it is the
\* same file; a wheel that was built again is not.
UploadThin(t, pl) ==
  /\ Ready(t, "thin")
  /\ LET wheel == [tag |-> t, platform |-> pl, thin |-> runs[t].dist[pl].thin]
     IN  \/ /\ ThinOf(t, pl) = {}
            /\ thins' = thins \cup {wheel}
            /\ UNCHANGED runs
         \/ /\ ThinOf(t, pl) # {} /\ wheel \notin thins
            /\ Become(t, "thin", "failed")
            /\ UNCHANGED thins
  /\ UNCHANGED <<active, pending, pypi, releases, npm, history, spent>>

\* Mutant: done with the first platform.
SomeThin(t) ==
  \E pl \in Platforms : runs[t].dist[pl].thin \in {w.thin : w \in ThinOf(t, pl)}

ThinDone(t) ==
  \A pl \in Platforms : runs[t].dist[pl].thin \in {w.thin : w \in ThinOf(t, pl)}

UploadedThin(t) ==
  /\ Ready(t, "thin") /\ ThinDone(t)
  /\ Become(t, "thin", "ok")
  /\ UNCHANGED <<active, pending, published, history, spent>>

\* The canary waits until the index has this runner's wheel.
Verify(t) ==
  /\ Ready(t, "verify") /\ \E pl \in Platforms : ThinOf(t, pl) # {}
  /\ Become(t, "verify", "ok")
  /\ UNCHANGED <<active, pending, published, history, spent>>

CreateRelease(t) ==
  /\ Ready(t, "release")
  /\ releases' = releases \cup {t}
  /\ Become(t, "release", "ok")
  /\ UNCHANGED <<active, pending, pypi, thins, npm, history, spent>>

\* The run is over when no job of it can go on.
Conclude(t) ==
  /\ active = t /\ \A j \in Jobs : ~Going(t, j)
  /\ active' = pending /\ pending' = NoTag
  /\ runs' = [s \in Tags |->
                IF s = t THEN [runs[s] EXCEPT !.status =
                                 IF \A j \in Jobs : runs[t].job[j] = "ok" THEN "success" ELSE "failed"]
                ELSE IF s = pending THEN [runs[s] EXCEPT !.status = "running"]
                ELSE runs[s]]
  /\ UNCHANGED <<published, history, spent>>

\* publish-npm.yml, on a publish run that completed with success.
PublishNpm(t) ==
  /\ runs[t].status = "success" /\ t \notin npm
  /\ npm' = npm \cup {t}
  /\ UNCHANGED <<runs, active, pending, pypi, thins, releases, history, spent>>

Workflow(t) ==
  \/ PushTag(t) \/ Rerun(t) \/ Conclude(t) \/ LockCheck(t) \/ Smoke(t)
  \/ \E j \in Jobs : FailJob(t, j)
  \/ \E pl \in Platforms : Build(t, pl) \/ UploadThin(t, pl)
  \/ \E p \in Payloads : Guard(t, p) \/ Uploaded(t, p) \/ \E pl \in Platforms : Upload(t, p, pl)
  \/ UploadedThin(t) \/ Verify(t) \/ CreateRelease(t) \/ PublishNpm(t)

Next == \E t \in Tags : Workflow(t)

Spec == Init /\ [][Next]_vars

-----------------------------------------------------------------------------
(* Correctness.                                                            *)

\* Every thin wheel on PyPI can be installed: for both payloads the wheel it
\* pins is there, with the tree it pins and the digests its engines.json lists,
\* whatever was edited without a bump, rebuilt, half uploaded or run again
\* ("every fresh install then hits a permanent EnginesStoreError",
\* guard_engines_publish.py:4-12).  It holds for tags whose guard was shown
\* every published file of its names: the guard takes the listing it fetches to
\* be complete ("No CDN wait needed: it checks the already-converged published
\* version", guard_engines_publish.py:18-19), and a run that was shown less can
\* pass a changed payload.
EveryPinResolves ==
  \A w \in thins : w.tag \notin fooled =>
     /\ \A p \in Payloads : [project |-> p, platform |-> w.platform,
                             version |-> w.thin.pins[p].version,
                             content |-> w.thin.pins[p].store] \in pypi
     /\ ChecksumsHold(w.thin, [p \in Payloads |-> w.thin.pins[p].store])

\* The guard stops nobody who changed nothing: a refused publication has, on
\* some platform, other sources than another tag of the same payload version,
\* or a compiled part that came out differently ("identical payload an
\* idempotent re-run", guard_engines_publish.py:17-18).
RefusedForReason ==
  \A r \in refused :
     LET source == runs[r.tag].source
         changed(s, pl) == \E x \in PartsOf(r.project, pl) :
                              runs[s].source.part[x][pl] # source.part[x][pl]
         unlucky(f) == \E x \in Compiled[f.platform] \cap DOMAIN f.content :
                          f.content[x].luck # r.content[f.platform][x].luck
     IN  \/ \E s \in {u \in Tags : runs[u].status # "none"}, pl \in Platforms :
              runs[s].source.version[r.project] = source.version[r.project] /\ changed(s, pl)
         \/ \E f \in pypi : /\ f.project = r.project
                            /\ f.version = source.version[r.project]
                            /\ unlucky(f)

\* npm and the GitHub release come last: when either is there, every platform
\* has its thin wheel on PyPI and that one can be installed ("npm must not
\* publish until a fresh runner resolves this exact thin wheel",
\* publish.yml:414), whichever of the run's attempts uploaded it.
ReleaseComplete ==
  \A t \in npm \cup releases :
     /\ t \in releases
     /\ \A pl \in Platforms : ThinOf(t, pl) # {}
     /\ \A pl \in Platforms, p \in Payloads : Named(t, p, pl) # {}
=============================================================================
