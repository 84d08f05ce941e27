---------------------------- MODULE ReleaseProofs ----------------------------
(***************************************************************************)
(* Proofs about Release, for any number of tags, platforms, payloads and   *)
(* parts and whatever the bounds are: a published thin wheel resolves, a   *)
(* refused publication has a reason, and what comes last finds everything  *)
(* there.                                                                  *)
(*                                                                         *)
(* The sources of a tag stay opaque: what is committed between two tags is *)
(* never looked into.                                                      *)
(***************************************************************************)
EXTENDS Release, TLAPS

Statuses == {"none", "running", "pending", "cancelled", "failed", "success"}
JobStates == {"wait", "cleared", "ok", "failed"}
Names == {"lock-check", "smoke", "thin", "verify", "release"}

Ok(t, j) == runs[t].job[j] = "ok"
Passed(t, j) == runs[t].job[j] \in {"ok", "cleared"}
Pushed(t) == runs[t].status # "none"

RunShape(run) ==
  /\ run = [status |-> run.status, source |-> run.source, job |-> run.job, dist |-> run.dist]
  /\ run.status \in Statuses
  /\ run.job \in [Jobs -> JobStates]
  /\ run.dist = [pl \in Platforms |-> run.dist[pl]]

\* The shape of the state.
TypeOK ==
  /\ runs = [t \in Tags |-> runs[t]]
  /\ \A t \in Tags : RunShape(runs[t])
  /\ active \in Tags \cup {NoTag} /\ pending \in Tags \cup {NoTag}

\* The concurrency group holds a run that is going and one that waits; a job
\* is halfway only in the run that is going, and only a payload publication
\* is ever halfway.  A tag that was not pushed has done nothing.
Queue ==
  /\ active # NoTag => runs[active].status = "running"
  /\ pending # NoTag => runs[pending].status = "pending"
  /\ \A t \in Tags, j \in Jobs :
        runs[t].job[j] = "cleared" => active = t /\ j \in Payloads
  /\ \A t \in Tags : ~Pushed(t) => /\ \A j \in Jobs : runs[t].job[j] = "wait"
                                   /\ t \notin releases \cup npm

\* A job has passed only when the jobs it needs have.
Chain == \A t \in Tags, j \in Jobs : Passed(t, j) => Needs(t, j)

\* What the build of a platform leaves: wheels of the versions and trees of
\* its sources, and a thin wheel that pins exactly them and whose digests they
\* have.
Faithful(src, pl, d) ==
  /\ \E luck \in {0, 1} : \A p \in Payloads :
        d.payload[p] = [version |-> src.version[p], content |-> Prepare(src, pl, p, luck)]
  /\ d.thin.pins = Pins(d.payload)
  /\ ChecksumsHold(d.thin, [p \in Payloads |-> d.thin.pins[p].store])

DistInv ==
  \A t \in Tags, pl \in Platforms : Ok(t, pl) => Faithful(runs[t].source, pl, runs[t].dist[pl])

\* What a job that is done leaves behind.
DoneInv ==
  /\ \A t \in Tags, p \in Payloads : Ok(t, p) => \A pl \in Platforms : Named(t, p, pl) # {}
  /\ \A t \in Tags : Ok(t, "thin") => \A pl \in Platforms : ThinOf(t, pl) # {}
  /\ \A t \in Tags : Ok(t, "release") => t \in releases
  /\ \A t \in Tags : runs[t].status = "success" => Ok(t, "release")
  /\ releases \cup npm \subseteq Tags

\* Every wheel on PyPI was built from the sources of a tag that has its version.
OriginOf(f) ==
  \E t \in Tags, p \in Payloads, pl \in Platforms, luck \in {0, 1} :
     /\ Pushed(t)
     /\ f = [project |-> p, platform |-> pl, version |-> runs[t].source.version[p],
             content |-> Prepare(runs[t].source, pl, p, luck)]
OriginInv == \A f \in pypi : OriginOf(f)

\* Behind a guard that saw every file of its names, and from then on, a file
\* of that name is what the run built.
MatchInv ==
  \A t \in Tags \ fooled, p \in Payloads :
     Passed(t, p) => \A pl \in Platforms : \A f \in Named(t, p, pl) :
                        f.content = Local(t, p, pl).content

RefusedInv ==
  /\ \A r \in refused : r.tag \in Tags /\ Pushed(r.tag)
  /\ RefusedForReason

Inv == /\ TypeOK /\ Queue /\ Chain /\ DistInv /\ DoneInv /\ OriginInv /\ MatchInv
       /\ ReleaseComplete /\ EveryPinResolves /\ RefusedInv

-----------------------------------------------------------------------------
(* The operators.                                                          *)

\* What each kind of job needs, now and after a step.
LEMMA NeedsOf ==
  ASSUME NEW t
  PROVE  /\ Needs(t, "lock-check")
         /\ \A pl \in Platforms : Needs(t, pl) <=> Ok(t, "lock-check")
         /\ Needs(t, "smoke") <=> \A pl \in Platforms : Ok(t, pl)
         /\ \A p \in Payloads : Needs(t, p) <=> Ok(t, "smoke")
         /\ Needs(t, "thin") <=> \A p \in Payloads : Ok(t, p)
         /\ Needs(t, "verify") <=> Ok(t, "thin")
         /\ Needs(t, "release") <=> Ok(t, "verify")
BY JobNamesAssumption DEF Needs, Ok

\* The same after a step.
LEMMA NeedsOfNext ==
  ASSUME NEW t
  PROVE  (/\ Needs(t, "lock-check")
          /\ \A pl \in Platforms : Needs(t, pl) <=> Ok(t, "lock-check")
          /\ Needs(t, "smoke") <=> \A pl \in Platforms : Ok(t, pl)
          /\ \A p \in Payloads : Needs(t, p) <=> Ok(t, "smoke")
          /\ Needs(t, "thin") <=> \A p \in Payloads : Ok(t, p)
          /\ Needs(t, "verify") <=> Ok(t, "thin")
          /\ Needs(t, "release") <=> Ok(t, "verify"))'
BY JobNamesAssumption DEF Needs, Ok

\* What a job needs stays done as long as jobs that are done stay done.
LEMMA NeedsStay ==
  ASSUME NEW t, NEW j \in Jobs, Needs(t, j), \A k \in Jobs : Ok(t, k) => Ok(t, k)'
  PROVE  Needs(t, j)'
BY NeedsOf, NeedsOfNext DEF Jobs

\* Down the chain: a payload is published when every platform is built, and a
\* thin wheel when every payload is.
LEMMA ChainDown ==
  ASSUME Chain, NEW t \in Tags
  PROVE  /\ \A p \in Payloads : Passed(t, p) \/ Needs(t, p) => \A pl \in Platforms : Ok(t, pl)
         /\ Ok(t, "thin") \/ Needs(t, "thin") =>
               /\ \A p \in Payloads : Ok(t, p)
               /\ Payloads # {} => \A pl \in Platforms : Ok(t, pl)
         /\ Ok(t, "release") \/ Needs(t, "release") =>
               Ok(t, "thin") /\ \A p \in Payloads : Ok(t, p)
<1>1. \A j \in Jobs : Ok(t, j) => Needs(t, j)
  BY DEF Chain, Passed, Ok
<1>2. \A p \in Payloads : Passed(t, p) => Needs(t, p)
  BY DEF Chain, Jobs
<1> QED BY <1>1, <1>2, NeedsOf DEF Jobs

\* A wheel that misses nothing is the tree it was built from.
LEMMA WheelIsTree ==
  ASSUME NEW src, NEW pl, NEW p, NEW luck, NEW missed,
         VerifyWheelPayload(Prepare(src, pl, p, luck), BuildWheel(Prepare(src, pl, p, luck), missed))
  PROVE  BuildWheel(Prepare(src, pl, p, luck), missed) = Prepare(src, pl, p, luck)
<1> DEFINE tree == Prepare(src, pl, p, luck)
<1>1. tree = [x \in DOMAIN tree |-> tree[x]]
  BY DEF Prepare, PruneDotPaths, Restrict
<1>2. BuildWheel(tree, missed) = [x \in DOMAIN tree \ (Dotted \cup missed) |-> tree[x]]
  BY DEF BuildWheel, Restrict
<1> HIDE DEF tree
<1>3. DOMAIN tree \ (Dotted \cup missed) = DOMAIN tree
  BY <1>2 DEF VerifyWheelPayload, tree
<1> QED BY <1>1, <1>2, <1>3 DEF tree

\* The build of a platform: its wheels hold what was staged, and the thin wheel
\* pins them and lists digests that they have, whatever was missed in silence.
LEMMA BuildIsFaithful ==
  ASSUME NEW src, NEW pl, NEW luck \in {0, 1}, NEW missed, NEW build,
         ~BuildFails(src, pl, luck, missed)
  PROVE  Faithful(src, pl, Built(src, pl, luck, missed, build))
<1> DEFINE d == Built(src, pl, luck, missed, build)
           Tree(p) == Prepare(src, pl, p, luck)
<1>1. \A p \in Payloads \cup {Thin} : BuildWheel(Tree(p), missed) = Tree(p)
  BY WheelIsTree DEF BuildFails
<1>2. \A p \in Payloads : d.payload[p] = [version |-> src.version[p], content |-> Tree(p)]
  BY <1>1 DEF Built, BuildPayloadWheel
<1>3. d.thin.pins = Pins(d.payload)
  BY DEF Built
<1>4. \A p \in Payloads : d.thin.pins[p].store = Tree(p)
  <2> HIDE DEF d, Tree
  <2> TAKE p \in Payloads
  <2>1. d.payload[p] = [version |-> src.version[p], content |-> Tree(p)]
    BY <1>2
  <2>2. d.payload[p].content = Tree(p)
    BY <2>1
  <2>3. d.thin.pins[p] = [version |-> d.payload[p].version, store |-> d.payload[p].content]
    BY <1>3 DEF Pins
  <2> QED BY <2>2, <2>3
<1>5. d.thin.content = Tree(Thin)
  BY <1>1 DEF Built
<1>6. d.thin.engines = [p \in Payloads \cup {Thin} |-> Entries(Tree(p))]
  BY DEF Built, PrepareThin
<1>7. \A p : \A x \in DOMAIN Entries(Tree(p)) :
         x \in DOMAIN Tree(p) /\ Tree(p)[x] = Entries(Tree(p))[x]
  BY DEF Entries, Restrict
<1> HIDE DEF d, Tree
<1>8. ChecksumsHold(d.thin, [p \in Payloads |-> d.thin.pins[p].store])
  BY <1>4, <1>5, <1>6, <1>7 DEF ChecksumsHold
<1> QED BY <1>2, <1>3, <1>8 DEF Faithful, d, Tree

-----------------------------------------------------------------------------
(* What a step does to the runs.                                           *)

\* A job of the run that is going, and that has what it needs, comes to an end
\* or halfway.
Moves(t, j, state) ==
  /\ runs[t].job[j] # "ok" /\ Needs(t, j) /\ active = t
  /\ \A s \in Tags : runs'[s].status = runs[s].status /\ runs'[s].source = runs[s].source
  /\ \A s \in Tags, k \in Jobs :
        runs'[s].job[k] = IF s = t /\ k = j THEN state ELSE runs[s].job[k]
  /\ \A s \in Tags, pl \in Platforms : Ok(s, pl) => runs'[s].dist[pl] = runs[s].dist[pl]
  /\ UNCHANGED <<active, pending>>

\* A run is queued: that of a new tag, or an old one whose jobs are waiting
\* again, all of them or those that were not done.
Enters(t) ==
  /\ active # t /\ pending # t
  /\ active = NoTag => active' = t /\ UNCHANGED pending /\ runs'[t].status = "running"
  /\ active # NoTag => pending' = t /\ UNCHANGED active /\ runs'[t].status = "pending"
  /\ \A s \in Tags \ {t} :
        /\ runs'[s].source = runs[s].source /\ runs'[s].job = runs[s].job
        /\ runs'[s].dist = runs[s].dist
        /\ runs'[s].status = IF active # NoTag /\ s = pending THEN "cancelled" ELSE runs[s].status
  /\ runs'[t].source = runs[t].source \/ ~Pushed(t)
  /\ \/ \A j \in Jobs : runs'[t].job[j] = "wait"
     \/ /\ \A j \in Jobs : runs'[t].job[j] = IF Ok(t, j) THEN "ok" ELSE "wait"
        /\ runs'[t].dist = runs[t].dist

\* A workflow action that only ends one job of the run that is going.
LEMMA BecomeMoves ==
  ASSUME TypeOK, NEW t \in Tags, NEW j \in Jobs, NEW state \in JobStates,
         Become(t, j, state), runs[t].job[j] # "ok", Needs(t, j), active = t,
         UNCHANGED <<active, pending>>
  PROVE  TypeOK' /\ Moves(t, j, state)
<1> DEFINE run(s) == runs'[s]
<1>1. \A s \in Tags : runs'[s] = IF s = t THEN [runs[t] EXCEPT !.job = [@ EXCEPT ![j] = state]]
                                ELSE runs[s]
  BY DEF Become, TypeOK
<1>2. runs' = [s \in Tags |-> runs'[s]]
  BY DEF Become, TypeOK
<1>3. RunShape(runs[t])
  BY DEF TypeOK
<1>4. runs'[t] = [status |-> runs[t].status, source |-> runs[t].source,
                  job |-> [runs[t].job EXCEPT ![j] = state], dist |-> runs[t].dist]
  BY <1>1, <1>3 DEF RunShape
<1>5. RunShape(runs'[t])
  BY <1>3, <1>4 DEF RunShape
<1>6. TypeOK'
  BY <1>1, <1>2, <1>5 DEF TypeOK
<1>7. \A k \in Jobs : runs'[t].job[k] = IF k = j THEN state ELSE runs[t].job[k]
  BY <1>3, <1>4 DEF RunShape
<1>8. \A s \in Tags : runs'[s].status = runs[s].status /\ runs'[s].source = runs[s].source
  BY <1>1, <1>4
<1>9. \A s \in Tags, k \in Jobs :
        runs'[s].job[k] = IF s = t /\ k = j THEN state ELSE runs[s].job[k]
  BY <1>1, <1>7
<1>10. \A s \in Tags, pl \in Platforms : Ok(s, pl) => runs'[s].dist[pl] = runs[s].dist[pl]
  BY <1>1, <1>4
<1> QED BY <1>6, <1>8, <1>9, <1>10 DEF Moves

\* What Enqueue makes of a run that is in neither place of the group.
LEMMA EnqueueEnters ==
  ASSUME TypeOK, Queue, NEW t \in Tags, NEW run, RunShape(run), Enqueue(t, run),
         runs[t].status \in {"none", "failed", "cancelled"},
         run.source = runs[t].source \/ ~Pushed(t),
         \/ \A j \in Jobs : run.job[j] = "wait"
         \/ /\ \A j \in Jobs : run.job[j] = IF Ok(t, j) THEN "ok" ELSE "wait"
            /\ run.dist = runs[t].dist
  PROVE  TypeOK' /\ Enters(t)
<1>1. active # t /\ pending # t
  BY TagsAssumption DEF Queue, Tags, NoTag
<1>2. \A state \in Statuses :
         LET new == [run EXCEPT !.status = state]
         IN  /\ RunShape(new) /\ new.status = state
             /\ new.source = run.source /\ new.job = run.job /\ new.dist = run.dist
  BY DEF RunShape
<1>3. \A s \in Tags : LET old == [runs[s] EXCEPT !.status = "cancelled"]
                      IN  /\ RunShape(old) /\ old.status = "cancelled"
                          /\ old.source = runs[s].source /\ old.job = runs[s].job
                          /\ old.dist = runs[s].dist
  BY DEF TypeOK, RunShape, Statuses
<1>4. CASE active = NoTag
  <2>1. /\ runs' = [runs EXCEPT ![t] = [run EXCEPT !.status = "running"]]
        /\ active' = t /\ UNCHANGED pending
    BY <1>4 DEF Enqueue
  <2>2. \A s \in Tags : runs'[s] = IF s = t THEN [run EXCEPT !.status = "running"] ELSE runs[s]
    BY <2>1 DEF TypeOK
  <2>0. LET new == [run EXCEPT !.status = "running"]
        IN  /\ RunShape(new) /\ new.status = "running"
            /\ new.source = run.source /\ new.job = run.job /\ new.dist = run.dist
    BY <1>2 DEF Statuses
  <2>3. TypeOK'
    BY <2>0, <2>1, <2>2 DEF TypeOK
  <2>4. /\ runs'[t].status = "running" /\ runs'[t].source = run.source
        /\ runs'[t].job = run.job /\ runs'[t].dist = run.dist
    BY <2>0, <2>2
  <2> QED BY <1>1, <1>4, <2>1, <2>2, <2>3, <2>4 DEF Enters
<1>5. CASE active # NoTag
  <2>1. /\ runs' = [s \in Tags |-> IF s = t THEN [run EXCEPT !.status = "pending"]
                                   ELSE IF s = pending THEN [runs[s] EXCEPT !.status = "cancelled"]
                                   ELSE runs[s]]
        /\ pending' = t /\ UNCHANGED active
    BY <1>5 DEF Enqueue
  <2>0. LET new == [run EXCEPT !.status = "pending"]
        IN  /\ RunShape(new) /\ new.status = "pending"
            /\ new.source = run.source /\ new.job = run.job /\ new.dist = run.dist
    BY <1>2 DEF Statuses
  <2>2. TypeOK'
    BY <1>3, <2>0, <2>1 DEF TypeOK
  <2>3. /\ runs'[t].status = "pending" /\ runs'[t].source = run.source
        /\ runs'[t].job = run.job /\ runs'[t].dist = run.dist
    BY <2>0, <2>1
  <2>4. \A s \in Tags \ {t} :
          /\ runs'[s].source = runs[s].source /\ runs'[s].job = runs[s].job
          /\ runs'[s].dist = runs[s].dist
          /\ runs'[s].status = IF s = pending THEN "cancelled" ELSE runs[s].status
    BY <1>3, <2>1
  <2> QED BY <1>1, <1>5, <2>1, <2>2, <2>3, <2>4 DEF Enters
<1> QED BY <1>4, <1>5

\* Both actions of the queue.
LEMMA EntersStep ==
  ASSUME TypeOK, Queue, NEW t \in Tags, PushTag(t) \/ Rerun(t)
  PROVE  TypeOK' /\ Enters(t)
<1>0. RunShape(runs[t])
  BY DEF TypeOK
<1>1. CASE PushTag(t)
  <2>1. PICK head : Enqueue(t, [runs[t] EXCEPT !.source = head])
    BY <1>1 DEF PushTag
  <2> DEFINE run == [runs[t] EXCEPT !.source = head]
  <2>2. RunShape(run) /\ run.job = runs[t].job
    BY <1>0 DEF RunShape
  <2>3. runs[t].status = "none" /\ ~Pushed(t)
    BY <1>1 DEF PushTag, Pushed
  <2>4. \A j \in Jobs : run.job[j] = "wait"
    BY <2>2, <2>3 DEF Queue
  <2> HIDE DEF run
  <2> QED BY <2>1, <2>2, <2>3, <2>4, EnqueueEnters DEF run
<1>2. CASE Rerun(t)
  <2>1. runs[t].status \in {"none", "failed", "cancelled"}
    BY <1>2 DEF Rerun
  <2> DEFINE all == [runs[t] EXCEPT !.job = Waiting, !.dist = [pl \in Platforms |-> NoWheel]]
             rest == [runs[t] EXCEPT !.job = [j \in Jobs |-> IF @[j] = "ok" THEN "ok" ELSE "wait"]]
  <2>2. RunShape(all) /\ all.source = runs[t].source /\ \A j \in Jobs : all.job[j] = "wait"
    <3>1. all = [status |-> runs[t].status, source |-> runs[t].source, job |-> Waiting,
                 dist |-> [pl \in Platforms |-> NoWheel]]
      <4>1. ASSUME NEW run, RunShape(run), NEW job, NEW dist
            PROVE  [run EXCEPT !.job = job, !.dist = dist]
                      = [status |-> run.status, source |-> run.source, job |-> job, dist |-> dist]
        <5> DEFINE one == [run EXCEPT !.job = job]
        <5>1. one = [status |-> run.status, source |-> run.source, job |-> job, dist |-> run.dist]
          BY <4>1 DEF RunShape
        <5>2. [run EXCEPT !.job = job, !.dist = dist] = [one EXCEPT !.dist = dist]
          BY Zenon
        <5> HIDE DEF one
        <5> QED BY <5>1, <5>2
      <4> QED BY <1>0, <4>1, Zenon
    <3>2. Waiting \in [Jobs -> JobStates] /\ \A j \in Jobs : Waiting[j] = "wait"
      BY DEF Waiting, JobStates
    <3> HIDE DEF all
    <3> QED BY <1>0, <3>1, <3>2 DEF RunShape
  <2>3. /\ RunShape(rest) /\ rest.source = runs[t].source /\ rest.dist = runs[t].dist
        /\ \A j \in Jobs : rest.job[j] = IF Ok(t, j) THEN "ok" ELSE "wait"
    BY <1>0 DEF RunShape, JobStates, Ok
  <2>4. Enqueue(t, all) \/ Enqueue(t, rest)
    BY <1>2 DEF Rerun
  <2> HIDE DEF all, rest
  <2> QED BY <2>1, <2>2, <2>3, <2>4, EnqueueEnters
<1> QED BY <1>1, <1>2

\* The run that is over and the one that takes its place.
LEMMA ConcludeEffect ==
  ASSUME TypeOK, Queue, NEW t \in Tags, Conclude(t)
  PROVE  /\ TypeOK'
         /\ active = t /\ active' = pending /\ pending' = NoTag /\ pending # t
         /\ \A s \in Tags : /\ runs'[s].source = runs[s].source /\ runs'[s].job = runs[s].job
                            /\ runs'[s].dist = runs[s].dist
         /\ \A s \in Tags \ {t} :
               runs'[s].status = IF s = pending THEN "running" ELSE runs[s].status
         /\ runs'[t].status \in {"success", "failed"}
         /\ runs'[t].status = "success" => \A j \in Jobs : Ok(t, j)
         /\ \A j \in Jobs : runs[t].job[j] # "cleared"
<1>1. active = t /\ active' = pending /\ pending' = NoTag
  BY DEF Conclude
<1>2. pending # t
  BY <1>1 DEF Queue, NoTag, Tags
<1>3. \A s \in Tags, state \in Statuses :
         LET new == [runs[s] EXCEPT !.status = state]
         IN  /\ RunShape(new) /\ new.status = state
             /\ new.source = runs[s].source /\ new.job = runs[s].job /\ new.dist = runs[s].dist
  BY DEF TypeOK, RunShape
<1> DEFINE verdict == IF \A j \in Jobs : runs[t].job[j] = "ok" THEN "success" ELSE "failed"
<1>4. runs' = [s \in Tags |-> IF s = t THEN [runs[s] EXCEPT !.status = verdict]
                              ELSE IF s = pending THEN [runs[s] EXCEPT !.status = "running"]
                              ELSE runs[s]]
  BY DEF Conclude
<1>5. verdict \in {"success", "failed"} /\ (verdict = "success" => \A j \in Jobs : Ok(t, j))
  BY DEF Ok
<1> HIDE DEF verdict
<1>6. TypeOK'
  BY <1>1, <1>3, <1>4, <1>5 DEF TypeOK, Statuses
<1>7. \A j \in Jobs : runs[t].job[j] # "cleared"
  BY <1>1 DEF Conclude, Going
<1>8. \A s \in Tags : /\ runs'[s].source = runs[s].source /\ runs'[s].job = runs[s].job
                        /\ runs'[s].dist = runs[s].dist
  <2> SUFFICES ASSUME NEW s \in Tags
               PROVE  /\ runs'[s].source = runs[s].source /\ runs'[s].job = runs[s].job
                      /\ runs'[s].dist = runs[s].dist
    OBVIOUS
  <2>1. PICK state \in Statuses : runs'[s] = runs[s] \/ runs'[s] = [runs[s] EXCEPT !.status = state]
    BY <1>4, <1>5 DEF Statuses
  <2>2. LET new == [runs[s] EXCEPT !.status = state]
        IN  /\ new.source = runs[s].source /\ new.job = runs[s].job
            /\ new.dist = runs[s].dist
    BY <1>3
  <2> QED BY <2>1, <2>2
<1>9. runs'[t].status = verdict
  <2>1. runs'[t] = [runs[t] EXCEPT !.status = verdict]
    BY <1>4
  <2>2. LET new == [runs[t] EXCEPT !.status = verdict] IN new.status = verdict
    BY <1>3, <1>5 DEF Statuses
  <2> QED BY <2>1, <2>2
<1>10. \A s \in Tags \ {t} : runs'[s].status = IF s = pending THEN "running" ELSE runs[s].status
  BY <1>3, <1>4 DEF Statuses
<1> QED BY <1>1, <1>2, <1>5, <1>6, <1>7, <1>8, <1>9, <1>10

\* The build of a platform ends well with what the sources say, or it fails.
LEMMA BuildMoves ==
  ASSUME TypeOK, NEW t \in Tags, NEW pl \in Platforms, Build(t, pl)
  PROVE  /\ TypeOK'
         /\ \/ Moves(t, pl, "failed")
            \/ /\ Moves(t, pl, "ok")
               /\ Faithful(runs[t].source, pl, runs'[t].dist[pl])
<1>0. /\ RunShape(runs[t]) /\ runs[t].job[pl] = "wait" /\ Needs(t, pl) /\ active = t
      /\ UNCHANGED <<active, pending>> /\ pl \in Jobs
  BY DEF TypeOK, Build, Ready, Jobs
<1>1. CASE Become(t, pl, "failed")
  BY <1>0, <1>1, BecomeMoves DEF JobStates
<1>2. CASE ~Become(t, pl, "failed")
  <2>1. PICK luck \in {0, 1}, missed \in {{}} \cup {{x} : x \in Parts} :
          /\ ~BuildFails(runs[t].source, pl, luck, missed)
          /\ runs' = [runs EXCEPT ![t].job[pl] = "ok",
                                  ![t].dist[pl] = Built(runs[t].source, pl, luck, missed, spent.reruns)]
    BY <1>2 DEF Build
  <2> DEFINE wheels == Built(runs[t].source, pl, luck, missed, spent.reruns)
             one == [runs EXCEPT ![t].job[pl] = "ok"]
  <2>2. Faithful(runs[t].source, pl, wheels)
    BY <2>1, BuildIsFaithful
  <2>3. runs' = [one EXCEPT ![t].dist[pl] = wheels]
    BY <2>1, Zenon
  <2> HIDE DEF wheels
  <2>4. one = [s \in Tags |-> IF s = t THEN [runs[t] EXCEPT !.job = [@ EXCEPT ![pl] = "ok"]]
                              ELSE runs[s]]
    BY DEF TypeOK
  <2>5. one[t] = [status |-> runs[t].status, source |-> runs[t].source,
                  job |-> [runs[t].job EXCEPT ![pl] = "ok"], dist |-> runs[t].dist]
    BY <1>0, <2>4 DEF RunShape
  <2> HIDE DEF one
  <2>6. runs' = [s \in Tags |-> IF s = t THEN [one[t] EXCEPT !.dist = [@ EXCEPT ![pl] = wheels]]
                                ELSE runs[s]]
    BY <2>3, <2>4
  <2>7. runs'[t] = [status |-> runs[t].status, source |-> runs[t].source,
                    job |-> [runs[t].job EXCEPT ![pl] = "ok"],
                    dist |-> [runs[t].dist EXCEPT ![pl] = wheels]]
    BY <2>5, <2>6
  <2>8. RunShape(runs'[t])
    <3>1. [runs[t].dist EXCEPT ![pl] = wheels]
            = [x \in Platforms |-> IF x = pl THEN wheels ELSE runs[t].dist[x]]
      BY <1>0 DEF RunShape
    <3>2. [runs[t].job EXCEPT ![pl] = "ok"] \in [Jobs -> JobStates]
      BY <1>0 DEF RunShape, JobStates
    <3> QED BY <1>0, <2>7, <3>1, <3>2 DEF RunShape
  <2>9. TypeOK'
    BY <1>0, <2>6, <2>8 DEF TypeOK
  <2>10. \A k \in Jobs : runs'[t].job[k] = IF k = pl THEN "ok" ELSE runs[t].job[k]
    BY <1>0, <2>7 DEF RunShape
  <2>11. \A x \in Platforms : runs'[t].dist[x] = IF x = pl THEN wheels ELSE runs[t].dist[x]
    BY <1>0, <2>7 DEF RunShape
  <2>12. Moves(t, pl, "ok")
    <3>1. \A s \in Tags : s # t => runs'[s] = runs[s]
      BY <2>6
    <3>2. /\ runs'[t].status = runs[t].status /\ runs'[t].source = runs[t].source
      BY <2>7
    <3>3. \A x \in Platforms : Ok(t, x) => runs'[t].dist[x] = runs[t].dist[x]
      BY <1>0, <2>11 DEF Ok
    <3> QED BY <1>0, <2>10, <3>1, <3>2, <3>3 DEF Moves
  <2> QED BY <1>0, <2>2, <2>9, <2>11, <2>12
<1> QED BY <1>1, <1>2

\* The jobs that are neither built nor published by payload.
LEMMA OtherMoves ==
  ASSUME TypeOK, Chain, NEW t \in Tags
  PROVE  /\ LockCheck(t) => TypeOK' /\ \E state \in {"ok", "failed"} : Moves(t, "lock-check", state)
         /\ Smoke(t) => TypeOK' /\ \E state \in {"ok", "failed"} : Moves(t, "smoke", state)
         /\ UploadedThin(t) => TypeOK' /\ Moves(t, "thin", "ok")
         /\ Verify(t) => TypeOK' /\ Moves(t, "verify", "ok")
         /\ CreateRelease(t) => TypeOK' /\ Moves(t, "release", "ok")
         /\ \A pl \in Platforms : UploadThin(t, pl) =>
               \/ UNCHANGED <<runs, active, pending>>
               \/ TypeOK' /\ Moves(t, "thin", "failed") /\ UNCHANGED published
         /\ \A j \in Jobs : FailJob(t, j) => TypeOK' /\ Moves(t, j, "failed")
<1>1. \A j \in Jobs, state \in JobStates :
         Become(t, j, state) /\ Ready(t, j) /\ UNCHANGED <<active, pending>>
            => TypeOK' /\ Moves(t, j, state)
  BY BecomeMoves DEF Ready
<1>2. {"ok", "failed"} \subseteq JobStates /\ Names \subseteq Jobs
  BY DEF JobStates, Names, Jobs
<1>3. LockCheck(t) => TypeOK' /\ \E state \in {"ok", "failed"} : Moves(t, "lock-check", state)
  <2>1. SUFFICES ASSUME LockCheck(t) PROVE TypeOK' /\ \E state \in {"ok", "failed"} : Moves(t, "lock-check", state)
    OBVIOUS
  <2>2. PICK state \in {"ok", "failed"} : Become(t, "lock-check", state)
    BY <2>1 DEF LockCheck
  <2> QED BY <1>1, <1>2, <2>1, <2>2 DEF LockCheck, Names
<1>4. Smoke(t) => TypeOK' /\ \E state \in {"ok", "failed"} : Moves(t, "smoke", state)
  <2>1. SUFFICES ASSUME Smoke(t) PROVE TypeOK' /\ \E state \in {"ok", "failed"} : Moves(t, "smoke", state)
    OBVIOUS
  <2>2. PICK state \in {"ok", "failed"} : Become(t, "smoke", state)
    BY <2>1 DEF Smoke
  <2> QED BY <1>1, <1>2, <2>1, <2>2 DEF Smoke, Names
<1>5. UploadedThin(t) => TypeOK' /\ Moves(t, "thin", "ok")
  BY <1>1, <1>2 DEF UploadedThin, Names
<1>6. Verify(t) => TypeOK' /\ Moves(t, "verify", "ok")
  BY <1>1, <1>2 DEF Verify, Names
<1>7. CreateRelease(t) => TypeOK' /\ Moves(t, "release", "ok")
  BY <1>1, <1>2 DEF CreateRelease, Names
<1>8. ASSUME NEW pl \in Platforms, UploadThin(t, pl)
      PROVE  \/ UNCHANGED <<runs, active, pending>>
             \/ TypeOK' /\ Moves(t, "thin", "failed") /\ UNCHANGED published
  BY <1>1, <1>2, <1>8 DEF UploadThin, Names, published
<1>9. ASSUME NEW j \in Jobs, FailJob(t, j)
      PROVE  TypeOK' /\ Moves(t, j, "failed")
  <2>1. active = t /\ runs[t].job[j] # "ok" /\ Needs(t, j)
    BY <1>9 DEF FailJob, Going, Ready, Chain, Passed
  <2> QED BY <1>2, <1>9, <2>1, BecomeMoves DEF FailJob
<1> QED BY <1>3, <1>4, <1>5, <1>6, <1>7, <1>8, <1>9

\* A payload publication is cleared or stopped by its guard, and done after the
\* last upload.
LEMMA PayloadMoves ==
  ASSUME TypeOK, Chain, NEW t \in Tags, NEW p \in Payloads
  PROVE  /\ Guard(t, p) => TypeOK' /\ \E state \in {"cleared", "failed"} : Moves(t, p, state)
         /\ Uploaded(t, p) => TypeOK' /\ Moves(t, p, "ok")
<1>1. p \in Jobs /\ {"ok", "failed", "cleared"} \subseteq JobStates
  BY DEF Jobs, JobStates
<1>2. ASSUME Guard(t, p)
      PROVE  TypeOK' /\ \E state \in {"cleared", "failed"} : Moves(t, p, state)
  <2>1. PICK state \in {"cleared", "failed"} : Become(t, p, state)
    BY <1>2 DEF Guard
  <2> QED BY <1>1, <1>2, <2>1, BecomeMoves DEF Guard, Ready
<1>3. ASSUME Uploaded(t, p) PROVE TypeOK' /\ Moves(t, p, "ok")
  <2>1. Needs(t, p)
    BY <1>1, <1>3 DEF Uploaded, Chain, Passed
  <2> QED BY <1>1, <1>3, <2>1, BecomeMoves DEF Uploaded
<1> QED BY <1>2, <1>3

\* Every step queues a run, ends one, takes one job of one a step further, or
\* leaves the runs alone.
LEMMA StepKinds ==
  ASSUME TypeOK, Queue, Chain, NEW t \in Tags, Workflow(t)
  PROVE  /\ TypeOK'
         /\ \/ Enters(t) \/ Conclude(t)
            \/ \E j \in Jobs, state \in JobStates :
                  Moves(t, j, state) /\ (state = "cleared" => j \in Payloads)
            \/ UNCHANGED <<runs, active, pending>>
<1>0. {"ok", "failed", "cleared"} \subseteq JobStates /\ Names \cup Platforms \cup Payloads = Jobs
  BY DEF JobStates, Names, Jobs
<1>1. CASE PushTag(t) \/ Rerun(t)
  BY <1>1, EntersStep
<1>2. CASE Conclude(t)
  BY <1>2, ConcludeEffect
<1>3. CASE LockCheck(t) \/ Smoke(t) \/ UploadedThin(t) \/ Verify(t) \/ CreateRelease(t)
  BY <1>0, <1>3, OtherMoves DEF Names
<1>4. CASE \E j \in Jobs : FailJob(t, j)
  BY <1>0, <1>4, OtherMoves
<1>5. CASE \E pl \in Platforms : Build(t, pl)
  BY <1>0, <1>5, BuildMoves
<1>6. ASSUME UNCHANGED <<runs, active, pending>> PROVE TypeOK'
  BY <1>6 DEF TypeOK, RunShape
<1>7. CASE \E pl \in Platforms : UploadThin(t, pl)
  BY <1>0, <1>6, <1>7, OtherMoves DEF Names
<1>8. CASE \E p \in Payloads : Guard(t, p) \/ Uploaded(t, p)
  BY <1>0, <1>8, PayloadMoves
<1>9. CASE PublishNpm(t) \/ \E p \in Payloads, pl \in Platforms : Upload(t, p, pl)
  BY <1>6, <1>9 DEF PublishNpm, Upload
<1> QED BY <1>1, <1>2, <1>3, <1>4, <1>5, <1>7, <1>8, <1>9 DEF Workflow

\* Nothing that was published goes away, and only a tag that was pushed has a
\* release.
LEMMA PublishedGrows ==
  ASSUME TypeOK, Queue, NEW t \in Tags, Workflow(t)
  PROVE  /\ pypi \subseteq pypi' /\ thins \subseteq thins' /\ releases \subseteq releases'
         /\ npm \subseteq npm' /\ fooled \subseteq fooled'
         /\ releases' \cup npm' \subseteq releases \cup npm \cup {t}
         /\ releases' \cup npm' # releases \cup npm => Pushed(t)
<1> USE DEF published, history
<1>1. CASE PushTag(t) \/ Rerun(t) \/ Conclude(t) \/ LockCheck(t) \/ Smoke(t) \/ UploadedThin(t)
           \/ Verify(t) \/ \E j \in Jobs : FailJob(t, j)
  BY <1>1 DEF PushTag, Rerun, Conclude, LockCheck, Smoke, UploadedThin, Verify, FailJob
<1>2. CASE CreateRelease(t)
  <2>1. active = t /\ Pushed(t)
    BY <1>2, TagsAssumption DEF CreateRelease, Ready, Queue, Pushed, Tags, NoTag
  <2> QED BY <1>2, <2>1 DEF CreateRelease
<1>3. CASE PublishNpm(t)
  BY <1>3 DEF PublishNpm, Pushed
<1>4. CASE \E pl \in Platforms : Build(t, pl) \/ UploadThin(t, pl)
  BY <1>4 DEF Build, UploadThin
<1>5. CASE \E p \in Payloads : Guard(t, p) \/ Uploaded(t, p) \/ \E pl \in Platforms : Upload(t, p, pl)
  BY <1>5 DEF Guard, Uploaded, Upload
<1> QED BY <1>1, <1>2, <1>3, <1>4, <1>5 DEF Workflow

\* The sources of a tag are what it was put on.
LEMMA PushedStays ==
  ASSUME TypeOK, Queue, Chain, NEW t \in Tags, Workflow(t), NEW s \in Tags, Pushed(s)
  PROVE  Pushed(s)' /\ runs'[s].source = runs[s].source
<1>1. CASE Enters(t)
  BY <1>1 DEF Enters, Pushed
<1>2. CASE Conclude(t)
  BY <1>2, ConcludeEffect DEF Pushed
<1>3. CASE UNCHANGED runs
  BY <1>3 DEF Pushed
<1>4. CASE \E j \in Jobs, state \in JobStates : Moves(t, j, state)
  BY <1>4 DEF Moves, Pushed
<1> QED BY <1>1, <1>2, <1>3, <1>4, StepKinds

-----------------------------------------------------------------------------
(* The steps of the invariants.                                            *)

\* The concurrency group stays in order.
LEMMA QueueStep ==
  ASSUME TypeOK, Queue, Chain, NEW t \in Tags, Workflow(t)
  PROVE  Queue'
<1>0. NoTag \notin Tags
  BY TagsAssumption DEF Tags, NoTag
<1>1. CASE Enters(t)
  <2>1. \A s \in Tags \ {t} : s = pending => runs[s].status = "pending"
    BY <1>0 DEF Queue
  <2>2. active' # NoTag => runs'[active'].status = "running"
    BY <1>0, <1>1 DEF Enters, Queue, TypeOK
  <2>3. pending' # NoTag => runs'[pending'].status = "pending"
    BY <1>0, <1>1 DEF Enters, Queue, TypeOK
  <2>4. ASSUME NEW s \in Tags, NEW j \in Jobs, runs'[s].job[j] = "cleared"
        PROVE  active' = s /\ j \in Payloads
    BY <1>0, <1>1, <2>4 DEF Enters, Queue
  <2>5. Pushed(t)'
    BY <1>1 DEF Enters, Pushed
  <2>6. ASSUME NEW s \in Tags, ~Pushed(s)'
        PROVE  s # t /\ ~Pushed(s) /\ \A j \in Jobs : runs'[s].job[j] = runs[s].job[j]
    BY <1>1, <2>5, <2>6 DEF Enters, Pushed
  <2> QED BY <2>2, <2>3, <2>4, <2>6, PublishedGrows DEF Queue
<1>2. CASE Conclude(t)
  <2>1. \A s \in Tags : ~Pushed(s)' => s # t /\ ~Pushed(s)
    BY <1>2, ConcludeEffect DEF Pushed
  <2>2. active' # NoTag => runs'[active'].status = "running"
    BY <1>2, ConcludeEffect DEF TypeOK
  <2>3. pending' = NoTag
    BY <1>2, ConcludeEffect
  <2>4. \A s \in Tags, j \in Jobs : runs'[s].job[j] # "cleared"
    BY <1>2, ConcludeEffect DEF Queue
  <2> QED BY <1>2, <2>1, <2>2, <2>3, <2>4, ConcludeEffect, PublishedGrows DEF Queue
<1>3. CASE UNCHANGED <<runs, active, pending>>
  BY <1>3, PublishedGrows DEF Queue, Pushed
<1>4. ASSUME NEW j \in Jobs, NEW state \in JobStates, Moves(t, j, state),
             state = "cleared" => j \in Payloads
      PROVE  Queue'
  <2>1. active = t /\ active' = t /\ pending' = pending /\ Pushed(t)
    BY <1>0, <1>4 DEF Moves, Queue, Pushed
  <2>2. \A s \in Tags : Pushed(s)' <=> Pushed(s)
    BY <1>4 DEF Moves, Pushed
  <2>3. /\ active' # NoTag => runs'[active'].status = "running"
        /\ pending' # NoTag => runs'[pending'].status = "pending"
    BY <1>4, <2>1 DEF Moves, Queue, TypeOK
  <2>4. \A s \in Tags, k \in Jobs : runs'[s].job[k] = "cleared" => active' = s /\ k \in Payloads
    BY <1>4, <2>1 DEF Moves, Queue
  <2>5. \A s \in Tags : ~Pushed(s)' => \A k \in Jobs : runs'[s].job[k] = "wait"
    BY <1>4, <2>1, <2>2 DEF Moves, Queue
  <2>6. \A s \in Tags : ~Pushed(s)' => s \notin releases' \cup npm'
    BY <2>1, <2>2, PublishedGrows DEF Queue
  <2> QED BY <2>3, <2>4, <2>5, <2>6 DEF Queue
<1> QED BY <1>1, <1>2, <1>3, <1>4, StepKinds

\* Also after a re-run, no job has passed before the jobs it needs: those that
\* were done stay, and the others start from the beginning.
LEMMA ChainStep ==
  ASSUME TypeOK, Queue, Chain, NEW t \in Tags, Workflow(t)
  PROVE  Chain'
<1> SUFFICES ASSUME NEW s \in Tags, NEW k \in Jobs, Passed(s, k)'
             PROVE  Needs(s, k)'
  BY DEF Chain
<1>1. CASE Passed(s, k) /\ \A i \in Jobs : Ok(s, i) => Ok(s, i)'
  BY <1>1, NeedsStay DEF Chain
<1>2. CASE Enters(t)
  <2>1. CASE s # t
    BY <1>1, <1>2, <2>1 DEF Enters, Passed, Ok
  <2>2. CASE s = t
    BY <1>1, <1>2, <2>2 DEF Enters, Passed, Ok
  <2> QED BY <2>1, <2>2
<1>3. CASE Conclude(t)
  BY <1>1, <1>3, ConcludeEffect DEF Passed, Ok
<1>4. CASE UNCHANGED runs
  BY <1>1, <1>4 DEF Passed, Ok
<1>5. ASSUME NEW j \in Jobs, NEW state \in JobStates, Moves(t, j, state)
      PROVE  Needs(s, k)'
  <2>1. \A i \in Jobs : Ok(s, i) => Ok(s, i)'
    BY <1>5 DEF Moves, Ok
  <2>2. Passed(s, k) \/ Needs(s, k)
    BY <1>5 DEF Moves, Passed
  <2> QED BY <2>1, <2>2, NeedsStay DEF Chain
<1> QED BY <1>2, <1>3, <1>4, <1>5, StepKinds

\* A job that is not the build of a platform leaves the wheels of those that
\* are done.
LEMMA DistStep ==
  ASSUME TypeOK, Queue, Chain, DistInv, NEW t \in Tags, Workflow(t)
  PROVE  DistInv'
<1> SUFFICES ASSUME NEW s \in Tags, NEW pl \in Platforms, Ok(s, pl)'
             PROVE  Faithful(runs'[s].source, pl, runs'[s].dist[pl])
  BY DEF DistInv, Faithful
<1>0. pl \in Jobs
  BY DEF Jobs
<1>1. Ok(s, pl) => Pushed(s) /\ Faithful(runs[s].source, pl, runs[s].dist[pl])
  BY <1>0 DEF DistInv, Queue, Ok
<1>2. CASE Ok(s, pl) /\ runs'[s].dist[pl] = runs[s].dist[pl]
  BY <1>1, <1>2, PushedStays
<1>3. CASE Enters(t)
  <2>1. CASE s = t
    BY <1>0, <1>2, <1>3, <2>1 DEF Enters, Ok
  <2>2. CASE s # t
    BY <1>0, <1>2, <1>3, <2>2 DEF Enters, Ok
  <2> QED BY <2>1, <2>2
<1>4. CASE Conclude(t)
  BY <1>2, <1>4, ConcludeEffect DEF Ok
<1>5. CASE UNCHANGED runs
  BY <1>2, <1>5 DEF Ok
<1>6. ASSUME NEW j \in Jobs, NEW state, Moves(t, j, state), j # pl \/ state # "ok"
      PROVE  Faithful(runs'[s].source, pl, runs'[s].dist[pl])
  <2>1. Ok(s, pl)
    BY <1>0, <1>6 DEF Moves, Ok
  <2> QED BY <1>2, <1>6, <2>1 DEF Moves
<1>7. Names \cap (Platforms \cup Payloads) = {} /\ Platforms \cap Payloads = {}
      /\ Names \cup Platforms \cup Payloads = Jobs
  BY JobNamesAssumption DEF Names, Jobs
<1>8. CASE LockCheck(t) \/ Smoke(t) \/ UploadedThin(t) \/ Verify(t) \/ CreateRelease(t)
           \/ \E x \in Platforms : UploadThin(t, x)
  BY <1>5, <1>6, <1>7, <1>8, OtherMoves DEF Names
<1>9. CASE \E j \in Jobs : FailJob(t, j)
  BY <1>6, <1>9, OtherMoves
<1>10. CASE \E p \in Payloads : Guard(t, p) \/ Uploaded(t, p) \/ \E x \in Platforms : Upload(t, p, x)
  BY <1>5, <1>6, <1>7, <1>10, PayloadMoves DEF Upload
<1>11. CASE PublishNpm(t)
  BY <1>5, <1>11 DEF PublishNpm
<1>12. ASSUME NEW x \in Platforms, Build(t, x)
       PROVE  Faithful(runs'[s].source, pl, runs'[s].dist[pl])
  <2>1. CASE x = pl /\ s = t /\ Moves(t, x, "ok")
    <3>1. runs'[s].source = runs[s].source
      BY <2>1 DEF Moves
    <3>2. Ok(s, pl) => FALSE
      BY <2>1 DEF Moves, Ok
    <3> QED BY <1>12, <2>1, <3>1, <3>2, BuildMoves, <1>0, <1>6 DEF Moves
  <2>2. CASE x = pl /\ s # t /\ Moves(t, x, "ok")
    <3>1. Ok(s, pl)
      BY <1>0, <2>2 DEF Moves, Ok
    <3> QED BY <1>2, <2>2, <3>1 DEF Moves
  <2> QED BY <1>6, <1>7, <1>12, <2>1, <2>2, BuildMoves
<1>13. CASE PushTag(t) \/ Rerun(t)
  BY <1>3, <1>13, EntersStep
<1> QED BY <1>4, <1>8, <1>9, <1>10, <1>11, <1>12, <1>13 DEF Workflow

\* A name that is taken on PyPI stays taken, and so do thin wheels.
LEMMA NamesStay ==
  ASSUME TypeOK, Queue, Chain, NEW t \in Tags, Workflow(t), NEW s \in Tags, NEW pl
  PROVE  /\ ThinOf(s, pl) \subseteq ThinOf(s, pl)'
         /\ Pushed(s) => \A p : Named(s, p, pl) \subseteq Named(s, p, pl)'
<1>1. ThinOf(s, pl) \subseteq ThinOf(s, pl)'
  BY PublishedGrows DEF ThinOf
<1>2. ASSUME Pushed(s), NEW p PROVE Named(s, p, pl) \subseteq Named(s, p, pl)'
  BY <1>2, PublishedGrows, PushedStays DEF Named
<1> QED BY <1>1, <1>2

\* A job is done by its own action alone.
LEMMA DoneBy ==
  ASSUME TypeOK, Queue, Chain, NEW t \in Tags, Workflow(t), NEW s \in Tags
  PROVE  /\ \A p \in Payloads : Ok(s, p)' => Ok(s, p) \/ (s = t /\ Uploaded(t, p))
         /\ Ok(s, "thin")' => Ok(s, "thin") \/ (s = t /\ UploadedThin(t))
         /\ Ok(s, "release")' => Ok(s, "release") \/ (s = t /\ CreateRelease(t))
<1>0. Names \cap (Platforms \cup Payloads) = {} /\ Platforms \cap Payloads = {}
      /\ Names \cup Platforms \cup Payloads = Jobs
  BY JobNamesAssumption DEF Names, Jobs
<1> DEFINE Watched == Payloads \cup {"thin", "release"}
<1>1. Watched \subseteq Jobs
  BY DEF Jobs
<1>2. ASSUME NEW j \in Jobs, NEW state, Moves(t, j, state), NEW k \in Jobs, Ok(s, k)'
      PROVE  Ok(s, k) \/ (s = t /\ k = j /\ state = "ok")
  BY <1>2 DEF Moves, Ok
<1>3. CASE PushTag(t) \/ Rerun(t)
  <2>1. Enters(t)
    BY <1>3, EntersStep
  <2>2. \A k \in Jobs : Ok(s, k)' => Ok(s, k)
    BY <2>1 DEF Enters, Ok
  <2> QED BY <1>1, <2>2
<1>4. CASE Conclude(t)
  BY <1>4, ConcludeEffect DEF Ok
<1>5. CASE UNCHANGED runs
  BY <1>5 DEF Ok
<1>6. CASE LockCheck(t) \/ Smoke(t) \/ Verify(t)
  BY <1>0, <1>1, <1>2, <1>6, OtherMoves DEF Names
<1>7. CASE UploadedThin(t)
  BY <1>0, <1>1, <1>2, <1>7, OtherMoves DEF Names
<1>8. CASE CreateRelease(t)
  BY <1>0, <1>1, <1>2, <1>8, OtherMoves DEF Names
<1>9. CASE \E j \in Jobs : FailJob(t, j)
  BY <1>1, <1>2, <1>9, OtherMoves
<1>10. CASE \E x \in Platforms : UploadThin(t, x)
  BY <1>0, <1>1, <1>2, <1>5, <1>10, OtherMoves DEF Names
<1>11. CASE \E x \in Platforms : Build(t, x)
  BY <1>0, <1>1, <1>2, <1>11, BuildMoves DEF Names
<1>12. ASSUME NEW q \in Payloads, Guard(t, q) \/ Uploaded(t, q)
       PROVE  /\ \A p \in Payloads : Ok(s, p)' => Ok(s, p) \/ (s = t /\ Uploaded(t, p))
              /\ Ok(s, "thin")' => Ok(s, "thin")
              /\ Ok(s, "release")' => Ok(s, "release")
  <2>1. CASE Guard(t, q)
    BY <1>0, <1>1, <1>2, <2>1, PayloadMoves
  <2>2. CASE Uploaded(t, q)
    BY <1>0, <1>1, <1>2, <2>2, PayloadMoves DEF Names
  <2> QED BY <1>12, <2>1, <2>2
<1>13. CASE PublishNpm(t) \/ \E p \in Payloads, x \in Platforms : Upload(t, p, x)
  BY <1>5, <1>13 DEF PublishNpm, Upload
<1> QED BY <1>3, <1>4, <1>6, <1>7, <1>8, <1>9, <1>10, <1>11, <1>12, <1>13 DEF Workflow

\* What a job that is done left behind stays there.
LEMMA DoneStep ==
  ASSUME TypeOK, Queue, Chain, DoneInv, NEW t \in Tags, Workflow(t)
  PROVE  DoneInv'
<1>0. Payloads \cup {"thin", "release"} \subseteq Jobs
  BY DEF Jobs
<1>1. \A s \in Tags, j \in Jobs : Ok(s, j) => Pushed(s)
  BY DEF Queue, Ok
<1>2. ASSUME NEW s \in Tags, NEW p \in Payloads, Ok(s, p)', NEW pl \in Platforms
      PROVE  Named(s, p, pl)' # {}
  <2>1. Pushed(s) /\ Named(s, p, pl) # {}
    <3>1. CASE Ok(s, p)
      BY <1>0, <1>1, <3>1 DEF DoneInv
    <3>2. CASE s = t /\ Uploaded(t, p)
      BY <1>0, <3>2 DEF Uploaded, Queue
    <3> QED BY <1>2, <3>1, <3>2, DoneBy
  <2> QED BY <2>1, NamesStay
<1>3. ASSUME NEW s \in Tags, Ok(s, "thin")', NEW pl \in Platforms
      PROVE  ThinOf(s, pl)' # {}
  <2>1. ThinOf(s, pl) # {}
    BY <1>3, DoneBy DEF DoneInv, UploadedThin, ThinDone
  <2> QED BY <2>1, NamesStay
<1>4. ASSUME NEW s \in Tags, Ok(s, "release")' PROVE s \in releases'
  BY <1>4, DoneBy, PublishedGrows DEF DoneInv, CreateRelease
<1>5. ASSUME NEW s \in Tags, runs'[s].status = "success" PROVE Ok(s, "release")'
  <2>1. CASE Enters(t)
    <3>1. s # t /\ runs[s].status = "success" /\ runs'[s].job = runs[s].job
      BY <1>5, <2>1 DEF Enters
    <3> QED BY <3>1 DEF DoneInv, Ok
  <2>2. CASE Conclude(t)
    <3>1. runs'[s].job = runs[s].job
      BY <2>2, ConcludeEffect
    <3>2. Ok(s, "release")
      BY <1>0, <1>5, <2>2, ConcludeEffect DEF DoneInv
    <3> QED BY <3>1, <3>2 DEF Ok
  <2>3. CASE UNCHANGED runs
    BY <1>5, <2>3 DEF DoneInv, Ok
  <2>4. ASSUME NEW j \in Jobs, NEW state, Moves(t, j, state) PROVE Ok(s, "release")'
    <3>1. runs[s].status = "success" /\ runs[t].status = "running"
      BY <1>5, <2>4, TagsAssumption DEF Moves, Queue, Tags, NoTag
    <3>2. s # t
      BY <3>1
    <3> QED BY <1>0, <2>4, <3>1, <3>2 DEF Moves, DoneInv, Ok
  <2> QED BY <2>1, <2>2, <2>3, <2>4, StepKinds
<1>6. releases' \cup npm' \subseteq Tags
  BY PublishedGrows DEF DoneInv
<1> QED BY <1>2, <1>3, <1>4, <1>5, <1>6 DEF DoneInv

\* A release and the npm package that follow are the last link of the chain.
LEMMA CompleteStep ==
  ASSUME TypeOK, Queue, Chain, DoneInv, ReleaseComplete, NEW t \in Tags, Workflow(t)
  PROVE  ReleaseComplete'
<1> DEFINE There(s) == /\ \A pl \in Platforms : ThinOf(s, pl) # {}
                       /\ \A pl \in Platforms, p \in Payloads : Named(s, p, pl) # {}
<1>1. SUFFICES ASSUME NEW s \in npm' \cup releases'
               PROVE  s \in releases' /\ There(s)'
  BY <1>1 DEF ReleaseComplete
<1>2. s \in Tags
  BY PublishedGrows DEF DoneInv
<1>3. SUFFICES s \in releases' /\ Pushed(s) /\ There(s)
  BY <1>2, NamesStay
<1>4. CASE s \in npm \cup releases
  BY <1>2, <1>4, PublishedGrows DEF ReleaseComplete, Queue
<1>5. CASE s \notin npm \cup releases
  <2>1. s = t /\ Pushed(s)
    BY <1>5, PublishedGrows
  <2>2. PublishNpm(t) \/ CreateRelease(t)
    <3> USE DEF published, history
    <3>1. CASE PushTag(t) \/ Rerun(t) \/ Conclude(t) \/ LockCheck(t) \/ Smoke(t) \/ UploadedThin(t)
               \/ Verify(t) \/ \E j \in Jobs : FailJob(t, j)
      BY <1>5, <3>1 DEF PushTag, Rerun, Conclude, LockCheck, Smoke, UploadedThin, Verify, FailJob
    <3>2. CASE \E pl \in Platforms : Build(t, pl) \/ UploadThin(t, pl)
      BY <1>5, <3>2 DEF Build, UploadThin
    <3>3. CASE \E p \in Payloads : Guard(t, p) \/ Uploaded(t, p) \/ \E pl \in Platforms : Upload(t, p, pl)
      BY <1>5, <3>3 DEF Guard, Uploaded, Upload
    <3> QED BY <3>1, <3>2, <3>3 DEF Workflow
  <2>3. Ok(s, "release") \/ Needs(s, "release")
    BY <2>1, <2>2 DEF PublishNpm, CreateRelease, Ready, DoneInv
  <2>4. Ok(s, "thin") /\ \A p \in Payloads : Ok(s, p)
    BY <1>2, <2>3, ChainDown
  <2>5. There(s)
    BY <1>2, <2>4 DEF DoneInv
  <2>6. s \in releases'
    BY <1>2, <1>5, <2>1, <2>2 DEF PublishNpm, CreateRelease, DoneInv
  <2> QED BY <2>1, <2>5, <2>6
<1> QED BY <1>4, <1>5

\* What a run that uploads has at hand is built from its sources.
LEMMA LocalIsBuilt ==
  ASSUME Chain, DistInv, NEW t \in Tags, NEW pl \in Platforms, Ok(t, pl)
  PROVE  \E luck \in {0, 1} : \A p \in Payloads :
            Local(t, p, pl) = [version |-> runs[t].source.version[p],
                               content |-> Prepare(runs[t].source, pl, p, luck)]
BY DEF DistInv, Faithful, Local

\* Only Upload adds to PyPI, from wheels that the run built.
LEMMA OriginStep ==
  ASSUME TypeOK, Queue, Chain, DistInv, OriginInv, NEW t \in Tags, Workflow(t)
  PROVE  OriginInv'
<1>1. \A f : OriginOf(f) => OriginOf(f)'
  <2> SUFFICES ASSUME NEW f, OriginOf(f) PROVE OriginOf(f)'
    OBVIOUS
  <2>1. PICK s \in Tags, p \in Payloads, pl \in Platforms, luck \in {0, 1} :
          /\ Pushed(s)
          /\ f = [project |-> p, platform |-> pl, version |-> runs[s].source.version[p],
                  content |-> Prepare(runs[s].source, pl, p, luck)]
    BY DEF OriginOf
  <2>2. Pushed(s)' /\ runs'[s].source = runs[s].source
    BY <2>1, PushedStays
  <2> QED BY <2>1, <2>2 DEF OriginOf
<1>2. CASE \E p \in Payloads, pl \in Platforms : Upload(t, p, pl)
  <2>1. PICK p \in Payloads, pl \in Platforms : Upload(t, p, pl)
    BY <1>2
  <2>2. Passed(t, p) /\ Pushed(t)
    BY <2>1 DEF Upload, Passed, Queue, Jobs
  <2>3. Ok(t, pl)
    BY <2>2, ChainDown
  <2>4. PICK luck \in {0, 1} :
          Local(t, p, pl) = [version |-> runs[t].source.version[p],
                             content |-> Prepare(runs[t].source, pl, p, luck)]
    BY <2>3, LocalIsBuilt
  <2> DEFINE new == [project |-> p, platform |-> pl, version |-> Local(t, p, pl).version,
                     content |-> Local(t, p, pl).content]
  <2>5. OriginOf(new)
    BY <2>2, <2>4 DEF OriginOf
  <2>6. pypi' = pypi \cup {new}
    BY <2>1 DEF Upload
  <2> HIDE DEF new
  <2> QED BY <1>1, <2>5, <2>6 DEF OriginInv
<1>3. CASE pypi' = pypi
  BY <1>1, <1>3 DEF OriginInv
<1>4. CASE ~\E p \in Payloads, pl \in Platforms : Upload(t, p, pl)
  <2> USE DEF published, history
  <2>1. CASE PushTag(t) \/ Rerun(t) \/ Conclude(t) \/ LockCheck(t) \/ Smoke(t) \/ UploadedThin(t)
             \/ Verify(t) \/ CreateRelease(t) \/ PublishNpm(t) \/ \E j \in Jobs : FailJob(t, j)
    BY <1>3, <2>1 DEF PushTag, Rerun, Conclude, LockCheck, Smoke, UploadedThin, Verify,
       CreateRelease, PublishNpm, FailJob
  <2>2. CASE \E pl \in Platforms : Build(t, pl) \/ UploadThin(t, pl)
    BY <1>3, <2>2 DEF Build, UploadThin
  <2>3. CASE \E p \in Payloads : Guard(t, p) \/ Uploaded(t, p)
    BY <1>3, <2>3 DEF Guard, Uploaded
  <2> QED BY <1>4, <2>1, <2>2, <2>3 DEF Workflow
<1> QED BY <1>2, <1>4

\* A publication that has passed finds what its guard compared: until it is
\* done nobody else uploads, and when it is done its names are taken.
LEMMA MatchStep ==
  ASSUME TypeOK, Queue, Chain, DistInv, DoneInv, MatchInv, NEW t \in Tags, Workflow(t)
  PROVE  MatchInv'
<1> SUFFICES ASSUME NEW s \in Tags \ fooled', NEW p \in Payloads, Passed(s, p)',
                    NEW pl \in Platforms, NEW f \in Named(s, p, pl)'
             PROVE  f.content = Local(s, p, pl)'.content
  BY DEF MatchInv
<1>0. p \in Jobs /\ pl \in Jobs /\ s \notin fooled
  BY PublishedGrows DEF Jobs
<1> DEFINE Before == Passed(s, p) /\ runs'[s].dist[pl] = runs[s].dist[pl]
<1>1. CASE Before /\ UNCHANGED pypi
  <2>1. Pushed(s)
    BY <1>0, <1>1 DEF Queue, Passed
  <2>2. f \in Named(s, p, pl)
    BY <1>1, <2>1, PushedStays DEF Named
  <2>3. Local(s, p, pl)' = Local(s, p, pl)
    BY <1>1 DEF Local
  <2> QED BY <1>0, <1>1, <2>2, <2>3 DEF MatchInv
<1>2. ASSUME NEW j \in Jobs, NEW state, Moves(t, j, state),
             j # p \/ s # t \/ state = "failed" \/ Passed(t, p)
      PROVE  Before
  <2>1. Passed(s, p)
    BY <1>0, <1>2 DEF Moves, Passed
  <2>2. Ok(s, pl)
    BY <2>1, ChainDown
  <2> QED BY <1>2, <2>1, <2>2 DEF Moves
<1>3. CASE PushTag(t) \/ Rerun(t)
  <2>1. Enters(t) /\ UNCHANGED pypi
    BY <1>3, EntersStep DEF PushTag, Rerun, published
  <2>2. CASE s # t
    BY <1>1, <2>1, <2>2 DEF Enters, Passed
  <2>3. CASE s = t
    BY <1>0, <1>1, <2>1, <2>3 DEF Enters, Passed, Ok
  <2> QED BY <2>2, <2>3
<1>4. CASE Conclude(t)
  <2>1. Before /\ UNCHANGED pypi
    BY <1>4, ConcludeEffect DEF Conclude, published, Passed
  <2> QED BY <1>1, <2>1
<1>5. Names \cap (Platforms \cup Payloads) = {} /\ Platforms \cap Payloads = {}
      /\ Names \cup Platforms \cup Payloads = Jobs
  BY JobNamesAssumption DEF Names, Jobs
<1>6. CASE LockCheck(t) \/ Smoke(t) \/ UploadedThin(t) \/ Verify(t) \/ CreateRelease(t)
  <2>1. Before
    BY <1>2, <1>5, <1>6, OtherMoves DEF Names
  <2>2. UNCHANGED pypi
    BY <1>6 DEF LockCheck, Smoke, UploadedThin, Verify, CreateRelease, published
  <2> QED BY <1>1, <2>1, <2>2
<1>7. CASE \E j \in Jobs : FailJob(t, j)
  <2>1. Before
    BY <1>2, <1>7, OtherMoves
  <2>2. UNCHANGED pypi
    BY <1>7 DEF FailJob, published
  <2> QED BY <1>1, <2>1, <2>2
<1>8. CASE UNCHANGED <<runs, pypi>>
  BY <1>1, <1>8 DEF Passed
<1>9. CASE \E x \in Platforms : UploadThin(t, x)
  <2>1. UNCHANGED pypi
    BY <1>9 DEF UploadThin
  <2>2. Before \/ UNCHANGED runs
    BY <1>2, <1>5, <1>9, OtherMoves DEF Names
  <2> QED BY <1>1, <1>8, <2>1, <2>2
<1>10. CASE \E x \in Platforms : Build(t, x)
  <2>1. Before
    BY <1>2, <1>5, <1>10, BuildMoves
  <2>2. UNCHANGED pypi
    BY <1>10 DEF Build, published
  <2> QED BY <1>1, <2>1, <2>2
<1>11. CASE PublishNpm(t)
  BY <1>8, <1>11 DEF PublishNpm
<1>12. ASSUME NEW q \in Payloads, Uploaded(t, q)
       PROVE  f.content = Local(s, p, pl)'.content
  <2>1. Before
    BY <1>2, <1>5, <1>12, PayloadMoves DEF Uploaded, Passed
  <2>2. UNCHANGED pypi
    BY <1>12 DEF Uploaded, published
  <2> QED BY <1>1, <2>1, <2>2
<1>13. ASSUME NEW q \in Payloads, Guard(t, q)
       PROVE  f.content = Local(s, p, pl)'.content
  <2>1. UNCHANGED pypi
    BY <1>13 DEF Guard, published
  <2>2. CASE q # p \/ s # t \/ Moves(t, q, "failed")
    BY <1>1, <1>2, <1>5, <1>13, <2>1, <2>2, PayloadMoves
  <2>3. CASE q = p /\ s = t /\ Moves(t, p, "cleared")
    <3>1. PICK listing :
            /\ fooled' = IF \E x \in Platforms : ~(Named(t, p, x) \subseteq listing)
                         THEN fooled \cup {t} ELSE fooled
            /\ Compare(t, p, listing) \/ Become(t, p, "failed")
      BY <1>13, <2>3 DEF Guard
    <3>2. Compare(t, p, listing)
      <4>1. ASSUME Become(t, p, "failed") PROVE FALSE
        <5>1. runs'[t].job[p] = "failed"
          BY <1>0, <4>1, BecomeMoves, <1>13, <2>3 DEF Guard, Ready, Moves, JobStates
        <5>2. runs'[t].job[p] = "cleared"
          BY <1>0, <2>3 DEF Moves
        <5> QED BY <5>1, <5>2
      <4> QED BY <3>1, <4>1
    <3>3. Named(t, p, pl) \subseteq listing
      BY <2>3, <3>1
    <3>4. Ok(t, pl)
      BY <2>3, ChainDown DEF Moves
    <3>5. Named(t, p, pl)' = Named(t, p, pl) /\ Local(t, p, pl)' = Local(t, p, pl)
      BY <2>1, <2>3, <3>4 DEF Moves, Named, Local
    <3> QED BY <2>3, <3>2, <3>3, <3>5 DEF Compare
  <2> QED BY <1>13, <2>2, <2>3, PayloadMoves
<1>14. ASSUME NEW q \in Payloads, NEW x \in Platforms, Upload(t, q, x)
       PROVE  f.content = Local(s, p, pl)'.content
  <2>1. Passed(s, p) /\ Local(s, p, pl)' = Local(s, p, pl) /\ Pushed(s)
    BY <1>0, <1>14 DEF Upload, Passed, Local, Queue
  <2>2. CASE f \in Named(s, p, pl)
    BY <1>0, <2>1, <2>2 DEF MatchInv
  <2>3. CASE f \notin Named(s, p, pl)
    <3>1. Passed(t, q) /\ active = t /\ Named(t, q, x) = {}
      BY <1>14 DEF Upload, Passed
    <3>2. PICK luck \in {0, 1} : \A r \in Payloads :
            Local(t, r, x) = [version |-> runs[t].source.version[r],
                              content |-> Prepare(runs[t].source, x, r, luck)]
      BY <3>1, ChainDown, LocalIsBuilt
    <3>3. Local(t, q, x).version = runs[t].source.version[q]
      BY <3>2
    <3>4. f = [project |-> q, platform |-> x, version |-> Local(t, q, x).version,
               content |-> Local(t, q, x).content]
      BY <1>14, <2>3 DEF Upload, Named
    <3>5. f.project = p /\ f.platform = pl /\ f.version = runs[s].source.version[p]
      BY <1>14 DEF Upload, Named
    <3>6. p = q /\ pl = x /\ runs[s].source.version[p] = runs[t].source.version[p]
          /\ f.content = Local(t, p, pl).content
      BY <3>3, <3>4, <3>5
    <3>7. Named(s, p, pl) = {}
      BY <3>1, <3>6 DEF Named
    <3>8. s = t
      <4>1. CASE Ok(s, p)
        BY <3>7, <4>1 DEF DoneInv
      <4>2. CASE runs[s].job[p] = "cleared"
        BY <1>0, <3>1, <4>2 DEF Queue
      <4> QED BY <2>1, <4>1, <4>2 DEF Passed, Ok
    <3> QED BY <2>1, <3>6, <3>8
  <2> QED BY <2>2, <2>3
<1> QED BY <1>3, <1>4, <1>6, <1>7, <1>9, <1>10, <1>11, <1>12, <1>13, <1>14 DEF Workflow

\* A thin wheel is uploaded after the payloads, and what it pins is what the
\* guards compared and the uploads added.
LEMMA PinsStep ==
  ASSUME TypeOK, Queue, Chain, DistInv, DoneInv, OriginInv, MatchInv, EveryPinResolves,
         NEW t \in Tags, Workflow(t)
  PROVE  EveryPinResolves'
<1> DEFINE PinnedFile(w, p) == [project |-> p, platform |-> w.platform,
                             version |-> w.thin.pins[p].version,
                             content |-> w.thin.pins[p].store]
           Resolves(w) == /\ \A p \in Payloads : PinnedFile(w, p) \in pypi
                          /\ ChecksumsHold(w.thin, [p \in Payloads |-> w.thin.pins[p].store])
<1>1. SUFFICES ASSUME NEW w \in thins', w.tag \notin fooled' PROVE Resolves(w)
  BY <1>1, PublishedGrows DEF EveryPinResolves
<1>2. CASE w \in thins
  BY <1>1, <1>2, PublishedGrows DEF EveryPinResolves
<1>3. ASSUME NEW pl \in Platforms, UploadThin(t, pl), w \notin thins
      PROVE  Resolves(w)
  <2>1. w = [tag |-> t, platform |-> pl, thin |-> runs[t].dist[pl].thin] /\ Needs(t, "thin")
    BY <1>1, <1>3 DEF UploadThin, Ready
  <2> DEFINE d == runs[t].dist[pl]
  <2>2. Ok(t, pl) /\ \A p \in Payloads : Ok(t, p)
    BY <2>1, ChainDown, WheelsAssumption
  <2>3. Faithful(runs[t].source, pl, d)
    BY <2>2 DEF DistInv
  <2>4. w.thin = d.thin /\ w.platform = pl /\ w.tag = t
    BY <2>1
  <2>5. ASSUME NEW p \in Payloads PROVE PinnedFile(w, p) \in pypi
    <3>1. PICK f : f \in Named(t, p, pl)
      BY <2>2 DEF DoneInv
    <3>2. Passed(t, p) /\ t \notin fooled
      BY <1>1, <2>2, <2>4, PublishedGrows DEF Ok, Passed
    <3>3. f.content = Local(t, p, pl).content
      BY <3>1, <3>2 DEF MatchInv
    <3>4. f = [project |-> f.project, platform |-> f.platform, version |-> f.version,
               content |-> f.content] /\ f \in pypi
      BY <3>1 DEF Named, OriginInv, OriginOf
    <3>5. f.project = p /\ f.platform = pl /\ f.version = runs[t].source.version[p]
      BY <3>1 DEF Named
    <3>6. d.thin.pins[p] = [version |-> d.payload[p].version, store |-> d.payload[p].content]
      BY <2>3 DEF Faithful, Pins
    <3>7. d.payload[p].version = runs[t].source.version[p]
      <4>1. PICK luck \in {0, 1} : \A q \in Payloads :
              Local(t, q, pl) = [version |-> runs[t].source.version[q],
                                 content |-> Prepare(runs[t].source, pl, q, luck)]
        BY <2>2, LocalIsBuilt
      <4>2. Local(t, p, pl) = [version |-> runs[t].source.version[p],
                               content |-> Prepare(runs[t].source, pl, p, luck)]
        BY <4>1
      <4> QED BY <4>2 DEF Local
    <3>8. w.thin.pins[p].version = f.version /\ w.thin.pins[p].store = f.content
      BY <2>4, <3>3, <3>5, <3>6, <3>7 DEF Local
    <3>9. f = PinnedFile(w, p)
      BY <2>4, <3>4, <3>5, <3>8
    <3> QED BY <3>4, <3>9
  <2>6. ChecksumsHold(w.thin, [p \in Payloads |-> w.thin.pins[p].store])
    BY <2>3, <2>4 DEF Faithful
  <2> QED BY <2>5, <2>6
<1>4. CASE ~\E pl \in Platforms : UploadThin(t, pl)
  <2> USE DEF published, history
  <2>1. CASE PushTag(t) \/ Rerun(t) \/ Conclude(t) \/ LockCheck(t) \/ Smoke(t) \/ UploadedThin(t)
             \/ Verify(t) \/ CreateRelease(t) \/ PublishNpm(t) \/ \E j \in Jobs : FailJob(t, j)
    BY <1>2, <2>1 DEF PushTag, Rerun, Conclude, LockCheck, Smoke, UploadedThin, Verify,
       CreateRelease, PublishNpm, FailJob
  <2>2. CASE \E pl \in Platforms : Build(t, pl)
    BY <1>2, <2>2 DEF Build
  <2>3. CASE \E p \in Payloads : Guard(t, p) \/ Uploaded(t, p) \/ \E pl \in Platforms : Upload(t, p, pl)
    BY <1>2, <2>3 DEF Guard, Uploaded, Upload
  <2> QED BY <1>4, <2>1, <2>2, <2>3 DEF Workflow
<1> QED BY <1>2, <1>3, <1>4

-----------------------------------------------------------------------------
(* What the guard refuses.                                                 *)

\* Two trees of one payload for one platform differ in the sources of a part or
\* in how a compiled part turned out.
LEMMA DifferentTrees ==
  ASSUME NEW one, NEW other, NEW pl \in Platforms, NEW p \in Payloads,
         NEW luck, NEW fate,
         Prepare(one, pl, p, luck) # Prepare(other, pl, p, fate)
  PROVE  \/ \E x \in PartsOf(p, pl) : one.part[x][pl] # other.part[x][pl]
         \/ \E x \in Compiled[pl] \cap DOMAIN Prepare(one, pl, p, luck) :
               Prepare(one, pl, p, luck)[x].luck # Prepare(other, pl, p, fate)[x].luck
<1> DEFINE Kept == PartsOf(p, pl) \ (Vendored \cap Dotted)
<1>1. \A src, l : Prepare(src, pl, p, l) = [x \in Kept |-> StageBinary(src, pl, x, l)]
  BY DEF Prepare, PruneDotPaths, Restrict, Staged
<1>2. PICK x \in Kept : StageBinary(one, pl, x, luck) # StageBinary(other, pl, x, fate)
  BY <1>1
<1>3. CASE one.part[x][pl] # other.part[x][pl]
  BY <1>2, <1>3
<1>4. CASE one.part[x][pl] = other.part[x][pl]
  <2>1. x \in Compiled[pl]
    BY <1>2, <1>4 DEF StageBinary
  <2>2. StageBinary(one, pl, x, luck).luck = luck /\ StageBinary(other, pl, x, fate).luck = fate
    BY <2>1 DEF StageBinary, CargoBuild
  <2>3. luck # fate
    BY <1>2, <1>4, <2>1 DEF StageBinary, CargoBuild
  <2>4. /\ Prepare(one, pl, p, luck)[x] = StageBinary(one, pl, x, luck)
        /\ Prepare(other, pl, p, fate)[x] = StageBinary(other, pl, x, fate)
        /\ x \in DOMAIN Prepare(one, pl, p, luck)
    BY <1>1, <1>2
  <2> QED BY <2>1, <2>2, <2>3, <2>4
<1> QED BY <1>3, <1>4

\* Why a publication was refused: another tag of the version has other sources,
\* or a compiled part of a file on PyPI came out differently.
OtherSources(r, s, pl) ==
  /\ Pushed(s)
  /\ runs[s].source.version[r.project] = runs[r.tag].source.version[r.project]
  /\ \E x \in PartsOf(r.project, pl) :
        runs[s].source.part[x][pl] # runs[r.tag].source.part[x][pl]

OtherLuck(r, f) ==
  /\ f.project = r.project
  /\ f.version = runs[r.tag].source.version[r.project]
  /\ \E x \in Compiled[f.platform] \cap DOMAIN f.content :
        f.content[x].luck # r.content[f.platform][x].luck

Reason(r) == \/ \E s \in Tags, pl \in Platforms : OtherSources(r, s, pl)
             \/ \E f \in pypi : OtherLuck(r, f)

\* In these words, the property is a reason for each.
LEMMA ReasonsAre == RefusedForReason <=> \A r \in refused : Reason(r)
BY DEF RefusedForReason, Reason, OtherSources, OtherLuck, Pushed

\* The same after a step.
LEMMA ReasonsAreNext == (RefusedForReason <=> \A r \in refused : Reason(r))'
BY DEF RefusedForReason, Reason, OtherSources, OtherLuck, Pushed

\* A reason lasts.
LEMMA ReasonStays ==
  ASSUME TypeOK, Queue, Chain, NEW t \in Tags, Workflow(t),
         NEW r, r.tag \in Tags, Pushed(r.tag), Reason(r)
  PROVE  Reason(r)' /\ Pushed(r.tag)'
<1>1. Pushed(r.tag)' /\ runs'[r.tag].source = runs[r.tag].source
  BY PushedStays
<1>2. ASSUME NEW s \in Tags, NEW pl \in Platforms, OtherSources(r, s, pl)
      PROVE  OtherSources(r, s, pl)'
  <2>1. Pushed(s)' /\ runs'[s].source = runs[s].source
    BY <1>2, PushedStays DEF OtherSources
  <2> QED BY <1>1, <1>2, <2>1 DEF OtherSources
<1>3. ASSUME NEW f, OtherLuck(r, f) PROVE OtherLuck(r, f)'
  BY <1>1, <1>3 DEF OtherLuck
<1> QED BY <1>1, <1>2, <1>3, PublishedGrows DEF Reason

\* What the guard refuses differs from a file that was built from the sources
\* of some tag of the same version.
LEMMA GuardHasReason ==
  ASSUME TypeOK, Queue, Chain, DistInv, OriginInv, NEW t \in Tags, NEW p \in Payloads,
         Passed(t, p) \/ Needs(t, p), Pushed(t), NEW listing, ~Compare(t, p, listing)
  PROVE  Reason([tag |-> t, project |-> p,
                 content |-> [pl \in Platforms |-> Local(t, p, pl).content]])
<1> DEFINE r == [tag |-> t, project |-> p,
                 content |-> [pl \in Platforms |-> Local(t, p, pl).content]]
<1>0. PICK pl \in Platforms :
        \E f \in Named(t, p, pl) \cap listing : f.content # Local(t, p, pl).content
  BY DEF Compare
<1>1. PICK f \in Named(t, p, pl) : f.content # Local(t, p, pl).content
  BY <1>0
<1>2. /\ f \in pypi /\ f.project = p /\ f.platform = pl
      /\ f.version = runs[t].source.version[p]
  BY <1>1 DEF Named
<1>3. PICK s \in Tags, fate \in {0, 1} :
        /\ Pushed(s)
        /\ f.version = runs[s].source.version[p]
        /\ f.content = Prepare(runs[s].source, pl, p, fate)
  <2>1. PICK s \in Tags, q \in Payloads, y \in Platforms, fate \in {0, 1} :
          /\ Pushed(s)
          /\ f = [project |-> q, platform |-> y, version |-> runs[s].source.version[q],
                  content |-> Prepare(runs[s].source, y, q, fate)]
    BY <1>2 DEF OriginInv, OriginOf
  <2>2. q = p /\ y = pl
    BY <1>2, <2>1
  <2> QED BY <2>1, <2>2
<1>4. PICK luck \in {0, 1} :
        Local(t, p, pl) = [version |-> runs[t].source.version[p],
                           content |-> Prepare(runs[t].source, pl, p, luck)]
  BY ChainDown, LocalIsBuilt
<1>5. Local(t, p, pl).content = Prepare(runs[t].source, pl, p, luck)
  BY <1>4
<1>6. r.tag = t /\ r.project = p /\ r.content[pl] = Local(t, p, pl).content
  OBVIOUS
<1> HIDE DEF r
<1>7. f.content # Local(t, p, pl).content
  BY <1>1
<1>8. Prepare(runs[s].source, pl, p, fate) # Prepare(runs[t].source, pl, p, luck)
  BY <1>3, <1>5, <1>7
<1>9. \/ \E x \in PartsOf(p, pl) : runs[s].source.part[x][pl] # runs[t].source.part[x][pl]
      \/ \E x \in Compiled[pl] \cap DOMAIN f.content : f.content[x].luck # r.content[pl][x].luck
  <2>1. \/ \E x \in PartsOf(p, pl) : runs[s].source.part[x][pl] # runs[t].source.part[x][pl]
        \/ \E x \in Compiled[pl] \cap DOMAIN Prepare(runs[s].source, pl, p, fate) :
              Prepare(runs[s].source, pl, p, fate)[x].luck # Prepare(runs[t].source, pl, p, luck)[x].luck
    BY <1>8, DifferentTrees
  <2> QED BY ONLY <1>3, <1>5, <1>6, <2>1
<1>10. Reason(r)
  <2>1. CASE \E x \in PartsOf(p, pl) : runs[s].source.part[x][pl] # runs[t].source.part[x][pl]
    <3>1. OtherSources(r, s, pl)
      BY <1>2, <1>3, <1>6, <2>1 DEF OtherSources
    <3> QED BY <3>1 DEF Reason
  <2>2. CASE \E x \in Compiled[pl] \cap DOMAIN f.content : f.content[x].luck # r.content[pl][x].luck
    <3>1. OtherLuck(r, f)
      BY <1>2, <1>6, <2>2 DEF OtherLuck
    <3> QED BY <1>2, <3>1 DEF Reason
  <2> QED BY <1>9, <2>1, <2>2
<1> QED BY <1>10 DEF r

\* The guard adds refusals that have a reason, and the others keep theirs.
LEMMA RefusedStep ==
  ASSUME TypeOK, Queue, Chain, DistInv, OriginInv, RefusedInv, NEW t \in Tags, Workflow(t)
  PROVE  RefusedInv'
<1> DEFINE Good(r) == r.tag \in Tags /\ Pushed(r.tag) /\ Reason(r)
<1>1. SUFFICES \A r \in refused' : Good(r)'
  BY ReasonsAreNext DEF RefusedInv
<1>2. \A r \in refused : Good(r)'
  BY ReasonStays, ReasonsAre DEF RefusedInv
<1>3. CASE refused' = refused
  BY <1>2, <1>3
<1>4. ASSUME NEW p \in Payloads, Guard(t, p) PROVE \A r \in refused' : Good(r)'
  <2> DEFINE new == [tag |-> t, project |-> p,
                     content |-> [pl \in Platforms |-> Local(t, p, pl).content]]
  <2>1. CASE UNCHANGED refused
    BY <1>3, <2>1
  <2>2. ASSUME NEW listing, ~Compare(t, p, listing), refused' = refused \cup {new}
        PROVE  \A r \in refused' : Good(r)'
    <3>1. active = t /\ Needs(t, p)
      BY <1>4 DEF Guard, Ready
    <3>2. Pushed(t)
      BY <3>1, TagsAssumption DEF Queue, Pushed, Tags, NoTag
    <3>3. Reason(new)
      BY <2>2, <3>1, <3>2, GuardHasReason
    <3>4. PICK r : r = new
      OBVIOUS
    <3>5. r.tag = t
      BY <3>4
    <3> HIDE DEF new
    <3>6. Good(r)'
      BY <3>2, <3>3, <3>4, <3>5, ReasonStays
    <3> QED BY <1>2, <2>2, <3>4, <3>6
  <2> QED BY <1>4, <2>1, <2>2 DEF Guard
<1>5. CASE ~\E p \in Payloads : Guard(t, p)
  <2> USE DEF published, history
  <2>1. CASE PushTag(t) \/ Rerun(t) \/ Conclude(t) \/ LockCheck(t) \/ Smoke(t) \/ UploadedThin(t)
             \/ Verify(t) \/ CreateRelease(t) \/ PublishNpm(t) \/ \E j \in Jobs : FailJob(t, j)
    BY <1>3, <2>1 DEF PushTag, Rerun, Conclude, LockCheck, Smoke, UploadedThin, Verify,
       CreateRelease, PublishNpm, FailJob
  <2>2. CASE \E pl \in Platforms : Build(t, pl) \/ UploadThin(t, pl)
    BY <1>3, <2>2 DEF Build, UploadThin
  <2>3. CASE \E p \in Payloads : Uploaded(t, p) \/ \E pl \in Platforms : Upload(t, p, pl)
    BY <1>3, <2>3 DEF Uploaded, Upload
  <2> QED BY <1>5, <2>1, <2>2, <2>3 DEF Workflow
<1> QED BY <1>4, <1>5

-----------------------------------------------------------------------------
(* The theorems.                                                           *)

\* Before the first tag there is nothing.
LEMMA InvInit == Init => Inv
<1> SUFFICES ASSUME Init PROVE Inv
  OBVIOUS
<1>0. \A t \in Tags : runs[t] = [status |-> "none", source |-> Head, job |-> Waiting,
                                 dist |-> [pl \in Platforms |-> NoWheel]]
  BY DEF Init
<1>1. \A t \in Tags, j \in Jobs : runs[t].job[j] = "wait"
  BY <1>0 DEF Waiting
<1>2. TypeOK
  <2>1. Waiting \in [Jobs -> JobStates]
    BY DEF Waiting, JobStates
  <2>2. \A t \in Tags : RunShape(runs[t])
    BY <1>0, <2>1 DEF RunShape, Statuses
  <2>3. runs = [t \in Tags |-> runs[t]] /\ active = NoTag /\ pending = NoTag
    BY DEF Init
  <2> QED BY <2>2, <2>3 DEF TypeOK
<1>3. Queue
  BY <1>1 DEF Init, Queue
<1>4. Chain
  BY <1>1 DEF Chain, Passed
<1>5. Platforms \cup Payloads \cup {"thin", "release"} \subseteq Jobs
  BY DEF Jobs
<1>6. DistInv
  BY <1>1, <1>5 DEF DistInv, Ok
<1>7. DoneInv
  BY <1>0, <1>1, <1>5 DEF Init, DoneInv, Ok
<1>8. OriginInv /\ EveryPinResolves /\ ReleaseComplete /\ RefusedInv
  BY DEF Init, OriginInv, EveryPinResolves, ReleaseComplete, RefusedInv, RefusedForReason
<1>9. MatchInv
  BY <1>1, <1>5 DEF MatchInv, Passed
<1> QED BY <1>2, <1>3, <1>4, <1>6, <1>7, <1>8, <1>9 DEF Inv

\* Every step keeps the whole invariant.
LEMMA InvNext == Inv /\ [Next]_vars => Inv'
<1>1. ASSUME Inv, NEW t \in Tags, Workflow(t) PROVE Inv'
  <2>1. TypeOK'
    BY <1>1, StepKinds DEF Inv
  <2>2. Queue' /\ Chain'
    BY <1>1, QueueStep, ChainStep DEF Inv
  <2>3. DistInv' /\ DoneInv' /\ OriginInv'
    BY <1>1, DistStep, DoneStep, OriginStep DEF Inv
  <2>4. MatchInv'
    BY <1>1, MatchStep DEF Inv
  <2>5. ReleaseComplete' /\ EveryPinResolves' /\ RefusedInv'
    BY <1>1, CompleteStep, PinsStep, RefusedStep DEF Inv
  <2> QED BY <2>1, <2>2, <2>3, <2>4, <2>5 DEF Inv
<1>2. ASSUME Inv, UNCHANGED vars PROVE Inv'
  <2> USE <1>2 DEF vars, published, history, Inv
  <2>1. TypeOK' /\ Queue'
    BY DEF TypeOK, RunShape, Queue, Pushed
  <2>2. Chain'
    BY DEF Chain, Passed, Needs
  <2>3. OriginInv' /\ MatchInv'
    BY DEF OriginInv, OriginOf, MatchInv, Passed, Pushed, Named, Local
  <2>4. ReleaseComplete' /\ EveryPinResolves' /\ RefusedInv'
    BY DEF ReleaseComplete, EveryPinResolves, RefusedInv, RefusedForReason, Pushed, Named, ThinOf
  <2>5. DistInv'
    BY DEF DistInv, Faithful, Ok
  <2>6. DoneInv'
    BY DEF DoneInv, Ok, Named, ThinOf
  <2> QED BY <2>1, <2>2, <2>3, <2>4, <2>5, <2>6
<1> QED BY <1>1, <1>2 DEF Next

\* Every reachable state of a release satisfies the inductive invariant.
THEOREM Invariant == Spec => []Inv
BY InvInit, InvNext, PTL DEF Spec

\* A thin wheel on PyPI can be installed, whatever was pushed, failed, rebuilt
\* and run again, as long as its guard was shown every file of its names.
THEOREM PinsSafe == Spec => []EveryPinResolves
<1>1. Inv => EveryPinResolves
  BY DEF Inv
<1> QED BY <1>1, Invariant, PTL

\* A payload publication is refused only when something differs.
THEOREM RefusedSafe == Spec => []RefusedForReason
<1>1. Inv => RefusedForReason
  BY DEF Inv, RefusedInv
<1> QED BY <1>1, Invariant, PTL

\* What comes last finds every platform's thin wheel and every payload there.
THEOREM CompleteSafe == Spec => []ReleaseComplete
<1>1. Inv => ReleaseComplete
  BY DEF Inv
<1> QED BY <1>1, Invariant, PTL
=============================================================================
