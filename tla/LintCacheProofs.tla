--------------------------- MODULE LintCacheProofs --------------------------
(***************************************************************************)
(* Proofs about LintCache, for any number of runs, releases, units, files  *)
(* and edits.  What depends on the content of a marker is proved of trees  *)
(* that rest while a run lints (Quiet); the cap holds of any tree.         *)
(***************************************************************************)
EXTENDS LintCache, FiniteSetTheorems, TLAPS

\* The phases in which a unit's digest is the one it was given.
Keyed == {"digested", "seen", "hit"}

Linting == {"gc", "digest", "probe", "engines"}
Points == Linting \cup {"start", "mark", "trim", "done", "killed"}
Phases == Keyed \cup {"out", "planned", "todo", "read", "marked"}
Trees == [Files -> Contents]
Digests == UNION {[Covered[u] -> Contents] : u \in Units}

TypeOK ==
  /\ tree \in Trees
  /\ excluded \in SUBSET Files
  /\ pc \in [Runs -> Points]
  /\ base \in [Runs -> Trees]
  /\ phase \in [Runs -> [Units -> Phases]]
  /\ digest \in [Runs -> [Units -> Digests \cup {NoDigest}]]
  /\ found \in [Runs -> SUBSET (Units \X Files)]
  /\ broke \in [Runs -> SUBSET Engines]
  /\ snap \in [Runs -> SUBSET Files]
  /\ report \in [Runs -> SUBSET (Units \X Files)]

\* A run has not begun, or its units are as far as its program point says.
Progress ==
  \A r \in Runs :
    /\ pc[r] = "start" => found[r] = {} /\ report[r] = {} /\ \A u \in Units : phase[r][u] = "out"
    /\ pc[r] = "gc" => \A u \in Units : phase[r][u] \in {"out", "planned"}
    /\ pc[r] = "digest" => \A u \in Units : phase[r][u] \in {"out", "planned", "digested", "todo"}
    /\ pc[r] = "probe" => \A u \in Units : phase[r][u] \in Keyed \cup {"out", "todo"}
    /\ pc[r] = "engines" => \A u \in Units : phase[r][u] \in {"out", "hit", "todo", "read"}
    /\ pc[r] \in {"mark", "trim", "done"} =>
         \A u \in Units : phase[r][u] \in {"out", "hit", "read", "marked"}

\* Under Quiet the tree rests from a run's snapshot to the end of its engines.
Frozen == \A r \in Runs : pc[r] \in Linting => tree = base[r]

\* A digest is of the tree the run started with.
FromBase ==
  \A r \in Runs, u \in Units :
    phase[r][u] \in Keyed \/ (phase[r][u] \in {"todo", "read", "marked"} /\ u \notin NeverCached)
      => digest[r][u] = Part(base[r], u)

\* The findings of u in the tree that r started with.
Faults(r, u) == Finds(Release[r], u, At(base[r], u))

\* The raw findings are those of the units that were read.
Raw ==
  \A r \in Runs :
    /\ \A x \in found[r] : phase[r][x[1]] \in {"read", "marked"} /\ x[2] \in Faults(r, x[1])
    /\ \A u \in Units : phase[r][u] \in {"read", "marked"} /\ Engine[u] \notin broke[r] =>
         \A f \in Faults(r, u) : <<u, f>> \in found[r]

\* A unit with a marker has nothing to find, as far as its digest can tell.
HitClean ==
  \A r \in Runs, u \in Units :
    phase[r][u] \in {"seen", "hit"} => Cleared(Release[r], u, Part(base[r], u))

\* A run that is done has reported what it found and did not exclude.
Reported == \A r \in Runs : pc[r] = "done" => report[r] = {x \in found[r] : x[2] \notin snap[r]}

SoundInv == Progress /\ Frozen /\ FromBase /\ Raw /\ HitClean /\ MarkersSound /\ Reported

\* A release whose runs may still add markers, or have left some.
Pending(v) == \E r \in Runs : Release[r] = v /\ pc[r] \in Linting \cup {"mark", "killed"}

\* Its markers that nobody is about to unlink.
Held(v) == {k \in Markers : k[1] = v /\ \A r \in Runs : pc[r] = "trim" => k \notin victims[r]}

\* Touching gives every marker a time of its own; a run unlinks only markers of
\* its release.
Times ==
  /\ IsFiniteSet(Markers)
  /\ mtime \in [Markers -> Nat]
  /\ \A k, m \in Markers : mtime[k] = mtime[m] => k = m

OwnVictims ==
  /\ victims = [r \in Runs |-> victims[r]]
  /\ \A r \in Runs : \A k \in victims[r] : k[1] = Release[r]

Capped == \A v \in {Release[r] : r \in Runs} : ~Pending(v) => Cardinality(Held(v)) <= SoftCap

CapInv == Times /\ OwnVictims /\ Capped

-----------------------------------------------------------------------------
\* What a unit's findings depend on, and what its digest covers, read off any
\* tree, is a content of those files; and the digest covers a part of it.
LEMMA AtType ==
  ASSUME NEW t \in Trees, NEW u \in Units
  PROVE  /\ At(t, u) \in [Reads[u] -> Contents]
         /\ Part(t, u) \in [Covered[u] -> Contents] /\ Part(t, u) \in Digests
         /\ \A f \in Covered[u] : At(t, u)[f] = Part(t, u)[f]
<1>1. Reads[u] \subseteq Files /\ Covered[u] \subseteq Reads[u]
  BY UnitsAssumption
<1>2. At(t, u) \in [Reads[u] -> Contents]
  BY <1>1 DEF At, Trees
<1>3. Part(t, u) \in [Covered[u] -> Contents]
  BY <1>1 DEF Part, Trees
<1>4. \A f \in Covered[u] : At(t, u)[f] = Part(t, u)[f]
  BY <1>1 DEF At, Part
<1>. QED
  BY <1>2, <1>3, <1>4 DEF Digests

\* What was found clean is cleared by its digest.
LEMMA CleanIsCleared ==
  ASSUME NEW t \in Trees, NEW u \in Units, NEW v, Finds(v, u, At(t, u)) = {}
  PROVE  Cleared(v, u, Part(t, u))
<1>1. DOMAIN Part(t, u) = Covered[u]
  BY DEF Part
<1>. QED
  BY <1>1, AtType DEF Cleared

\* Where the digest covers all that the findings depend on, what it clears has
\* nothing to find.
LEMMA ClearedIsClean ==
  ASSUME NEW t \in Trees, NEW u \in Units, NEW v, Cleared(v, u, Part(t, u)),
         Covered[u] = Reads[u]
  PROVE  Finds(v, u, At(t, u)) = {}
<1>1. PICK c \in [Reads[u] -> Contents] :
         (\A f \in DOMAIN Part(t, u) : c[f] = Part(t, u)[f]) /\ Finds(v, u, c) = {}
  BY DEF Cleared
<1>2. DOMAIN Part(t, u) = Reads[u]
  BY DEF Part
<1>3. At(t, u) \in [Reads[u] -> Contents] /\ \A f \in Reads[u] : At(t, u)[f] = c[f]
  BY <1>1, <1>2, AtType
<1>4. c = At(t, u)
  BY <1>3
<1>. QED
  BY <1>1, <1>4

\* A release finds fault with files only.
LEMMA FindsFiles ==
  ASSUME NEW r \in Runs, NEW t \in Trees, NEW u \in Units
  PROVE  Finds(Release[r], u, At(t, u)) \subseteq Files
<1>1. At(t, u) \in [Reads[u] -> Contents]
  BY AtType
<1>2. Finds(Release[r], u, At(t, u)) \subseteq Own[u]
  BY <1>1, FindsAssumption
<1>. QED
  BY <1>2, UnitsAssumption

\* Setting the phase of one unit of one run.
LEMMA SetEffect ==
  ASSUME TypeOK, NEW r \in Runs, NEW u \in Units, NEW ph \in Phases, Set(r, u, ph)
  PROVE  /\ phase' \in [Runs -> [Units -> Phases]]
         /\ \A s \in Runs, w \in Units :
              phase'[s][w] = IF s = r /\ w = u THEN ph ELSE phase[s][w]
BY DEF Set, TypeOK

\* Digesting a unit, or leaving it undigested when it is never cached.
LEMMA DigestEffect ==
  ASSUME TypeOK, NEW r \in Runs, NEW u \in Units, Digest(r, u)
  PROVE  /\ digest' \in [Runs -> [Units -> Digests \cup {NoDigest}]]
         /\ u \notin NeverCached => digest'[r][u] = Part(tree, u)
         /\ \A s \in Runs, w \in Units :
              s # r \/ w # u \/ u \in NeverCached => digest'[s][w] = digest[s][w]
<1>1. Part(tree, u) \in Digests
  BY AtType DEF TypeOK
<1>2. digest \in [Runs -> [Units -> Digests \cup {NoDigest}]]
  BY DEF TypeOK
<1>3. CASE u \in NeverCached
  BY <1>2, <1>3 DEF Digest
<1>4. CASE u \notin NeverCached
  BY <1>1, <1>2, <1>4 DEF Digest, UnitDigest
<1>. QED
  BY <1>3, <1>4

\* Every phase is one.
LEMMA PhaseNames ==
  /\ "out" \in Phases /\ "planned" \in Phases /\ "digested" \in Phases
  /\ "seen" \in Phases /\ "hit" \in Phases /\ "todo" \in Phases
  /\ "read" \in Phases /\ "marked" \in Phases
BY DEF Phases, Keyed

\* No step makes a value of another kind.
LEMMA TypeStep ==
  ASSUME TypeOK, [Next]_vars
  PROVE  TypeOK'
<1>. USE DEF TypeOK, Points, Linting, world, run, outcome
<1>1. ASSUME NEW f \in Files, Edit(f)
      PROVE  TypeOK'
  <2>1. tree' \in Trees
    BY <1>1 DEF Edit, Trees
  <2>. QED
    BY <1>1, <2>1 DEF Edit
<1>2. ASSUME NEW f \in Files, Attribute(f)
      PROVE  TypeOK'
  BY <1>2 DEF Attribute
<1>3. ASSUME NEW r \in Runs, Start(r)
      PROVE  TypeOK'
  <2>1. phase' \in [Runs -> [Units -> Phases]]
    BY <1>3, PhaseNames DEF Start
  <2>2. snap' \in [Runs -> SUBSET Files] /\ base' \in [Runs -> Trees] /\ pc' \in [Runs -> Points]
    BY <1>3 DEF Start
  <2>. QED
    BY <1>3, <2>1, <2>2 DEF Start
<1>4. ASSUME NEW r \in Runs, GcStale(r)
      PROVE  TypeOK'
  BY <1>4 DEF GcStale
<1>5. ASSUME NEW r \in Runs, Digested(r)
      PROVE  TypeOK'
  BY <1>5 DEF Digested
<1>6. ASSUME NEW r \in Runs, NEW u \in Units, Digest(r, u)
      PROVE  TypeOK'
  <2>1. phase' \in [Runs -> [Units -> Phases]]
    BY <1>6, SetEffect, PhaseNames DEF Digest
  <2>2. digest' \in [Runs -> [Units -> Digests \cup {NoDigest}]]
    BY <1>6, DigestEffect
  <2>. QED
    BY <1>6, <2>1, <2>2 DEF Digest
<1>7. ASSUME NEW r \in Runs, NEW u \in Units, Probe(r, u)
      PROVE  TypeOK'
  <2>1. phase' \in [Runs -> [Units -> Phases]]
    BY <1>7, SetEffect, PhaseNames DEF Probe
  <2>. QED
    BY <1>7, <2>1 DEF Probe
<1>8. ASSUME NEW r \in Runs, NEW u \in Units, Hit(r, u)
      PROVE  TypeOK'
  <2>1. phase' \in [Runs -> [Units -> Phases]]
    BY <1>8, SetEffect, PhaseNames DEF Hit
  <2>. QED
    BY <1>8, <2>1 DEF Hit
<1>9. ASSUME NEW r \in Runs, Probed(r)
      PROVE  TypeOK'
  BY <1>9 DEF Probed
<1>10. ASSUME NEW r \in Runs, NEW u \in Units, Analyze(r, u)
      PROVE  TypeOK'
  <2>1. phase' \in [Runs -> [Units -> Phases]]
    BY <1>10, SetEffect, PhaseNames DEF Analyze
  <2>2. found' \in [Runs -> SUBSET (Units \X Files)]
    BY <1>10, FindsFiles DEF Analyze
  <2>. QED
    BY <1>10, <2>1, <2>2 DEF Analyze
<1>11. ASSUME NEW r \in Runs, NEW e \in Engines, Break(r, e)
      PROVE  TypeOK'
  <2>1. phase' \in [Runs -> [Units -> Phases]]
    BY <1>11, PhaseNames DEF Break
  <2>2. found' \in [Runs -> SUBSET (Units \X Files)] /\ broke' \in [Runs -> SUBSET Engines]
    BY <1>11 DEF Break
  <2>. QED
    BY <1>11, <2>1, <2>2 DEF Break
<1>12. ASSUME NEW r \in Runs, Analyzed(r)
      PROVE  TypeOK'
  BY <1>12 DEF Analyzed
<1>13. ASSUME NEW r \in Runs, NEW u \in Units, Mark(r, u)
      PROVE  TypeOK'
  <2>1. phase' \in [Runs -> [Units -> Phases]]
    BY <1>13, SetEffect, PhaseNames DEF Mark
  <2>. QED
    BY <1>13, <2>1 DEF Mark
<1>14. ASSUME NEW r \in Runs, ListVictims(r)
      PROVE  TypeOK'
  BY <1>14 DEF ListVictims
<1>15. ASSUME NEW r \in Runs, Trim(r)
      PROVE  TypeOK'
  BY <1>15 DEF Trim
<1>16. ASSUME NEW r \in Runs, Finish(r)
      PROVE  TypeOK'
  <2>1. report' \in [Runs -> SUBSET (Units \X Files)]
    BY <1>16 DEF Finish
  <2>. QED
    BY <1>16, <2>1 DEF Finish
<1>17. ASSUME NEW r \in Runs, Kill(r)
      PROVE  TypeOK'
  BY <1>17 DEF Kill
<1>18. CASE UNCHANGED vars
  BY <1>18 DEF vars
<1>. QED
  BY <1>1, <1>2, <1>3, <1>4, <1>5, <1>6, <1>7, <1>8, <1>9, <1>10, <1>11,
     <1>12, <1>13, <1>14, <1>15, <1>16, <1>17, <1>18 DEF Next, Step

\* Every variable stays in its range.
THEOREM TypeInvariant == Spec => []TypeOK
<1>1. Init => TypeOK
  BY DEF Init, TypeOK, Trees, Points, Linting, Phases, Keyed
<1>2. TypeOK /\ [Next]_vars => TypeOK'
  BY TypeStep
<1>. QED
  BY <1>1, <1>2, PTL DEF Spec

\* A run goes on only when its units are far enough.
LEMMA ProgressStep ==
  ASSUME TypeOK, Progress, [Next]_vars
  PROVE  Progress'
<1>. USE DEF TypeOK, Progress, Keyed, Linting, world, run, outcome
<1>1. ASSUME NEW f \in Files, Edit(f)
      PROVE  Progress'
  BY <1>1 DEF Edit
<1>2. ASSUME NEW f \in Files, Attribute(f)
      PROVE  Progress'
  BY <1>2 DEF Attribute
<1>3. ASSUME NEW r \in Runs, Start(r)
      PROVE  Progress'
  BY <1>3 DEF Start
<1>4. ASSUME NEW r \in Runs, GcStale(r)
      PROVE  Progress'
  BY <1>4 DEF GcStale
<1>5. ASSUME NEW r \in Runs, Digested(r)
      PROVE  Progress'
  BY <1>5 DEF Digested
<1>6. ASSUME NEW r \in Runs, NEW u \in Units, Digest(r, u)
      PROVE  Progress'
  <2>1. PICK ph \in {"todo", "digested"} : Set(r, u, ph)
    BY <1>6 DEF Digest
  <2>2. \A s \in Runs, w \in Units :
          phase'[s][w] = IF s = r /\ w = u THEN ph ELSE phase[s][w]
    BY <2>1, SetEffect, PhaseNames
  <2>3. pc[r] = "digest" /\ pc' = pc /\ report' = report
    BY <1>6 DEF Digest
  <2>. QED
    BY <2>1, <2>2, <2>3, <1>6 DEF Digest
<1>7. ASSUME NEW r \in Runs, NEW u \in Units, Probe(r, u)
      PROVE  Progress'
  <2>1. PICK ph \in {"seen", "todo"} : Set(r, u, ph)
    BY <1>7 DEF Probe
  <2>2. \A s \in Runs, w \in Units :
          phase'[s][w] = IF s = r /\ w = u THEN ph ELSE phase[s][w]
    BY <2>1, SetEffect, PhaseNames
  <2>3. pc[r] = "probe" /\ pc' = pc /\ report' = report /\ found' = found
    BY <1>7 DEF Probe
  <2>. QED
    BY ONLY Progress, r \in Runs, <2>1, <2>2, <2>3 DEF Progress, Keyed, Linting
<1>8. ASSUME NEW r \in Runs, NEW u \in Units, Hit(r, u)
      PROVE  Progress'
  <2>1. PICK ph \in {"hit", "todo"} : Set(r, u, ph)
    BY <1>8 DEF Hit
  <2>2. \A s \in Runs, w \in Units :
          phase'[s][w] = IF s = r /\ w = u THEN ph ELSE phase[s][w]
    BY <2>1, SetEffect, PhaseNames
  <2>3. pc[r] = "probe" /\ pc' = pc /\ report' = report /\ found' = found
    BY <1>8 DEF Hit
  <2>4. \A w \in Units : phase'[r][w] \in Keyed \cup {"out", "todo"}
    BY <2>1, <2>2, <2>3
  <2>5. \A s \in Runs : s # r => \A w \in Units : phase'[s][w] = phase[s][w]
    BY <2>2
  <2>. QED
    BY ONLY Progress, <2>3, <2>4, <2>5 DEF Progress, Keyed, Linting
<1>9. ASSUME NEW r \in Runs, Probed(r)
      PROVE  Progress'
  BY <1>9 DEF Probed
<1>10. ASSUME NEW r \in Runs, NEW u \in Units, Analyze(r, u)
      PROVE  Progress'
  <2>1. PICK ph \in {"read"} : Set(r, u, ph)
    BY <1>10 DEF Analyze
  <2>2. \A s \in Runs, w \in Units :
          phase'[s][w] = IF s = r /\ w = u THEN ph ELSE phase[s][w]
    BY <2>1, SetEffect, PhaseNames
  <2>3. pc[r] = "engines" /\ pc' = pc /\ report' = report
    BY <1>10 DEF Analyze
  <2>. QED
    BY <2>1, <2>2, <2>3, <1>10 DEF Analyze
<1>11. ASSUME NEW r \in Runs, NEW e \in Engines, Break(r, e)
      PROVE  Progress'
  BY <1>11 DEF Break
<1>12. ASSUME NEW r \in Runs, Analyzed(r)
      PROVE  Progress'
  BY <1>12 DEF Analyzed
<1>13. ASSUME NEW r \in Runs, NEW u \in Units, Mark(r, u)
      PROVE  Progress'
  <2>1. PICK ph \in {"marked"} : Set(r, u, ph)
    BY <1>13 DEF Mark
  <2>2. \A s \in Runs, w \in Units :
          phase'[s][w] = IF s = r /\ w = u THEN ph ELSE phase[s][w]
    BY <2>1, SetEffect, PhaseNames
  <2>3. pc[r] = "mark" /\ pc' = pc /\ report' = report /\ found' = found
    BY <1>13 DEF Mark
  <2>. QED
    BY <2>1, <2>2, <2>3
<1>14. ASSUME NEW r \in Runs, ListVictims(r)
      PROVE  Progress'
  BY <1>14 DEF ListVictims
<1>15. ASSUME NEW r \in Runs, Trim(r)
      PROVE  Progress'
  BY <1>15 DEF Trim
<1>16. ASSUME NEW r \in Runs, Finish(r)
      PROVE  Progress'
  BY <1>16 DEF Finish
<1>17. ASSUME NEW r \in Runs, Kill(r)
      PROVE  Progress'
  BY <1>17 DEF Kill
<1>18. CASE UNCHANGED vars
  BY <1>18 DEF vars
<1>. QED
  BY <1>1, <1>2, <1>3, <1>4, <1>5, <1>6, <1>7, <1>8, <1>9, <1>10, <1>11,
     <1>12, <1>13, <1>14, <1>15, <1>16, <1>17, <1>18 DEF Next, Step

\* Nobody edits between a snapshot and the last read of an engine.
LEMMA FrozenStep ==
  ASSUME Quiet, TypeOK, Frozen, [Next]_vars
  PROVE  Frozen'
<1>. USE DEF TypeOK, Frozen, Linting, world, run, outcome
<1>1. ASSUME NEW f \in Files, Edit(f)
      PROVE  Frozen'
  BY <1>1 DEF Edit, Undisturbed
<1>2. ASSUME NEW f \in Files, Attribute(f)
      PROVE  Frozen'
  BY <1>2 DEF Attribute
<1>3. ASSUME NEW r \in Runs, Start(r)
      PROVE  Frozen'
  BY <1>3 DEF Start
<1>4. ASSUME NEW r \in Runs, GcStale(r)
      PROVE  Frozen'
  BY <1>4 DEF GcStale
<1>5. ASSUME NEW r \in Runs, Digested(r)
      PROVE  Frozen'
  BY <1>5 DEF Digested
<1>6. ASSUME NEW r \in Runs, NEW u \in Units, Digest(r, u)
      PROVE  Frozen'
  BY <1>6 DEF Digest
<1>7. ASSUME NEW r \in Runs, NEW u \in Units, Probe(r, u)
      PROVE  Frozen'
  BY <1>7 DEF Probe
<1>8. ASSUME NEW r \in Runs, NEW u \in Units, Hit(r, u)
      PROVE  Frozen'
  BY <1>8 DEF Hit
<1>9. ASSUME NEW r \in Runs, Probed(r)
      PROVE  Frozen'
  BY <1>9 DEF Probed
<1>10. ASSUME NEW r \in Runs, NEW u \in Units, Analyze(r, u)
      PROVE  Frozen'
  BY <1>10 DEF Analyze
<1>11. ASSUME NEW r \in Runs, NEW e \in Engines, Break(r, e)
      PROVE  Frozen'
  BY <1>11 DEF Break
<1>12. ASSUME NEW r \in Runs, Analyzed(r)
      PROVE  Frozen'
  BY <1>12 DEF Analyzed
<1>13. ASSUME NEW r \in Runs, NEW u \in Units, Mark(r, u)
      PROVE  Frozen'
  BY <1>13 DEF Mark
<1>14. ASSUME NEW r \in Runs, ListVictims(r)
      PROVE  Frozen'
  BY <1>14 DEF ListVictims
<1>15. ASSUME NEW r \in Runs, Trim(r)
      PROVE  Frozen'
  BY <1>15 DEF Trim
<1>16. ASSUME NEW r \in Runs, Finish(r)
      PROVE  Frozen'
  BY <1>16 DEF Finish
<1>17. ASSUME NEW r \in Runs, Kill(r)
      PROVE  Frozen'
  BY <1>17 DEF Kill
<1>18. CASE UNCHANGED vars
  BY <1>18 DEF vars
<1>. QED
  BY <1>1, <1>2, <1>3, <1>4, <1>5, <1>6, <1>7, <1>8, <1>9, <1>10, <1>11,
     <1>12, <1>13, <1>14, <1>15, <1>16, <1>17, <1>18 DEF Next, Step

\* Touching adds one marker at most.
LEMMA TouchEffect == ASSUME NEW k, Touch(k) PROVE Markers' = Markers \cup {k}
BY DEF Touch, Markers

\* Unlinking removes what it names.
LEMMA UnlinkEffect == ASSUME NEW ks, Unlink(ks) PROVE Markers' = Markers \ ks
BY DEF Unlink, Markers

\* The content a marker of a unit stands for.
LEMMA KeyParts ==
  \A r, u : Key(r, u)[1] = Release[r] /\ Key(r, u)[2] = u /\ Key(r, u)[3] = digest[r][u]
BY DEF Key

\* A marker with the key of a unit clears the content of that key.
LEMMA MarkerClears ==
  ASSUME MarkersSound, NEW r, NEW u, Key(r, u) \in Markers
  PROVE  Cleared(Release[r], u, digest[r][u])
<1>1. Cleared(Key(r, u)[1], Key(r, u)[2], Key(r, u)[3])
  BY DEF MarkersSound
<1>. QED
  BY <1>1 DEF Key

\* A digest taken while the tree rests is of the tree the run started with.
LEMMA FromBaseStep ==
  ASSUME TypeOK, Progress, Frozen, FromBase, [Next]_vars
  PROVE  FromBase'
<1>. USE DEF TypeOK, Progress, Frozen, FromBase, Keyed, Linting, world, run, outcome
<1>1. ASSUME NEW f \in Files, Edit(f)
      PROVE  FromBase'
  BY <1>1 DEF Edit
<1>2. ASSUME NEW f \in Files, Attribute(f)
      PROVE  FromBase'
  BY <1>2 DEF Attribute
<1>3. ASSUME NEW r \in Runs, Start(r)
      PROVE  FromBase'
  BY <1>3 DEF Start
<1>4. ASSUME NEW r \in Runs, GcStale(r)
      PROVE  FromBase'
  BY <1>4 DEF GcStale
<1>5. ASSUME NEW r \in Runs, Digested(r)
      PROVE  FromBase'
  BY <1>5 DEF Digested
<1>6. ASSUME NEW r \in Runs, NEW u \in Units, Digest(r, u)
      PROVE  FromBase'
  <2>1. PICK ph \in {"todo", "digested"} : Set(r, u, ph) /\ (ph = "todo" <=> u \in NeverCached)
    BY <1>6 DEF Digest
  <2>2. \A s \in Runs, w \in Units :
          phase'[s][w] = IF s = r /\ w = u THEN ph ELSE phase[s][w]
    BY <2>1, SetEffect, PhaseNames
  <2>3. base' = base /\ tree = base[r] /\ phase[r][u] = "planned"
    BY <1>6 DEF Digest
  <2>4. u \notin NeverCached => digest'[r][u] = Part(base[r], u)
    BY <1>6, <2>3, DigestEffect
  <2>5. \A s \in Runs, w \in Units : s # r \/ w # u => digest'[s][w] = digest[s][w]
    BY <1>6, DigestEffect
  <2>. QED
    BY ONLY FromBase, <2>1, <2>2, <2>3, <2>4, <2>5 DEF FromBase, Keyed
<1>7. ASSUME NEW r \in Runs, NEW u \in Units, Probe(r, u)
      PROVE  FromBase'
  <2>1. PICK ph \in {"seen", "todo"} : Set(r, u, ph)
    BY <1>7 DEF Probe
  <2>2. \A s \in Runs, w \in Units :
          phase'[s][w] = IF s = r /\ w = u THEN ph ELSE phase[s][w]
    BY <2>1, SetEffect, PhaseNames
  <2>. QED
    BY <1>7, <2>1, <2>2 DEF Probe
<1>8. ASSUME NEW r \in Runs, NEW u \in Units, Hit(r, u)
      PROVE  FromBase'
  <2>1. PICK ph \in {"hit", "todo"} : Set(r, u, ph)
    BY <1>8 DEF Hit
  <2>2. \A s \in Runs, w \in Units :
          phase'[s][w] = IF s = r /\ w = u THEN ph ELSE phase[s][w]
    BY <2>1, SetEffect, PhaseNames
  <2>. QED
    BY <1>8, <2>1, <2>2 DEF Hit
<1>9. ASSUME NEW r \in Runs, Probed(r)
      PROVE  FromBase'
  BY <1>9 DEF Probed
<1>10. ASSUME NEW r \in Runs, NEW u \in Units, Analyze(r, u)
      PROVE  FromBase'
  <2>1. PICK ph \in {"read"} : Set(r, u, ph)
    BY <1>10 DEF Analyze
  <2>2. \A s \in Runs, w \in Units :
          phase'[s][w] = IF s = r /\ w = u THEN ph ELSE phase[s][w]
    BY <2>1, SetEffect, PhaseNames
  <2>. QED
    BY <1>10, <2>1, <2>2 DEF Analyze
<1>11. ASSUME NEW r \in Runs, NEW e \in Engines, Break(r, e)
      PROVE  FromBase'
  BY <1>11 DEF Break
<1>12. ASSUME NEW r \in Runs, Analyzed(r)
      PROVE  FromBase'
  BY <1>12 DEF Analyzed
<1>13. ASSUME NEW r \in Runs, NEW u \in Units, Mark(r, u)
      PROVE  FromBase'
  <2>1. PICK ph \in {"marked"} : Set(r, u, ph)
    BY <1>13 DEF Mark
  <2>2. \A s \in Runs, w \in Units :
          phase'[s][w] = IF s = r /\ w = u THEN ph ELSE phase[s][w]
    BY <2>1, SetEffect, PhaseNames
  <2>. QED
    BY <1>13, <2>1, <2>2 DEF Mark
<1>14. ASSUME NEW r \in Runs, ListVictims(r)
      PROVE  FromBase'
  BY <1>14 DEF ListVictims
<1>15. ASSUME NEW r \in Runs, Trim(r)
      PROVE  FromBase'
  BY <1>15 DEF Trim
<1>16. ASSUME NEW r \in Runs, Finish(r)
      PROVE  FromBase'
  BY <1>16 DEF Finish
<1>17. ASSUME NEW r \in Runs, Kill(r)
      PROVE  FromBase'
  BY <1>17 DEF Kill
<1>18. CASE UNCHANGED vars
  BY <1>18 DEF vars
<1>. QED
  BY <1>1, <1>2, <1>3, <1>4, <1>5, <1>6, <1>7, <1>8, <1>9, <1>10, <1>11,
     <1>12, <1>13, <1>14, <1>15, <1>16, <1>17, <1>18 DEF Next, Step

\* An engine that did not break has found every fault of what it read.
LEMMA RawStep ==
  ASSUME TypeOK, Progress, Frozen, Raw, [Next]_vars
  PROVE  Raw'
<1>. USE DEF TypeOK, Progress, Frozen, Raw, Faults, Keyed, Linting, world, run, outcome
<1>1. ASSUME NEW f \in Files, Edit(f)
      PROVE  Raw'
  BY <1>1 DEF Edit
<1>2. ASSUME NEW f \in Files, Attribute(f)
      PROVE  Raw'
  BY <1>2 DEF Attribute
<1>3. ASSUME NEW r \in Runs, Start(r)
      PROVE  Raw'
  BY <1>3 DEF Start
<1>4. ASSUME NEW r \in Runs, GcStale(r)
      PROVE  Raw'
  BY <1>4 DEF GcStale
<1>5. ASSUME NEW r \in Runs, Digested(r)
      PROVE  Raw'
  BY <1>5 DEF Digested
<1>6. ASSUME NEW r \in Runs, NEW u \in Units, Digest(r, u)
      PROVE  Raw'
  <2>1. PICK ph \in {"todo", "digested"} : Set(r, u, ph)
    BY <1>6 DEF Digest
  <2>2. \A s \in Runs, w \in Units :
          phase'[s][w] = IF s = r /\ w = u THEN ph ELSE phase[s][w]
    BY <2>1, SetEffect, PhaseNames
  <2>3. base' = base /\ found' = found /\ broke' = broke /\ phase[r][u] = "planned"
    BY <1>6 DEF Digest
  <2>4. \A s \in Runs : found[s] \in SUBSET (Units \X Files)
    OBVIOUS
  <2>. QED
    BY ONLY Raw, <2>1, <2>2, <2>3, <2>4 DEF Raw, Faults
<1>7. ASSUME NEW r \in Runs, NEW u \in Units, Probe(r, u)
      PROVE  Raw'
  <2>1. PICK ph \in {"seen", "todo"} : Set(r, u, ph)
    BY <1>7 DEF Probe
  <2>2. \A s \in Runs, w \in Units :
          phase'[s][w] = IF s = r /\ w = u THEN ph ELSE phase[s][w]
    BY <2>1, SetEffect, PhaseNames
  <2>3. base' = base /\ found' = found /\ broke' = broke /\ phase[r][u] = "digested"
    BY <1>7 DEF Probe
  <2>4. \A s \in Runs : found[s] \in SUBSET (Units \X Files)
    OBVIOUS
  <2>. QED
    BY ONLY Raw, <2>1, <2>2, <2>3, <2>4 DEF Raw, Faults
<1>8. ASSUME NEW r \in Runs, NEW u \in Units, Hit(r, u)
      PROVE  Raw'
  <2>1. PICK ph \in {"hit", "todo"} : Set(r, u, ph)
    BY <1>8 DEF Hit
  <2>2. \A s \in Runs, w \in Units :
          phase'[s][w] = IF s = r /\ w = u THEN ph ELSE phase[s][w]
    BY <2>1, SetEffect, PhaseNames
  <2>3. base' = base /\ found' = found /\ broke' = broke /\ phase[r][u] = "seen"
    BY <1>8 DEF Hit
  <2>4. \A s \in Runs : found[s] \in SUBSET (Units \X Files)
    OBVIOUS
  <2>. QED
    BY ONLY Raw, <2>1, <2>2, <2>3, <2>4 DEF Raw, Faults
<1>9. ASSUME NEW r \in Runs, Probed(r)
      PROVE  Raw'
  BY <1>9 DEF Probed
<1>10. ASSUME NEW r \in Runs, NEW u \in Units, Analyze(r, u)
      PROVE  Raw'
  <2>1. PICK ph \in {"read"} : Set(r, u, ph)
    BY <1>10 DEF Analyze
  <2>2. \A s \in Runs, w \in Units :
          phase'[s][w] = IF s = r /\ w = u THEN ph ELSE phase[s][w]
    BY <2>1, SetEffect, PhaseNames
  <2>. QED
    BY <1>10, <2>1, <2>2 DEF Analyze
<1>11. ASSUME NEW r \in Runs, NEW e \in Engines, Break(r, e)
      PROVE  Raw'
  BY <1>11 DEF Break
<1>12. ASSUME NEW r \in Runs, Analyzed(r)
      PROVE  Raw'
  BY <1>12 DEF Analyzed
<1>13. ASSUME NEW r \in Runs, NEW u \in Units, Mark(r, u)
      PROVE  Raw'
  <2>1. PICK ph \in {"marked"} : Set(r, u, ph)
    BY <1>13 DEF Mark
  <2>2. \A s \in Runs, w \in Units :
          phase'[s][w] = IF s = r /\ w = u THEN ph ELSE phase[s][w]
    BY <2>1, SetEffect, PhaseNames
  <2>. QED
    BY <1>13, <2>1, <2>2 DEF Mark
<1>14. ASSUME NEW r \in Runs, ListVictims(r)
      PROVE  Raw'
  BY <1>14 DEF ListVictims
<1>15. ASSUME NEW r \in Runs, Trim(r)
      PROVE  Raw'
  BY <1>15 DEF Trim
<1>16. ASSUME NEW r \in Runs, Finish(r)
      PROVE  Raw'
  BY <1>16 DEF Finish
<1>17. ASSUME NEW r \in Runs, Kill(r)
      PROVE  Raw'
  BY <1>17 DEF Kill
<1>18. CASE UNCHANGED vars
  BY <1>18 DEF vars
<1>. QED
  BY <1>1, <1>2, <1>3, <1>4, <1>5, <1>6, <1>7, <1>8, <1>9, <1>10, <1>11,
     <1>12, <1>13, <1>14, <1>15, <1>16, <1>17, <1>18 DEF Next, Step

\* A marker that is seen clears its unit.
LEMMA HitCleanStep ==
  ASSUME TypeOK, FromBase, MarkersSound, HitClean, [Next]_vars
  PROVE  HitClean'
<1>. USE DEF TypeOK, HitClean, world, run, outcome
<1>1. ASSUME NEW f \in Files, Edit(f)
      PROVE  HitClean'
  BY <1>1 DEF Edit
<1>2. ASSUME NEW f \in Files, Attribute(f)
      PROVE  HitClean'
  BY <1>2 DEF Attribute
<1>3. ASSUME NEW r \in Runs, Start(r)
      PROVE  HitClean'
  <2>1. \A s \in Runs : s # r => base'[s] = base[s] /\ phase'[s] = phase[s]
    BY <1>3 DEF Start
  <2>2. \A w \in Units : phase'[r][w] \in {"planned", "out"}
    BY <1>3 DEF Start
  <2>. QED
    BY ONLY HitClean, <2>1, <2>2 DEF HitClean
<1>4. ASSUME NEW r \in Runs, GcStale(r)
      PROVE  HitClean'
  BY <1>4 DEF GcStale
<1>5. ASSUME NEW r \in Runs, Digested(r)
      PROVE  HitClean'
  BY <1>5 DEF Digested
<1>6. ASSUME NEW r \in Runs, NEW u \in Units, Digest(r, u)
      PROVE  HitClean'
  <2>1. PICK ph \in {"todo", "digested"} : Set(r, u, ph)
    BY <1>6 DEF Digest
  <2>2. \A s \in Runs, w \in Units :
          phase'[s][w] = IF s = r /\ w = u THEN ph ELSE phase[s][w]
    BY <2>1, SetEffect, PhaseNames
  <2>3. base' = base
    BY <1>6 DEF Digest
  <2>4. ph \notin {"seen", "hit"}
    OBVIOUS
  <2>. QED
    BY ONLY HitClean, <2>1, <2>2, <2>3, <2>4 DEF HitClean
<1>7. ASSUME NEW r \in Runs, NEW u \in Units, Probe(r, u)
      PROVE  HitClean'
  <2>1. PICK ph \in {"seen", "todo"} : Set(r, u, ph) /\ (ph = "seen" => Key(r, u) \in Markers)
    BY <1>7 DEF Probe
  <2>2. \A s \in Runs, w \in Units :
          phase'[s][w] = IF s = r /\ w = u THEN ph ELSE phase[s][w]
    BY <2>1, SetEffect, PhaseNames
  <2>3. base' = base
    BY <1>7 DEF Probe
  <2>4. ph \notin {"seen", "hit"} \/ Cleared(Release[r], u, Part(base[r], u))
    <3>1. ph = "todo" \/ Key(r, u) \in Markers
      BY <1>7, <2>1 DEF Probe
    <3>2. digest[r][u] = Part(base[r], u)
      BY <1>7 DEF Probe, FromBase, Keyed
    <3>3. Key(r, u) \in Markers => Cleared(Release[r], u, Part(base[r], u))
      BY <3>2, MarkerClears
    <3>. QED
      BY <3>1, <3>3
  <2>. QED
    BY ONLY HitClean, <2>1, <2>2, <2>3, <2>4 DEF HitClean
<1>8. ASSUME NEW r \in Runs, NEW u \in Units, Hit(r, u)
      PROVE  HitClean'
  <2>1. PICK ph \in {"hit", "todo"} : Set(r, u, ph)
    BY <1>8 DEF Hit
  <2>2. \A s \in Runs, w \in Units :
          phase'[s][w] = IF s = r /\ w = u THEN ph ELSE phase[s][w]
    BY <2>1, SetEffect, PhaseNames
  <2>3. base' = base
    BY <1>8 DEF Hit
  <2>4. ph \notin {"seen", "hit"} \/ Cleared(Release[r], u, Part(base[r], u))
    BY <1>8 DEF Hit
  <2>. QED
    BY ONLY HitClean, <2>1, <2>2, <2>3, <2>4 DEF HitClean
<1>9. ASSUME NEW r \in Runs, Probed(r)
      PROVE  HitClean'
  BY <1>9 DEF Probed
<1>10. ASSUME NEW r \in Runs, NEW u \in Units, Analyze(r, u)
      PROVE  HitClean'
  <2>1. PICK ph \in {"read"} : Set(r, u, ph)
    BY <1>10 DEF Analyze
  <2>2. \A s \in Runs, w \in Units :
          phase'[s][w] = IF s = r /\ w = u THEN ph ELSE phase[s][w]
    BY <2>1, SetEffect, PhaseNames
  <2>3. base' = base
    BY <1>10 DEF Analyze
  <2>4. ph \notin {"seen", "hit"}
    OBVIOUS
  <2>. QED
    BY ONLY HitClean, <2>1, <2>2, <2>3, <2>4 DEF HitClean
<1>11. ASSUME NEW r \in Runs, NEW e \in Engines, Break(r, e)
      PROVE  HitClean'
  <2>1. base' = base
    BY <1>11 DEF Break
  <2>2. \A s \in Runs, w \in Units : phase'[s][w] = phase[s][w] \/ phase'[s][w] = "read"
    BY <1>11 DEF Break
  <2>. QED
    BY ONLY HitClean, <2>1, <2>2 DEF HitClean
<1>12. ASSUME NEW r \in Runs, Analyzed(r)
      PROVE  HitClean'
  BY <1>12 DEF Analyzed
<1>13. ASSUME NEW r \in Runs, NEW u \in Units, Mark(r, u)
      PROVE  HitClean'
  <2>1. PICK ph \in {"marked"} : Set(r, u, ph)
    BY <1>13 DEF Mark
  <2>2. \A s \in Runs, w \in Units :
          phase'[s][w] = IF s = r /\ w = u THEN ph ELSE phase[s][w]
    BY <2>1, SetEffect, PhaseNames
  <2>3. base' = base
    BY <1>13 DEF Mark
  <2>4. ph \notin {"seen", "hit"}
    OBVIOUS
  <2>. QED
    BY ONLY HitClean, <2>1, <2>2, <2>3, <2>4 DEF HitClean
<1>14. ASSUME NEW r \in Runs, ListVictims(r)
      PROVE  HitClean'
  BY <1>14 DEF ListVictims
<1>15. ASSUME NEW r \in Runs, Trim(r)
      PROVE  HitClean'
  BY <1>15 DEF Trim
<1>16. ASSUME NEW r \in Runs, Finish(r)
      PROVE  HitClean'
  BY <1>16 DEF Finish
<1>17. ASSUME NEW r \in Runs, Kill(r)
      PROVE  HitClean'
  BY <1>17 DEF Kill
<1>18. CASE UNCHANGED vars
  BY <1>18 DEF vars
<1>. QED
  BY <1>1, <1>2, <1>3, <1>4, <1>5, <1>6, <1>7, <1>8, <1>9, <1>10, <1>11,
     <1>12, <1>13, <1>14, <1>15, <1>16, <1>17, <1>18 DEF Next, Step

\* A marker is written for a clean unit, or put back under the key it had.
LEMMA MarkersStep ==
  ASSUME TypeOK, FromBase, Raw, HitClean, MarkersSound, [Next]_vars
  PROVE  MarkersSound'
<1>. USE DEF MarkersSound, world, run, outcome
<1>1. ASSUME NEW f \in Files, Edit(f)
      PROVE  MarkersSound'
  <2>1. Markers' = Markers
    BY <1>1 DEF Edit, Markers
  <2>. QED
    BY <2>1
<1>2. ASSUME NEW f \in Files, Attribute(f)
      PROVE  MarkersSound'
  <2>1. Markers' = Markers
    BY <1>2 DEF Attribute, Markers
  <2>. QED
    BY <2>1
<1>3. ASSUME NEW r \in Runs, Start(r)
      PROVE  MarkersSound'
  <2>1. Markers' = Markers
    BY <1>3 DEF Start, Markers
  <2>. QED
    BY <2>1
<1>4. ASSUME NEW r \in Runs, GcStale(r)
      PROVE  MarkersSound'
  <2>1. Markers' \subseteq Markers
    BY <1>4, UnlinkEffect DEF GcStale
  <2>. QED
    BY <2>1
<1>5. ASSUME NEW r \in Runs, Digested(r)
      PROVE  MarkersSound'
  <2>1. Markers' = Markers
    BY <1>5 DEF Digested, Markers
  <2>. QED
    BY <2>1
<1>6. ASSUME NEW r \in Runs, NEW u \in Units, Digest(r, u)
      PROVE  MarkersSound'
  <2>1. Markers' = Markers
    BY <1>6 DEF Digest, Markers
  <2>. QED
    BY <2>1
<1>7. ASSUME NEW r \in Runs, NEW u \in Units, Probe(r, u)
      PROVE  MarkersSound'
  <2>1. Markers' = Markers
    BY <1>7 DEF Probe, Markers
  <2>. QED
    BY <2>1
<1>8. ASSUME NEW r \in Runs, NEW u \in Units, Hit(r, u)
      PROVE  MarkersSound'
  <2>1. Markers' \subseteq Markers \cup {Key(r, u)}
    BY <1>8, TouchEffect DEF Hit, Markers
  <2>2. digest[r][u] = Part(base[r], u) /\ Cleared(Release[r], u, Part(base[r], u))
    BY <1>8 DEF Hit, FromBase, HitClean, Keyed
  <2>. QED
    BY <2>1, <2>2, KeyParts
<1>9. ASSUME NEW r \in Runs, Probed(r)
      PROVE  MarkersSound'
  <2>1. Markers' = Markers
    BY <1>9 DEF Probed, Markers
  <2>. QED
    BY <2>1
<1>10. ASSUME NEW r \in Runs, NEW u \in Units, Analyze(r, u)
      PROVE  MarkersSound'
  <2>1. Markers' = Markers
    BY <1>10 DEF Analyze, Markers
  <2>. QED
    BY <2>1
<1>11. ASSUME NEW r \in Runs, NEW e \in Engines, Break(r, e)
      PROVE  MarkersSound'
  <2>1. Markers' = Markers
    BY <1>11 DEF Break, Markers
  <2>. QED
    BY <2>1
<1>12. ASSUME NEW r \in Runs, Analyzed(r)
      PROVE  MarkersSound'
  <2>1. Markers' = Markers
    BY <1>12 DEF Analyzed, Markers
  <2>. QED
    BY <2>1
<1>13. ASSUME NEW r \in Runs, NEW u \in Units, Mark(r, u)
      PROVE  MarkersSound'
  <2>1. Markers' \subseteq Markers \cup {Key(r, u)}
    BY <1>13, TouchEffect DEF Mark, Markers
  <2>2. digest[r][u] = Part(base[r], u) /\ base[r] \in Trees
    BY <1>13 DEF Mark, FromBase, TypeOK
  <2>3. Engine[u] \notin broke[r] /\ \A f \in Files : <<u, f>> \notin found[r]
    BY <1>13 DEF Mark, CleanUnits, Ran
  <2>4. \A f \in Faults(r, u) : <<u, f>> \in found[r]
    BY <1>13, <2>3 DEF Mark, Raw
  <2>5. Faults(r, u) \subseteq Files
    BY FindsFiles DEF Faults, TypeOK
  <2>6. Faults(r, u) = {}
    BY <2>3, <2>4, <2>5
  <2>7. Cleared(Release[r], u, Part(base[r], u))
    BY <2>2, <2>6, CleanIsCleared DEF Faults
  <2>. QED
    BY <2>1, <2>2, <2>7, KeyParts
<1>14. ASSUME NEW r \in Runs, ListVictims(r)
      PROVE  MarkersSound'
  <2>1. Markers' = Markers
    BY <1>14 DEF ListVictims, Markers
  <2>. QED
    BY <2>1
<1>15. ASSUME NEW r \in Runs, Trim(r)
      PROVE  MarkersSound'
  <2>1. Markers' \subseteq Markers
    BY <1>15, UnlinkEffect DEF Trim
  <2>. QED
    BY <2>1
<1>16. ASSUME NEW r \in Runs, Finish(r)
      PROVE  MarkersSound'
  <2>1. Markers' = Markers
    BY <1>16 DEF Finish, Markers
  <2>. QED
    BY <2>1
<1>17. ASSUME NEW r \in Runs, Kill(r)
      PROVE  MarkersSound'
  <2>1. Markers' = Markers
    BY <1>17 DEF Kill, Markers
  <2>. QED
    BY <2>1
<1>18. CASE UNCHANGED vars
  <2>1. Markers' = Markers
      BY <1>18 DEF vars, Markers
    <2>. QED
      BY <2>1
<1>. QED
  BY <1>1, <1>2, <1>3, <1>4, <1>5, <1>6, <1>7, <1>8, <1>9, <1>10, <1>11,
     <1>12, <1>13, <1>14, <1>15, <1>16, <1>17, <1>18 DEF Next, Step

\* The report is of what the run found.
LEMMA ReportedStep ==
  ASSUME TypeOK, Progress, Reported, [Next]_vars
  PROVE  Reported'
<1>. USE DEF TypeOK, Progress, Reported, world, run, outcome
<1>1. ASSUME NEW f \in Files, Edit(f)
      PROVE  Reported'
  BY <1>1 DEF Edit
<1>2. ASSUME NEW f \in Files, Attribute(f)
      PROVE  Reported'
  BY <1>2 DEF Attribute
<1>3. ASSUME NEW r \in Runs, Start(r)
      PROVE  Reported'
  BY <1>3 DEF Start
<1>4. ASSUME NEW r \in Runs, GcStale(r)
      PROVE  Reported'
  BY <1>4 DEF GcStale
<1>5. ASSUME NEW r \in Runs, Digested(r)
      PROVE  Reported'
  BY <1>5 DEF Digested
<1>6. ASSUME NEW r \in Runs, NEW u \in Units, Digest(r, u)
      PROVE  Reported'
  BY <1>6 DEF Digest
<1>7. ASSUME NEW r \in Runs, NEW u \in Units, Probe(r, u)
      PROVE  Reported'
  BY <1>7 DEF Probe
<1>8. ASSUME NEW r \in Runs, NEW u \in Units, Hit(r, u)
      PROVE  Reported'
  BY <1>8 DEF Hit
<1>9. ASSUME NEW r \in Runs, Probed(r)
      PROVE  Reported'
  BY <1>9 DEF Probed
<1>10. ASSUME NEW r \in Runs, NEW u \in Units, Analyze(r, u)
      PROVE  Reported'
  BY <1>10 DEF Analyze
<1>11. ASSUME NEW r \in Runs, NEW e \in Engines, Break(r, e)
      PROVE  Reported'
  BY <1>11 DEF Break
<1>12. ASSUME NEW r \in Runs, Analyzed(r)
      PROVE  Reported'
  BY <1>12 DEF Analyzed
<1>13. ASSUME NEW r \in Runs, NEW u \in Units, Mark(r, u)
      PROVE  Reported'
  BY <1>13 DEF Mark
<1>14. ASSUME NEW r \in Runs, ListVictims(r)
      PROVE  Reported'
  BY <1>14 DEF ListVictims
<1>15. ASSUME NEW r \in Runs, Trim(r)
      PROVE  Reported'
  BY <1>15 DEF Trim
<1>16. ASSUME NEW r \in Runs, Finish(r)
      PROVE  Reported'
  BY <1>16 DEF Finish
<1>17. ASSUME NEW r \in Runs, Kill(r)
      PROVE  Reported'
  BY <1>17 DEF Kill
<1>18. CASE UNCHANGED vars
  BY <1>18 DEF vars
<1>. QED
  BY <1>1, <1>2, <1>3, <1>4, <1>5, <1>6, <1>7, <1>8, <1>9, <1>10, <1>11,
     <1>12, <1>13, <1>14, <1>15, <1>16, <1>17, <1>18 DEF Next, Step

\* Contents, findings and markers agree while the tree rests.
THEOREM SoundInvariant == ASSUME Quiet PROVE Spec => []SoundInv
<1>1. Init => SoundInv
  BY UnitsAssumption DEF Init, SoundInv, Progress, Frozen, FromBase, Raw, HitClean, MarkersSound,
     Reported, Markers, Linting, Keyed
<1>2. TypeOK /\ SoundInv /\ [Next]_vars => SoundInv'
  BY ProgressStep, FrozenStep, FromBaseStep, RawStep, HitCleanStep, MarkersStep, ReportedStep
     DEF SoundInv
<1>. QED
  BY <1>1, <1>2, TypeInvariant, PTL DEF Spec

\* A marker stands only for a content that its release has found nothing in, as
\* long as nobody edits while a run lints (cache.py:8, cli.py:711-713).
THEOREM MarkersSafe == ASSUME Quiet PROVE Spec => []MarkersSound
<1>1. SoundInv => MarkersSound
  BY DEF SoundInv
<1>. QED
  BY <1>1, SoundInvariant, PTL

\* What run r would report without a cache.
Due(r) == {x \in Planned(r) \X Files : x[2] \in Faults(r, x[1]) /\ x[2] \notin snap[r]}

\* A finished run whose engines held reports what is due, the units that it
\* skipped aside; those are cleared by their digests.
LEMMA ReportAtEnd ==
  ASSUME TypeOK, SoundInv, NEW r \in Runs, pc[r] = "done", broke[r] = {}
  PROVE  /\ report[r] \subseteq Due(r)
         /\ \A x \in Due(r) \ report[r] :
              /\ phase[r][x[1]] = "hit"
              /\ Cleared(Release[r], x[1], Part(base[r], x[1]))
<1>1. report[r] = {x \in found[r] : x[2] \notin snap[r]} /\ found[r] \subseteq Units \X Files
  BY DEF TypeOK, SoundInv, Reported
<1>2. \A x \in found[r] : x[1] \in Planned(r) /\ x[2] \in Faults(r, x[1])
  BY <1>1 DEF SoundInv, Raw, Planned
<1>3. ASSUME NEW u \in Planned(r), NEW f \in Faults(r, u), phase[r][u] # "hit"
      PROVE  <<u, f>> \in found[r]
  <2>1. u \in Units /\ phase[r][u] \in {"read", "marked"}
    BY <1>3 DEF Planned, SoundInv, Progress
  <2>2. Engine[u] \notin broke[r]
    OBVIOUS
  <2>. QED
    BY <2>1, <2>2 DEF SoundInv, Raw
<1>4. ASSUME NEW x \in Due(r) \ report[r]
      PROVE  /\ phase[r][x[1]] = "hit"
             /\ Cleared(Release[r], x[1], Part(base[r], x[1]))
  <2>1. /\ x \in Planned(r) \X Files /\ x = <<x[1], x[2]>>
        /\ x[2] \in Faults(r, x[1]) /\ x[2] \notin snap[r]
    BY DEF Due
  <2>2. phase[r][x[1]] = "hit" /\ x[1] \in Units
    BY <1>1, <1>3, <2>1 DEF Planned
  <2>. QED
    BY <2>2 DEF SoundInv, HitClean
<1>5. report[r] \subseteq Due(r)
  BY <1>1, <1>2 DEF Due
<1>. QED
  BY <1>4, <1>5

\* The cache is transparent but for what digests leave out, as long as nobody
\* edits while a run lints: a finding is missed only when its unit had a marker
\* and a file outside the digest makes the difference.
THEOREM TransparentSafe == ASSUME Quiet PROVE Spec => []CacheTransparent
<1>1. ASSUME TypeOK, SoundInv
      PROVE  CacheTransparent
  <2>. SUFFICES ASSUME NEW r \in Runs, pc[r] = "done", broke[r] = {}
                PROVE  /\ report[r] \subseteq Due(r)
                       /\ \A x \in Due(r) \ report[r] :
                            /\ phase[r][x[1]] = "hit"
                            /\ Cleared(Release[r], x[1], Part(base[r], x[1]))
    BY DEF CacheTransparent, Due, Faults
  <2>. QED
    BY <1>1, ReportAtEnd
<1>. QED
  BY <1>1, TypeInvariant, SoundInvariant, PTL

\* The report of a run is exactly that of an uncached one.
CacheExact == \A r \in Runs : pc[r] = "done" /\ broke[r] = {} => report[r] = Due(r)

\* So where digests cover all that findings depend on, the cache cannot be told
\* from none.
THEOREM ExactSafe ==
  ASSUME Quiet, \A u \in Units : Covered[u] = Reads[u]
  PROVE  Spec => []CacheExact
<1>1. ASSUME TypeOK, SoundInv
      PROVE  CacheExact
  <2>. SUFFICES ASSUME NEW r \in Runs, pc[r] = "done", broke[r] = {}
                PROVE  Due(r) \subseteq report[r]
    BY <1>1, ReportAtEnd DEF CacheExact
  <2>1. ASSUME NEW x \in Due(r) \ report[r]
        PROVE  FALSE
    <3>1. x[1] \in Units /\ x[2] \in Faults(r, x[1]) /\ base[r] \in Trees
      BY <1>1 DEF Due, Planned, TypeOK
    <3>2. Cleared(Release[r], x[1], Part(base[r], x[1]))
      BY <1>1, ReportAtEnd
    <3>3. Faults(r, x[1]) = {}
      BY <3>1, <3>2, ClearedIsClean DEF Faults
    <3>. QED
      BY <3>1, <3>3
  <2>. QED
    BY <2>1
<1>. QED
  BY <1>1, TypeInvariant, SoundInvariant, PTL

-----------------------------------------------------------------------------
\* A finite set of numbers that is not empty has a greatest element: the sets of
\* what is above each of them have a least one, and it is empty.
LEMMA MaxOfFinite ==
  ASSUME NEW S \in SUBSET Int, IsFiniteSet(S), S # {}
  PROVE  Max(S) \in S /\ \A y \in S : Max(S) >= y
<1> DEFINE Above(x) == {y \in S : y > x}
           Aboves == {Above(x) : x \in S}
<1>1. IsWellFoundedOn(StrictSubsetOrdering(S), FiniteSubsetsOf(S))
  BY FS_StrictSubsetOrderingWellFounded
<1>2. Aboves \subseteq FiniteSubsetsOf(S) /\ Aboves # {}
  <2>1. \A x \in S : Above(x) \in SUBSET S
    OBVIOUS
  <2>2. \A x \in S : IsFiniteSet(Above(x))
    BY <2>1, FS_Subset
  <2>. HIDE DEF Above
  <2>. QED
    BY <2>1, <2>2 DEF FiniteSubsetsOf
<1>3. \E A \in Aboves : \A B \in Aboves : <<B, A>> \notin StrictSubsetOrdering(S)
  <2>. HIDE DEF Aboves
  <2>. QED
    BY <1>1, <1>2, WFMin
<1>4. PICK x \in S : \A y \in S : <<Above(y), Above(x)>> \notin StrictSubsetOrdering(S)
  BY <1>3
<1>5. ASSUME NEW y \in S, y > x
      PROVE  FALSE
  <2>1. Above(y) \subseteq Above(x) /\ Above(y) # Above(x)
    <3>1. y \in Above(x) /\ y \notin Above(y) /\ x \in Int /\ y \in Int
      BY <1>5
    <3>2. ASSUME NEW z \in Above(y) PROVE z \in Above(x)
      <4>1. z \in S /\ z \in Int /\ z > y
        OBVIOUS
      <4>2. z > x
        BY <1>5, <3>1, <4>1
      <4>. QED
        BY <4>1, <4>2
    <3>. QED
      BY <3>1, <3>2
  <2>2. Above(y) \in SUBSET S /\ Above(x) \in SUBSET S
    OBVIOUS
  <2>. HIDE DEF Above
  <2>3. <<Above(y), Above(x)>> \in StrictSubsetOrdering(S)
    BY <2>1, <2>2 DEF StrictSubsetOrdering
  <2>. QED
    BY <1>4, <2>3
<1>6. \A y \in S : x >= y
  BY <1>5
<1>. QED
  BY <1>6 DEF Max

\* A touch comes after every earlier one.
LEMMA LaterIsLater ==
  ASSUME Times
  PROVE  Later \in Nat /\ \A k \in Markers : mtime[k] < Later
<1> DEFINE T == {mtime[k] : k \in Markers}
<1>1. T \subseteq Nat /\ mtime \in Surjection(Markers, T)
  BY DEF Times, Surjection
<1>2. IsFiniteSet(T)
  BY <1>1, FS_Surjection DEF Times
<1>3. IsFiniteSet({0} \cup T)
  BY <1>2, FS_Singleton, FS_Union
<1>4. Max({0} \cup T) \in Nat /\ \A y \in {0} \cup T : Max({0} \cup T) >= y
  BY <1>1, <1>3, MaxOfFinite
<1>5. Later = 1 + Max({0} \cup T)
  BY DEF Later
<1>6. \A k \in Markers : mtime[k] \in {0} \cup T /\ mtime[k] \in Nat
  BY DEF Times
<1>. HIDE DEF T
<1>. QED
  BY <1>4, <1>5, <1>6

\* Times stay apart when a marker is touched, and when markers go.
LEMMA TouchTimes == ASSUME Times, NEW k, Touch(k) PROVE Times'
<1>1. Markers' = Markers \cup {k} /\ mtime' = [m \in Markers \cup {k} |-> IF m = k THEN Later ELSE mtime[m]]
  BY TouchEffect DEF Touch
<1>2. IsFiniteSet(Markers')
  BY <1>1, FS_AddElement DEF Times
<1>3. Later \in Nat /\ \A m \in Markers : mtime[m] \in Nat /\ mtime[m] < Later
  BY LaterIsLater DEF Times
<1>4. mtime' \in [Markers' -> Nat]
  BY <1>1, <1>3
<1>5. ASSUME NEW l \in Markers', NEW m \in Markers', mtime'[l] = mtime'[m]
      PROVE  l = m
  BY <1>1, <1>3, <1>5 DEF Times
<1>. QED
  BY <1>2, <1>4, <1>5 DEF Times

\* A marker that goes leaves the rest as they were.
LEMMA UnlinkTimes == ASSUME Times, NEW ks, Unlink(ks) PROVE Times'
<1>1. Markers' = Markers \ ks /\ mtime' = [m \in Markers \ ks |-> mtime[m]]
  BY UnlinkEffect DEF Unlink
<1>2. IsFiniteSet(Markers')
  BY <1>1, FS_Subset DEF Times
<1>. QED
  BY <1>1, <1>2 DEF Times

\* How many of the markers in own are older than k.
Rank(own, k) == Cardinality({m \in own : mtime[m] < mtime[k]})

\* The markers that are not among the oldest are no more than the cap.
LEMMA KeptIsCapped ==
  ASSUME Times, NEW own \in SUBSET Markers
  PROVE  LET kept == {k \in own : ~(Rank(own, k) + SoftCap < Cardinality(own))}
         IN  IsFiniteSet(kept) /\ Cardinality(kept) <= SoftCap
<1> DEFINE n == Cardinality(own)
           Older(k) == {m \in own : mtime[m] < mtime[k]}
           kept == {k \in own : ~(Rank(own, k) + SoftCap < n)}
           rank == [k \in kept |-> Rank(own, k)]
<1>1. IsFiniteSet(own) /\ n \in Nat /\ SoftCap \in Nat
  BY FS_Subset, FS_CardinalityType, BoundsAssumption DEF Times
<1>2. ASSUME NEW k \in own
      PROVE  IsFiniteSet(Older(k)) /\ Rank(own, k) \in Nat /\ Rank(own, k) <= n - 1
  <2>1. Older(k) \in SUBSET own /\ k \notin Older(k) /\ mtime[k] \in Nat
    BY DEF Times
  <2>2. IsFiniteSet(Older(k)) /\ Cardinality(Older(k)) \in Nat /\ Cardinality(Older(k)) <= n
    BY <1>1, <2>1, FS_Subset, FS_CardinalityType
  <2>3. Cardinality(Older(k)) # n
    BY <1>1, <2>1, FS_Subset
  <2>. QED
    BY <1>1, <2>2, <2>3 DEF Rank
<1>3. ASSUME NEW k \in own, NEW m \in own, mtime[k] < mtime[m]
      PROVE  Rank(own, k) # Rank(own, m)
  <2>1. Older(k) \in SUBSET Older(m) /\ k \in Older(m) /\ k \notin Older(k)
    BY <1>3 DEF Times
  <2>2. Cardinality(Older(k)) # Cardinality(Older(m))
    BY <1>2, <2>1, FS_Subset
  <2>. QED
    BY <2>2 DEF Rank
<1>4. \A k, m \in kept : Rank(own, k) = Rank(own, m) => k = m
  <2>1. \A k \in kept : k \in own /\ mtime[k] \in Nat
    BY DEF Times
  <2>. QED
    BY <1>3, <2>1 DEF Times
<1>5. \A k \in kept : Rank(own, k) \in (n - SoftCap)..(n - 1)
  <2>1. ASSUME NEW k \in kept
        PROVE  Rank(own, k) \in (n - SoftCap)..(n - 1)
    <3>1. Rank(own, k) \in Nat /\ Rank(own, k) <= n - 1 /\ ~(Rank(own, k) + SoftCap < n)
      BY <1>2
    <3>. HIDE DEF n
    <3>. QED
      BY <1>1, <3>1
  <2>. QED
    BY <2>1
<1>6. rank \in Injection(kept, (n - SoftCap)..(n - 1))
  <2>. HIDE DEF kept, n
  <2>. QED
    BY <1>4, <1>5 DEF Injection, IsInjective
<1>7. /\ IsFiniteSet((n - SoftCap)..(n - 1))
      /\ Cardinality((n - SoftCap)..(n - 1)) <= SoftCap
  <2>. HIDE DEF n
  <2>1. n - SoftCap \in Int /\ n - 1 \in Int
    BY <1>1
  <2>2. /\ IsFiniteSet((n - SoftCap)..(n - 1))
        /\ Cardinality((n - SoftCap)..(n - 1)) =
             IF n - SoftCap > n - 1 THEN 0 ELSE (n - 1) - (n - SoftCap) + 1
    BY <2>1, FS_Interval
  <2>. QED
    BY <1>1, <2>2
<1>8. IsFiniteSet(kept) /\ Cardinality(kept) <= Cardinality((n - SoftCap)..(n - 1))
  BY <1>6, <1>7, FS_Injection
<1>9. Cardinality(kept) \in Nat /\ Cardinality((n - SoftCap)..(n - 1)) \in Nat
  BY <1>7, <1>8, FS_CardinalityType
<1>. QED
  BY <1>1, <1>7, <1>8, <1>9

\* No two markers share a time.
LEMMA TimesStep ==
  ASSUME Times, [Next]_vars
  PROVE  Times'
<1>. USE DEF world, run, outcome
<1>1. ASSUME NEW f \in Files, Edit(f)
      PROVE  Times'
  <2>1. mtime' = mtime
    BY <1>1 DEF Edit
  <2>. QED
    BY <2>1 DEF Times, Markers
<1>2. ASSUME NEW f \in Files, Attribute(f)
      PROVE  Times'
  <2>1. mtime' = mtime
    BY <1>2 DEF Attribute
  <2>. QED
    BY <2>1 DEF Times, Markers
<1>3. ASSUME NEW r \in Runs, Start(r)
      PROVE  Times'
  <2>1. mtime' = mtime
    BY <1>3 DEF Start
  <2>. QED
    BY <2>1 DEF Times, Markers
<1>4. ASSUME NEW r \in Runs, GcStale(r)
      PROVE  Times'
  BY <1>4, UnlinkTimes DEF GcStale
<1>5. ASSUME NEW r \in Runs, Digested(r)
      PROVE  Times'
  <2>1. mtime' = mtime
    BY <1>5 DEF Digested
  <2>. QED
    BY <2>1 DEF Times, Markers
<1>6. ASSUME NEW r \in Runs, NEW u \in Units, Digest(r, u)
      PROVE  Times'
  <2>1. mtime' = mtime
    BY <1>6 DEF Digest
  <2>. QED
    BY <2>1 DEF Times, Markers
<1>7. ASSUME NEW r \in Runs, NEW u \in Units, Probe(r, u)
      PROVE  Times'
  <2>1. mtime' = mtime
    BY <1>7 DEF Probe
  <2>. QED
    BY <2>1 DEF Times, Markers
<1>8. ASSUME NEW r \in Runs, NEW u \in Units, Hit(r, u)
      PROVE  Times'
  <2>1. CASE Touch(Key(r, u))
    BY <2>1, TouchTimes
  <2>2. CASE mtime' = mtime
    BY <2>2 DEF Times, Markers
  <2>. QED
    BY <1>8, <2>1, <2>2 DEF Hit
<1>9. ASSUME NEW r \in Runs, Probed(r)
      PROVE  Times'
  <2>1. mtime' = mtime
    BY <1>9 DEF Probed
  <2>. QED
    BY <2>1 DEF Times, Markers
<1>10. ASSUME NEW r \in Runs, NEW u \in Units, Analyze(r, u)
      PROVE  Times'
  <2>1. mtime' = mtime
    BY <1>10 DEF Analyze
  <2>. QED
    BY <2>1 DEF Times, Markers
<1>11. ASSUME NEW r \in Runs, NEW e \in Engines, Break(r, e)
      PROVE  Times'
  <2>1. mtime' = mtime
    BY <1>11 DEF Break
  <2>. QED
    BY <2>1 DEF Times, Markers
<1>12. ASSUME NEW r \in Runs, Analyzed(r)
      PROVE  Times'
  <2>1. mtime' = mtime
    BY <1>12 DEF Analyzed
  <2>. QED
    BY <2>1 DEF Times, Markers
<1>13. ASSUME NEW r \in Runs, NEW u \in Units, Mark(r, u)
      PROVE  Times'
  <2>1. CASE Touch(Key(r, u))
    BY <2>1, TouchTimes
  <2>2. CASE mtime' = mtime
    BY <2>2 DEF Times, Markers
  <2>. QED
    BY <1>13, <2>1, <2>2 DEF Mark
<1>14. ASSUME NEW r \in Runs, ListVictims(r)
      PROVE  Times'
  <2>1. mtime' = mtime
    BY <1>14 DEF ListVictims
  <2>. QED
    BY <2>1 DEF Times, Markers
<1>15. ASSUME NEW r \in Runs, Trim(r)
      PROVE  Times'
  BY <1>15, UnlinkTimes DEF Trim
<1>16. ASSUME NEW r \in Runs, Finish(r)
      PROVE  Times'
  <2>1. mtime' = mtime
    BY <1>16 DEF Finish
  <2>. QED
    BY <2>1 DEF Times, Markers
<1>17. ASSUME NEW r \in Runs, Kill(r)
      PROVE  Times'
  <2>1. mtime' = mtime
    BY <1>17 DEF Kill
  <2>. QED
    BY <2>1 DEF Times, Markers
<1>18. CASE UNCHANGED vars
  <2>1. mtime' = mtime
      BY <1>18 DEF vars
    <2>. QED
      BY <2>1 DEF Times, Markers
<1>. QED
  BY <1>1, <1>2, <1>3, <1>4, <1>5, <1>6, <1>7, <1>8, <1>9, <1>10, <1>11,
     <1>12, <1>13, <1>14, <1>15, <1>16, <1>17, <1>18 DEF Next, Step

\* A run lists markers of its own release.
LEMMA OwnVictimsStep ==
  ASSUME OwnVictims, [Next]_vars
  PROVE  OwnVictims'
<1>. USE DEF OwnVictims, world, run, outcome
<1>1. ASSUME NEW f \in Files, Edit(f)
      PROVE  OwnVictims'
  BY <1>1 DEF Edit
<1>2. ASSUME NEW f \in Files, Attribute(f)
      PROVE  OwnVictims'
  BY <1>2 DEF Attribute
<1>3. ASSUME NEW r \in Runs, Start(r)
      PROVE  OwnVictims'
  BY <1>3 DEF Start
<1>4. ASSUME NEW r \in Runs, GcStale(r)
      PROVE  OwnVictims'
  BY <1>4 DEF GcStale
<1>5. ASSUME NEW r \in Runs, Digested(r)
      PROVE  OwnVictims'
  BY <1>5 DEF Digested
<1>6. ASSUME NEW r \in Runs, NEW u \in Units, Digest(r, u)
      PROVE  OwnVictims'
  BY <1>6 DEF Digest
<1>7. ASSUME NEW r \in Runs, NEW u \in Units, Probe(r, u)
      PROVE  OwnVictims'
  BY <1>7 DEF Probe
<1>8. ASSUME NEW r \in Runs, NEW u \in Units, Hit(r, u)
      PROVE  OwnVictims'
  BY <1>8 DEF Hit
<1>9. ASSUME NEW r \in Runs, Probed(r)
      PROVE  OwnVictims'
  BY <1>9 DEF Probed
<1>10. ASSUME NEW r \in Runs, NEW u \in Units, Analyze(r, u)
      PROVE  OwnVictims'
  BY <1>10 DEF Analyze
<1>11. ASSUME NEW r \in Runs, NEW e \in Engines, Break(r, e)
      PROVE  OwnVictims'
  BY <1>11 DEF Break
<1>12. ASSUME NEW r \in Runs, Analyzed(r)
      PROVE  OwnVictims'
  BY <1>12 DEF Analyzed
<1>13. ASSUME NEW r \in Runs, NEW u \in Units, Mark(r, u)
      PROVE  OwnVictims'
  BY <1>13 DEF Mark
<1>14. ASSUME NEW r \in Runs, ListVictims(r)
      PROVE  OwnVictims'
  BY <1>14 DEF ListVictims
<1>15. ASSUME NEW r \in Runs, Trim(r)
      PROVE  OwnVictims'
  BY <1>15 DEF Trim
<1>16. ASSUME NEW r \in Runs, Finish(r)
      PROVE  OwnVictims'
  BY <1>16 DEF Finish
<1>17. ASSUME NEW r \in Runs, Kill(r)
      PROVE  OwnVictims'
  BY <1>17 DEF Kill
<1>18. CASE UNCHANGED vars
  BY <1>18 DEF vars
<1>. QED
  BY <1>1, <1>2, <1>3, <1>4, <1>5, <1>6, <1>7, <1>8, <1>9, <1>10, <1>11,
     <1>12, <1>13, <1>14, <1>15, <1>16, <1>17, <1>18 DEF Next, Step

\* A release is capped while nobody of it adds markers and no more are held.
LEMMA CappedByLess ==
  ASSUME Times, Capped, NEW v \in {Release[r] : r \in Runs},
         ~Pending(v)' => ~Pending(v) /\ Held(v)' \subseteq Held(v)
  PROVE  ~Pending(v)' => Cardinality(Held(v)') <= SoftCap
<1>. SUFFICES ASSUME ~Pending(v), Held(v)' \subseteq Held(v)
              PROVE  Cardinality(Held(v)') <= SoftCap
  OBVIOUS
<1>1. IsFiniteSet(Held(v)) /\ Cardinality(Held(v)) <= SoftCap
  <2>1. Held(v) \in SUBSET Markers
    BY DEF Held
  <2>. QED
    BY <2>1, FS_Subset DEF Times, Capped
<1>2. /\ Cardinality(Held(v)') <= Cardinality(Held(v))
      /\ Cardinality(Held(v)') \in Nat /\ Cardinality(Held(v)) \in Nat
  BY <1>1, FS_Subset, FS_CardinalityType
<1>. QED
  BY <1>1, <1>2, BoundsAssumption

\* A run that lists its victims leaves its release capped.
LEMMA CappedByListing ==
  ASSUME Times, OwnVictims, NEW r \in Runs, ListVictims(r), pc \in [Runs -> Points]
  PROVE  Cardinality(Held(Release[r])') <= SoftCap
<1> DEFINE own == {k \in Markers : k[1] = Release[r]}
           kept == {k \in own : ~(Rank(own, k) + SoftCap < Cardinality(own))}
<1>1. /\ victims'[r] = {k \in own : Rank(own, k) + SoftCap < Cardinality(own)}
      /\ pc'[r] = "trim" /\ Markers' = Markers
  BY DEF ListVictims, OwnVictims, Rank, Markers
<1>2. own \in SUBSET Markers
  OBVIOUS
<1>3. IsFiniteSet(kept) /\ Cardinality(kept) <= SoftCap
  BY <1>2, KeptIsCapped
<1>4. Held(Release[r])' \subseteq kept
  BY <1>1 DEF Held
<1>. HIDE DEF kept
<1>5. /\ Cardinality(Held(Release[r])') <= Cardinality(kept)
      /\ Cardinality(Held(Release[r])') \in Nat /\ Cardinality(kept) \in Nat
  BY <1>3, <1>4, FS_Subset, FS_CardinalityType
<1>. QED
  BY <1>3, <1>5, BoundsAssumption

\* One unlink takes one marker away, and from one run's list at most.
LEMMA TrimEffect ==
  ASSUME OwnVictims, NEW r \in Runs, Trim(r)
  PROVE  \E k : /\ Markers' = Markers \ {k}
               /\ \A s \in Runs : victims[s] \subseteq victims'[s] \cup {k}
<1>1. \E k \in victims[r] : Unlink({k}) /\ victims' = [victims EXCEPT ![r] = victims[r] \ {k}]
  BY DEF Trim
<1>2. PICK k \in victims[r] : Unlink({k}) /\ victims' = [victims EXCEPT ![r] = victims[r] \ {k}]
  BY <1>1
<1>3. DOMAIN victims = Runs
  BY DEF OwnVictims
<1>4. victims'[r] = victims[r] \ {k} /\ \A s \in Runs : s # r => victims'[s] = victims[s]
  BY <1>2, <1>3
<1>5. \A s \in Runs : victims[s] \subseteq victims'[s] \cup {k}
  BY <1>4
<1>. QED
  BY <1>2, <1>5, UnlinkEffect

\* No step but a listing lets go of a release that holds more than before.
LEMMA HeldStep ==
  ASSUME OwnVictims, pc \in [Runs -> Points], NEW v \in {Release[r] : r \in Runs}, [Next]_vars
  PROVE  \/ ~Pending(v)' => ~Pending(v) /\ Held(v)' \subseteq Held(v)
         \/ \E r \in Runs : Release[r] = v /\ ListVictims(r)
<1>. USE DEF Points, Linting, world, run, outcome
<1>1. ASSUME NEW f \in Files, Edit(f)
      PROVE  ~Pending(v)' => ~Pending(v) /\ Held(v)' \subseteq Held(v)
  <2>1. UNCHANGED <<mtime, pc, victims>>
    BY <1>1 DEF Edit
  <2>. QED
    BY <2>1 DEF Pending, Held, Markers
<1>2. ASSUME NEW f \in Files, Attribute(f)
      PROVE  ~Pending(v)' => ~Pending(v) /\ Held(v)' \subseteq Held(v)
  <2>1. UNCHANGED <<mtime, pc, victims>>
    BY <1>2 DEF Attribute
  <2>. QED
    BY <2>1 DEF Pending, Held, Markers
<1>3. ASSUME NEW r \in Runs, Start(r)
      PROVE  ~Pending(v)' => ~Pending(v) /\ Held(v)' \subseteq Held(v)
  <2>1. /\ UNCHANGED <<mtime, victims>> /\ pc[r] = "start"
        /\ \E p \in {"done", "gc"} : pc' = [pc EXCEPT ![r] = p]
    BY <1>3 DEF Start
  <2>. QED
    BY <2>1 DEF Pending, Held, Markers
<1>4. ASSUME NEW r \in Runs, GcStale(r)
      PROVE  ~Pending(v)' => ~Pending(v) /\ Held(v)' \subseteq Held(v)
  <2>1. Markers' \subseteq Markers /\ victims' = victims /\ pc[r] = "gc"
    BY <1>4, UnlinkEffect DEF GcStale
  <2>2. pc' = [pc EXCEPT ![r] = "digest"]
    BY <1>4 DEF GcStale
  <2>. QED
    BY <2>1, <2>2 DEF Pending, Held
<1>5. ASSUME NEW r \in Runs, Digested(r)
      PROVE  ~Pending(v)' => ~Pending(v) /\ Held(v)' \subseteq Held(v)
  <2>1. UNCHANGED <<mtime, victims>> /\ pc[r] \in {"digest"} /\ pc' = [pc EXCEPT ![r] = "probe"]
    BY <1>5 DEF Digested
  <2>. QED
    BY <2>1 DEF Pending, Held, Markers
<1>6. ASSUME NEW r \in Runs, NEW u \in Units, Digest(r, u)
      PROVE  ~Pending(v)' => ~Pending(v) /\ Held(v)' \subseteq Held(v)
  <2>1. UNCHANGED <<mtime, pc, victims>>
    BY <1>6 DEF Digest
  <2>. QED
    BY <2>1 DEF Pending, Held, Markers
<1>7. ASSUME NEW r \in Runs, NEW u \in Units, Probe(r, u)
      PROVE  ~Pending(v)' => ~Pending(v) /\ Held(v)' \subseteq Held(v)
  <2>1. UNCHANGED <<mtime, pc, victims>>
    BY <1>7 DEF Probe
  <2>. QED
    BY <2>1 DEF Pending, Held, Markers
<1>8. ASSUME NEW r \in Runs, NEW u \in Units, Hit(r, u)
      PROVE  ~Pending(v)' => ~Pending(v) /\ Held(v)' \subseteq Held(v)
  <2>1. CASE Release[r] = v
    BY <1>8, <2>1 DEF Hit, Pending
  <2>2. CASE Release[r] # v
    <3>1. Markers' \subseteq Markers \cup {Key(r, u)} /\ UNCHANGED <<pc, victims>>
      BY <1>8, TouchEffect DEF Hit, Markers
    <3>. QED
      BY <2>2, <3>1, KeyParts DEF Pending, Held
  <2>. QED
    BY <2>1, <2>2
<1>9. ASSUME NEW r \in Runs, Probed(r)
      PROVE  ~Pending(v)' => ~Pending(v) /\ Held(v)' \subseteq Held(v)
  <2>1. UNCHANGED <<mtime, victims>> /\ pc[r] \in {"probe"} /\ pc' = [pc EXCEPT ![r] = "engines"]
    BY <1>9 DEF Probed
  <2>. QED
    BY <2>1 DEF Pending, Held, Markers
<1>10. ASSUME NEW r \in Runs, NEW u \in Units, Analyze(r, u)
      PROVE  ~Pending(v)' => ~Pending(v) /\ Held(v)' \subseteq Held(v)
  <2>1. UNCHANGED <<mtime, pc, victims>>
    BY <1>10 DEF Analyze
  <2>. QED
    BY <2>1 DEF Pending, Held, Markers
<1>11. ASSUME NEW r \in Runs, NEW e \in Engines, Break(r, e)
      PROVE  ~Pending(v)' => ~Pending(v) /\ Held(v)' \subseteq Held(v)
  <2>1. UNCHANGED <<mtime, pc, victims>>
    BY <1>11 DEF Break
  <2>. QED
    BY <2>1 DEF Pending, Held, Markers
<1>12. ASSUME NEW r \in Runs, Analyzed(r)
      PROVE  ~Pending(v)' => ~Pending(v) /\ Held(v)' \subseteq Held(v)
  <2>1. UNCHANGED <<mtime, victims>> /\ pc[r] \in {"engines"} /\ pc' = [pc EXCEPT ![r] = "mark"]
    BY <1>12 DEF Analyzed
  <2>. QED
    BY <2>1 DEF Pending, Held, Markers
<1>13. ASSUME NEW r \in Runs, NEW u \in Units, Mark(r, u)
      PROVE  ~Pending(v)' => ~Pending(v) /\ Held(v)' \subseteq Held(v)
  <2>1. CASE Release[r] = v
    BY <1>13, <2>1 DEF Mark, Pending
  <2>2. CASE Release[r] # v
    <3>1. Markers' \subseteq Markers \cup {Key(r, u)} /\ UNCHANGED <<pc, victims>>
      BY <1>13, TouchEffect DEF Mark, Markers
    <3>. QED
      BY <2>2, <3>1, KeyParts DEF Pending, Held
  <2>. QED
    BY <2>1, <2>2
<1>14. ASSUME NEW r \in Runs, ListVictims(r), Release[r] # v
      PROVE  ~Pending(v)' => ~Pending(v) /\ Held(v)' \subseteq Held(v)
  <2>1. Markers' = Markers /\ pc' = [pc EXCEPT ![r] = "trim"] /\ pc[r] = "mark"
    BY <1>14 DEF ListVictims, Markers
  <2>2. \A s \in Runs : s # r => victims'[s] = victims[s]
    BY <1>14 DEF ListVictims, OwnVictims
  <2>3. Release[r] # v
    BY <1>14
  <2>. QED
    BY <2>1, <2>2, <2>3 DEF Pending, Held
<1>15. ASSUME NEW r \in Runs, Trim(r)
      PROVE  ~Pending(v)' => ~Pending(v) /\ Held(v)' \subseteq Held(v)
  <2>1. PICK k : /\ Markers' = Markers \ {k}
                 /\ \A s \in Runs : victims[s] \subseteq victims'[s] \cup {k}
    BY <1>15, TrimEffect
  <2>2. pc' = pc
    BY <1>15 DEF Trim
  <2>. QED
    BY <2>1, <2>2 DEF Pending, Held
<1>16. ASSUME NEW r \in Runs, Finish(r)
      PROVE  ~Pending(v)' => ~Pending(v) /\ Held(v)' \subseteq Held(v)
  <2>1. /\ UNCHANGED <<mtime, victims>> /\ pc[r] = "trim" /\ victims[r] = {}
        /\ pc' = [pc EXCEPT ![r] = "done"]
    BY <1>16 DEF Finish
  <2>. QED
    BY <2>1 DEF Pending, Held, Markers
<1>17. ASSUME NEW r \in Runs, Kill(r)
      PROVE  ~Pending(v)' => ~Pending(v) /\ Held(v)' \subseteq Held(v)
  <2>1. UNCHANGED <<mtime, victims>> /\ pc' = [pc EXCEPT ![r] = "killed"]
    BY <1>17 DEF Kill
  <2>2. CASE Release[r] = v
    BY <2>1, <2>2 DEF Pending
  <2>3. CASE Release[r] # v
    BY <2>1, <2>3 DEF Pending, Held, Markers, OwnVictims
  <2>. QED
    BY <2>2, <2>3
<1>18. CASE UNCHANGED vars
  <2>1. UNCHANGED <<mtime, pc, victims>>
      BY <1>18 DEF vars
    <2>. QED
      BY <2>1 DEF Pending, Held, Markers
<1>. QED
  BY <1>1, <1>2, <1>3, <1>4, <1>5, <1>6, <1>7, <1>8, <1>9, <1>10, <1>11,
     <1>12, <1>13, <1>14, <1>15, <1>16, <1>17, <1>18 DEF Next, Step

\* The cap is kept for every release.
LEMMA CappedStep ==
  ASSUME TypeOK, Times, OwnVictims, Capped, [Next]_vars
  PROVE  Capped'
<1>. SUFFICES ASSUME NEW v \in {Release[r] : r \in Runs}
              PROVE  ~Pending(v)' => Cardinality(Held(v)') <= SoftCap
  BY DEF Capped
<1>1. CASE \E r \in Runs : Release[r] = v /\ ListVictims(r)
  BY <1>1, CappedByListing DEF TypeOK
<1>2. CASE ~Pending(v)' => ~Pending(v) /\ Held(v)' \subseteq Held(v)
  BY <1>2, CappedByLess
<1>. QED
  BY <1>1, <1>2, HeldStep DEF TypeOK

\* Markers are finitely many, in the order they were touched, and capped.
THEOREM CapInvariant == Spec => []CapInv
<1>1. ASSUME Init PROVE CapInv
  <2>1. Markers = {} /\ mtime \in [Markers -> Nat]
    BY <1>1 DEF Init, Markers
  <2>2. Times
    BY <2>1, FS_EmptySet DEF Times
  <2>3. OwnVictims
    BY <1>1 DEF Init, OwnVictims
  <2>4. \A v \in {Release[r] : r \in Runs} : Held(v) = {}
    BY <2>1 DEF Held
  <2>5. Capped
    BY <2>4, FS_EmptySet, BoundsAssumption DEF Capped
  <2>. QED
    BY <2>2, <2>3, <2>5 DEF CapInv
<1>2. TypeOK /\ CapInv /\ [Next]_vars => CapInv'
  BY TimesStep, OwnVictimsStep, CappedStep DEF CapInv
<1>. QED
  BY <1>1, <1>2, TypeInvariant, PTL DEF Spec

\* At rest no release has more markers than the cap, whoever listed and
\* unlinked at the same time (cache.py:245-272).
THEOREM CapSafe == Spec => []CapAtRest
<1>1. CapInv => CapAtRest
  <2>. SUFFICES ASSUME CapInv, \A r \in Runs : pc[r] \in {"start", "done"},
                       NEW v \in {Release[r] : r \in Runs}
                PROVE  Cardinality({k \in Markers : k[1] = v}) <= SoftCap
    BY DEF CapAtRest
  <2>1. ~Pending(v) /\ Held(v) = {k \in Markers : k[1] = v}
    BY DEF Pending, Held, Linting
  <2>. QED
    BY <2>1 DEF CapInv, Capped
<1>. QED
  BY <1>1, CapInvariant, PTL
=============================================================================
