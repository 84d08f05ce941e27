----------------------------- MODULE LintCache ------------------------------
(***************************************************************************)
(* The clean-marker cache of a lint run: py/tackbox/cache.py and its use   *)
(* in _lint_results (py/tackbox/cli.py).  A run digests every unit it was  *)
(* asked to lint, skips the units that have a marker for that digest, runs *)
(* the engines on the rest, writes markers for the clean ones, and trims   *)
(* the marker directory.  Runs of one or of several tackbox releases share *)
(* the cache directory without any lock, while somebody edits the tree.    *)
(*                                                                         *)
(* Abstractions.  A digest is the content it digests (sha256 is taken to   *)
(* be injective): the unit's own files and those of the in-module packages *)
(* that `go list -deps` names.  The findings may depend on more: erclint   *)
(* analyzes test files too, and a package that only they import is not     *)
(* among those dependencies.  The reporter policy, tool versions and paths *)
(* that the digest also folds in are constant here, so they are left out;  *)
(* the engines hash is the release.  An mtime is a rank.  A package that   *)
(* go list cannot name (digest None) and an engine with cacheable=False    *)
(* are both NeverCached.                                                   *)
(***************************************************************************)
EXTENDS Naturals, FiniteSets, FiniteSetsExt

CONSTANTS Runs, Units, Files, Contents, Engines,
          Release,        \* Release[r]: the engines hash run r computes
          Engine,         \* Engine[u]: the engine that lints unit u
          Located,        \* engines whose findings name their unit (JSON)
          NeverCached,    \* units no marker may stand for
          Own,            \* Own[u]: the files of u
          Covered,        \* Covered[u]: the files u's digest covers
          Reads,          \* Reads[u]: the files u's findings depend on
          Finds(_, _, _), \* files of u a release finds fault with, by content
          SoftCap,        \* SOFT_CAP
          Edits,          \* bound: how often the tree is edited
          Quiet           \* edits never fall between a run's start and the
                          \* end of its engines

ASSUME UnitsAssumption ==
  /\ Engine \in [Units -> Engines] /\ Located \subseteq Engines
  /\ NeverCached \subseteq Units
  /\ Own \in [Units -> SUBSET Files]
  /\ Covered \in [Units -> SUBSET Files] /\ Reads \in [Units -> SUBSET Files]
  /\ \A u \in Units : Own[u] \subseteq Covered[u] /\ Covered[u] \subseteq Reads[u]
ASSUME FindsAssumption ==
  \A r \in Runs, u \in Units : \A d \in [Reads[u] -> Contents] :
     Finds(Release[r], u, d) \subseteq Own[u]
ASSUME BoundsAssumption == SoftCap \in Nat /\ Edits \in Nat /\ Quiet \in BOOLEAN

VARIABLES tree,      \* the working tree
          excluded,  \* files .gitattributes takes out of linting
          edits,     \* edits so far
          mtime,     \* mtime[k] of every marker k that exists
          pc,        \* where run r is in _lint_results
          snap,      \* the exclusions in r's snapshot
          base,      \* history: the tree when r started
          phase,     \* how far r is with unit u
          digest,    \* digest[r][u]: the content r digested
          found,     \* the findings of r's engines: <<unit, file>>
          broke,     \* engines of r that crashed or printed garbage
          victims,   \* markers r's gc_soft_cap is about to unlink
          report     \* r's findings after the exclusion filter

world == <<tree, excluded, edits>>
run == <<snap, base>>
outcome == <<found, broke, report>>
vars == <<world, mtime, pc, run, phase, digest, outcome, victims>>

-----------------------------------------------------------------------------
\* What the findings of a unit depend on in a tree, and what its digest covers.
At(t, u) == [f \in Reads[u] |-> t[f]]
Part(t, u) == [f \in Covered[u] |-> t[f]]
NoDigest == <<>>

\* Mutant: the unit's own files alone.
OwnFiles(u) == [f \in Own[u] |-> tree[f]]

\* What a unit's digest is of: its own files, tests included, and those of its
\* in-module dependencies, which are asked for without -test (cache.py:313).
UnitDigest(u) == Part(tree, u)

Key(r, u) == <<Release[r], u, digest[r][u]>>
Markers == DOMAIN mtime
Later == 1 + Max({0} \cup {mtime[k] : k \in Markers})

\* p.touch(), creating the marker when it is not there.
Touch(k) == mtime' = [m \in Markers \cup {k} |-> IF m = k THEN Later ELSE mtime[m]]
Unlink(ks) == mtime' = [m \in Markers \ ks |-> mtime[m]]

Planned(r) == {u \in Units : phase[r][u] # "out"}
Ran(r) == {u \in Units : phase[r][u] \in {"read", "marked"}}
Set(r, u, ph) == phase' = [phase EXCEPT ![r][u] = ph]

\* Edits allowed by the Quiet assumption come only when no run is between its
\* snapshot and the last read of its engines.
Undisturbed == \A r \in Runs : pc[r] \notin {"gc", "digest", "probe", "engines"}

\* Mutant: an engine that broke found nothing.
NothingFound(r) ==
  {u \in Ran(r) : \A w \in Ran(r) :
                     /\ Engine[w] = Engine[u]
                     /\ Engine[u] \in Located => w = u
                     => \A f \in Files : <<w, f>> \notin found[r]}

\* _clean_args: an engine whose findings name their unit clears the other
\* units; the rest clear all of their units or none.
CleanUnits(r) ==
  {u \in Ran(r) : /\ Engine[u] \notin broke[r]
                  /\ \A w \in Ran(r) :
                       /\ Engine[w] = Engine[u]
                       /\ Engine[u] \in Located => w = u
                       => \A f \in Files : <<w, f>> \notin found[r]}

-----------------------------------------------------------------------------
Init ==
  /\ tree \in [Files -> Contents]
  /\ excluded \in SUBSET Files
  /\ edits = 0
  /\ mtime = [k \in {} |-> 0]
  /\ pc = [r \in Runs |-> "start"]
  /\ snap = [r \in Runs |-> {}]
  /\ base = [r \in Runs |-> tree]
  /\ phase = [r \in Runs |-> [u \in Units |-> "out"]]
  /\ digest = [r \in Runs |-> [u \in Units |-> NoDigest]]
  /\ found = [r \in Runs |-> {}]
  /\ broke = [r \in Runs |-> {}]
  /\ report = [r \in Runs |-> {}]
  /\ victims = [r \in Runs |-> {}]

\* Somebody saves a file.
Edit(f) ==
  /\ edits < Edits
  /\ Quiet => Undisturbed
  /\ \E c \in Contents \ {tree[f]} : tree' = [tree EXCEPT ![f] = c]
  /\ edits' = edits + 1
  /\ UNCHANGED <<excluded, mtime, pc, run, phase, digest, outcome, victims>>

\* Somebody changes an attribute: a file leaves linting or comes back.
Attribute(f) ==
  /\ edits < Edits
  /\ excluded' = IF f \in excluded THEN excluded \ {f} ELSE excluded \cup {f}
  /\ edits' = edits + 1
  /\ UNCHANGED <<tree, mtime, pc, run, phase, digest, outcome, victims>>

\* collect_snapshot, narrow_files, dispatch: a unit with no file left to lint
\* is not in the plan; an empty plan is an early return.
Start(r) ==
  /\ pc[r] = "start"
  /\ snap' = [snap EXCEPT ![r] = excluded]
  /\ base' = [base EXCEPT ![r] = tree]
  /\ LET plan == {u \in Units : ~(Own[u] \subseteq excluded)}
     IN  /\ phase' = [phase EXCEPT ![r] = [u \in Units |->
                        IF u \in plan THEN "planned" ELSE "out"]]
         /\ pc' = [pc EXCEPT ![r] = IF plan = {} THEN "done" ELSE "gc"]
  /\ UNCHANGED <<world, mtime, digest, outcome, victims>>

\* gc_stale_engines: the directories of other releases go; rmtree ignores what
\* it cannot remove.
GcStale(r) ==
  /\ pc[r] = "gc"
  /\ \E ks \in SUBSET {k \in Markers : k[1] # Release[r]} : Unlink(ks)
  /\ pc' = [pc EXCEPT ![r] = "digest"]
  /\ UNCHANGED <<world, run, phase, digest, outcome, victims>>

\* _digests_for_engine, one unit: the content is read here, and read again by
\* the engine later.  A NeverCached unit goes straight to its engine.
Digest(r, u) ==
  /\ pc[r] = "digest"
  /\ phase[r][u] = "planned"
  /\ \/ /\ u \in NeverCached
        /\ Set(r, u, "todo")
        /\ UNCHANGED digest
     \/ /\ u \notin NeverCached
        /\ digest' = [digest EXCEPT ![r][u] = UnitDigest(u)]
        /\ Set(r, u, "digested")
  /\ UNCHANGED <<world, mtime, pc, run, outcome, victims>>

Digested(r) ==
  /\ pc[r] = "digest"
  /\ \A u \in Units : phase[r][u] # "planned"
  /\ pc' = [pc EXCEPT ![r] = "probe"]
  /\ UNCHANGED <<world, mtime, run, phase, digest, outcome, victims>>

\* is_cached: is_file() and then touch(), which puts the marker back when it
\* was unlinked in between; an OSError of either is a miss.
Probe(r, u) ==
  /\ pc[r] = "probe"
  /\ phase[r][u] = "digested"
  /\ \/ Key(r, u) \in Markers /\ Set(r, u, "seen")
     \/ Set(r, u, "todo")
  /\ UNCHANGED <<world, mtime, pc, run, digest, outcome, victims>>

Hit(r, u) ==
  /\ pc[r] = "probe"
  /\ phase[r][u] = "seen"
  /\ \/ Touch(Key(r, u)) /\ Set(r, u, "hit")
     \/ Set(r, u, "todo") /\ UNCHANGED mtime
  /\ UNCHANGED <<world, pc, run, digest, outcome, victims>>

Probed(r) ==
  /\ pc[r] = "probe"
  /\ \A u \in Units : phase[r][u] \notin {"digested", "seen"}
  /\ pc' = [pc EXCEPT ![r] = "engines"]
  /\ UNCHANGED <<world, mtime, run, phase, digest, outcome, victims>>

\* An engine reads the files of one of its units, in any order and in parallel
\* with the other engines (run_engines).
Analyze(r, u) ==
  /\ pc[r] = "engines"
  /\ phase[r][u] = "todo"
  /\ found' = [found EXCEPT ![r] =
                 @ \cup {<<u, f>> : f \in Finds(Release[r], u, At(tree, u))}]
  /\ Set(r, u, "read")
  /\ UNCHANGED <<world, mtime, pc, run, digest, broke, report, victims>>

\* An engine exits nonzero or prints what its parser refuses: whatever it
\* found is lost.
Break(r, e) ==
  /\ pc[r] = "engines"
  /\ e \notin broke[r]
  /\ \E u \in Units : Engine[u] = e /\ phase[r][u] \in {"todo", "read"}
  /\ broke' = [broke EXCEPT ![r] = @ \cup {e}]
  /\ found' = [found EXCEPT ![r] = {x \in @ : Engine[x[1]] # e}]
  /\ phase' = [phase EXCEPT ![r] = [u \in Units |->
                 IF Engine[u] = e /\ @[u] = "todo" THEN "read" ELSE @[u]]]
  /\ UNCHANGED <<world, mtime, pc, run, digest, report, victims>>

Analyzed(r) ==
  /\ pc[r] = "engines"
  /\ \A u \in Units : phase[r][u] # "todo"
  /\ pc' = [pc EXCEPT ![r] = "mark"]
  /\ UNCHANGED <<world, mtime, run, phase, digest, outcome, victims>>

\* _mark_clean_units on the raw findings; mark_clean may fail silently.
Mark(r, u) ==
  /\ pc[r] = "mark"
  /\ phase[r][u] = "read"
  /\ u \in CleanUnits(r)
  /\ u \notin NeverCached
  /\ Touch(Key(r, u)) \/ UNCHANGED mtime
  /\ Set(r, u, "marked")
  /\ UNCHANGED <<world, pc, run, digest, outcome, victims>>

\* Mutant: off by one at the cap.
KeepOneMore(r) ==
  /\ pc[r] = "mark"
  /\ \A u \in CleanUnits(r) \ NeverCached : phase[r][u] = "marked"
  /\ LET own == {k \in Markers : k[1] = Release[r]}
         Rank(k) == Cardinality({m \in own : mtime[m] < mtime[k]})
     IN victims' = [victims EXCEPT ![r] =
                      {k \in own : Rank(k) + SoftCap + 1 < Cardinality(own)}]
  /\ pc' = [pc EXCEPT ![r] = "trim"]
  /\ UNCHANGED <<world, mtime, run, phase, digest, outcome>>

\* gc_soft_cap lists the markers of its release and picks the oldest ones.
ListVictims(r) ==
  /\ pc[r] = "mark"
  /\ \A u \in CleanUnits(r) \ NeverCached : phase[r][u] = "marked"
  /\ LET own == {k \in Markers : k[1] = Release[r]}
         Rank(k) == Cardinality({m \in own : mtime[m] < mtime[k]})
     IN victims' = [victims EXCEPT ![r] =
                      {k \in own : Rank(k) + SoftCap < Cardinality(own)}]
  /\ pc' = [pc EXCEPT ![r] = "trim"]
  /\ UNCHANGED <<world, mtime, run, phase, digest, outcome>>

\* One unlink.
Trim(r) ==
  /\ pc[r] = "trim"
  /\ \E k \in victims[r] : /\ Unlink({k})
                           /\ victims' = [victims EXCEPT ![r] = @ \ {k}]
  /\ UNCHANGED <<world, pc, run, phase, digest, outcome>>

\* The exclusion filter comes last, after the markers are written.
Finish(r) ==
  /\ pc[r] = "trim"
  /\ victims[r] = {}
  /\ report' = [report EXCEPT ![r] = {x \in found[r] : x[2] \notin snap[r]}]
  /\ pc' = [pc EXCEPT ![r] = "done"]
  /\ UNCHANGED <<world, mtime, run, phase, digest, found, broke, victims>>

\* The run is killed, anywhere.
Kill(r) ==
  /\ pc[r] \notin {"start", "done", "killed"}
  /\ pc' = [pc EXCEPT ![r] = "killed"]
  /\ UNCHANGED <<world, mtime, run, phase, digest, outcome, victims>>

Step(r) == \/ Start(r) \/ GcStale(r) \/ Digested(r) \/ Probed(r) \/ Analyzed(r)
           \/ \E u \in Units : Digest(r, u) \/ Probe(r, u) \/ Hit(r, u)
                               \/ Analyze(r, u) \/ Mark(r, u)
           \/ \E e \in Engines : Break(r, e)
           \/ ListVictims(r) \/ Trim(r) \/ Finish(r)

Next == \/ \E f \in Files : Edit(f) \/ Attribute(f)
        \/ \E r \in Runs : Step(r) \/ Kill(r)

Spec == Init /\ [][Next]_vars

-----------------------------------------------------------------------------
(* Correctness.                                                            *)

\* Some content of what the findings depend on, alike in what was digested, has
\* nothing to find.  Where the digest covers all of it there is only one.
Cleared(v, u, d) ==
  \E c \in [Reads[u] -> Contents] :
     (\A f \in DOMAIN d : c[f] = d[f]) /\ Finds(v, u, c) = {}

\* A marker stands only for a content that its release has found nothing in,
\* whoever else was running, crashing or collecting garbage ("Marker written only
\* on success. Failures are not cached.", cache.py:8; "never a false clean",
\* cli.py:711-713).
MarkersSound == \A k \in Markers : Cleared(k[1], k[2], k[3])

\* The cache is transparent but for what digests leave out: when no engine broke,
\* a finished run reports nothing that an uncached run would not have reported
\* of the tree and the exclusions it started with, whatever earlier and
\* concurrent runs left in the cache (cli.py:349-365, the order raw result,
\* attribution, filter); and when it misses a finding, its unit had a marker and
\* a file outside the digest makes the difference.
CacheTransparent ==
  \A r \in Runs :
     pc[r] = "done" /\ broke[r] = {} =>
        LET due == {x \in Planned(r) \X Files :
                      /\ x[2] \in Finds(Release[r], x[1], At(base[r], x[1]))
                      /\ x[2] \notin snap[r]}
        IN /\ report[r] \subseteq due
           /\ \A x \in due \ report[r] :
                /\ phase[r][x[1]] = "hit"
                /\ Cleared(Release[r], x[1], Part(base[r], x[1]))

\* "A signature change in package B invalidates every in-module package that
\* depends on B" (cache.py:20-21), so a unit is skipped only when there is
\* nothing to find in it.  False of a package whose tests alone import B.
NoFalseClean ==
  \A r \in Runs, u \in Units :
     phase[r][u] = "hit" => Finds(Release[r], u, At(base[r], u)) = {}

\* The soft cap holds at rest: when no run is going and none was killed, no release
\* has more than SoftCap markers, although the runs listed and unlinked them
\* concurrently (cache.py:245-272).
CapAtRest ==
  (\A r \in Runs : pc[r] \in {"start", "done"}) =>
     \A v \in {Release[r] : r \in Runs} :
        Cardinality({k \in Markers : k[1] = v}) <= SoftCap
=============================================================================
