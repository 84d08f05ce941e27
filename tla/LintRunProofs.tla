--------------------------- MODULE LintRunProofs ----------------------------
(***************************************************************************)
(* For any tree, engines and command line: exit 0 vouches for every file,  *)
(* whatever is edited beside the run; and in a tree that stands still the  *)
(* exit code is the verdict, the report tells it, and on a machine that    *)
(* doctor passes there is one.                                             *)
(***************************************************************************)
EXTENDS LintRun, TLAPS

\* What the actions need to know of the variables.
Typed ==
  /\ tree \in Trees /\ base \in Trees /\ opts.machine.java \in Nat
  /\ DOMAIN todo = Engines /\ DOMAIN results = Engines
  /\ pass \in {1, 2}

\* The tree, where nobody was.
Standing ==
  /\ tree.head = base.head
  /\ \A p \in Paths \ touched : tree.disk[p] = base.disk[p] /\ tree.attr[p] = base.attr[p]
  /\ \A p \in Paths \ restaged : tree.index[p] = base.index[p]
  /\ \A p \in restaged \ slipped :
       p \notin Ignored /\ {tree.index[p], base.index[p]} \subseteq {"file", Nothing}

\* Engine e faults p, which somebody asked about and nobody touched.
Faults(e, p) ==
  /\ p \in Lints[e] /\ base.disk[p] \in {"bug", "broken"}
  /\ e \in PackageMode => p \notin Constrained /\ NearestModules(Home[p]) # {}
Culprit(e, p) ==
  p \in Asked \ (touched \cup slipped \cup StagedBack) /\ Faults(e, p)

Unit(e, p) == IF e \in PackageMode THEN Home[p] ELSE p

\* What e printed and returned makes the exit code a failure.
BlamesIn(e, r) ==
  \/ ResultCode(r) # 0
  \/ e \in Json /\ Has(Filtered(e, ResultOut(r)), {"bug", "error"})
Blames(e) == BlamesIn(e, results[e])

Before == {"begin", "diff", "untracked", "stage", "others", "prune"}

\* Where the first pass has p.
Listing(p) ==
  /\ pc \notin {"begin", "diff", "done"} =>
       \/ p \in dirty
       \/ pc = "untracked" /\ (p \in LsFilesOthers(tree) \/ (opts.mode = "since" /\ p \in Branch))
  /\ pc \in {"others", "prune"} =>
       \/ p \in DOMAIN stage /\ stage[p] = "file"
       \/ p \in IF pc = "others" THEN LsFilesOthers(tree) ELSE others
  /\ pc \notin Before \cup {"done"} => p \in snap.included
Planning(e, p) ==
  /\ pc \in {"links", "store", "digest", "engines"} => \E x \in todo[e] : x[1] = Unit(e, p)
  /\ pc = "engines" => results[e] = <<>> \/ Blames(e)
  /\ pc = "settle" => Blames(e)

\* A file that is faulty is on its way to a failure.
Chased(e, p) ==
  /\ pass = 1 => Listing(p) /\ Planning(e, p)
  /\ pass = 2 \/ pc \in {"approve", "done"} => code # 0

Orderly ==
  /\ opts.mode = "all" => dirty = Paths /\ pc \notin {"diff", "untracked"}
  /\ snap.included \cap ExcludedFiles(snap) = {}
  /\ pass = 1 /\ pc \notin {"settle", "approve", "done"} => clean = {}
  /\ pass = 1 /\ pc \in Before \cup {"attrs", "plan", "links", "store", "digest"} => results = Silent

Followed == \A p \in Paths : \A e \in Engines : Culprit(e, p) => Chased(e, p)

-----------------------------------------------------------------------------
(* What the tree still shows of a file nobody touched.                     *)

\* The parts of a tree.
LEMMA TreeParts ==
  ASSUME NEW t \in Trees
  PROVE  /\ t.index \in [Paths -> Modes \cup {Nothing}]
         /\ t.head \in [Paths -> Contents \cup {"link", Nothing}]
         /\ t.disk \in [Paths -> Contents \cup {"link", "dangling", Nothing}]
         /\ t.attr \in [Paths -> [Attributes -> Values]]
BY DEF Trees

\* What was asked about.
LEMMA AskedParts ==
  ASSUME Typed, NEW p \in Asked
  PROVE  /\ p \in Paths
         /\ p = opts.scope \/ opts.scope \in Above[Home[p]]
         /\ {b \in Attributes : base.attr[p][b] \in {"set", "true"}} = {}
         /\ \/ base.index[p] = "file" /\ Exists(base, p)
            \/ p \in LsFilesOthers(base)
         /\ \/ opts.mode = "all"
            \/ p \in DiffHead(base) \cup LsFilesOthers(base)
            \/ opts.mode = "since" /\ p \in Branch
<1>1. /\ p \in FilterSourceSet(LsFilesStage(base), LsFilesOthers(base), base)
      /\ p = opts.scope \/ opts.scope \in Above[Home[p]]
      /\ p \notin DOMAIN ParseCheckAttr(base, Paths)
      /\ \/ opts.mode = "all"
         \/ p \in DiffHead(base) \cup LsFilesOthers(base)
         \/ opts.mode = "since" /\ p \in Branch
  BY DEF Asked, Listed, Excluded, NarrowByPath
<1>2. \/ base.index[p] = "file" /\ Exists(base, p) /\ p \in Paths
      \/ p \in LsFilesOthers(base)
  BY <1>1 DEF FilterSourceSet, Tracked, LsFilesStage, Restrict
<1>3. p \in Paths
  BY <1>2 DEF LsFilesOthers
<1>4. {b \in Attributes : base.attr[p][b] \in {"set", "true"}} = {}
  BY <1>1, <1>3 DEF ParseCheckAttr
<1>. QED
  BY <1>1, <1>2, <1>3, <1>4

\* A faulty file that nobody touched is still there, listed, and different.
LEMMA StillThere ==
  ASSUME Typed, Standing, NEW e \in Engines, NEW p, Culprit(e, p)
  PROVE  /\ p \in Paths /\ p \notin touched /\ p \notin slipped
         /\ tree.disk[p] = base.disk[p] /\ tree.disk[p] \in {"bug", "broken"}
         /\ Exists(tree, p) /\ ~IsSymlink(tree, p)
         /\ {b \in Attributes : tree.attr[p][b] \in {"set", "true"}} = {}
         /\ p = opts.scope \/ opts.scope \in Above[Home[p]]
         /\ tree.index[p] = "file" \/ p \in LsFilesOthers(tree)
         /\ \/ opts.mode = "all"
            \/ p \in DiffHead(tree) \cup LsFilesOthers(tree)
            \/ opts.mode = "since" /\ p \in Branch
<1>1. /\ p \in Asked /\ p \notin touched /\ p \notin slipped /\ p \notin StagedBack
      /\ base.disk[p] \in {"bug", "broken"}
  BY DEF Culprit, Faults
<1>2. /\ p \in Paths
      /\ p = opts.scope \/ opts.scope \in Above[Home[p]]
      /\ {b \in Attributes : base.attr[p][b] \in {"set", "true"}} = {}
      /\ \/ base.index[p] = "file" /\ Exists(base, p)
         \/ p \in LsFilesOthers(base)
      /\ \/ opts.mode = "all"
         \/ p \in DiffHead(base) \cup LsFilesOthers(base)
         \/ opts.mode = "since" /\ p \in Branch
  BY <1>1, AskedParts
<1>3. tree.disk[p] = base.disk[p] /\ tree.attr[p] = base.attr[p] /\ tree.head = base.head
  BY <1>1, <1>2 DEF Standing
<1>4. Exists(tree, p) /\ ~IsSymlink(tree, p) /\ tree.disk[p] # Nothing
  BY <1>1, <1>3 DEF Exists, IsSymlink, Nothing
<1>5. \/ tree.index[p] = base.index[p]
      \/ /\ p \in restaged /\ p \notin Ignored
         /\ tree.index[p] \in {"file", Nothing} /\ base.index[p] \in {"file", Nothing}
  BY <1>1, <1>2 DEF Standing
<1>6. tree.index[p] = "file" \/ p \in LsFilesOthers(tree)
  BY <1>2, <1>3, <1>4, <1>5 DEF LsFilesOthers, Nothing
<1>7. ASSUME opts.mode # "all", ~(opts.mode = "since" /\ p \in Branch)
      PROVE  p \in DiffHead(tree) \cup LsFilesOthers(tree)
  <2>1. p \in DiffHead(base) \cup LsFilesOthers(base)
    BY <1>2, <1>7
  <2>2. p \in restaged => ~(base.index[p] = Nothing /\ base.disk[p] = base.head[p])
    BY <1>1, <1>7 DEF StagedBack
  <2>. QED
    BY <1>1, <1>2, <1>3, <1>4, <1>5, <1>6, <2>1, <2>2 DEF DiffHead, LsFilesOthers, Nothing
<1>. QED
  BY <1>1, <1>2, <1>3, <1>4, <1>6, <1>7

-----------------------------------------------------------------------------
(* The tree changes.                                                       *)

\* At first nobody was anywhere.
LEMMA TypedInit == Init => Typed /\ Standing
<1> SUFFICES ASSUME Init PROVE Typed /\ Standing
  OBVIOUS
<1>1. tree \in Trees /\ base = tree /\ opts.machine.java \in Nat
  BY WorldsAssumption DEF Init
<1>2. Typed
  BY <1>1 DEF Init, Typed, None, Silent, NoSnapshot
<1>3. Standing
  BY <1>1 DEF Init, Standing
<1>. QED
  BY <1>2, <1>3

\* A change of the tree is of one file, and is noted.
LEMMA ChangeStep ==
  ASSUME Typed, Standing, NEW q \in Paths, Save(q) \/ Remove(q) \/ Attribute(q) \/ Restage(q)
  PROVE  /\ tree' \in Trees /\ Standing'
         /\ touched \subseteq touched' /\ restaged \subseteq restaged' /\ slipped \subseteq slipped'
         /\ UNCHANGED <<base, opts, pc, pass, listing, engine, answer>>
         /\ \A p \in Paths \ touched' : tree'.disk[p] = tree.disk[p]
         /\ \A p \in Paths : tree'.index[p] # tree.index[p] => p = q /\ Restage(q)
<1>1. /\ tree \in Trees
      /\ tree.index \in [Paths -> Modes \cup {Nothing}]
      /\ tree.disk \in [Paths -> Contents \cup {"link", "dangling", Nothing}]
      /\ tree.attr \in [Paths -> [Attributes -> Values]]
  BY TreeParts DEF Typed
<1>2. UNCHANGED <<base, opts, pc, pass, listing, engine, answer>>
  BY DEF Save, Remove, Attribute, Restage, Changes
<1>3. CASE \E c \in Contents \cup {Nothing} : tree' = [tree EXCEPT !.disk[q] = c] /\ Touch(q)
  <2>1. PICK c \in Contents \cup {Nothing} : tree' = [tree EXCEPT !.disk[q] = c] /\ Touch(q)
    BY <1>3
  <2>2. /\ tree' \in Trees
        /\ tree'.index = tree.index /\ tree'.head = tree.head /\ tree'.attr = tree.attr
        /\ tree'.disk = [tree.disk EXCEPT ![q] = c]
    BY <1>1, <2>1 DEF Trees
  <2>3. touched' = touched \cup {q} /\ restaged' = restaged /\ slipped' = slipped
    BY <2>1 DEF Touch
  <2>4. \A p \in Paths \ touched' : tree'.disk[p] = tree.disk[p]
    BY <1>1, <2>2, <2>3
  <2>5. Standing'
    BY <1>2, <2>2, <2>3, <2>4 DEF Standing
  <2>. QED
    BY <1>2, <2>2, <2>3, <2>4, <2>5
<1>4. CASE Attribute(q)
  <2>1. PICK b \in Attributes, v \in Values : tree' = [tree EXCEPT !.attr[q][b] = v] /\ Touch(q)
    BY <1>4 DEF Attribute
  <2>2. /\ tree' \in Trees
        /\ tree'.index = tree.index /\ tree'.head = tree.head /\ tree'.disk = tree.disk
        /\ tree'.attr = [tree.attr EXCEPT ![q][b] = v]
    <3>1. [tree.attr EXCEPT ![q][b] = v] \in [Paths -> [Attributes -> Values]]
      BY <1>1
    <3>. QED
      BY <1>1, <2>1, <3>1 DEF Trees
  <2>3. touched' = touched \cup {q} /\ restaged' = restaged /\ slipped' = slipped
    BY <2>1 DEF Touch
  <2>4. \A p \in Paths \ touched' : tree'.attr[p] = tree.attr[p]
    BY <1>1, <2>2, <2>3
  <2>5. Standing'
    BY <1>2, <2>2, <2>3, <2>4 DEF Standing
  <2>. QED
    BY <1>2, <2>2, <2>3, <2>5
<1>5. CASE Restage(q)
  <2>1. PICK k \in {"file", Nothing} :
          /\ tree' = [tree EXCEPT !.index[q] = k] /\ tree.index[q] \in {"file", Nothing}
    BY <1>5 DEF Restage
  <2>2. /\ tree' \in Trees
        /\ tree'.disk = tree.disk /\ tree'.head = tree.head /\ tree'.attr = tree.attr
        /\ tree'.index = [tree.index EXCEPT ![q] = k]
    <3>1. [tree.index EXCEPT ![q] = k] \in [Paths -> Modes \cup {Nothing}]
      BY <1>1 DEF Modes
    <3>. QED
      BY <1>1, <2>1, <3>1 DEF Trees
  <2>3. /\ touched' = touched /\ restaged' = restaged \cup {q}
        /\ slipped \subseteq slipped' /\ slipped' \subseteq slipped \cup {q}
        /\ q \in slipped' \/ q \notin Ignored
    BY <1>5 DEF Restage
  <2>4. \A p \in Paths : p # q => tree'.index[p] = tree.index[p]
    BY <1>1, <2>2
  <2>5. tree'.index[q] = k
    BY <1>1, <2>2
  <2>6. ASSUME NEW p \in restaged' \ slipped'
        PROVE  p \notin Ignored /\ {tree'.index[p], base'.index[p]} \subseteq {"file", Nothing}
    <3>1. CASE p = q
      <4>1. tree.index[q] = base.index[q] \/ q \in restaged
        BY DEF Standing
      <4>2. base.index[q] \in {"file", Nothing}
        BY <2>1, <2>3, <2>6, <3>1, <4>1 DEF Standing
      <4>. QED
        BY <1>2, <2>3, <2>5, <2>6, <3>1, <4>2
    <3>2. CASE p # q
      <4>1. p \in restaged \ slipped
        BY <2>3, <2>6, <3>2
      <4>2. CASE p \in Paths
        BY <1>2, <2>4, <3>2, <4>1, <4>2 DEF Standing
      <4>3. CASE p \notin Paths
        BY <1>1, <1>2, <2>2, <3>2, <4>1, <4>3 DEF Standing
      <4>. QED
        BY <4>2, <4>3
    <3>. QED
      BY <3>1, <3>2
  <2>7. Standing'
    BY <1>2, <2>2, <2>3, <2>4, <2>6 DEF Standing
  <2>. QED
    BY <1>2, <1>5, <2>2, <2>3, <2>4, <2>7
<1>. QED
  BY <1>3, <1>4, <1>5 DEF Save, Remove

-----------------------------------------------------------------------------
(* The run does not lose it.                                               *)

\* The engine reads p with its unit.
LEMMA UnitReads ==
  ASSUME Typed, Standing, NEW e \in Engines, NEW p, Culprit(e, p)
  PROVE  /\ p \in Reads(tree, e, Unit(e, p))
         /\ e \in PackageMode => /\ p \in GoFiles /\ NearestModules(Unit(e, p)) # {}
                                 /\ PackageFiles(tree, Unit(e, p)) # {}
<1>1. p \in Paths /\ Exists(tree, p)
  BY StillThere
<1>2. /\ p \in Lints[e]
      /\ e \in PackageMode => p \notin Constrained /\ NearestModules(Home[p]) # {}
  BY DEF Culprit, Faults
<1>3. e \in PackageMode => p \in GoFiles
  BY <1>2, EnginesAssumption
<1>. QED
  BY <1>1, <1>2, <1>3 DEF Reads, Unit, PackageFiles

\* It is in the plan.
LEMMA PlannedUnit ==
  ASSUME Typed, Standing, Orderly, NEW e \in Engines, NEW p, Culprit(e, p),
         p \in dirty, p \in snap.included
  PROVE  Unit(e, p) \in Planned[e]
<1>1. p \in Candidates \ ExcludedFiles(snap)
  <2>1. p = opts.scope \/ opts.scope \in Above[Home[p]]
    BY StillThere
  <2>2. p \notin ExcludedFiles(snap)
    BY DEF Orderly
  <2>. QED
    BY <2>1, <2>2 DEF Candidates, NarrowFiles, NarrowByPath, CandidateFiles
<1>2. p \in Lints[e]
  BY DEF Culprit, Faults
<1>3. /\ e \in PackageMode => /\ p \in GoFiles /\ NearestModules(Unit(e, p)) # {}
                              /\ PackageFiles(tree, Unit(e, p)) # {}
  BY UnitReads
<1>4. CASE e \in PackageMode
  <2> DEFINE plan == Dispatch(Candidates \ ExcludedFiles(snap))
  <2>1. Unit(e, p) \in plan[e]
    BY <1>1, <1>2, <1>3, <1>4 DEF Dispatch, GoPackages, Unit
  <2>2. Planned[e] = BuildSelected(tree, plan[e] \ OrphanPackages(plan[e]))
    BY <1>4 DEF Planned, DropGoOrphans
  <2> HIDE DEF plan
  <2>. QED
    BY <1>3, <1>4, <2>1, <2>2 DEF BuildSelected, OrphanPackages
<1>5. CASE e \notin PackageMode
  BY <1>1, <1>2, <1>5 DEF Planned, DropGoOrphans, Dispatch, Unit
<1>. QED
  BY <1>4, <1>5

\* An engine that is given the unit says so.
LEMMA Diagnosed ==
  ASSUME Typed, Standing, NEW e \in Engines, NEW p, Culprit(e, p)
  PROVE  \E x \in Diagnose(tree, e, links, Unit(e, p)) :
            \/ x[2] = "error" /\ e \in Json
            \/ x[2] = "bug" /\ (e \in PackageMode => x[1] = p)
<1>1. p \in Reads(tree, e, Unit(e, p)) /\ tree.disk[p] \in {"bug", "broken"}
  BY StillThere, UnitReads
<1>2. CASE \E q \in Reads(tree, e, Unit(e, p)) : tree.disk[q] = "broken"
  <2>1. Diagnose(tree, e, links, Unit(e, p)) = {<<Unit(e, p), IF e \in Json THEN "error" ELSE "bug">>}
    BY <1>2 DEF Diagnose
  <2>2. e \in PackageMode => e \in Json
    BY EnginesAssumption
  <2>. QED
    BY <2>1, <2>2
<1>3. CASE ~\E q \in Reads(tree, e, Unit(e, p)) : tree.disk[q] = "broken"
  <2>1. tree.disk[p] = "bug"
    BY <1>1, <1>3
  <2>2. <<p, "bug">> \in Diagnose(tree, e, links, Unit(e, p))
    BY <1>1, <1>3, <2>1 DEF Diagnose
  <2>. QED
    BY <2>2
<1>. QED
  BY <1>2, <1>3

\* So its result makes the exit code a failure.
LEMMA OutcomeBlames ==
  ASSUME Typed, Standing, Orderly, NEW e \in Engines, NEW p, Culprit(e, p),
         p \in snap.included, NEW x \in todo[e], x[1] = Unit(e, p), NEW r \in Outcomes(e)
  PROVE  BlamesIn(e, r)
<1> DEFINE units == {b[1] : b \in todo[e]}
           scopes == ScopesOf(e, units)
<1>1. PICK m \in scopes : Unit(e, p) \in UnitsIn(e, units, m)
  <2>1. Unit(e, p) \in units
    OBVIOUS
  <2>2. CASE e \in PackageMode
    <3>1. NearestModules(Unit(e, p)) # {}
      BY <2>2, UnitReads
    <3>2. PICK n : n \in NearestModules(Unit(e, p))
      BY <3>1
    <3>3. n \in GoMods /\ Unit(e, p) \in InModule(units, n)
      BY <2>1, <3>2 DEF NearestModules, InModule
    <3>. QED
      BY <2>2, <3>3 DEF ScopesOf, UnitsIn
  <2>3. CASE e \notin PackageMode
    BY <2>1, <2>3 DEF ScopesOf, UnitsIn
  <2>. QED
    BY <2>2, <2>3
<1>2. PICK y \in Diagnose(tree, e, links, Unit(e, p)) :
        \/ y[2] = "error" /\ e \in Json
        \/ y[2] = "bug" /\ (e \in PackageMode => y[1] = p)
  BY Diagnosed
<1>3. y \in Says(e, m)
  BY <1>1, <1>2 DEF Says
<1>4. DOMAIN r = scopes
  BY DEF Outcomes
<1>5. \/ \A n \in scopes : r[n].code = 2
      \/ \A n \in scopes : r[n].code = ExitCode(e, Says(e, n)) /\ r[n].out = Says(e, n)
  <2> DEFINE Broken(printed) == [n \in scopes |-> [code |-> 2, out |-> Says(e, n) \cap printed]]
             Whole == [n \in scopes |-> [code |-> ExitCode(e, Says(e, n)), out |-> Says(e, n)]]
  <2>1. \/ r = [n \in scopes |-> [code |-> 2, out |-> {}]]
        \/ \E printed : r = Broken(printed)
        \/ r = Whole
    BY Zenon DEF Outcomes
  <2>2. CASE r = [n \in scopes |-> [code |-> 2, out |-> {}]]
    <3> HIDE DEF scopes, units
    <3>. QED
      BY <2>2
  <2>3. CASE \E printed : r = Broken(printed)
    <3>1. PICK printed : r = Broken(printed)
      BY <2>3
    <3> HIDE DEF scopes, units
    <3>. QED
      BY <3>1
  <2>4. CASE r = Whole
    <3> HIDE DEF scopes, units
    <3>. QED
      BY <2>4
  <2>. QED
    BY <2>1, <2>2, <2>3, <2>4
<1> HIDE DEF scopes, units
<1>6. CASE r[m].code = 2
  BY <1>1, <1>4, <1>6 DEF BlamesIn, ResultCode
<1>7. CASE \A n \in scopes : r[n].code = ExitCode(e, Says(e, n)) /\ r[n].out = Says(e, n)
  <2>1. r[m].code = ExitCode(e, Says(e, m)) /\ y \in r[m].out
    BY <1>1, <1>3, <1>7
  <2>2. y \in ResultOut(r)
    BY <1>1, <1>4, <2>1 DEF ResultOut
  <2>3. CASE e \in Json
    <3>1. y \in Filtered(e, ResultOut(r))
      BY <1>2, <2>2 DEF Filtered, Orderly
    <3>. QED
      BY <1>2, <2>3, <3>1 DEF BlamesIn, Has
  <2>4. CASE e \notin Json
    <3>1. e \notin PackageMode /\ y[2] = "bug"
      BY <1>2, <2>4, EnginesAssumption
    <3>2. r[m].code = 1
      BY <1>3, <2>1, <2>4, <3>1 DEF ExitCode, Has
    <3>. QED
      BY <1>1, <1>4, <3>2 DEF BlamesIn, ResultCode
  <2>. QED
    BY <2>3, <2>4
<1>. QED
  BY <1>1, <1>5, <1>6, <1>7

\* And is not lost among the others.
LEMMA BlameCounts ==
  ASSUME NEW e \in Engines, BlamesIn(e, results[e])
  PROVE  AggregateExit(results) # 0
<1>1. ResultCode(results[e]) \in {0, 1, 2}
  BY DEF ResultCode
<1>. QED
  BY <1>1 DEF BlamesIn, AggregateExit

-----------------------------------------------------------------------------
(* Who is blamed does not depend on the step.                              *)

\* A step of the run leaves the question as it is.
LEMMA SameCulprit ==
  ASSUME UNCHANGED <<world, base, opts>>, NEW e \in Engines, NEW p, Culprit(e, p)'
  PROVE  Culprit(e, p)
BY DEF Culprit, Asked, Listed, Excluded, Faults, StagedBack, world

\* A change of the tree takes files out of the question.
LEMMA EarlierCulprit ==
  ASSUME UNCHANGED <<base, opts>>, touched \subseteq touched', restaged \subseteq restaged',
         slipped \subseteq slipped', NEW e \in Engines, NEW p, Culprit(e, p)'
  PROVE  Culprit(e, p)
<1>1. Asked' = Asked /\ (Faults(e, p)' <=> Faults(e, p))
  BY DEF Asked, Listed, Excluded, Faults
<1>2. StagedBack \subseteq StagedBack'
  BY DEF StagedBack
<1>. QED
  BY <1>1, <1>2 DEF Culprit

-----------------------------------------------------------------------------
(* The variables keep their order.                                         *)

\* At first nothing is listed, planned or printed.
LEMMA OrderlyInit == Init => Orderly
BY DEF Init, Orderly, NoSnapshot, ExcludedFiles, Silent

\* A step of the run leaves the tree alone.
LEMMA RunKeeps ==
  ASSUME Run
  PROVE  UNCHANGED <<world, base, opts>>
BY Zenon DEF Run, FindRepoRoot, DiffDirty, DiffUntracked, ListStage, ListOthers, Prune, CheckAttr,
   PlanEngines, ListLinkTargets, EnsurePayloads, DigestUnits, RunEngine, EnginesDone, Console,
   Approve, WriteReport, Refuse, Traceback

\* What it does to the pass and to the engines' side.
LEMMA TypedStep ==
  ASSUME Typed, Run
  PROVE  Typed'
<1>1. tree' \in Trees /\ base' \in Trees /\ opts'.machine.java \in Nat
  BY RunKeeps DEF Typed, world
<1>2. pass' \in {1, 2}
  <2>1. pass' = pass \/ pass' = 2
    BY Zenon DEF Run, FindRepoRoot, DiffDirty, DiffUntracked, ListStage, ListOthers, Prune, CheckAttr,
       PlanEngines, ListLinkTargets, EnsurePayloads, DigestUnits, RunEngine, EnginesDone, Console,
       Approve, WriteReport, Refuse, Traceback
  <2>. QED
    BY <2>1 DEF Typed
<1>3. DOMAIN todo' = Engines
  <2>1. CASE todo' = todo
    BY <2>1 DEF Typed
  <2>2. CASE todo' # todo
    <3>1. PlanEngines \/ DigestUnits \/ EnginesDone
      BY <2>2, Zenon DEF Run, FindRepoRoot, DiffDirty, DiffUntracked, ListStage, ListOthers, Prune,
         CheckAttr, ListLinkTargets, EnsurePayloads, RunEngine, Console, Approve, WriteReport, Refuse,
         Traceback, engine
    <3>2. CASE PlanEngines
      BY <2>2, <3>2 DEF PlanEngines, Refuse, Traceback, engine
    <3>3. CASE DigestUnits
      BY <2>2, <3>3 DEF DigestUnits, Refuse, Traceback, engine
    <3>4. CASE EnginesDone
      BY <3>4 DEF EnginesDone, None
    <3>. QED
      BY <3>1, <3>2, <3>3, <3>4
  <2>. QED
    BY <2>1, <2>2
<1>4. DOMAIN results' = Engines
  <2>1. CASE results' = results
    BY <2>1 DEF Typed
  <2>2. CASE results' # results
    <3>1. Approve \/ \E f \in Engines : RunEngine(f)
      BY <2>2, Zenon DEF Run, FindRepoRoot, DiffDirty, DiffUntracked, ListStage, ListOthers, Prune,
         CheckAttr, PlanEngines, ListLinkTargets, EnsurePayloads, DigestUnits, EnginesDone, Console,
         WriteReport, Refuse, Traceback, engine
    <3>2. CASE Approve
      BY <2>2, <3>2 DEF Approve, Refuse, Traceback, engine, Silent
    <3>3. CASE \E f \in Engines : RunEngine(f)
      <4>1. PICK f \in Engines : RunEngine(f)
        BY <3>3
      <4>2. PICK r : results' = [results EXCEPT ![f] = r]
        BY <2>2, <4>1 DEF RunEngine, Traceback, engine
      <4>. QED
        BY <4>2 DEF Typed
    <3>. QED
      BY <3>1, <3>2, <3>3
  <2>. QED
    BY <2>1, <2>2
<1>. QED
  BY <1>1, <1>2, <1>3, <1>4 DEF Typed

\* It keeps the order.
LEMMA OrderlyStep ==
  ASSUME Typed, Orderly, Run
  PROVE  Orderly'
<1>1. CASE pc' = "done"
  <2>1. UNCHANGED <<dirty, snap, opts>>
    BY <1>1, Zenon, RunKeeps DEF Run, FindRepoRoot, DiffDirty, DiffUntracked, ListStage, ListOthers, Prune,
       CheckAttr, PlanEngines, ListLinkTargets, EnsurePayloads, DigestUnits, RunEngine, EnginesDone,
       Console, Approve, WriteReport, Refuse, Traceback, listing
  <2>. QED
    BY <1>1, <2>1 DEF Orderly, ExcludedFiles, Before
<1> USE DEF Orderly, Before
<1>2. CASE FindRepoRoot
  BY <1>1, <1>2 DEF FindRepoRoot, Traceback, End, listing, engine
<1>3. CASE DiffDirty
  BY <1>1, <1>3 DEF DiffDirty, Refuse, End, engine
<1>4. CASE DiffUntracked
  BY <1>1, <1>4 DEF DiffUntracked, Refuse, End, engine
<1>5. CASE ListStage
  BY <1>1, <1>5 DEF ListStage, Traceback, End, engine
<1>6. CASE ListOthers
  BY <1>6 DEF ListOthers, engine
<1>7. CASE Prune
  <2>1. ExcludedFiles(snap') = {}
    BY <1>7 DEF Prune, ExcludedFiles
  <2>. QED
    BY <1>7, <2>1 DEF Prune, engine
<1>8. CASE CheckAttr
  <2>1. CASE pc' = "plan"
    <3>1. snap' = BuildSnapshot(snap.included, ParseCheckAttr(tree, snap.included), snap.warnings)
      BY <1>8, <2>1 DEF CheckAttr, Refuse, End
    <3> DEFINE marked == ParseCheckAttr(tree, snap.included)
    <3> HIDE DEF marked
    <3>2. snap'.included \cap ExcludedFiles(snap') = {}
      BY <3>1 DEF marked, BuildSnapshot, ExcludedFiles
    <3>. QED
      BY <1>8, <2>1, <3>2 DEF CheckAttr, Refuse, End, engine
  <2>. QED
    BY <1>1, <1>8, <2>1 DEF CheckAttr, Refuse, End
<1>9. CASE PlanEngines
  BY <1>1, <1>9 DEF PlanEngines, Refuse, Traceback, End, listing, engine
<1>10. CASE ListLinkTargets
  BY <1>1, <1>10 DEF ListLinkTargets, Traceback, End, listing, engine
<1>11. CASE EnsurePayloads
  BY <1>1, <1>11 DEF EnsurePayloads, Refuse, End, listing, engine
<1>12. CASE DigestUnits
  BY <1>1, <1>12 DEF DigestUnits, Refuse, Traceback, End, listing, engine
<1>13. CASE \E f \in Engines : RunEngine(f)
  BY <1>1, <1>13 DEF RunEngine, Traceback, End, listing, engine
<1>14. CASE EnginesDone
  BY <1>14 DEF EnginesDone, listing
<1>15. CASE Console
  BY <1>1, <1>15 DEF Console, End, listing, engine
<1>16. CASE Approve
  BY <1>1, <1>16 DEF Approve, Refuse, Traceback, End, listing
<1>17. CASE WriteReport
  BY <1>1, <1>17 DEF WriteReport, Traceback, End, listing, engine
<1>. QED
  BY <1>2, <1>3, <1>4, <1>5, <1>6, <1>7, <1>8, <1>9, <1>10, <1>11, <1>12, <1>13, <1>14, <1>15,
     <1>16, <1>17 DEF Run

-----------------------------------------------------------------------------
(* And they keep the trace.                                                *)

\* A run that fails to go on does not exit 0.
LEMMA ChasedEnd ==
  ASSUME NEW e \in Engines, NEW p, pc' = "done", code' # 0
  PROVE  Chased(e, p)'
BY DEF Chased, Listing, Planning, Before

\* The second pass keeps the exit code of the first.
LEMMA SecondPass ==
  ASSUME Typed, NEW e \in Engines, NEW p, Chased(e, p), pass = 2, Run
  PROVE  Chased(e, p)'
<1>1. code # 0
  BY DEF Chased
<1>2. pass' = 2
  BY Zenon DEF Run, FindRepoRoot, DiffDirty, DiffUntracked, ListStage, ListOthers, Prune, CheckAttr,
     PlanEngines, ListLinkTargets, EnsurePayloads, DigestUnits, RunEngine, EnginesDone, Console,
     Approve, WriteReport, Refuse, Traceback
<1>3. ~Console
  BY DEF Console
<1>4. code' \in {code, 1, 2}
  <2>1. CASE Approve
    BY <2>1 DEF Approve, Refuse, Traceback, End
  <2>2. CASE ~Approve
    BY <1>3, <2>2, Zenon DEF Run, FindRepoRoot, DiffDirty, DiffUntracked, ListStage, ListOthers, Prune,
       CheckAttr, PlanEngines, ListLinkTargets, EnsurePayloads, DigestUnits, RunEngine, EnginesDone,
       WriteReport, Refuse, Traceback, End, answer
  <2>. QED
    BY <2>1, <2>2
<1>. QED
  BY <1>1, <1>2, <1>4 DEF Chased

\* The listings: a difference stays one, a file that is there is listed.
LEMMA ChasedListing ==
  ASSUME Typed, Standing, Orderly, NEW e \in Engines, NEW p, Culprit(e, p), Chased(e, p), pass = 1,
         \/ FindRepoRoot \/ DiffDirty \/ DiffUntracked \/ ListStage \/ ListOthers
         \/ Prune \/ CheckAttr
  PROVE  Chased(e, p)'
<1> USE DEF Before
<1>1. /\ p \in Paths /\ Exists(tree, p) /\ ~IsSymlink(tree, p)
      /\ {b \in Attributes : tree.attr[p][b] \in {"set", "true"}} = {}
      /\ tree.index[p] = "file" \/ p \in LsFilesOthers(tree)
      /\ \/ opts.mode = "all"
         \/ p \in DiffHead(tree) \cup LsFilesOthers(tree)
         \/ opts.mode = "since" /\ p \in Branch
  BY StillThere
<1>2. Listing(p)
  BY DEF Chased
<1>3. UNCHANGED <<world, base, opts>>
  BY RunKeeps DEF Run
<1>4. ASSUME pc' \in Before \cup {"attrs", "plan"}, pass' = 1, Listing(p)'
      PROVE  Chased(e, p)'
  BY <1>4 DEF Chased, Planning
<1>5. CASE FindRepoRoot
  <2>1. CASE opts.machine.git
    <3>1. opts.mode = "all" => p \in dirty
      BY <1>1 DEF Orderly
    <3>2. /\ pc' = IF opts.mode = "all" THEN "stage" ELSE "diff"
          /\ pass' = 1 /\ dirty' = dirty
      BY <1>5, <2>1 DEF FindRepoRoot, Traceback, listing
    <3>3. Listing(p)'
      BY <3>1, <3>2 DEF Listing
    <3>. QED
      BY <1>4, <3>2, <3>3
  <2>2. CASE ~opts.machine.git
    BY <1>5, <2>2, ChasedEnd DEF FindRepoRoot, Traceback, End
  <2>. QED
    BY <2>1, <2>2
<1>6. CASE DiffDirty
  <2>1. CASE dirty' = DiffHead(tree) /\ pc' = "untracked" /\ pass' = pass
    <3>1. opts.mode # "all"
      BY <1>6 DEF DiffDirty, Orderly
    <3>2. p \in dirty' \/ p \in LsFilesOthers(tree') \/ (opts'.mode = "since" /\ p \in Branch)
      BY <1>1, <1>3, <2>1, <3>1 DEF world
    <3>3. Listing(p)'
      BY <2>1, <3>2 DEF Listing
    <3>. QED
      BY <1>4, <2>1, <3>3
  <2>2. CASE Refuse
    BY <2>2, ChasedEnd DEF Refuse, End
  <2>. QED
    BY <1>6, <2>1, <2>2 DEF DiffDirty
<1>7. CASE DiffUntracked
  <2>1. CASE pc' = "stage" /\ pass' = pass
    <3>1. p \in dirty'
      BY <1>2, <1>7, <2>1 DEF DiffUntracked, Listing, Refuse, End
    <3>2. Listing(p)'
      BY <2>1, <3>1 DEF Listing
    <3>. QED
      BY <1>4, <2>1, <3>2
  <2>2. CASE Refuse
    BY <2>2, ChasedEnd DEF Refuse, End
  <2>. QED
    BY <1>7, <2>1, <2>2 DEF DiffUntracked
<1>8. CASE ListStage
  <2>1. CASE stage' = LsFilesStage(tree) /\ pc' = "others" /\ pass' = pass /\ dirty' = dirty
    <3>1. p \in dirty
      BY <1>2, <1>8 DEF ListStage, Listing
    <3>2. tree.index[p] = "file" => p \in DOMAIN stage' /\ stage'[p] = "file"
      BY <1>1, <2>1 DEF LsFilesStage, Restrict, Nothing
    <3>3. p \in LsFilesOthers(tree) => p \in LsFilesOthers(tree')
      BY <1>3 DEF world
    <3>4. Listing(p)'
      BY <1>1, <2>1, <3>1, <3>2, <3>3 DEF Listing
    <3>. QED
      BY <1>4, <2>1, <3>4
  <2>2. CASE Traceback
    BY <2>2, ChasedEnd DEF Traceback, End
  <2>. QED
    BY <1>8, <2>1, <2>2 DEF ListStage
<1>9. CASE ListOthers
  <2>1. /\ others' = LsFilesOthers(tree) /\ pc = "others" /\ pc' = "prune"
        /\ pass' = pass /\ dirty' = dirty /\ stage' = stage
    BY <1>9 DEF ListOthers
  <2>2. Listing(p)'
    BY <1>2, <2>1 DEF Listing
  <2>. QED
    BY <1>4, <2>1, <2>2
<1>10. CASE Prune
  <2>1. /\ snap'.included = FilterSourceSet(stage, others, tree) /\ pc = "prune" /\ pc' = "attrs"
        /\ pass' = pass /\ dirty' = dirty
    BY <1>10 DEF Prune
  <2>2. p \in snap'.included
    BY <1>1, <1>2, <2>1 DEF Listing, FilterSourceSet, Tracked
  <2>3. Listing(p)'
    BY <1>2, <2>1, <2>2 DEF Listing
  <2>. QED
    BY <1>4, <2>1, <2>3
<1>11. CASE CheckAttr
  <2>1. CASE /\ snap' = BuildSnapshot(snap.included, ParseCheckAttr(tree, snap.included), snap.warnings)
             /\ pc' = "plan" /\ pass' = pass /\ dirty' = dirty
    <3>1. p \in snap.included /\ p \in dirty
      BY <1>2, <1>11 DEF Listing, CheckAttr
    <3>2. p \notin DOMAIN ParseCheckAttr(tree, snap.included)
      BY <1>1 DEF ParseCheckAttr
    <3>3. p \in snap'.included
      BY <2>1, <3>1, <3>2 DEF BuildSnapshot
    <3>4. Listing(p)'
      BY <2>1, <3>1, <3>3 DEF Listing
    <3>. QED
      BY <1>4, <2>1, <3>4
  <2>2. CASE Refuse
    BY <2>2, ChasedEnd DEF Refuse, End
  <2>. QED
    BY <1>11, <2>1, <2>2 DEF CheckAttr
<1>. QED
  BY <1>5, <1>6, <1>7, <1>8, <1>9, <1>10, <1>11

\* The engines: the plan has its unit, and the engine's result has the finding.
LEMMA ChasedPlan ==
  ASSUME Typed, Standing, Orderly, NEW e \in Engines, NEW p, Culprit(e, p), Chased(e, p), pass = 1,
         PlanEngines \/ ListLinkTargets \/ EnsurePayloads \/ DigestUnits
  PROVE  Chased(e, p)'
<1> USE DEF Before
<1>1. p \in dirty /\ p \in snap.included
  BY DEF Chased, Listing, PlanEngines, ListLinkTargets, EnsurePayloads, DigestUnits
<1>2. ASSUME pc' \in {"links", "store", "digest", "engines"}, pass' = 1,
             dirty' = dirty, snap' = snap, \E x \in todo'[e] : x[1] = Unit(e, p),
             pc' = "engines" => results'[e] = <<>>
      PROVE  Chased(e, p)'
  <2>1. Listing(p)'
    BY <1>1, <1>2 DEF Listing
  <2>2. Planning(e, p)'
    BY <1>2 DEF Planning, Unit
  <2>. QED
    BY <1>2, <2>1, <2>2 DEF Chased
<1>3. CASE PlanEngines
  <2>1. CASE pc' = "done"
    BY <1>3, <2>1, ChasedEnd DEF PlanEngines, Refuse, Traceback, End
  <2>2. CASE pc' # "done"
    <3>1. /\ todo' = [f \in Engines |-> Planned[f] \X {NoDigest}]
          /\ pc' = IF \A f \in Engines : Planned[f] = {} THEN "settle"
                   ELSE IF \E f \in LinkAware : Planned[f] # {} THEN "links" ELSE "store"
          /\ pass' = pass /\ UNCHANGED listing
      BY <1>3, <2>2 DEF PlanEngines, Refuse, Traceback, End
    <3>2. Unit(e, p) \in Planned[e]
      BY <1>1, PlannedUnit
    <3>3. <<Unit(e, p), NoDigest>> \in todo'[e]
      BY <3>1, <3>2
    <3>4. \E x \in todo'[e] : x[1] = Unit(e, p)
      BY <3>3
    <3>5. pc' \in {"links", "store"}
      BY <3>1, <3>2
    <3>. QED
      BY <1>2, <3>1, <3>4, <3>5 DEF listing
  <2>. QED
    BY <2>1, <2>2
<1>4. CASE ListLinkTargets
  <2>1. CASE Traceback
    BY <2>1, ChasedEnd DEF Traceback, End
  <2>2. CASE ~Traceback
    <3>1. \E x \in todo[e] : x[1] = Unit(e, p)
      BY <1>4 DEF Chased, Planning, ListLinkTargets
    <3>. QED
      BY <1>2, <1>4, <2>2, <3>1 DEF ListLinkTargets, engine
  <2>. QED
    BY <2>1, <2>2
<1>5. CASE EnsurePayloads
  <2>1. CASE pc' = "digest" /\ UNCHANGED <<pass, listing, engine>>
    <3>1. \E x \in todo[e] : x[1] = Unit(e, p)
      BY <1>5 DEF Chased, Planning, EnsurePayloads
    <3>. QED
      BY <1>2, <2>1, <3>1 DEF listing, engine
  <2>2. CASE Refuse
    BY <2>2, ChasedEnd DEF Refuse, End
  <2>. QED
    BY <1>5, <2>1, <2>2 DEF EnsurePayloads
<1>6. CASE DigestUnits
  <2>1. CASE pc' = "done"
    BY <1>6, <2>1, ChasedEnd DEF DigestUnits, Refuse, Traceback, End
  <2>2. CASE pc' # "done"
    <3>1. pc' = "engines" /\ pass' = pass /\ UNCHANGED listing /\ results' = results
      BY <1>6, <2>2 DEF DigestUnits, Refuse, Traceback, End, engine
    <3>2. clean = {} /\ results[e] = <<>>
      BY <1>6 DEF DigestUnits, Orderly, Silent
    <3>3. PICK x \in todo[e] : x[1] = Unit(e, p)
      BY <1>6 DEF Chased, Planning, DigestUnits
    <3>4. \E z \in todo'[e] : z[1] = Unit(e, p)
      <4>1. CASE todo' = todo
        BY <3>3, <4>1
      <4>2. CASE todo' # todo
        <5> DEFINE Digested(f) == {<<b[1], Digest(tree, f, b[1])>> : b \in todo[f]}
        <5>1. todo' = [f \in Engines |-> IF f \in Cacheable
                                         THEN {b \in Digested(f) : <<f, b>> \notin clean}
                                         ELSE todo[f]]
          BY <1>6, <2>2, <4>2 DEF DigestUnits, Refuse, Traceback, End, engine
        <5>2. CASE e \in Cacheable
          <6>1. <<x[1], Digest(tree, e, x[1])>> \in Digested(e)
            BY <3>3
          <6>2. todo'[e] = {b \in Digested(e) : <<e, b>> \notin clean}
            BY <5>1, <5>2
          <6>3. <<x[1], Digest(tree, e, x[1])>> \in todo'[e]
            BY <3>2, <6>1, <6>2
          <6>. QED
            BY <3>3, <6>3
        <5>3. CASE e \notin Cacheable
          BY <3>3, <5>1, <5>3
        <5>. QED
          BY <5>2, <5>3
      <4>. QED
        BY <4>1, <4>2
    <3>. QED
      BY <1>2, <3>1, <3>2, <3>4 DEF listing
  <2>. QED
    BY <2>1, <2>2
<1>. QED
  BY <1>3, <1>4, <1>5, <1>6

\* The engines run, each once for what it was given.
LEMMA ChasedEngine ==
  ASSUME Typed, Standing, Orderly, NEW e \in Engines, NEW p, Culprit(e, p), Chased(e, p), pass = 1,
         NEW f \in Engines, RunEngine(f)
  PROVE  Chased(e, p)'
<1>1. CASE Traceback
  BY <1>1, ChasedEnd DEF Traceback, End
<1>2. CASE ~Traceback
  <2>1. PICK r \in Outcomes(f) : results' = [results EXCEPT ![f] = r]
    BY <1>2 DEF RunEngine
  <2>2. /\ pc = "engines" /\ todo[f] # {} /\ results[f] = <<>>
        /\ pc' = pc /\ pass' = pass /\ UNCHANGED listing /\ todo' = todo /\ UNCHANGED tree
    BY <1>2 DEF RunEngine, world
  <2>3. p \in dirty /\ p \in snap.included
    BY <2>2 DEF Chased, Listing, Before
  <2>4. PICK x \in todo[e] : x[1] = Unit(e, p)
    BY <2>2 DEF Chased, Planning
  <2>5. results'[e] = <<>> \/ BlamesIn(e, results'[e])
    <3>1. CASE f = e
      BY <2>1, <2>3, <2>4, <3>1, OutcomeBlames DEF Typed
    <3>2. CASE f # e
      BY <2>1, <2>2, <3>2 DEF Typed, Chased, Planning, Blames
    <3>. QED
      BY <3>1, <3>2
  <2>6. results'[e] = <<>> \/ Blames(e)'
    BY <2>2, <2>5 DEF Blames, BlamesIn, Filtered, listing
  <2>7. Listing(p)'
    BY <2>2, <2>3 DEF Listing, listing, Before
  <2>8. Planning(e, p)'
    BY <2>2, <2>4, <2>6 DEF Planning, Unit
  <2>. QED
    BY <2>2, <2>7, <2>8 DEF Chased
<1>. QED
  BY <1>1, <1>2

\* What they printed becomes the exit code.
LEMMA ChasedVerdict ==
  ASSUME Typed, Standing, Orderly, NEW e \in Engines, NEW p, Culprit(e, p), Chased(e, p), pass = 1,
         EnginesDone \/ Console \/ Approve \/ WriteReport
  PROVE  Chased(e, p)'
<1> USE DEF Before
<1>1. CASE EnginesDone
  <2>1. /\ pc = "engines" /\ Ran /\ pc' = "settle" /\ results' = results /\ UNCHANGED listing
        /\ pass' = pass
    BY <1>1 DEF EnginesDone
  <2>2. p \in dirty /\ p \in snap.included
    BY <2>1 DEF Chased, Listing
  <2>3. Blames(e)
    BY <2>1 DEF Chased, Planning, Ran
  <2>4. Blames(e)'
    BY <2>1, <2>3 DEF Blames, BlamesIn, Filtered, listing
  <2>. QED
    BY <2>1, <2>2, <2>4 DEF Chased, Listing, Planning, listing
<1>2. CASE Console
  <2>1. CASE code' = AggregateExit(results) /\ pc' = "approve" /\ UNCHANGED <<listing, pass>>
    <3>1. p \in dirty /\ p \in snap.included /\ BlamesIn(e, results[e])
      BY <1>2 DEF Console, Chased, Listing, Planning, Blames
    <3>2. code' # 0
      BY <2>1, <3>1, BlameCounts
    <3>. QED
      BY <2>1, <3>1, <3>2 DEF Chased, Listing, Planning, listing
  <2>2. CASE End(141, "pipe")
    BY <2>2, ChasedEnd DEF End
  <2>. QED
    BY <1>2, <2>1, <2>2 DEF Console
<1>3. CASE Approve
  <2>1. code # 0
    BY <1>3 DEF Approve, Chased
  <2>2. code' # 0 /\ (pc' = "done" \/ pass' = 2)
    BY <1>3, <2>1 DEF Approve, Refuse, Traceback, End
  <2>. QED
    BY <2>2, ChasedEnd DEF Chased
<1>4. CASE WriteReport
  <2>1. CASE Traceback
    BY <2>1, ChasedEnd DEF Traceback, End
  <2>. QED
    BY <1>4, <2>1 DEF WriteReport
<1>. QED
  BY <1>1, <1>2, <1>3, <1>4

\* A change of the tree hides no file but the one it is about.
LEMMA ChasedChange ==
  ASSUME Typed, Standing, NEW e \in Engines, NEW p, Culprit(e, p)', Chased(e, p),
         NEW q \in Paths, Save(q) \/ Remove(q) \/ Attribute(q) \/ Restage(q)
  PROVE  Chased(e, p)'
<1>1. /\ UNCHANGED <<base, opts, pc, pass, listing, engine, answer>>
      /\ touched \subseteq touched' /\ restaged \subseteq restaged' /\ slipped \subseteq slipped'
      /\ \A z \in Paths \ touched' : tree'.disk[z] = tree.disk[z]
      /\ \A z \in Paths : tree'.index[z] # tree.index[z] => z = q /\ Restage(q)
  BY ChangeStep
<1>2. Culprit(e, p)
  BY <1>1, EarlierCulprit
<1>3. p \in Paths /\ p \notin touched' /\ p \notin slipped'
  BY <1>2, StillThere DEF Culprit
<1>4. pc \in {"others", "untracked"} => tree'.index[p] = tree.index[p]
  BY <1>1, <1>3 DEF Restage
<1>5. pc \in {"others", "untracked"} /\ p \in LsFilesOthers(tree) => p \in LsFilesOthers(tree')
  BY <1>1, <1>3, <1>4 DEF LsFilesOthers
<1>6. Listing(p) => Listing(p)'
  BY <1>1, <1>5 DEF Listing, listing
<1>7. Blames(e) => Blames(e)'
  BY <1>1 DEF Blames, BlamesIn, Filtered, listing, engine
<1>8. Planning(e, p) => Planning(e, p)'
  BY <1>1, <1>7 DEF Planning, Unit, engine
<1>. QED
  BY <1>1, <1>6, <1>8 DEF Chased, answer

-----------------------------------------------------------------------------
(* Exit 0 vouches.                                                         *)

\* The inductive invariant: the tree where nobody was, the order of the run's
\* variables, and where the run has each faulty file.
Vouched == Typed /\ Standing /\ Orderly /\ Followed

\* It holds when the run starts ...
LEMMA VouchedInit == Init => Vouched
<1> SUFFICES ASSUME Init PROVE Vouched
  OBVIOUS
<1>1. Typed /\ Standing /\ Orderly
  BY TypedInit, OrderlyInit
<1>2. Followed
  BY DEF Init, Followed, Chased, Listing, Planning, Before
<1>. QED
  BY <1>1, <1>2 DEF Vouched

\* ... and no step of the run and no change of the tree breaks it.
LEMMA VouchedStep ==
  ASSUME Vouched, [Next]_vars
  PROVE  Vouched'
<1> USE DEF Vouched
<1>1. CASE Run
  <2>1. UNCHANGED <<world, base, opts>>
    BY <1>1, RunKeeps
  <2>2. Typed' /\ Orderly'
    BY <1>1, TypedStep, OrderlyStep
  <2>3. Standing'
    BY <2>1 DEF Standing, world
  <2>4. ASSUME NEW p \in Paths, NEW e \in Engines, Culprit(e, p)'
        PROVE  Chased(e, p)'
    <3>1. Culprit(e, p)
      BY <2>1, <2>4, SameCulprit
    <3>2. Chased(e, p)
      BY <2>4, <3>1 DEF Followed
    <3>3. CASE pass = 2
      BY <1>1, <3>2, <3>3, SecondPass
    <3>4. CASE pass = 1
      <4>1. CASE \E f \in Engines : RunEngine(f)
        BY <3>1, <3>2, <3>4, <4>1, ChasedEngine
      <4>2. CASE ~\E f \in Engines : RunEngine(f)
        BY <1>1, <3>1, <3>2, <3>4, <4>2, ChasedListing, ChasedPlan, ChasedVerdict DEF Run
      <4>. QED
        BY <4>1, <4>2
    <3>. QED
      BY <3>3, <3>4 DEF Typed
  <2>. QED
    BY <2>2, <2>3, <2>4 DEF Followed
<1>2. ASSUME NEW q \in Paths, Save(q) \/ Remove(q) \/ Attribute(q) \/ Restage(q)
      PROVE  Vouched'
  <2>1. /\ tree' \in Trees /\ Standing'
        /\ UNCHANGED <<base, opts, pc, pass, listing, engine, answer>>
        /\ touched \subseteq touched' /\ restaged \subseteq restaged' /\ slipped \subseteq slipped'
    BY <1>2, ChangeStep
  <2>2. Typed'
    BY <2>1 DEF Typed, engine
  <2>3. Orderly'
    BY <2>1 DEF Orderly, ExcludedFiles, listing, engine
  <2>4. ASSUME NEW p \in Paths, NEW e \in Engines, Culprit(e, p)'
        PROVE  Chased(e, p)'
    <3>1. Culprit(e, p)
      BY <2>1, <2>4, EarlierCulprit
    <3>2. Chased(e, p)
      BY <2>4, <3>1 DEF Followed
    <3>. QED
      BY <1>2, <2>4, <3>2, ChasedChange
  <2>. QED
    BY <2>1, <2>2, <2>3, <2>4 DEF Followed
<1>3. CASE UNCHANGED vars
  <2>1. UNCHANGED <<tree, touched, restaged, slipped, base, opts, pc, pass, dirty, stage, others,
                    snap, todo, clean, results, code>>
    BY <1>3 DEF vars, world, listing, engine, answer
  <2>2. Typed' /\ Standing' /\ Orderly'
    BY <2>1 DEF Typed, Standing, Orderly, ExcludedFiles
  <2>3. ASSUME NEW p \in Paths, NEW e \in Engines, Culprit(e, p)'
        PROVE  Chased(e, p)'
    <3>1. Culprit(e, p)
      BY <2>1, <2>3, EarlierCulprit
    <3>2. Chased(e, p)
      BY <2>3, <3>1 DEF Followed
    <3>3. Blames(e) <=> Blames(e)'
      BY <2>1 DEF Blames, BlamesIn, Filtered
    <3>4. (Listing(p) <=> Listing(p)') /\ (Planning(e, p) <=> Planning(e, p)')
      BY <2>1, <3>3 DEF Listing, Planning, Unit
    <3>. QED
      BY <2>1, <3>2, <3>4 DEF Chased
  <2>. QED
    BY <2>2, <2>3 DEF Followed
<1>. QED
  BY <1>1, <1>2, <1>3 DEF Next

\* A faulty file that nobody touched is on its way to a failure at every step.
THEOREM FaultsFollowed == Spec => []Vouched
<1>1. Init => Vouched
  BY VouchedInit
<1>2. Vouched /\ [Next]_vars => Vouched'
  BY VouchedStep
<1>. QED
  BY <1>1, <1>2, PTL DEF Spec

\* Exit 0 vouches for every file that was asked about and that nobody changed
\* or moved between two listings, whatever else was edited beside the run,
\* whichever engines crash and whichever lint is cached.
THEOREM LintSafe == Spec => []NothingUnlinted
<1>1. Vouched => NothingUnlinted
  <2> SUFFICES ASSUME Vouched, pc = "done", code = 0,
                      NEW p \in Asked \ (touched \cup slipped \cup StagedBack)
               PROVE  ~Faulty(base, p)
    BY DEF NothingUnlinted
  <2>1. p \in Paths
    BY AskedParts DEF Vouched
  <2>2. ASSUME NEW e \in Engines, Faults(e, p)
        PROVE  FALSE
    <3>1. Culprit(e, p)
      BY <2>2 DEF Culprit
    <3>2. Chased(e, p)
      BY <2>1, <3>1 DEF Vouched, Followed
    <3>. QED
      BY <3>2 DEF Chased
  <2>. QED
    BY <2>2 DEF Faulty, Faults
<1>. QED
  BY <1>1, FaultsFollowed, PTL

-----------------------------------------------------------------------------
(* A tree that nobody touches.                                             *)

Still == touched = {} /\ restaged = {}

\* The scope of a change.
Different ==
  IF opts.mode = "all" THEN Paths
  ELSE DiffHead(base) \cup LsFilesOthers(base) \cup (IF opts.mode = "since" THEN Branch ELSE {})

\* What the engines are to be given, and what they find there.
Plan == DropGoOrphans(base, Dispatch(Asked))
Finds(e, u) == Diagnose(base, e, Targets, u)
Spotless(e, u) == \A z \in Finds(e, u) : z[2] \notin {"bug", "error"}
Guilty(e) ==
  \E u \in Plan[e] : \E z \in Finds(e, u) :
     z[2] = "error" \/ (z[2] = "bug" /\ ~(e \in PackageMode /\ z[1] \in Excluded))

Broken(e) == e \in opts.sick \/ Fails(e)
UnitsOf(e) == {b[1] : b \in todo[e]}

\* What e prints of the units U, and all of what it says of them.
Told(e, U, n) == UNION {Finds(e, u) : u \in UnitsIn(e, U, n)}
WholeOf(e, U) ==
  [n \in ScopesOf(e, U) |-> [code |-> ExitCode(e, Told(e, U, n)), out |-> Told(e, U, n)]]
\* U is the plan but for units without a finding.
Covers(e, U) == U \subseteq Plan[e] /\ \A u \in Plan[e] \ U : Spotless(e, u)

\* The result r of e tells about the units U, or that e is broken.
Heard(e, U, r) ==
  /\ Plan[e] # {} /\ Covers(e, U)
  /\ IF Broken(e) THEN ResultCode(r) = 2 ELSE r = WholeOf(e, U)

\* The lists say what is in the tree.
Inventory ==
  /\ tree = base
  /\ pc = "untracked" => dirty = DiffHead(base)
  /\ pc \notin {"begin", "diff", "untracked", "done"} => dirty = Different
  /\ pc \in {"others", "prune"} => stage = LsFilesStage(base)
  /\ pc = "prune" => others = LsFilesOthers(base)
  /\ pc = "attrs" => snap.included = Listed
  /\ pc \notin Before \cup {"attrs", "done"} =>
       snap.included = Listed \ Excluded /\ ExcludedFiles(snap) = Excluded

\* The engines are given the plan; a marker takes out nothing with a finding.
Schedule ==
  /\ pc \in {"links", "store", "digest"} => \A e \in Engines : UnitsOf(e) = Plan[e]
  /\ pc = "engines" => \A e \in Engines : /\ Covers(e, UnitsOf(e))
                                          /\ pass = 1 => UnitsOf(e) = Plan[e]
  /\ pc \in {"store", "digest", "engines"} /\ (\E e \in LinkAware : Plan[e] # {}) => links = Targets
  /\ \A c \in clean : Spotless(c[1], c[2][1])

\* The results tell about the plan.
Testimony ==
  /\ pc \in Before \cup {"attrs", "plan", "links", "store", "digest"} => results = Silent
  /\ pc = "engines" => \A e \in Engines : results[e] = <<>> \/ Heard(e, UnitsOf(e), results[e])
  /\ pc \in {"settle", "approve"} => \A e \in Engines :
       \/ /\ results[e] = <<>> /\ \A u \in Plan[e] : Spotless(e, u)
          /\ pass = 1 => Plan[e] = {}
       \/ \E U \in SUBSET Plan[e] : Heard(e, U, results[e])

\* No engine found anything or failed; some engine did.
Acquitted == \A e \in Engines : ~Guilty(e) /\ (Plan[e] = {} \/ ~Broken(e))
Convicted == \E e \in Engines : Guilty(e) \/ (Plan[e] # {} /\ Broken(e))

\* The exit code is theirs, and the approvals'.
Verdict ==
  /\ pc # "done" => how = "verdict"
  /\ pc = "approve" => /\ pass = 1
                       /\ code = 0 => Acquitted
                       /\ code # 0 => Convicted
  /\ how = "verdict" /\ (pass = 2 \/ pc = "done") =>
       /\ debt = ApprovalsDebt(base, Listed \ Excluded)
       /\ code = 0 => Acquitted /\ debt = {}
       /\ code # 0 => Convicted \/ debt # {}
  /\ how = "verdict" /\ code # 0 =>
       code = 1 \/ (code = 2 /\ \E e \in Engines : Plan[e] # {} /\ Broken(e))

\* So does the report.
Story ==
  pc = "done" /\ how = "verdict" /\ opts.quality =>
     /\ code = 0 => report = {}
     /\ code # 0 /\ (\A e \in Engines : ~Broken(e)) => report # {}

\* A machine that doctor passes, and a git that answers.
Healthy ==
  /\ ~opts.faults /\ opts.sick = {}
  /\ DoctorOk(opts.machine, (Listed \ Excluded) \cap GoFiles # {}, (Listed \ Excluded) \cap JavaFiles # {})
Served ==
  Healthy /\ pc = "done" => how = "verdict" \/ Refused(opts.scope) \/ Candidates = {}
                            \/ ReportersRefused(base)

Truth == Inventory /\ Schedule /\ Testimony /\ Verdict /\ Story /\ Served
Truthful == Still => Truth

\* A listed file is there.
LEMMA ListedParts ==
  ASSUME Typed
  PROVE  Listed \subseteq Paths /\ \A p \in Listed : Exists(base, p)
<1> SUFFICES ASSUME NEW p \in Listed PROVE p \in Paths /\ Exists(base, p)
  OBVIOUS
<1>1. CASE p \in Tracked(LsFilesStage(base), base)
  BY <1>1 DEF Tracked, LsFilesStage, Restrict
<1>2. CASE p \in LsFilesOthers(base) /\ ~IsSymlink(base, p)
  BY <1>2 DEF LsFilesOthers, IsSymlink, Exists
<1>. QED
  BY <1>1, <1>2 DEF Listed, FilterSourceSet

\* So is one that was asked about.
LEMMA AskedListed ==
  ASSUME Typed, NEW p \in Asked
  PROVE  p \in Paths /\ p \in Listed \ Excluded /\ Exists(base, p)
<1>1. p \in Listed \ Excluded
  BY DEF Asked, NarrowByPath
<1>. QED
  BY <1>1, ListedParts

\* The candidates are what was asked about.
LEMMA CandidatesAsked ==
  ASSUME Typed, Orderly, dirty = Different, snap.included = Listed \ Excluded,
         ExcludedFiles(snap) = Excluded
  PROVE  Candidates \ ExcludedFiles(snap) = Asked
<1>1. Listed \subseteq Paths
  BY ListedParts
<1>2. Candidates \ ExcludedFiles(snap)
        = {p \in (Listed \ Excluded) \cap Different : p = opts.scope \/ opts.scope \in Above[Home[p]]}
  BY <1>1 DEF Candidates, NarrowFiles, NarrowByPath, CandidateFiles, Excluded
<1>3. Asked = {p \in Listed \ Excluded : /\ p = opts.scope \/ opts.scope \in Above[Home[p]]
                                         /\ \/ opts.mode = "all"
                                            \/ p \in DiffHead(base) \cup LsFilesOthers(base)
                                            \/ opts.mode = "since" /\ p \in Branch}
  BY DEF Asked, NarrowByPath
<1>4. \A p \in Listed \ Excluded :
         p \in Different <=> \/ opts.mode = "all"
                             \/ p \in DiffHead(base) \cup LsFilesOthers(base)
                             \/ opts.mode = "since" /\ p \in Branch
  BY <1>1 DEF Different
<1>. QED
  BY <1>2, <1>3, <1>4

\* The plan of an engine that reads files is what was asked about.
LEMMA PlanFiles ==
  ASSUME NEW e \in Engines, e \notin PackageMode
  PROVE  Plan[e] = Asked \cap Lints[e]
BY DEF Plan, DropGoOrphans, Dispatch

\* A package is in it for a file asked about, in a module that can build it.
LEMMA PlanPackages ==
  ASSUME NEW e \in Engines, e \in PackageMode
  PROVE  \A d : d \in Plan[e] <=> /\ \E p \in Asked \cap Lints[e] : d = Home[p]
                                  /\ NearestModules(d) # {}
                                  /\ PackageFiles(base, d) # {}
<1> DEFINE units == Dispatch(Asked)
<1>1. Plan[e] = BuildSelected(base, units[e] \ OrphanPackages(units[e]))
  BY DEF Plan, DropGoOrphans
<1>2. units[e] = {Home[p] : p \in Asked \cap Lints[e]}
  <2>1. Lints[e] \subseteq GoFiles
    BY EnginesAssumption
  <2>2. units[e] = GoPackages(Asked \cap Lints[e])
    BY DEF Dispatch
  <2>. QED
    BY <2>1, <2>2 DEF GoPackages
<1> HIDE DEF units
<1>. QED
  BY <1>1, <1>2 DEF BuildSelected, OrphanPackages

\* What an engine finds in a file.
LEMMA FindsFile ==
  ASSUME NEW e \in Engines, e \notin PackageMode, NEW u
  PROVE  /\ \A z \in Finds(e, u) : z[1] = u /\ (z[2] = "error" => e \in Json)
         /\ Spotless(e, u) <=> base.disk[u] \notin {"bug", "broken"} /\ ~DeadLink(e, u, Targets)
<1>1. Reads(base, e, u) = {u}
  BY DEF Reads
<1>2. CASE base.disk[u] = "broken"
  <2>1. Finds(e, u) = {<<u, IF e \in Json THEN "error" ELSE "bug">>}
    BY <1>1, <1>2 DEF Finds, Diagnose
  <2>. QED
    BY <1>2, <2>1 DEF Spotless
<1>3. CASE base.disk[u] # "broken"
  <2>1. Finds(e, u) = {<<p, base.disk[p]>> : p \in {q \in {u} : base.disk[q] \in {"bug", "sup"}}}
                        \cup {<<p, "bug">> : p \in {q \in {u} : DeadLink(e, q, Targets)}}
    BY <1>1, <1>3 DEF Finds, Diagnose
  <2>2. \A z \in Finds(e, u) : z[1] = u /\ z[2] \in {"bug", "sup"}
    BY <2>1
  <2>3. CASE base.disk[u] = "bug" \/ DeadLink(e, u, Targets)
    <3>1. <<u, "bug">> \in Finds(e, u)
      BY <2>1, <2>3
    <3>. QED
      BY <2>2, <2>3, <3>1 DEF Spotless
  <2>4. CASE ~(base.disk[u] = "bug" \/ DeadLink(e, u, Targets))
    <3>1. \A z \in Finds(e, u) : z[2] = "sup"
      BY <2>1, <2>4
    <3>. QED
      BY <1>3, <2>2, <2>4, <3>1 DEF Spotless
  <2>. QED
    BY <2>3, <2>4
<1>. QED
  BY <1>2, <1>3

\* And in a package.
LEMMA FindsPackage ==
  ASSUME NEW e \in Engines, e \in PackageMode, NEW u
  PROVE  /\ (\E z \in Finds(e, u) : z[2] = "error")
              <=> \E p \in PackageFiles(base, u) : base.disk[p] = "broken"
         /\ \A z \in Finds(e, u) : z[2] = "bug" =>
              z[1] \in PackageFiles(base, u) /\ base.disk[z[1]] = "bug"
         /\ (\A p \in PackageFiles(base, u) : base.disk[p] # "broken") =>
              \A p \in PackageFiles(base, u) : base.disk[p] = "bug" => <<p, "bug">> \in Finds(e, u)
<1>1. Reads(base, e, u) = PackageFiles(base, u)
  BY DEF Reads
<1>2. e \in Json /\ \A q : ~DeadLink(e, q, Targets)
  BY EnginesAssumption DEF DeadLink
<1>3. CASE \E p \in PackageFiles(base, u) : base.disk[p] = "broken"
  <2>1. Finds(e, u) = {<<u, "error">>}
    BY <1>1, <1>2, <1>3 DEF Finds, Diagnose
  <2>. QED
    BY <1>3, <2>1
<1>4. CASE \A p \in PackageFiles(base, u) : base.disk[p] # "broken"
  <2>1. Finds(e, u)
          = {<<p, base.disk[p]>> : p \in {q \in PackageFiles(base, u) : base.disk[q] \in {"bug", "sup"}}}
    BY <1>1, <1>2, <1>4 DEF Finds, Diagnose
  <2>. QED
    BY <1>4, <2>1
<1>. QED
  BY <1>3, <1>4

\* An engine is guilty when a file of its plan has a fault or a dead link, ...
LEMMA GuiltyFiles ==
  ASSUME NEW e \in Engines, e \notin PackageMode
  PROVE  Guilty(e) <=> \E p \in Asked \cap Lints[e] :
                          base.disk[p] \in {"bug", "broken"} \/ DeadLink(e, p, Targets)
<1>1. Guilty(e) <=> \E p \in Plan[e] : ~Spotless(e, p)
  BY DEF Guilty, Spotless
<1>2. \A p \in Plan[e] : ~Spotless(e, p) <=> base.disk[p] \in {"bug", "broken"} \/ DeadLink(e, p, Targets)
  BY FindsFile
<1>. QED
  BY <1>1, <1>2, PlanFiles

\* ... or a package of it that counts.
LEMMA GuiltyPackages ==
  ASSUME NEW e \in Engines, e \in PackageMode
  PROVE  Guilty(e) <=> \E d \in Plan[e] : \E p \in PackageFiles(base, d) :
                          base.disk[p] = "broken" \/ (base.disk[p] = "bug" /\ p \notin Excluded)
<1>1. ASSUME Guilty(e)
      PROVE  \E d \in Plan[e] : \E p \in PackageFiles(base, d) :
                base.disk[p] = "broken" \/ (base.disk[p] = "bug" /\ p \notin Excluded)
  <2>1. PICK u \in Plan[e] :
          \E z \in Finds(e, u) : z[2] = "error" \/ (z[2] = "bug" /\ z[1] \notin Excluded)
    BY <1>1 DEF Guilty
  <2>2. PICK z \in Finds(e, u) : z[2] = "error" \/ (z[2] = "bug" /\ z[1] \notin Excluded)
    BY <2>1
  <2>. QED
    BY <2>2, FindsPackage
<1>2. ASSUME NEW d \in Plan[e], NEW p \in PackageFiles(base, d),
             base.disk[p] = "broken" \/ (base.disk[p] = "bug" /\ p \notin Excluded)
      PROVE  Guilty(e)
  <2>1. CASE \E q \in PackageFiles(base, d) : base.disk[q] = "broken"
    BY <2>1, FindsPackage DEF Guilty
  <2>2. CASE \A q \in PackageFiles(base, d) : base.disk[q] # "broken"
    <3>1. <<p, "bug">> \in Finds(e, d) /\ p \notin Excluded
      BY <1>2, <2>2, FindsPackage
    <3>. QED
      BY <3>1 DEF Guilty
  <2>. QED
    BY <2>1, <2>2
<1>. QED
  BY <1>1, <1>2

\* The verdict's three reasons, as VerdictExact has them.
Reasons ==
  \/ \E p \in Asked : Faulty(base, p)
  \/ \E d \in {Home[p] : p \in {q \in Asked : \E e \in PackageMode : q \in Lints[e]}} :
        /\ NearestModules(d) # {}
        /\ \E p \in PackageFiles(base, d) :
              base.disk[p] = "broken" \/ (base.disk[p] = "bug" /\ p \notin Excluded)
  \/ \E e \in LinkAware : \E p \in Asked \cap Lints[e] : DeadLink(e, p, Targets)

\* They are the guilt of some engine.
LEMMA GuiltIsReason ==
  ASSUME Typed
  PROVE  (\E e \in Engines : Guilty(e)) <=> Reasons
<1> USE EnginesAssumption
<1>1. ASSUME NEW e \in Engines, Guilty(e)
      PROVE  Reasons
  <2>1. CASE e \notin PackageMode
    <3>1. PICK p \in Asked \cap Lints[e] :
            base.disk[p] \in {"bug", "broken"} \/ DeadLink(e, p, Targets)
      BY <1>1, <2>1, GuiltyFiles
    <3>2. CASE base.disk[p] \in {"bug", "broken"}
      BY <2>1, <3>2 DEF Reasons, Faulty
    <3>3. CASE DeadLink(e, p, Targets)
      <4>1. e \in LinkAware
        BY <3>3 DEF DeadLink
      <4>. QED
        BY <3>3, <4>1 DEF Reasons
    <3>. QED
      BY <3>1, <3>2, <3>3
  <2>2. CASE e \in PackageMode
    <3>1. PICK d \in Plan[e] : \E p \in PackageFiles(base, d) :
            base.disk[p] = "broken" \/ (base.disk[p] = "bug" /\ p \notin Excluded)
      BY <1>1, <2>2, GuiltyPackages
    <3>2. (\E p \in Asked \cap Lints[e] : d = Home[p]) /\ NearestModules(d) # {}
      BY <2>2, PlanPackages
    <3>. QED
      BY <2>2, <3>1, <3>2 DEF Reasons
  <2>. QED
    BY <2>1, <2>2
<1>2. ASSUME NEW e \in PackageMode, NEW q \in Asked \cap Lints[e], NearestModules(Home[q]) # {},
             NEW p \in PackageFiles(base, Home[q]),
             base.disk[p] = "broken" \/ (base.disk[p] = "bug" /\ p \notin Excluded)
      PROVE  Guilty(e)
  <2>1. Home[q] \in Plan[e]
    BY <1>2, PlanPackages
  <2>. QED
    BY <1>2, <2>1, GuiltyPackages
<1>3. ASSUME NEW p \in Asked, Faulty(base, p)
      PROVE  \E e \in Engines : Guilty(e)
  <2>1. PICK e \in Engines :
          /\ p \in Lints[e] /\ base.disk[p] \in {"bug", "broken"}
          /\ e \in PackageMode => p \notin Constrained /\ NearestModules(Home[p]) # {}
    BY <1>3 DEF Faulty
  <2>2. CASE e \notin PackageMode
    BY <2>1, <2>2, GuiltyFiles
  <2>3. CASE e \in PackageMode
    <3>1. p \notin Excluded /\ Exists(base, p)
      BY AskedListed
    <3>2. p \in PackageFiles(base, Home[p])
      BY <2>1, <2>3, <3>1 DEF PackageFiles
    <3>. QED
      BY <1>2, <2>1, <2>3, <3>1, <3>2
  <2>. QED
    BY <2>2, <2>3
<1>4. ASSUME NEW d \in {Home[p] : p \in {q \in Asked : \E e \in PackageMode : q \in Lints[e]}},
             NearestModules(d) # {}, NEW p \in PackageFiles(base, d),
             base.disk[p] = "broken" \/ (base.disk[p] = "bug" /\ p \notin Excluded)
      PROVE  \E e \in Engines : Guilty(e)
  <2>1. PICK q \in Asked : d = Home[q] /\ \E e \in PackageMode : q \in Lints[e]
    OBVIOUS
  <2>2. PICK e \in PackageMode : q \in Lints[e]
    BY <2>1
  <2>. QED
    BY <1>2, <1>4, <2>1, <2>2
<1>5. ASSUME NEW e \in LinkAware, NEW p \in Asked \cap Lints[e], DeadLink(e, p, Targets)
      PROVE  \E f \in Engines : Guilty(f)
  BY <1>5, GuiltyFiles
<1>. QED
  BY <1>1, <1>3, <1>4, <1>5 DEF Reasons

-----------------------------------------------------------------------------
(* What a result tells.                                                    *)

\* A unit of the plan is in the scope that reports it.
LEMMA UnitsScoped ==
  ASSUME NEW e \in Engines, NEW U \in SUBSET Plan[e]
  PROVE  /\ \A n \in ScopesOf(e, U) : UnitsIn(e, U, n) \subseteq U
         /\ \A u \in U : \E n \in ScopesOf(e, U) : u \in UnitsIn(e, U, n)
         /\ U # {} => ScopesOf(e, U) # {}
<1>1. CASE e \in PackageMode
  <2>1. ASSUME NEW u \in U
        PROVE  \E n \in GoMods : u \in InModule(U, n)
    <3>1. NearestModules(u) # {}
      BY <1>1, PlanPackages
    <3>2. PICK n : n \in NearestModules(u)
      BY <3>1
    <3>. QED
      BY <3>2 DEF NearestModules, InModule
  <2>. QED
    BY <1>1, <2>1 DEF ScopesOf, UnitsIn, InModule
<1>2. CASE e \notin PackageMode
  BY <1>2 DEF ScopesOf, UnitsIn
<1>. QED
  BY <1>1, <1>2

\* What the scopes print together is what the units show.
LEMMA WholeParts ==
  ASSUME NEW e \in Engines, NEW U \in SUBSET Plan[e], NEW r, r = WholeOf(e, U)
  PROVE  /\ DOMAIN r = ScopesOf(e, U)
         /\ \A n \in DOMAIN r : r[n].code = ExitCode(e, r[n].out) /\ r[n].out = Told(e, U, n)
         /\ \A z : z \in ResultOut(r) <=> \E u \in U : z \in Finds(e, u)
         /\ \A z : z \in ResultOut(r) <=> \E n \in DOMAIN r : z \in r[n].out
<1>1. /\ DOMAIN r = ScopesOf(e, U)
      /\ \A n \in DOMAIN r : r[n].code = ExitCode(e, Told(e, U, n)) /\ r[n].out = Told(e, U, n)
  BY DEF WholeOf
<1>2. \A z : z \in ResultOut(r) <=> \E n \in DOMAIN r : z \in r[n].out
  BY DEF ResultOut
<1>3. ASSUME NEW z, NEW n \in DOMAIN r, z \in r[n].out
      PROVE  \E u \in U : z \in Finds(e, u)
  <2>1. z \in Told(e, U, n)
    BY <1>1, <1>3
  <2>2. PICK u \in UnitsIn(e, U, n) : z \in Finds(e, u)
    BY <2>1 DEF Told
  <2>. QED
    BY <1>1, <2>2, UnitsScoped
<1>4. ASSUME NEW z, NEW u \in U, z \in Finds(e, u)
      PROVE  \E n \in DOMAIN r : z \in r[n].out
  <2>1. PICK n \in ScopesOf(e, U) : u \in UnitsIn(e, U, n)
    BY UnitsScoped
  <2>2. z \in Told(e, U, n)
    BY <1>4, <2>1 DEF Told
  <2>. QED
    BY <1>1, <2>2
<1>. QED
  BY <1>1, <1>2, <1>3, <1>4

\* It exits 2 only when it is broken.
LEMMA WholeCode ==
  ASSUME NEW e \in Engines, NEW U \in SUBSET Plan[e], NEW r, r = WholeOf(e, U)
  PROVE  /\ ResultCode(r) \in {0, 1}
         /\ ResultCode(r) = 1 <=> \E n \in DOMAIN r : ExitCode(e, r[n].out) = 1
<1>1. \A n \in DOMAIN r : r[n].code = ExitCode(e, r[n].out)
  BY WholeParts
<1>2. \A out : ExitCode(e, out) \in {0, 1}
  BY DEF ExitCode
<1>. QED
  BY <1>1, <1>2 DEF ResultCode

\* Guilt shows in the result.
LEMMA WholeGuilt ==
  ASSUME NEW e \in Engines, NEW U \in SUBSET Plan[e], Covers(e, U), NEW r, r = WholeOf(e, U)
  PROVE  Guilty(e) <=> \E z \in ResultOut(r) :
                          z[2] = "error" \/ (z[2] = "bug" /\ ~(e \in PackageMode /\ z[1] \in Excluded))
<1>1. \A z : z \in ResultOut(r) <=> \E u \in U : z \in Finds(e, u)
  BY WholeParts
<1>2. ASSUME NEW u \in Plan[e], NEW z \in Finds(e, u), z[2] \in {"error", "bug"}
      PROVE  u \in U
  BY <1>2 DEF Covers, Spotless
<1>. QED
  BY <1>1, <1>2 DEF Guilty

\* A sound result blames the guilty, ...
LEMMA WholeBlames ==
  ASSUME NEW e \in Engines, NEW U \in SUBSET Plan[e], Covers(e, U), NEW r, r = WholeOf(e, U),
         ExcludedFiles(snap) = Excluded
  PROVE  BlamesIn(e, r) <=> Guilty(e)
<1> USE EnginesAssumption
<1>1. /\ ResultCode(r) \in {0, 1}
      /\ ResultCode(r) = 1 <=> \E n \in DOMAIN r : ExitCode(e, r[n].out) = 1
  BY WholeCode
<1>2. \A z : z \in ResultOut(r) <=> \E n \in DOMAIN r : z \in r[n].out
  BY WholeParts
<1>3. Guilty(e) <=> \E z \in ResultOut(r) :
                      z[2] = "error" \/ (z[2] = "bug" /\ ~(e \in PackageMode /\ z[1] \in Excluded))
  BY WholeGuilt
<1>4. Has(Filtered(e, ResultOut(r)), {"bug", "error"}) <=> Guilty(e)
  BY <1>3 DEF Has, Filtered
<1>5. ASSUME NEW n \in DOMAIN r, ExitCode(e, r[n].out) = 1
      PROVE  Guilty(e)
  <2>1. \E z \in r[n].out : z[2] = "error" \/ (z[2] = "bug" /\ e \notin PackageMode)
    BY <1>5 DEF ExitCode, Has
  <2>. QED
    BY <1>2, <1>3, <2>1
<1>6. ASSUME e \notin Json, Guilty(e)
      PROVE  ResultCode(r) = 1
  <2>1. PICK z \in ResultOut(r) : z[2] \in {"error", "bug"}
    BY <1>3, <1>6
  <2>2. z[2] = "bug"
    <3>1. PICK u \in U : z \in Finds(e, u)
      BY WholeParts
    <3>. QED
      BY <1>6, <2>1, <3>1, FindsFile
  <2>3. PICK n \in DOMAIN r : z \in r[n].out
    BY <1>2
  <2>4. ExitCode(e, r[n].out) = 1
    BY <1>6, <2>2, <2>3 DEF ExitCode, Has
  <2>. QED
    BY <1>1, <2>4
<1>. QED
  BY <1>1, <1>4, <1>5, <1>6 DEF BlamesIn

\* ... and has an issue for them and for nobody else.
LEMMA WholeIssues ==
  ASSUME NEW e \in Engines, NEW U \in SUBSET Plan[e], Covers(e, U), NEW r, r = WholeOf(e, U),
         ExcludedFiles(snap) = Excluded
  PROVE  EngineIssues(e, r) # {} <=> Guilty(e)
<1>1. \A n \in DOMAIN r : r[n].out = {} => r[n].code = 0
  <2>1. \A n \in DOMAIN r : r[n].code = ExitCode(e, r[n].out)
    BY WholeParts
  <2>. QED
    BY <2>1 DEF ExitCode, Has
<1>2. EngineIssues(e, r) # {} <=> \/ \E z \in Filtered(e, ResultOut(r)) : z[2] = "bug"
                                  \/ \E z \in ResultOut(r) : z[2] = "error"
  <2>1. {n \in DOMAIN r : r[n].code # 0 /\ r[n].out = {}} = {}
    BY <1>1
  <2>2. EngineIssues(e, r) = {<<e, z>> : z \in {y \in Filtered(e, ResultOut(r)) : y[2] = "bug"}}
                               \cup {<<e, z>> : z \in {y \in ResultOut(r) : y[2] = "error"}}
    BY <2>1 DEF EngineIssues
  <2>. QED
    BY <2>2
<1>3. Guilty(e) <=> \E z \in ResultOut(r) :
                      z[2] = "error" \/ (z[2] = "bug" /\ ~(e \in PackageMode /\ z[1] \in Excluded))
  BY WholeGuilt
<1>. QED
  BY <1>2, <1>3 DEF Filtered

\* An engine that did not run says nothing.
LEMMA NoResult ==
  ASSUME NEW e \in Engines
  PROVE  ~BlamesIn(e, <<>>) /\ EngineIssues(e, <<>>) = {} /\ ResultCode(<<>>) = 0
<1>1. ResultCode(<<>>) = 0 /\ ResultOut(<<>>) = {}
  BY DEF ResultCode, ResultOut
<1>2. Filtered(e, {}) = {}
  BY DEF Filtered
<1>3. ~BlamesIn(e, <<>>)
  BY <1>1, <1>2 DEF BlamesIn, Has
<1>4. EngineIssues(e, <<>>) = {}
  <2>1. {n \in DOMAIN <<>> : <<>>[n].code # 0 /\ <<>>[n].out = {}} = {}
    OBVIOUS
  <2>. QED
    BY <1>1, <1>2, <2>1, Zenon DEF EngineIssues
<1>. QED
  BY <1>1, <1>3, <1>4

\* The exit code of all engines.
LEMMA AggregateParts ==
  /\ AggregateExit(results) \in {0, 1, 2}
  /\ AggregateExit(results) # 0 <=> \E e \in Engines : BlamesIn(e, results[e])
  /\ AggregateExit(results) = 2 => \E e \in Engines : ResultCode(results[e]) = 2
<1>1. \A r : ResultCode(r) \in {0, 1, 2}
  BY DEF ResultCode
<1> DEFINE Promoted(e) == IF /\ ResultCode(results[e]) = 0 /\ e \in Json
                             /\ Has(Filtered(e, ResultOut(results[e])), {"bug", "error"})
                          THEN 1 ELSE ResultCode(results[e])
<1>2. \A e \in Engines : /\ Promoted(e) \in {0, 1, 2}
                         /\ Promoted(e) # 0 <=> BlamesIn(e, results[e])
                         /\ Promoted(e) = 2 => ResultCode(results[e]) = 2
  BY <1>1 DEF BlamesIn
<1>3. AggregateExit(results) = IF \E e \in Engines : Promoted(e) = 2 THEN 2
                               ELSE IF \E e \in Engines : Promoted(e) = 1 THEN 1 ELSE 0
  BY DEF AggregateExit
<1> HIDE DEF Promoted
<1>. QED
  BY <1>2, <1>3

\* A marker is for a unit without a finding.
LEMMA MarksSpotless ==
  ASSUME NEW e \in Engines, UnitsOf(e) \subseteq Plan[e], results[e] = WholeOf(e, UnitsOf(e)),
         NEW b \in CleanArgs(e, results[e])
  PROVE  Spotless(e, b[1])
<1> DEFINE r == results[e]
<1>1. b \in todo[e] /\ b[1] \in UnitsOf(e)
  BY DEF CleanArgs, UnitsOf
<1>2. \A z : z \in ResultOut(r) <=> \E u \in UnitsOf(e) : z \in Finds(e, u)
  BY WholeParts
<1>3. \A z \in ResultOut(r) :
         /\ z[2] # "error"
         /\ z[2] = "bug" => b[1] # IF e \in PackageMode THEN Home[z[1]] ELSE z[1]
  BY DEF CleanArgs, Has
<1>4. ASSUME NEW z \in Finds(e, b[1]), z[2] = "bug"
      PROVE  b[1] = IF e \in PackageMode THEN Home[z[1]] ELSE z[1]
  <2>1. CASE e \in PackageMode
    BY <1>4, <2>1, FindsPackage DEF PackageFiles
  <2>2. CASE e \notin PackageMode
    BY <2>2, FindsFile
  <2>. QED
    BY <2>1, <2>2
<1> HIDE DEF r
<1>. QED
  BY <1>1, <1>2, <1>3, <1>4 DEF Spotless

\* What an engine prints in a tree that nobody touched.
LEMMA OutcomeSound ==
  ASSUME Typed, NEW e \in Engines, tree = base, UnitsOf(e) \subseteq Plan[e], todo[e] # {},
         e \in LinkAware => links = Targets, NEW r \in Outcomes(e)
  PROVE  IF Broken(e) THEN ResultCode(r) = 2 ELSE r = WholeOf(e, UnitsOf(e))
<1>1. \A u : Diagnose(tree, e, links, u) = Finds(e, u)
  <2>1. CASE e \in LinkAware
    BY <2>1 DEF Finds
  <2>2. CASE e \notin LinkAware
    BY <2>2 DEF Finds, Diagnose, DeadLink
  <2>. QED
    BY <2>1, <2>2
<1>2. \A n : Says(e, n) = Told(e, UnitsOf(e), n)
  BY <1>1 DEF Says, Told, UnitsOf
<1>3. ScopesOf(e, UnitsOf(e)) # {}
  <2>1. UnitsOf(e) # {}
    BY DEF UnitsOf
  <2>. QED
    BY <2>1, UnitsScoped
<1>4. e \notin PackageMode => \A u \in UnitsOf(e) : Exists(tree, u)
  BY PlanFiles, AskedListed
<1> DEFINE scopes == ScopesOf(e, UnitsOf(e))
           Partly(printed) == [n \in scopes |-> [code |-> 2, out |-> Says(e, n) \cap printed]]
<1>5. \/ r = [n \in scopes |-> [code |-> 2, out |-> {}]] /\ Fails(e)
      \/ /\ \E printed : r = Partly(printed)
         /\ e \in opts.sick \/ (e \notin PackageMode /\ \E u \in UnitsOf(e) : ~Exists(tree, u))
      \/ /\ r = [n \in scopes |-> [code |-> ExitCode(e, Says(e, n)), out |-> Says(e, n)]]
         /\ ~Fails(e) /\ e \notin opts.sick
  BY Zenon DEF Outcomes, UnitsOf
<1>6. CASE r = [n \in scopes |-> [code |-> 2, out |-> {}]] /\ Fails(e)
  <2> HIDE DEF scopes
  <2>1. DOMAIN r = scopes /\ \A n \in scopes : r[n].code = 2
    BY <1>6
  <2>. QED
    BY <1>3, <1>6, <2>1 DEF scopes, Broken, ResultCode
<1>7. CASE /\ \E printed : r = Partly(printed)
           /\ e \in opts.sick \/ (e \notin PackageMode /\ \E u \in UnitsOf(e) : ~Exists(tree, u))
  <2> HIDE DEF scopes
  <2>1. PICK printed : r = Partly(printed)
    BY <1>7
  <2>2. DOMAIN r = scopes /\ \A n \in scopes : r[n].code = 2
    BY <2>1
  <2>. QED
    BY <1>3, <1>4, <1>7, <2>2 DEF scopes, Broken, ResultCode
<1>8. CASE /\ r = [n \in scopes |-> [code |-> ExitCode(e, Says(e, n)), out |-> Says(e, n)]]
           /\ ~Fails(e) /\ e \notin opts.sick
  BY <1>2, <1>8 DEF WholeOf, Broken
<1>. QED
  BY <1>5, <1>6, <1>7, <1>8

-----------------------------------------------------------------------------
(* The run tells the truth.                                                *)

\* What the tree asks of the engines does not change.
LEMMA Fixed ==
  ASSUME UNCHANGED <<base, opts>>
  PROVE  /\ Different' = Different /\ Listed' = Listed /\ Excluded' = Excluded
         /\ Targets' = Targets /\ Plan' = Plan
         /\ \A e, u : Spotless(e, u)' <=> Spotless(e, u)
         /\ \A e, U : Covers(e, U)' <=> Covers(e, U)
         /\ \A e, U, r : Heard(e, U, r)' <=> Heard(e, U, r)
         /\ \A e : Guilty(e)' <=> Guilty(e)
         /\ \A e : Broken(e)' <=> Broken(e)
         /\ (Acquitted' <=> Acquitted) /\ (Convicted' <=> Convicted) /\ (Healthy' <=> Healthy)
<1>1. /\ Different' = Different /\ Listed' = Listed /\ Excluded' = Excluded
      /\ Targets' = Targets
  BY DEF Different, Listed, Excluded, Targets
<1>2. Plan' = Plan
  <2>1. Asked' = Asked
    BY <1>1 DEF Asked
  <2>. QED
    BY <2>1 DEF Plan
<1>3. \A e, u : Finds(e, u)' = Finds(e, u)
  BY <1>1 DEF Finds
<1>4. \A e, u : Spotless(e, u)' <=> Spotless(e, u)
  BY <1>3 DEF Spotless
<1>5. \A e, U : Covers(e, U)' <=> Covers(e, U)
  BY <1>2, <1>4 DEF Covers
<1>6. \A e : Broken(e)' <=> Broken(e)
  BY DEF Broken, Fails
<1>7. \A e, U : WholeOf(e, U)' = WholeOf(e, U)
  <2>1. \A e, U, n : Told(e, U, n)' = Told(e, U, n)
    BY <1>3 DEF Told
  <2>. QED
    BY <2>1 DEF WholeOf
<1>8. \A e, U, r : Heard(e, U, r)' <=> Heard(e, U, r)
  BY <1>2, <1>5, <1>6, <1>7 DEF Heard
<1>9. \A e : Guilty(e)' <=> Guilty(e)
  BY <1>1, <1>2, <1>3 DEF Guilty
<1>10. (Acquitted' <=> Acquitted) /\ (Convicted' <=> Convicted)
  BY <1>2, <1>6, <1>9 DEF Acquitted, Convicted
<1>11. Healthy' <=> Healthy
  BY <1>1 DEF Healthy
<1>. QED
  BY <1>1, <1>2, <1>4, <1>5, <1>6, <1>8, <1>9, <1>10, <1>11

\* A run that fails to go on says so, and has a reason.
LEMMA TruthFails ==
  ASSUME Truth, Run, pc' = "done", how' # "verdict", UNCHANGED <<listing, engine>>,
         Healthy => Refused(opts.scope) \/ Candidates = {} \/ ReportersRefused(base)
  PROVE  Truth'
<1>1. UNCHANGED <<world, base, opts>>
  BY RunKeeps
<1>2. Inventory'
  BY <1>1 DEF Truth, Inventory, Before, world
<1>3. Schedule'
  BY <1>1, Fixed DEF Truth, Schedule, engine
<1>4. Testimony'
  BY DEF Testimony, Before
<1>5. Verdict' /\ Story'
  BY DEF Verdict, Story
<1>6. Candidates' = Candidates
  BY <1>1 DEF Candidates, listing
<1>7. Served'
  BY <1>1, <1>6, Fixed DEF Served
<1>. QED
  BY <1>2, <1>3, <1>4, <1>5, <1>7 DEF Truth

\* Before the plan only the lists grow.
LEMMA TruthEarly ==
  ASSUME Truth, Run, pc \in Before \cup {"attrs"}, pc' \in Before \cup {"attrs", "plan"},
         UNCHANGED <<pass, engine, answer>>, Inventory'
  PROVE  Truth'
<1>1. UNCHANGED <<world, base, opts>>
  BY RunKeeps
<1>2. Schedule'
  BY <1>1, Fixed DEF Truth, Schedule, engine, Before
<1>3. Testimony'
  BY DEF Truth, Testimony, engine, Before
<1>4. Verdict'
  BY <1>1, Fixed DEF Truth, Verdict, answer, Before
<1>5. Story' /\ Served'
  BY DEF Story, Served, Before
<1>. QED
  BY <1>2, <1>3, <1>4, <1>5 DEF Truth

\* The listings.
LEMMA TruthListing ==
  ASSUME Typed, Orderly, Truth,
         \/ FindRepoRoot \/ DiffDirty \/ DiffUntracked \/ ListStage \/ ListOthers
         \/ Prune \/ CheckAttr
  PROVE  Truth'
<1> USE DEF Before
<1>1. Run
  BY DEF Run
<1>2. UNCHANGED <<world, base, opts>>
  BY <1>1, RunKeeps
<1>3. /\ tree = base /\ tree' = base
      /\ Different' = Different /\ Listed' = Listed /\ Excluded' = Excluded
  BY <1>2, Fixed DEF Truth, Inventory, world
<1>4. Inventory
  BY DEF Truth
<1>5. ASSUME Refuse \/ Traceback, ~Healthy
      PROVE  Truth'
  BY <1>1, <1>5, TruthFails DEF Refuse, Traceback, End
<1>6. opts.faults => ~Healthy
  BY DEF Healthy
<1>7. CASE FindRepoRoot
  <2>1. CASE opts.machine.git
    <3>1. /\ pc = "begin" /\ pc' = IF opts.mode = "all" THEN "stage" ELSE "diff"
          /\ UNCHANGED <<pass, listing, engine, answer>>
      BY <1>7, <2>1 DEF FindRepoRoot, Traceback
    <3>2. opts.mode = "all" => dirty = Different
      BY DEF Orderly, Different
    <3>3. Inventory'
      BY <1>2, <1>3, <3>1, <3>2 DEF Inventory, listing
    <3>. QED
      BY <1>1, <3>1, <3>3, TruthEarly
  <2>2. CASE ~opts.machine.git
    <3>1. ~Healthy
      BY <2>2 DEF Healthy, DoctorOk
    <3>. QED
      BY <1>5, <1>7, <2>2, <3>1 DEF FindRepoRoot
  <2>. QED
    BY <2>1, <2>2
<1>8. CASE opts.faults /\ (Refuse \/ Traceback)
  BY <1>5, <1>6, <1>8
<1>9. CASE ~(opts.faults /\ (Refuse \/ Traceback))
  <2>1. CASE DiffDirty
    <3>1. /\ pc = "diff" /\ dirty' = DiffHead(tree) /\ pc' = "untracked"
          /\ UNCHANGED <<pass, stage, others, snap, engine, answer>>
      BY <1>9, <2>1 DEF DiffDirty
    <3>2. Inventory'
      BY <1>2, <1>3, <3>1 DEF Inventory
    <3>. QED
      BY <1>1, <3>1, <3>2, TruthEarly
  <2>2. CASE DiffUntracked
    <3>1. /\ pc = "untracked" /\ pc' = "stage"
          /\ dirty' = dirty \cup LsFilesOthers(tree) \cup (IF opts.mode = "since" THEN Branch ELSE {})
          /\ UNCHANGED <<pass, stage, others, snap, engine, answer>>
      BY <1>9, <2>2 DEF DiffUntracked
    <3>2. dirty' = Different
      BY <1>3, <1>4, <3>1 DEF Inventory, Orderly, Different
    <3>3. Inventory'
      BY <1>2, <1>3, <3>1, <3>2 DEF Inventory
    <3>. QED
      BY <1>1, <3>1, <3>3, TruthEarly
  <2>3. CASE ListStage
    <3>1. /\ pc = "stage" /\ pc' = "others" /\ stage' = LsFilesStage(tree)
          /\ UNCHANGED <<pass, dirty, others, snap, engine, answer>>
      BY <1>9, <2>3 DEF ListStage
    <3>2. Inventory'
      BY <1>2, <1>3, <1>4, <3>1 DEF Inventory
    <3>. QED
      BY <1>1, <3>1, <3>2, TruthEarly
  <2>4. CASE ListOthers
    <3>1. /\ pc = "others" /\ pc' = "prune" /\ others' = LsFilesOthers(tree)
          /\ UNCHANGED <<pass, dirty, stage, snap, engine, answer>>
      BY <2>4 DEF ListOthers
    <3>2. Inventory'
      BY <1>2, <1>3, <1>4, <3>1 DEF Inventory
    <3>. QED
      BY <1>1, <3>1, <3>2, TruthEarly
  <2>5. CASE Prune
    <3>1. /\ pc = "prune" /\ pc' = "attrs" /\ snap'.included = FilterSourceSet(stage, others, tree)
          /\ UNCHANGED <<pass, dirty, engine, answer>>
      BY <2>5 DEF Prune
    <3>2. snap'.included = Listed
      BY <1>3, <1>4, <3>1 DEF Inventory, Listed
    <3>3. Inventory'
      BY <1>2, <1>3, <1>4, <3>1, <3>2 DEF Inventory
    <3>. QED
      BY <1>1, <3>1, <3>3, TruthEarly
  <2>6. CASE CheckAttr
    <3>1. /\ pc = "attrs" /\ pc' = "plan" /\ UNCHANGED <<pass, dirty, engine, answer>>
          /\ snap' = BuildSnapshot(snap.included, ParseCheckAttr(tree, snap.included), snap.warnings)
      BY <1>9, <2>6 DEF CheckAttr
    <3> DEFINE marked == ParseCheckAttr(base, Listed)
    <3>2. snap' = BuildSnapshot(Listed, marked, snap.warnings)
      BY <1>3, <1>4, <3>1 DEF Inventory
    <3>3. /\ DOMAIN marked = Excluded
          /\ \A p \in DOMAIN marked : marked[p] \subseteq Attributes /\ marked[p] # {}
      BY ListedParts DEF ParseCheckAttr, Excluded
    <3> HIDE DEF marked
    <3>4. snap'.included = Listed \ Excluded /\ ExcludedFiles(snap') = Excluded
      <4>1. snap'.included = Listed \ Excluded
        BY <3>2, <3>3 DEF BuildSnapshot
      <4>2. snap'.pairs = {z \in Listed \X Attributes : z[1] \in DOMAIN marked /\ z[2] \in marked[z[1]]}
        BY <3>2 DEF BuildSnapshot
      <4>3. ASSUME NEW p \in Excluded
            PROVE  p \in ExcludedFiles(snap')
        <5>1. PICK b \in Attributes : b \in marked[p]
          BY <3>3
        <5>2. <<p, b>> \in snap'.pairs
          BY <3>3, <4>2, <5>1 DEF Excluded
        <5>. QED
          BY <5>2 DEF ExcludedFiles
      <4>4. ExcludedFiles(snap') \subseteq Excluded
        BY <3>3, <4>2 DEF ExcludedFiles
      <4>. QED
        BY <4>1, <4>3, <4>4
    <3>5. Inventory'
      BY <1>2, <1>3, <1>4, <3>1, <3>4 DEF Inventory, ExcludedFiles
    <3>. QED
      BY <1>1, <3>1, <3>5, TruthEarly
  <2>7. CASE FindRepoRoot
    BY <1>7, <2>7
  <2>. QED
    BY <2>1, <2>2, <2>3, <2>4, <2>5, <2>6, <2>7
<1>. QED
  BY <1>8, <1>9

\* From the plan to the last engine only the engines' side changes.
LEMMA TruthMiddle ==
  ASSUME Truth, Run, pc \notin Before \cup {"attrs", "done"},
         pc' \in {"links", "store", "digest", "engines", "settle"},
         UNCHANGED <<pass, dirty, snap, answer>>, Schedule', Testimony'
  PROVE  Truth'
<1>1. UNCHANGED <<world, base, opts>>
  BY RunKeeps
<1>2. Inventory'
  BY <1>1, Fixed DEF Truth, Inventory, world, ExcludedFiles, Before
<1>3. Verdict'
  BY <1>1, Fixed DEF Truth, Verdict, answer
<1>4. Story' /\ Served'
  BY DEF Story, Served
<1>. QED
  BY <1>2, <1>3, <1>4 DEF Truth

\* At the plan.
LEMMA TruthPlan ==
  ASSUME Typed, Orderly, Truth, PlanEngines
  PROVE  Truth'
<1> USE DEF Before
<1>1. Run
  BY DEF Run
<1>2. UNCHANGED <<world, base, opts>>
  BY <1>1, RunKeeps
<1>3. pc = "plan" /\ tree = base /\ results = Silent
  BY DEF PlanEngines, Truth, Inventory, Testimony
<1>4. Candidates \ ExcludedFiles(snap) = Asked
  BY <1>3, CandidatesAsked DEF Truth, Inventory
<1>5. Planned = Plan
  BY <1>3, <1>4 DEF Planned, Plan
<1>6. CASE Refuse
  <2>1. Healthy => Refused(opts.scope) \/ Candidates = {} \/ ReportersRefused(base)
    BY <1>3, <1>6 DEF PlanEngines, Refuse, Traceback, End, Healthy
  <2>. QED
    BY <1>1, <1>6, <2>1, TruthFails DEF Refuse, End
<1>7. CASE Traceback
  <2>1. LacksGo
    BY <1>7 DEF PlanEngines, Traceback, End, Refuse
  <2>2. PICK e \in PackageMode : Dispatch(Asked)[e] # {}
    BY <1>4, <2>1 DEF LacksGo
  <2>3. GoPackages(Asked \cap Lints[e]) # {}
    BY <2>2, EnginesAssumption DEF Dispatch
  <2>4. PICK p \in Asked : p \in GoFiles
    BY <2>3 DEF GoPackages
  <2>5. p \in (Listed \ Excluded) \cap GoFiles
    BY <2>4, AskedListed
  <2>6. ~Healthy
    BY <2>1, <2>5 DEF Healthy, DoctorOk, CheckGoToolchain, LacksGo
  <2>. QED
    BY <1>1, <1>7, <2>6, TruthFails DEF Traceback, End
<1>8. CASE ~Refuse /\ ~Traceback
  <2>1. /\ todo' = [e \in Engines |-> Plan[e] \X {NoDigest}]
        /\ pc' = IF \A e \in Engines : Plan[e] = {} THEN "settle"
                 ELSE IF \E e \in LinkAware : Plan[e] # {} THEN "links" ELSE "store"
        /\ UNCHANGED <<pass, dirty, snap, clean, results, answer>>
    BY <1>5, <1>8 DEF PlanEngines, listing
  <2>2. \A e \in Engines : UnitsOf(e)' = Plan[e]
    <3> SUFFICES ASSUME NEW e \in Engines PROVE {b[1] : b \in todo'[e]} = Plan[e]
      BY DEF UnitsOf
    <3>1. todo'[e] = Plan[e] \X {NoDigest}
      BY <2>1
    <3>2. \A u \in Plan[e] : <<u, NoDigest>> \in todo'[e] /\ <<u, NoDigest>>[1] = u
      BY <3>1
    <3>3. \A b \in todo'[e] : b[1] \in Plan[e]
      BY <3>1
    <3>. QED
      BY <3>2, <3>3
  <2>3. Schedule'
    <3>1. pc' = "store" => ~\E e \in LinkAware : Plan[e] # {}
      BY <2>1
    <3>. QED
      BY <1>2, <2>1, <2>2, <3>1, Fixed DEF Truth, Schedule
  <2>4. Testimony'
    <3>1. \A e \in Engines : results'[e] = <<>>
      BY <1>3, <2>1 DEF Silent
    <3>. QED
      BY <1>2, <1>3, <2>1, <3>1, Fixed DEF Testimony
  <2>. QED
    BY <1>1, <1>3, <2>1, <2>3, <2>4, TruthMiddle
<1>. QED
  BY <1>6, <1>7, <1>8

\* The link targets and the store.
LEMMA TruthReady ==
  ASSUME Typed, Orderly, Truth, ListLinkTargets \/ EnsurePayloads
  PROVE  Truth'
<1> USE DEF Before
<1>1. Run
  BY DEF Run
<1>2. UNCHANGED <<world, base, opts>>
  BY <1>1, RunKeeps
<1>3. CASE ListLinkTargets
  <2>1. CASE Traceback
    <3>1. ~Healthy
      BY <1>3, <2>1 DEF ListLinkTargets, Traceback, End, Healthy
    <3>. QED
      BY <1>1, <2>1, <3>1, TruthFails DEF Traceback, End
  <2>2. CASE ~Traceback
    <3>1. /\ pc = "links" /\ pc' = "store" /\ links' = Targets
          /\ UNCHANGED <<pass, dirty, snap, todo, clean, results, answer>>
      BY <1>3, <2>2 DEF ListLinkTargets, Truth, Inventory, Targets, engine
    <3>2. Schedule'
      BY <1>2, <3>1, Fixed DEF Truth, Schedule, UnitsOf
    <3>3. Testimony'
      BY <3>1 DEF Truth, Testimony
    <3>. QED
      BY <1>1, <3>1, <3>2, <3>3, TruthMiddle
  <2>. QED
    BY <2>1, <2>2
<1>4. CASE EnsurePayloads
  <2>1. CASE pc' = "done"
    <3>1. Refuse /\ \E p \in Payloads : ~Ensured(opts.machine, p)
      BY <1>4, <2>1 DEF EnsurePayloads
    <3>2. ~Healthy
      BY <3>1 DEF Healthy, DoctorOk, CheckStore
    <3>. QED
      BY <1>1, <3>1, <3>2, TruthFails DEF Refuse, End
  <2>2. CASE pc' # "done"
    <3>1. /\ pc = "store" /\ pc' = "digest"
          /\ UNCHANGED <<pass, dirty, snap, links, todo, clean, results, answer>>
      BY <1>4, <2>2 DEF EnsurePayloads, Refuse, End, listing, engine
    <3>2. Schedule'
      BY <1>2, <3>1, Fixed DEF Truth, Schedule, UnitsOf
    <3>3. Testimony'
      BY <3>1 DEF Truth, Testimony
    <3>. QED
      BY <1>1, <3>1, <3>2, <3>3, TruthMiddle
  <2>. QED
    BY <2>1, <2>2
<1>. QED
  BY <1>3, <1>4

\* On a machine that doctor passes, an engine with something to lint starts.
LEMMA HealthyEngine ==
  ASSUME Typed, Healthy, NEW e \in Engines, Plan[e] # {}
  PROVE  ~Absent(e) /\ ~Broken(e)
<1>1. \A x \in Parts : PartOf(opts.machine, x) = "pinned"
  BY DEF Healthy, DoctorOk, CheckPayloadChecksums
<1>2. \A x \in Tools[e] : x \in Parts /\ Starts(opts.machine, x)
  <2> SUFFICES ASSUME NEW x \in Tools[e] PROVE x \in Parts /\ Starts(opts.machine, x)
    OBVIOUS
  <2>1. x \in Parts
    BY EnginesAssumption
  <2>2. PICK z \in Probed : Top[z] = Top[x]
    BY EnginesAssumption
  <2>3. Starts(opts.machine, z)
    BY DEF Healthy, DoctorOk, CheckBinariesStart
  <2>. QED
    BY <1>1, <2>1, <2>2, <2>3 DEF Starts
<1>3. e \in JavaRun => opts.machine.java >= JavaMinMajor
  <2> SUFFICES ASSUME e \in JavaRun PROVE opts.machine.java >= JavaMinMajor
    OBVIOUS
  <2>1. PICK p \in Asked : p \in Lints[e]
    BY EnginesAssumption, PlanFiles
  <2>2. p \in (Listed \ Excluded) \cap JavaFiles
    BY <2>1, AskedListed, EnginesAssumption
  <2>. QED
    BY <2>2 DEF Healthy, DoctorOk, CheckJavaToolchain
<1>4. e \in JavaRun => opts.machine.java # 0 /\ ~(opts.machine.java < JavaMinMajor)
  BY <1>3 DEF JavaMinMajor, Typed
<1>5. ~Absent(e)
  BY <1>1, <1>2, <1>4 DEF Absent
<1>6. ~Fails(e)
  BY <1>2, <1>4 DEF Fails
<1>. QED
  BY <1>5, <1>6 DEF Broken, Healthy

\* The digests and the markers.
LEMMA TruthWarm ==
  ASSUME Typed, Orderly, Truth, DigestUnits, ~Refuse
  PROVE  Truth'
<1> USE DEF Before
<1>1. Run
  BY DEF Run
<1>2. UNCHANGED <<world, base, opts>>
  BY <1>1, RunKeeps
<1>3. pc = "digest" /\ tree = base /\ results = Silent /\ \A e \in Engines : UnitsOf(e) = Plan[e]
  BY DEF DigestUnits, Truth, Inventory, Testimony, Schedule
<1>4. ~Vanished
  <2> SUFFICES ASSUME NEW e \in Cacheable \ PackageMode, NEW b \in todo[e] PROVE Exists(tree, b[1])
    BY DEF Vanished
  <2>1. e \in Engines /\ b[1] \in UnitsOf(e)
    BY EnginesAssumption DEF UnitsOf
  <2>2. b[1] \in Asked
    BY <1>3, <2>1, PlanFiles
  <2>. QED
    BY <1>3, <2>2, AskedListed
<1>5. /\ pc' = "engines" /\ UNCHANGED <<pass, dirty, snap, links, clean, results, answer>>
  BY <1>4 DEF DigestUnits, listing, engine
<1>6. ASSUME NEW e \in Engines
      PROVE  /\ UnitsOf(e)' \subseteq Plan[e]
             /\ \A u \in Plan[e] \ UnitsOf(e)' : \E c \in clean : c[1] = e /\ c[2][1] = u
  <2>1. CASE todo' = todo
    BY <1>3, <2>1 DEF UnitsOf
  <2>2. CASE todo' # todo
    <3> DEFINE Digested == {<<b[1], Digest(tree, e, b[1])>> : b \in todo[e]}
    <3>1. todo'[e] = IF e \in Cacheable THEN {b \in Digested : <<e, b>> \notin clean} ELSE todo[e]
      BY <1>4, <2>2 DEF DigestUnits, engine
    <3>2. CASE e \in Cacheable
      <4>1. \A b \in todo'[e] : b[1] \in UnitsOf(e)
        BY <3>1, <3>2 DEF UnitsOf
      <4>2. ASSUME NEW u \in Plan[e], u \notin UnitsOf(e)'
            PROVE  \E c \in clean : c[1] = e /\ c[2][1] = u
        <5>1. PICK b \in todo[e] : b[1] = u
          BY <1>3 DEF UnitsOf
        <5>2. <<u, Digest(tree, e, u)>> \in Digested
          BY <5>1
        <5>3. <<u, Digest(tree, e, u)>> \notin todo'[e]
          BY <4>2 DEF UnitsOf
        <5>4. <<e, <<u, Digest(tree, e, u)>>>> \in clean
          BY <3>1, <3>2, <5>2, <5>3
        <5>. QED
          BY <5>4
      <4>. QED
        BY <1>3, <4>1, <4>2 DEF UnitsOf
    <3>3. CASE e \notin Cacheable
      BY <1>3, <3>1, <3>3 DEF UnitsOf
    <3>. QED
      BY <3>2, <3>3
  <2>. QED
    BY <2>1, <2>2
<1>7. \A e \in Engines : Covers(e, UnitsOf(e)') /\ (pass = 1 => UnitsOf(e)' = Plan[e])
  <2>1. \A c \in clean : Spotless(c[1], c[2][1])
    BY DEF Truth, Schedule
  <2>2. pass = 1 => clean = {}
    BY <1>3 DEF Orderly
  <2>. QED
    BY <1>6, <2>1, <2>2 DEF Covers
<1>8. Schedule'
  <2>1. \A e \in Engines : Covers(e, UnitsOf(e))' /\ (pass' = 1 => UnitsOf(e)' = Plan'[e])
    BY <1>2, <1>5, <1>7, Fixed DEF Covers
  <2>. QED
    BY <1>2, <1>3, <1>5, <2>1, Fixed DEF Truth, Schedule
<1>9. Testimony'
  BY <1>3, <1>5 DEF Testimony, Silent
<1>. QED
  BY <1>1, <1>3, <1>5, <1>8, <1>9, TruthMiddle

\* A digest that cannot be made: on a machine that doctor passes, java tells its
\* version.
LEMMA TruthDigest ==
  ASSUME Typed, Orderly, Truth, DigestUnits
  PROVE  Truth'
<1>1. CASE Refuse
  <2>1. RuntimeUnknown \/ opts.faults \/ ~Refuse
    BY <1>1 DEF DigestUnits, Refuse, Traceback, End
  <2>2. ASSUME RuntimeUnknown, Healthy PROVE FALSE
    <3>1. PICK e \in Cacheable \cap JavaRun : todo[e] # {}
      BY <2>2 DEF RuntimeUnknown
    <3>2. e \in Engines /\ UnitsOf(e) # {}
      BY <3>1, EnginesAssumption DEF UnitsOf
    <3>3. UnitsOf(e) = Plan[e]
      BY <3>2 DEF DigestUnits, Truth, Schedule
    <3>4. Absent(e)
      BY <2>2, <3>1 DEF RuntimeUnknown, Absent
    <3>. QED
      BY <2>2, <3>2, <3>3, <3>4, HealthyEngine
  <2>3. ~Healthy
    BY <1>1, <2>1, <2>2 DEF Healthy
  <2>4. Run
    BY DEF Run
  <2>. QED
    BY <1>1, <2>3, <2>4, TruthFails DEF Refuse, End
<1>. QED
  BY <1>1, TruthWarm

\* The engines run.
LEMMA TruthEngine ==
  ASSUME Typed, Orderly, Truth, NEW f \in Engines, RunEngine(f)
  PROVE  Truth'
<1> USE DEF Before
<1>1. Run
  BY DEF Run
<1>2. UNCHANGED <<world, base, opts>>
  BY <1>1, RunKeeps
<1>3. /\ pc = "engines" /\ tree = base /\ todo[f] # {}
      /\ \A e \in Engines : Covers(e, UnitsOf(e))
  BY DEF RunEngine, Truth, Inventory, Schedule
<1>4. Plan[f] # {}
  <2>1. UnitsOf(f) # {}
    BY <1>3 DEF UnitsOf
  <2>. QED
    BY <1>3, <2>1 DEF Covers
<1>5. CASE Traceback
  <2>1. Absent(f)
    BY <1>3, <1>5 DEF RunEngine, Traceback, End
  <2>. QED
    BY <1>1, <1>4, <1>5, <2>1, HealthyEngine, TruthFails DEF Traceback, End
<1>6. CASE ~Traceback
  <2>1. /\ pc' = "engines" /\ UNCHANGED <<pass, dirty, snap, links, todo, clean, answer>>
        /\ \E r \in Outcomes(f) : results' = [results EXCEPT ![f] = r]
    BY <1>3, <1>6 DEF RunEngine, listing
  <2>2. PICK r \in Outcomes(f) : results' = [results EXCEPT ![f] = r]
    BY <2>1
  <2>3. f \in LinkAware => links = Targets
    BY <1>3, <1>4 DEF Truth, Schedule
  <2>4. Heard(f, UnitsOf(f), r)
    <3>1. UnitsOf(f) \subseteq Plan[f]
      BY <1>3 DEF Covers
    <3>2. IF Broken(f) THEN ResultCode(r) = 2 ELSE r = WholeOf(f, UnitsOf(f))
      BY <1>3, <2>3, <3>1, OutcomeSound
    <3>. QED
      BY <1>3, <1>4, <3>2 DEF Heard
  <2>5. \A e \in Engines : UnitsOf(e)' = UnitsOf(e)
    BY <2>1 DEF UnitsOf
  <2>6. Schedule'
    BY <1>2, <1>3, <2>1, <2>5, Fixed DEF Truth, Schedule
  <2>7. \A e \in Engines : results'[e] = <<>> \/ Heard(e, UnitsOf(e), results'[e])
    <3> SUFFICES ASSUME NEW e \in Engines PROVE results'[e] = <<>> \/ Heard(e, UnitsOf(e), results'[e])
      OBVIOUS
    <3>1. CASE e = f
      BY <2>2, <2>4, <3>1 DEF Typed
    <3>2. CASE e # f
      BY <1>3, <2>2, <3>2 DEF Typed, Truth, Testimony
    <3>. QED
      BY <3>1, <3>2
  <2>8. Testimony'
    <3>1. \A e \in Engines : results'[e] = <<>> \/ Heard(e, UnitsOf(e), results[e])'
      BY <1>2, <2>5, <2>7, Fixed
    <3>. QED
      BY <2>1, <3>1 DEF Testimony
  <2>. QED
    BY <1>1, <1>3, <2>1, <2>6, <2>8, TruthMiddle
<1>. QED
  BY <1>5, <1>6

\* They are done, and leave markers.
LEMMA TruthMarks ==
  ASSUME Typed, Orderly, Truth, EnginesDone
  PROVE  Truth'
<1> USE DEF Before
<1>1. Run
  BY DEF Run
<1>2. UNCHANGED <<world, base, opts>>
  BY <1>1, RunKeeps
<1>3. /\ pc = "engines" /\ pc' = "settle" /\ Ran
      /\ clean' = IF opts.cached THEN clean \cup Marks(results) ELSE clean
      /\ UNCHANGED <<pass, dirty, snap, results, answer>>
  BY DEF EnginesDone, listing
<1>4. \A e \in Engines : /\ Covers(e, UnitsOf(e)) /\ (pass = 1 => UnitsOf(e) = Plan[e])
                         /\ results[e] = <<>> \/ Heard(e, UnitsOf(e), results[e])
  BY <1>3 DEF Truth, Schedule, Testimony
<1>5. ASSUME NEW c \in clean'
      PROVE  Spotless(c[1], c[2][1])
  <2>1. CASE c \in clean
    BY <2>1 DEF Truth, Schedule
  <2>2. CASE c \notin clean
    <3>1. PICK e \in Cacheable : \E b \in CleanArgs(e, results[e]) : c = <<e, b>>
      BY <1>3, <2>2 DEF Marks
    <3>2. PICK b \in CleanArgs(e, results[e]) : c = <<e, b>>
      BY <3>1
    <3>3. e \in Engines
      BY EnginesAssumption
    <3>4. b \in todo[e] /\ ResultCode(results[e]) = 0
      BY DEF CleanArgs
    <3>5. Heard(e, UnitsOf(e), results[e])
      BY <1>3, <1>4, <3>3, <3>4 DEF Ran
    <3>6. results[e] = WholeOf(e, UnitsOf(e)) /\ UnitsOf(e) \subseteq Plan[e]
      BY <3>4, <3>5 DEF Heard, Covers
    <3>7. Spotless(e, b[1])
      BY <3>3, <3>6, MarksSpotless
    <3>. QED
      BY <3>2, <3>7
  <2>. QED
    BY <2>1, <2>2
<1>6. Schedule'
  BY <1>2, <1>3, <1>5, Fixed DEF Schedule
<1>7. ASSUME NEW e \in Engines
      PROVE  \/ /\ results'[e] = <<>> /\ \A u \in Plan[e] : Spotless(e, u)
                /\ pass' = 1 => Plan[e] = {}
             \/ \E U \in SUBSET Plan[e] : Heard(e, U, results'[e])
  <2>1. CASE results[e] = <<>>
    <3>1. UnitsOf(e) = {}
      BY <1>3, <2>1 DEF Ran, UnitsOf
    <3>. QED
      BY <1>3, <1>4, <2>1, <3>1 DEF Covers
  <2>2. CASE Heard(e, UnitsOf(e), results[e])
    BY <1>3, <1>4, <2>2 DEF Covers
  <2>. QED
    BY <1>4, <2>1, <2>2
<1>8. Testimony'
  BY <1>2, <1>3, <1>7, Fixed DEF Testimony
<1>. QED
  BY <1>1, <1>3, <1>6, <1>8, TruthMiddle

\* A result that blames nobody acquits, and one that blames convicts.
LEMMA HeardParts ==
  ASSUME NEW e \in Engines, NEW U \in SUBSET Plan[e], NEW r, Heard(e, U, r),
         ExcludedFiles(snap) = Excluded
  PROVE  /\ BlamesIn(e, r) <=> Guilty(e) \/ Broken(e)
         /\ ResultCode(r) = 2 => Broken(e)
         /\ ~Broken(e) => (EngineIssues(e, r) # {} <=> Guilty(e))
<1>1. CASE Broken(e)
  BY <1>1 DEF Heard, BlamesIn
<1>2. CASE ~Broken(e)
  <2>1. Covers(e, U) /\ r = WholeOf(e, U)
    BY <1>2 DEF Heard
  <2>2. BlamesIn(e, r) <=> Guilty(e)
    BY <2>1, WholeBlames
  <2>3. ResultCode(r) # 2
    BY <2>1, WholeCode
  <2>4. EngineIssues(e, r) # {} <=> Guilty(e)
    BY <2>1, WholeIssues
  <2>. QED
    BY <1>2, <2>2, <2>3, <2>4
<1>. QED
  BY <1>1, <1>2

\* The console's exit code.
LEMMA TruthConsole ==
  ASSUME Typed, Orderly, Truth, Console
  PROVE  Truth'
<1> USE DEF Before
<1>1. Run
  BY DEF Run
<1>2. UNCHANGED <<world, base, opts>>
  BY <1>1, RunKeeps
<1>3. /\ pc = "settle" /\ pass = 1 /\ how = "verdict"
      /\ ExcludedFiles(snap) = Excluded
  BY DEF Console, Truth, Inventory, Verdict
<1>4. \A e \in Engines :
         \/ results[e] = <<>> /\ Plan[e] = {}
         \/ \E U \in SUBSET Plan[e] : Heard(e, U, results[e])
  BY <1>3 DEF Truth, Testimony
<1>5. CASE pc' = "done"
  <2>1. opts.faults /\ End(141, "pipe") /\ UNCHANGED <<listing, engine>>
    BY <1>5 DEF Console
  <2>. QED
    BY <1>1, <2>1, TruthFails DEF End, Healthy
<1>6. CASE pc' # "done"
  <2>1. /\ code' = AggregateExit(results) /\ pc' = "approve"
        /\ UNCHANGED <<pass, dirty, snap, todo, clean, results, how, debt, report>>
    BY <1>6 DEF Console, End, listing, engine
  <2>2. \A e \in Engines : /\ BlamesIn(e, results[e]) <=> Guilty(e) \/ (Plan[e] # {} /\ Broken(e))
                           /\ ResultCode(results[e]) = 2 => Plan[e] # {} /\ Broken(e)
    <3> SUFFICES ASSUME NEW e \in Engines
                 PROVE  /\ BlamesIn(e, results[e]) <=> Guilty(e) \/ (Plan[e] # {} /\ Broken(e))
                        /\ ResultCode(results[e]) = 2 => Plan[e] # {} /\ Broken(e)
      OBVIOUS
    <3>1. CASE results[e] = <<>> /\ Plan[e] = {}
      BY <3>1, NoResult DEF Guilty
    <3>2. CASE \E U \in SUBSET Plan[e] : Heard(e, U, results[e])
      <4>1. PICK U \in SUBSET Plan[e] : Heard(e, U, results[e])
        BY <3>2
      <4>2. Plan[e] # {}
        BY <4>1 DEF Heard
      <4>. QED
        BY <1>3, <4>1, <4>2, HeardParts
    <3>. QED
      BY <1>4, <3>1, <3>2
  <2>3. /\ code' = 0 => Acquitted
        /\ code' # 0 => Convicted
        /\ code' # 0 => code' = 1 \/ (code' = 2 /\ \E e \in Engines : Plan[e] # {} /\ Broken(e))
    BY <2>1, <2>2, AggregateParts DEF Acquitted, Convicted
  <2>4. Inventory'
    BY <1>2, <1>3, <2>1, Fixed DEF Truth, Inventory, world, ExcludedFiles
  <2>5. Schedule'
    BY <1>2, <2>1, Fixed DEF Truth, Schedule
  <2>6. Testimony'
    BY <1>2, <1>3, <2>1, Fixed DEF Truth, Testimony
  <2>7. Verdict'
    BY <1>2, <1>3, <2>1, <2>3, Fixed DEF Verdict
  <2>8. Story' /\ Served'
    BY <2>1 DEF Story, Served
  <2>. QED
    BY <2>4, <2>5, <2>6, <2>7, <2>8 DEF Truth
<1>. QED
  BY <1>5, <1>6

\* The approvals, and the end of a run without a report's pass.
LEMMA TruthApprove ==
  ASSUME Typed, Orderly, Truth, Approve
  PROVE  Truth'
<1> USE DEF Before
<1>1. Run
  BY DEF Run
<1>2. UNCHANGED <<world, base, opts>>
  BY <1>1, RunKeeps
<1>3. /\ pc = "approve" /\ pass = 1 /\ how = "verdict" /\ tree = base
      /\ snap.included = Listed \ Excluded
      /\ code = 0 => Acquitted
      /\ code # 0 => Convicted
      /\ code # 0 => code = 1 \/ (code = 2 /\ \E e \in Engines : Plan[e] # {} /\ Broken(e))
  BY DEF Approve, Truth, Inventory, Verdict
<1>4. CASE Refuse
  <2>1. opts.faults \/ opts.machine.astGrep = "none"
    BY <1>3, <1>4 DEF Approve, Refuse, Traceback, End
  <2>2. ~Healthy
    BY <2>1 DEF Healthy, DoctorOk, CheckAstGrep
  <2>. QED
    BY <1>1, <1>4, <2>2, TruthFails DEF Refuse, End
<1>6. CASE Traceback
  <2>1. how' = "traceback" /\ how = "verdict"
    BY <1>3, <1>6 DEF Traceback, End
  <2>2. opts.faults \/ opts.sick # {}
    <3>1. CASE UNCHANGED how
      BY <2>1, <3>1
    <3>2. CASE Refuse
      BY <2>1, <3>2 DEF Refuse, End
    <3>. QED
      BY <3>1, <3>2, Zenon DEF Approve
  <2>3. ~Healthy
    BY <2>2 DEF Healthy
  <2>. QED
    BY <1>1, <1>6, <2>3, TruthFails DEF Traceback, End
<1>5. CASE ~Refuse /\ ~Traceback
  <2>1. /\ debt' = ApprovalsDebt(base, Listed \ Excluded)
        /\ code' = IF debt' # {} /\ code = 0 THEN 1 ELSE code
        /\ results' = Silent
        /\ \/ pc' = "plan" /\ pass' = 2
           \/ /\ ~(opts.quality /\ results # Silent)
              /\ pc' = "done" /\ pass' = 1 /\ report' = {<<"approvals", z>> : z \in debt'}
        /\ UNCHANGED <<dirty, stage, others, snap, links, todo, clean, how>>
    BY <1>3, <1>5 DEF Approve, listing
  <2>2. /\ code' = 0 => Acquitted /\ debt' = {}
        /\ code' # 0 => Convicted \/ debt' # {}
        /\ code' # 0 => code' = 1 \/ (code' = 2 /\ \E e \in Engines : Plan[e] # {} /\ Broken(e))
    BY <1>3, <2>1
  <2>3. Inventory'
    BY <1>2, <1>3, <2>1, Fixed DEF Truth, Inventory, world, ExcludedFiles
  <2>4. Schedule'
    BY <1>2, <2>1, Fixed DEF Truth, Schedule
  <2>5. Testimony'
    BY <2>1 DEF Testimony, Silent
  <2>6. Verdict'
    BY <1>2, <1>3, <2>1, <2>2, Fixed DEF Verdict
  <2>7. ASSUME opts.quality, results = Silent, code' # 0, \A e \in Engines : ~Broken(e)
        PROVE  debt' # {}
    <3> SUFFICES ASSUME debt' = {} PROVE FALSE
      OBVIOUS
    <3>1. PICK e \in Engines : Guilty(e)
      BY <2>2, <2>7 DEF Convicted
    <3>2. Plan[e] # {} /\ results[e] = <<>>
      BY <2>7, <3>1 DEF Guilty, Silent
    <3>3. PICK U \in SUBSET Plan[e] : Heard(e, U, <<>>)
      BY <1>3, <3>2 DEF Truth, Testimony
    <3>4. ExcludedFiles(snap) = Excluded
      BY <1>3 DEF Truth, Inventory
    <3>. QED
      BY <3>1, <3>3, <3>4, HeardParts, NoResult
  <2>8. Story'
    <3> SUFFICES ASSUME pc' = "done", opts.quality
                 PROVE  /\ code' = 0 => report' = {}
                        /\ code' # 0 /\ (\A e \in Engines : ~Broken(e)) => report' # {}
      BY <1>2, Fixed DEF Story
    <3>1. results = Silent /\ report' = {<<"approvals", z>> : z \in debt'}
      BY <2>1
    <3>2. code' # 0 /\ (\A e \in Engines : ~Broken(e)) => debt' # {}
      BY <2>7, <3>1
    <3>. QED
      BY <2>2, <3>1, <3>2
  <2>9. Served'
    BY <1>3, <2>1 DEF Served
  <2>. QED
    BY <2>3, <2>4, <2>5, <2>6, <2>8, <2>9 DEF Truth
<1>. QED
  BY <1>4, <1>5, <1>6

\* The report, if it is written.
LEMMA TruthWritten ==
  ASSUME Typed, Orderly, Truth, WriteReport, ~Traceback
  PROVE  Truth'
<1> USE DEF Before
<1>1. Run
  BY DEF Run
<1>2. UNCHANGED <<world, base, opts>>
  BY <1>1, RunKeeps
<1>3. /\ pc = "settle" /\ pass = 2 /\ how = "verdict"
      /\ ExcludedFiles(snap) = Excluded
      /\ code = 0 => Acquitted /\ debt = {}
      /\ code # 0 => Convicted \/ debt # {}
      /\ \A e \in Engines : \/ results[e] = <<>> /\ \A u \in Plan[e] : Spotless(e, u)
                            \/ \E U \in SUBSET Plan[e] : Heard(e, U, results[e])
  BY DEF WriteReport, Truth, Inventory, Verdict, Testimony
<1>4. /\ pc' = "done" /\ UNCHANGED <<pass, listing, engine, code, how, debt>>
      /\ report' = {<<"approvals", z>> : z \in debt}
                     \cup UNION {EngineIssues(e, results[e]) : e \in Engines}
  BY DEF WriteReport
<1>5. ASSUME NEW e \in Engines, Plan[e] = {} \/ ~Broken(e)
      PROVE  EngineIssues(e, results[e]) # {} <=> Guilty(e)
  <2>1. CASE results[e] = <<>> /\ \A u \in Plan[e] : Spotless(e, u)
    BY <2>1, NoResult DEF Guilty, Spotless
  <2>2. CASE \E U \in SUBSET Plan[e] : Heard(e, U, results[e])
    <3>1. PICK U \in SUBSET Plan[e] : Heard(e, U, results[e])
      BY <2>2
    <3>2. ~Broken(e)
      BY <1>5, <3>1 DEF Heard
    <3>. QED
      BY <1>3, <3>1, <3>2, HeardParts
  <2>. QED
    BY <1>3, <2>1, <2>2
<1>6. Inventory' /\ Schedule' /\ Testimony'
  BY <1>2, <1>4, Fixed DEF Truth, Inventory, Schedule, Testimony, world, engine
<1>7. Verdict'
  <2>1. Verdict
    BY DEF Truth
  <2>2. pc' = "done" /\ pass = 2 /\ UNCHANGED <<pass, code, how, debt>>
    BY <1>3, <1>4
  <2>3. /\ debt = ApprovalsDebt(base, Listed \ Excluded)
        /\ code = 0 => Acquitted /\ debt = {}
        /\ code # 0 => Convicted \/ debt # {}
        /\ code # 0 => code = 1 \/ (code = 2 /\ \E e \in Engines : Plan[e] # {} /\ Broken(e))
    BY <1>3, <2>1 DEF Verdict
  <2>. QED
    BY <1>2, <2>2, <2>3, Fixed DEF Verdict
<1>8. Story'
  <2>1. code = 0 => report' = {}
    BY <1>3, <1>4, <1>5 DEF Acquitted
  <2>2. ASSUME code # 0, \A e \in Engines : ~Broken(e)
        PROVE  report' # {}
    <3>1. CASE debt # {}
      <4>1. PICK z \in debt : TRUE
        BY <3>1
      <4>2. <<"approvals", z>> \in report'
        BY <1>4
      <4>. QED
        BY <4>2
    <3>2. CASE Convicted
      <4>1. PICK e \in Engines : Guilty(e)
        BY <2>2, <3>2 DEF Convicted
      <4>2. EngineIssues(e, results[e]) # {}
        BY <1>5, <2>2, <4>1
      <4>3. PICK z \in EngineIssues(e, results[e]) : TRUE
        BY <4>2
      <4>4. z \in UNION {EngineIssues(f, results[f]) : f \in Engines}
        BY <4>3
      <4>. QED
        BY <1>4, <4>4
    <3>. QED
      BY <1>3, <2>2, <3>1, <3>2
  <2>. QED
    BY <1>2, <1>4, <2>1, <2>2, Fixed DEF Story
<1>9. Served'
  BY <1>3, <1>4 DEF Served
<1>. QED
  BY <1>6, <1>7, <1>8, <1>9 DEF Truth

\* The report.
LEMMA TruthReport ==
  ASSUME Typed, Orderly, Truth, WriteReport
  PROVE  Truth'
<1>1. CASE Traceback
  <2>1. ~Healthy
    BY <1>1 DEF WriteReport, Truth, Inventory, Verdict, Traceback, End, Healthy
  <2>2. Run
    BY DEF Run
  <2>. QED
    BY <1>1, <2>1, <2>2, TruthFails DEF Traceback, End
<1>. QED
  BY <1>1, TruthWritten

\* The inductive invariant.
Reliable == Vouched /\ Truthful

\* At first there is nothing to tell.
LEMMA ReliableInit == Init => Reliable
<1> SUFFICES ASSUME Init PROVE Reliable
  OBVIOUS
<1>1. Vouched
  BY VouchedInit
<1>2. Truth
  BY DEF Init, Truth, Inventory, Schedule, Testimony, Verdict, Story, Served, Before
<1>. QED
  BY <1>1, <1>2 DEF Reliable, Truthful

\* Each step of the run tells the truth, and a change of the tree ends the
\* stillness.
LEMMA ReliableStep ==
  ASSUME Reliable, [Next]_vars
  PROVE  Reliable'
<1>1. Vouched'
  BY VouchedStep DEF Reliable
<1>2. Typed /\ Orderly /\ (Still => Truth)
  BY DEF Reliable, Vouched, Truthful
<1>3. CASE Run
  <2>1. Still' => Still
    BY <1>3, RunKeeps DEF Still, world
  <2>2. ASSUME Truth
        PROVE  Truth'
    <3>1. CASE \E f \in Engines : RunEngine(f)
      BY <1>2, <2>2, <3>1, TruthEngine
    <3>2. CASE ~\E f \in Engines : RunEngine(f)
      BY <1>2, <1>3, <2>2, <3>2, TruthListing, TruthPlan, TruthReady, TruthDigest, TruthMarks,
         TruthConsole, TruthApprove, TruthReport DEF Run
    <3>. QED
      BY <3>1, <3>2
  <2>. QED
    BY <1>1, <1>2, <2>1, <2>2 DEF Reliable, Truthful
<1>4. ASSUME NEW q \in Paths, Save(q) \/ Remove(q) \/ Attribute(q) \/ Restage(q)
      PROVE  Reliable'
  <2>1. ~Still'
    BY <1>4 DEF Save, Remove, Attribute, Restage, Touch, Still
  <2>. QED
    BY <1>1, <2>1 DEF Reliable, Truthful
<1>5. CASE UNCHANGED vars
  <2>1. UNCHANGED <<tree, touched, restaged, base, opts, pc, pass, dirty, stage, others, snap,
                    links, todo, clean, results, code, how, debt, report>>
    BY <1>5 DEF vars, world, listing, engine, answer
  <2>2. ASSUME Truth
        PROVE  Truth'
    <3>1. Inventory'
      BY <2>1, <2>2, Fixed DEF Truth, Inventory, ExcludedFiles
    <3>2. Schedule'
      BY <2>1, <2>2, Fixed DEF Truth, Schedule, UnitsOf
    <3>3. Testimony'
      BY <2>1, <2>2, Fixed DEF Truth, Testimony, UnitsOf
    <3>4. Verdict' /\ Story'
      BY <2>1, <2>2, Fixed DEF Truth, Verdict, Story
    <3>5. Candidates' = Candidates
      BY <2>1 DEF Candidates
    <3>6. Served'
      BY <2>1, <2>2, <3>5, Fixed DEF Truth, Served
    <3>. QED
      BY <3>1, <3>2, <3>3, <3>4, <3>6 DEF Truth
  <2>3. Still' => Still
    BY <2>1 DEF Still
  <2>. QED
    BY <1>1, <1>2, <2>2, <2>3 DEF Reliable, Truthful
<1>. QED
  BY <1>3, <1>4, <1>5 DEF Next

\* In a tree that nobody touches, the lists, the plan, the results, the exit
\* code and the report say what is in it.
THEOREM RunReliable == Spec => []Reliable
<1>1. Init => Reliable
  BY ReliableInit
<1>2. Reliable /\ [Next]_vars => Reliable'
  BY ReliableStep
<1>. QED
  BY <1>1, <1>2, PTL DEF Spec

\* In a tree nobody touches and with engines that work, lint exits 1 exactly
\* when a file or package that was asked about is faulty, a link is dead or the
\* approvals do not match.
THEOREM VerdictSafe == Spec => []VerdictExact
<1>1. Reliable => VerdictExact
  <2> SUFFICES ASSUME Reliable, pc = "done", how = "verdict", Undisturbed
               PROVE  code # 0 <=> Reasons \/ ApprovalsDebt(base, Listed \ Excluded) # {}
    BY DEF VerdictExact, Reasons
  <2>1. Typed /\ Verdict
    BY DEF Reliable, Vouched, Truthful, Truth, Still, Undisturbed
  <2>2. \A e \in Engines : ~Broken(e)
    BY DEF Undisturbed, Broken
  <2>3. Reasons <=> \E e \in Engines : Guilty(e)
    BY <2>1, GuiltIsReason
  <2>. QED
    BY <2>1, <2>2, <2>3 DEF Verdict, Acquitted, Convicted
<1>. QED
  BY <1>1, RunReliable, PTL

\* The CodeClimate report is empty when lint exits 0, and is not when lint fails
\* with engines that work, although the second pass has a warm cache.
THEOREM ReportSafe == Spec => []ReportTells
<1>1. Reliable => ReportTells
  <2> SUFFICES ASSUME Reliable, pc = "done", how = "verdict", opts.quality, Still
               PROVE  /\ code = 0 => report = {}
                      /\ code # 0 /\ Undisturbed => report # {}
    BY DEF ReportTells, Still
  <2>1. Story
    BY DEF Reliable, Truthful, Truth
  <2>2. Undisturbed => \A e \in Engines : ~Broken(e)
    BY DEF Undisturbed, Broken
  <2>. QED
    BY <2>1, <2>2 DEF Story
<1>. QED
  BY <1>1, RunReliable, PTL

\* On a machine that doctor passes, a lint of the same tree ends with a verdict
\* and no engine failed.
THEOREM DoctorSafe == Spec => []DoctorVouches
<1>1. Reliable => DoctorVouches
  <2> SUFFICES ASSUME Reliable, pc = "done", Still, Healthy
               PROVE  \/ how = "verdict" /\ code # 2
                      \/ Refused(opts.scope) \/ Candidates = {} \/ ReportersRefused(base)
    BY DEF DoctorVouches, Still, Healthy
  <2>1. Typed /\ Verdict /\ Served
    BY DEF Reliable, Vouched, Truthful, Truth
  <2>2. \A e \in Engines : Plan[e] # {} => ~Broken(e)
    BY <2>1, HealthyEngine
  <2>. QED
    BY <2>1, <2>2 DEF Verdict, Served
<1>. QED
  BY <1>1, RunReliable, PTL
=============================================================================
