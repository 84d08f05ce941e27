------------------------------- MODULE LintRun -------------------------------
(***************************************************************************)
(* One `tackbox lint`: _run_lint and _lint_results in py/tackbox/cli.py,   *)
(* the inventory of gitfiles.py, run_engines in engines.py and the         *)
(* CodeClimate report of codequality.py.  The inventory is several git     *)
(* commands, the engines read the files later still, and --codequality     *)
(* lints a second time; meanwhile somebody edits, stages and unstages.     *)
(*                                                                         *)
(* Abstractions.  A file's content is what an engine says of it: "ok",     *)
(* "bug" (a finding), "sup" (a finding under a marker) or "broken" (it     *)
(* does not parse or compile).  A package engine analyzes directories, the *)
(* others files.  LintCache has the races of the marker cache; here it is  *)
(* the set of markers this command has written.  approvals.py is SessionGate's;  *)
(* here a "sup" file owes an entry of the tree's manifest.                 *)
(***************************************************************************)
EXTENDS SourceSet, Doctor

CONSTANTS Engines, Lints,  \* Lints[e]: paths of e's extensions and path filter
          PackageMode,     \* package_mode engines: erclint
          Json,            \* _JSON_FINDING_ENGINES
          Cacheable, LinkAware,
          Links,           \* Links[p]: the paths the Markdown file p links to
          Branch,          \* git diff <since>...HEAD
          Declarable,      \* paths whose language may declare a reporter
          Tools,           \* Tools[e]: the parts of the install e consists of
          JavaRun,         \* engines that run on the system's java
          JavaFiles,       \* the paths that end in .java
          Worlds           \* pairs of a tree and a command line

Trees ==
  [manifest : SUBSET Paths, reporters : SUBSET [file : Paths, kind : {"capture", "usage", "other"}],
   index : [Paths -> Modes \cup {Nothing}], head : [Paths -> Contents \cup {"link", Nothing}],
   disk : [Paths -> Contents \cup {"link", "dangling", Nothing}],
   attr : [Paths -> [Attributes -> Values]]]

ASSUME WorldsAssumption == \A v \in Worlds : v.tree \in Trees /\ v.opts.machine.java \in Nat
\* Package engines lint Go files and take no links; of every root with a tool
\* in it some program is probed.
ASSUME EnginesAssumption ==
  /\ Lints \in [Engines -> SUBSET Paths] /\ Tools \in [Engines -> SUBSET Parts]
  /\ PackageMode \subseteq Engines \cap Json /\ LinkAware \cup JavaRun \subseteq Engines \ PackageMode
  /\ Cacheable \subseteq Engines
  /\ \A e \in PackageMode : Lints[e] \subseteq GoFiles
  /\ \A e \in JavaRun : Lints[e] \subseteq JavaFiles
  /\ \A e \in Engines : \A x \in Tools[e] : \E z \in Probed : Top[z] = Top[x]

VARIABLES tree, base,      \* the tree now and when the run started
          touched,         \* history: paths edited during the run
          restaged,        \* history: paths added to or removed from the index
          slipped,         \* history: ... between two listings of the run
          opts,            \* the command line, the machine it runs on, sick:
                           \* the engines that crash, faults: whether a git
                           \* or go command may fail, and steps, a bound: how
                           \* often the tree changes
          pc, pass,        \* pass 2 is the machine-mode pass of --codequality
          dirty,           \* the changed scope
          stage, others, snap, links,
          todo,            \* todo[e]: e's arguments, each with its digest
          clean,           \* clean markers of this command
          results,         \* results[e][scope]: what a subprocess of e printed
          code, how,       \* exit code; verdict, error, traceback or pipe
          debt, report

world == <<tree, touched, restaged, slipped>>
listing == <<dirty, stage, others, snap, links>>
engine == <<todo, clean, results>>
answer == <<code, how, debt, report>>
vars == <<world, base, opts, pc, pass, listing, engine, answer>>

None == [e \in Engines |-> {}]
Silent == [e \in Engines |-> <<>>]
NoSnapshot == [included |-> {}, pairs |-> {}, warnings |-> {}]

-----------------------------------------------------------------------------
(* What an engine is given and what it says.                               *)

Lintable(p) == \E e \in Engines : p \in Lints[e]

\* dispatch
Dispatch(files) ==
  [e \in Engines |-> IF e \in PackageMode THEN GoPackages(files \cap Lints[e])
                                          ELSE files \cap Lints[e]]

\* _drop_go_orphans
DropGoOrphans(t, plan) ==
  [e \in Engines |-> IF e \in PackageMode
                     THEN BuildSelected(t, plan[e] \ OrphanPackages(plan[e]))
                     ELSE plan[e]]

Reads(t, e, u) == IF e \in PackageMode THEN PackageFiles(t, u) ELSE {u}

\* build_link_targets seen from tackbox-mdlint: a target must be listed.
DeadLink(e, p, targets) ==
  e \in LinkAware /\ \E q \in Links[p] : \A k \in {"F", "L", "G"} : <<k, q>> \notin targets

\* reporters.load: a declaration has a file of the repository in a known
\* language, and [usage] is for Go; any other kind does not parse.
ReportersRefused(t) ==
  \E d \in t.reporters :
     \/ d.kind \notin {"capture", "usage"}
     \/ d.file \notin Declarable \/ ~Exists(t, d.file)
     \/ d.kind = "usage" /\ d.file \notin GoFiles

\* What e says of its argument u, as <<place, kind>>.
Diagnose(t, e, targets, u) ==
  LET broken == \E p \in Reads(t, e, u) : t.disk[p] = "broken"
  IN  IF broken THEN {<<u, IF e \in Json THEN "error" ELSE "bug">>}
      ELSE {<<p, t.disk[p]>> : p \in {q \in Reads(t, e, u) : t.disk[q] \in {"bug", "sup"}}}
             \cup {<<p, "bug">> : p \in {q \in Reads(t, e, u) : DeadLink(e, q, targets)}}

Has(out, kinds) == \E x \in out : x[2] \in kinds

\* Exit codes: JSON engines exit 0 with findings, and normalize_erclint_result
\* makes erclint's analyzer errors a 1; the others exit 1 with findings.
ExitCode(e, out) ==
  IF e \in PackageMode THEN IF Has(out, {"error"}) THEN 1 ELSE 0
  ELSE IF e \in Json THEN 0
  ELSE IF Has(out, {"bug"}) THEN 1 ELSE 0

\* EngineOutput.scope: a Go module; everything the other engines were given.
ScopesOf(e, units) ==
  IF e \in PackageMode THEN {m \in GoMods : InModule(units, m) # {}} ELSE {Root}
UnitsIn(e, units, m) == IF e \in PackageMode THEN InModule(units, m) ELSE units

ResultCode(r) == IF \E m \in DOMAIN r : r[m].code = 2 THEN 2
                 ELSE IF \E m \in DOMAIN r : r[m].code = 1 THEN 1 ELSE 0
ResultOut(r) == UNION {r[m].out : m \in DOMAIN r}

\* Mutant: nothing is filtered.
RawOutput(e, out) == out

\* _filter_excluded_findings: only a package engine reads excluded files; an
\* error is not a located finding and stays.
Filtered(e, out) ==
  {x \in out : ~(e \in PackageMode /\ x[2] # "error" /\ x[1] \in ExcludedFiles(snap))}

\* Mutant: the exit codes as they come.
RawExit(rs) ==
  IF \E e \in Engines : ResultCode(rs[e]) = 2 THEN 2
  ELSE IF \E e \in Engines : ResultCode(rs[e]) = 1 THEN 1 ELSE 0

\* _aggregate_exit; an error in a JSON engine's output does not parse.
AggregateExit(rs) ==
  LET Promoted(e) ==
        IF /\ ResultCode(rs[e]) = 0 /\ e \in Json
           /\ Has(Filtered(e, ResultOut(rs[e])), {"bug", "error"})
        THEN 1 ELSE ResultCode(rs[e])
  IN  IF \E e \in Engines : Promoted(e) = 2 THEN 2
      ELSE IF \E e \in Engines : Promoted(e) = 1 THEN 1 ELSE 0

\* A unit's digest; a package go list finds nothing in has none.
Digest(t, e, u) == [p \in {q \in Reads(t, e, u) : Exists(t, q)} |-> t.disk[p]]
NoDigest == <<>>

\* Mutant: an engine that exits 0 found nothing.
ArgsOfExitZero(e, r) == IF ResultCode(r) = 0 THEN todo[e] ELSE {}

\* _clean_args on the raw output: an exclusion does not make a package clean.
CleanArgs(e, r) ==
  LET Place(x) == IF e \in PackageMode THEN Home[x[1]] ELSE x[1]
      out == ResultOut(r)
  IN  IF ResultCode(r) # 0 \/ Has(out, {"error"}) THEN {}
      ELSE {a \in todo[e] : \A x \in out : x[2] = "bug" => Place(x) # a[1]}

\* _mark_clean_units
Marks(rs) ==
  UNION {{<<e, a>> : a \in {b \in CleanArgs(e, rs[e]) : b[2] # NoDigest}} : e \in Cacheable}

\* engine_findings and the filter of _codequality_findings: located findings
\* that are not suppressed, analyzer errors, and a scope that failed without
\* either.
EngineIssues(e, r) ==
  {<<e, x>> : x \in {y \in Filtered(e, ResultOut(r)) : y[2] = "bug"}}
    \cup {<<e, x>> : x \in {y \in ResultOut(r) : y[2] = "error"}}
    \cup {<<e, <<m, "failed">>>> : m \in {n \in DOMAIN r : r[n].code # 0 /\ r[n].out = {}}}

\* approvals.check over the whole tree: markers without an entry, entries
\* without a marker, files that do not parse.
ApprovalsDebt(t, included) ==
  LET read == {p \in included : Lintable(p) /\ Exists(t, p)}
  IN  {<<p, "uncovered">> : p \in {q \in read : t.disk[q] = "sup" /\ q \notin t.manifest}}
        \cup {<<p, "unresolvable">> : p \in {q \in read \cap t.manifest : t.disk[q] = "broken"}}
        \cup {<<p, "orphan">> : p \in {q \in t.manifest :
                 q \notin read \/ t.disk[q] \notin {"sup", "broken"}}}

-----------------------------------------------------------------------------
Init ==
  /\ \E w \in Worlds : tree = w.tree /\ opts = w.opts
  /\ base = tree
  /\ touched = {} /\ restaged = {} /\ slipped = {}
  /\ pc = "begin"
  /\ pass = 1
  /\ dirty = (IF opts.mode = "all" THEN Paths ELSE {})
  /\ stage = <<>> /\ others = {} /\ snap = NoSnapshot /\ links = {}
  /\ todo = None /\ clean = {} /\ results = Silent
  /\ code = 0 /\ how = "verdict" /\ debt = {} /\ report = {}

End(c, h) == pc' = "done" /\ code' = c /\ how' = h

\* A command fails: _dispatch prints what it knows as a message and exits 2;
\* an exception it does not name is a traceback, which exits 1.
Refuse == /\ End(2, "error")
          /\ UNCHANGED <<world, base, opts, pass, listing, engine, debt, report>>
Traceback == /\ End(1, "traceback")
             /\ UNCHANGED <<world, base, opts, pass, listing, engine, debt, report>>

-----------------------------------------------------------------------------
(* The environment.                                                        *)

Changes ==
  /\ pc # "done"
  /\ Cardinality(touched) + Cardinality(restaged) < opts.steps
  /\ UNCHANGED <<base, opts, pc, pass, listing, engine, answer>>

Touch(p) == touched' = touched \cup {p} /\ UNCHANGED <<restaged, slipped>>

Save(p) ==
  /\ Changes /\ tree.disk[p] \in Contents \cup {Nothing}
  /\ \E c \in Contents \ {tree.disk[p]} : tree' = [tree EXCEPT !.disk[p] = c]
  /\ Touch(p)

Remove(p) ==
  /\ Changes /\ tree.disk[p] \in Contents
  /\ tree' = [tree EXCEPT !.disk[p] = Nothing]
  /\ Touch(p)

Attribute(p) ==
  /\ Changes
  /\ \E a \in Attributes : \E v \in Values \ {tree.attr[p][a]} :
        tree' = [tree EXCEPT !.attr[p][a] = v]
  /\ Touch(p)

\* git add, git rm --cached.
Restage(p) ==
  /\ Changes
  /\ \/ /\ tree.index[p] = Nothing /\ tree.disk[p] \in Contents
        /\ tree' = [tree EXCEPT !.index[p] = "file"]
     \/ /\ tree.index[p] = "file"
        /\ tree' = [tree EXCEPT !.index[p] = Nothing]
  /\ restaged' = restaged \cup {p}
  /\ slipped' = IF pc \in {"others", "untracked"} \/ p \in Ignored
                THEN slipped \cup {p} ELSE slipped
  /\ UNCHANGED touched

-----------------------------------------------------------------------------
(* The run.                                                                *)

\* _find_repo_root asks git.
FindRepoRoot ==
  /\ pc = "begin"
  /\ \/ /\ opts.machine.git
        /\ pc' = IF opts.mode = "all" THEN "stage" ELSE "diff"
        /\ UNCHANGED <<world, base, opts, pass, listing, engine, answer>>
     \/ ~opts.machine.git /\ Traceback

\* _compute_changed_scope: what differs from HEAD ...
DiffDirty ==
  /\ pc = "diff"
  /\ \/ /\ dirty' = DiffHead(tree) /\ pc' = "untracked"
        /\ UNCHANGED <<world, base, opts, pass, stage, others, snap, links, engine, answer>>
     \/ opts.faults /\ Refuse

\* ... what is untracked, and with --since what the branch changed.
DiffUntracked ==
  /\ pc = "untracked"
  /\ \/ /\ dirty' = dirty \cup LsFilesOthers(tree)
                          \cup (IF opts.mode = "since" THEN Branch ELSE {})
        /\ pc' = "stage"
        /\ UNCHANGED <<world, base, opts, pass, stage, others, snap, links, engine, answer>>
     \/ opts.faults /\ opts.mode = "since" /\ Refuse

\* collect_snapshot, command by command; _dispatch does not name git's own
\* failures.
ListStage ==
  /\ pc = "stage"
  /\ \/ /\ stage' = LsFilesStage(tree) /\ pc' = "others"
        /\ UNCHANGED <<world, base, opts, pass, dirty, others, snap, links, engine, answer>>
     \/ opts.faults /\ Traceback

ListOthers ==
  /\ pc = "others"
  /\ others' = LsFilesOthers(tree)
  /\ pc' = "prune"
  /\ UNCHANGED <<world, base, opts, pass, dirty, stage, snap, links, engine, answer>>

\* The exists() and is_symlink() of filter_source_set; the listings are not
\* needed any more.
Prune ==
  /\ pc = "prune"
  /\ snap' = [included |-> FilterSourceSet(stage, others, tree), pairs |-> {},
              warnings |-> Missing(stage, tree)]
  /\ stage' = <<>> /\ others' = {}
  /\ pc' = "attrs"
  /\ UNCHANGED <<world, base, opts, pass, dirty, links, engine, answer>>

\* resolve_attributes.
CheckAttr ==
  /\ pc = "attrs"
  /\ \/ /\ snap' = BuildSnapshot(snap.included, ParseCheckAttr(tree, snap.included),
                                 snap.warnings)
        /\ pc' = "plan"
        /\ UNCHANGED <<world, base, opts, pass, dirty, stage, others, links, engine, answer>>
     \/ opts.faults /\ Refuse

Candidates == NarrowFiles(CandidateFiles(snap), opts.scope, dirty)
Planned == DropGoOrphans(tree, Dispatch(Candidates \ ExcludedFiles(snap)))

\* go list is run for the packages of a module.
LacksGo ==
  /\ ~opts.machine.go
  /\ \E e \in PackageMode : \E d \in Dispatch(Candidates \ ExcludedFiles(snap))[e] :
        NearestModules(d) # {}

\* _lint_results up to the cache: a scope without candidates is an error, one
\* whose candidates are all excluded or of no engine's kind is a success.
PlanEngines ==
  /\ pc = "plan"
  /\ \/ /\ ~ReportersRefused(tree) /\ ~Refused(opts.scope)
        /\ Candidates # {} /\ ~LacksGo
        /\ todo' = [e \in Engines |-> Planned[e] \X {NoDigest}]
        /\ pc' = IF \A e \in Engines : Planned[e] = {} THEN "settle"
                 ELSE IF \E e \in LinkAware : Planned[e] # {} THEN "links" ELSE "store"
        /\ UNCHANGED <<world, base, opts, pass, listing, clean, results, answer>>
     \/ /\ \/ ReportersRefused(tree) \/ Refused(opts.scope)
           \/ Candidates = {} \/ opts.faults
        /\ Refuse
     \/ LacksGo /\ Candidates # {} /\ ~ReportersRefused(tree) /\ Traceback

\* collect_link_targets lists the tree again, for Markdown alone.  What is
\* staged between its two listings only decides dead links, so they are a step.
ListLinkTargets ==
  /\ pc = "links"
  /\ \/ /\ links' = BuildLinkTargets(LsFilesStage(tree), LsFilesOthers(tree), tree)
        /\ pc' = "store"
        /\ UNCHANGED <<world, base, opts, pass, dirty, stage, others, snap, engine, answer>>
     \/ opts.faults /\ Traceback

\* ensure_payloads.
EnsurePayloads ==
  /\ pc = "store"
  /\ \/ /\ \A p \in Payloads : Ensured(opts.machine, p)
        /\ pc' = "digest"
        /\ UNCHANGED <<world, base, opts, pass, listing, engine, answer>>
     \/ /\ \E p \in Payloads : ~Ensured(opts.machine, p)
        /\ Refuse

Vanished == \E e \in Cacheable \ PackageMode : \E a \in todo[e] : ~Exists(tree, a[1])

\* engine_runtime_version: javalint's digests hold the version of the java it
\* runs on, which has to be asked.
RuntimeUnknown == opts.machine.java = 0 /\ \E e \in Cacheable \cap JavaRun : todo[e] # {}

\* _apply_cache: cached arguments leave the plan.  A listed file that is gone
\* when it is to be hashed raises.
DigestUnits ==
  /\ pc = "digest"
  /\ \/ /\ ~opts.cached
        /\ pc' = "engines"
        /\ UNCHANGED <<world, base, opts, pass, listing, engine, answer>>
     \/ /\ opts.cached /\ ~Vanished /\ ~RuntimeUnknown
        /\ LET Digested(e) == {<<a[1], Digest(tree, e, a[1])>> : a \in todo[e]}
           IN  todo' = [e \in Engines |->
                          IF e \in Cacheable
                          THEN {a \in Digested(e) : <<e, a>> \notin clean}
                          ELSE todo[e]]
        /\ pc' = "engines"
        /\ UNCHANGED <<world, base, opts, pass, listing, clean, results, answer>>
     \/ opts.cached /\ Vanished /\ Traceback
     \/ opts.cached /\ (RuntimeUnknown \/ opts.faults) /\ Refuse

\* What keeps e from starting: no file there to execute, or one that fails.
Absent(e) ==
  \/ \E x \in Tools[e] : PartOf(opts.machine, x) = "missing"
  \/ e \in JavaRun /\ opts.machine.java = 0
Fails(e) ==
  \/ \E x \in Tools[e] : ~Starts(opts.machine, x)
  \/ e \in JavaRun /\ opts.machine.java < JavaMinMajor

Says(e, m) == UNION {Diagnose(tree, e, links, u) : u \in UnitsIn(e, {a[1] : a \in todo[e]}, m)}

\* A crashing engine exits 2 with what it had printed; what it printed in part
\* or garbled, normalize_erclint_result drops.
Outcomes(e) ==
  LET units == {a[1] : a \in todo[e]}
      scopes == ScopesOf(e, units)
      crash == e \in opts.sick \/ (e \notin PackageMode /\ \E u \in units : ~Exists(tree, u))
  IN  IF Fails(e) THEN {[m \in scopes |-> [code |-> 2, out |-> {}]]}
      ELSE IF crash THEN {[m \in scopes |-> [code |-> 2, out |-> Says(e, m) \cap printed]] :
                            printed \in SUBSET UNION {Says(e, m) : m \in scopes}}
      ELSE {[m \in scopes |-> [code |-> ExitCode(e, Says(e, m)), out |-> Says(e, m)]]}

\* run_engines: the engines run side by side, erclint once per module.
RunEngine(e) ==
  /\ pc = "engines"
  /\ todo[e] # {} /\ results[e] = <<>>
  /\ \/ /\ ~Absent(e)
        /\ \E r \in Outcomes(e) : results' = [results EXCEPT ![e] = r]
        /\ UNCHANGED <<world, base, opts, pc, pass, listing, todo, clean, answer>>
     \/ Absent(e) /\ Traceback

Ran == \A e \in Engines : todo[e] # {} => results[e] # <<>>

EnginesDone ==
  /\ pc = "engines" /\ Ran
  /\ clean' = IF opts.cached THEN clean \cup Marks(results) ELSE clean
  /\ todo' = None
  /\ pc' = "settle"
  /\ UNCHANGED <<world, base, opts, pass, listing, results, answer>>

\* Pass 1 prints and aggregates; stdout may be closed.
Console ==
  /\ pc = "settle" /\ pass = 1
  /\ \/ /\ code' = AggregateExit(results) /\ pc' = "approve"
        /\ UNCHANGED <<world, base, opts, pass, listing, engine, how, debt, report>>
     \/ /\ opts.faults /\ End(141, "pipe")
        /\ UNCHANGED <<world, base, opts, pass, listing, engine, debt, report>>

\* Files with markers or entries need ast-grep to name their scopes.
Resolves == \E p \in snap.included :
              Lintable(p) /\ Exists(tree, p) /\ (tree.disk[p] = "sup" \/ p \in tree.manifest)

\* The approvals predicate: the whole tree, whatever the scope.  The uncovered
\* files of the scope are then linted again for what their markers hide
\* (_approval_details): by engines that have just run, so only git, go or what
\* a crashing engine printed can stop it, and the code was not 0 any more.
Approve ==
  /\ pc = "approve"
  /\ \/ /\ opts.machine.astGrep # "none" \/ ~Resolves
        /\ debt' = ApprovalsDebt(tree, snap.included)
        /\ code' = IF debt' # {} /\ code = 0 THEN 1 ELSE code
        /\ results' = Silent
        /\ \/ /\ opts.quality /\ results # Silent
              /\ pc' = "plan" /\ pass' = 2
              /\ UNCHANGED report
           \/ /\ ~(opts.quality /\ results # Silent)
              /\ pc' = "done" /\ UNCHANGED pass
              /\ report' = {<<"approvals", x>> : x \in debt'}
        /\ UNCHANGED <<world, base, opts, listing, todo, clean, how>>
     \/ /\ opts.faults \/ (opts.machine.astGrep = "none" /\ Resolves)
        /\ Refuse
     \/ (opts.faults \/ opts.sick # {}) /\ Traceback

\* Pass 2 writes the report, unless go list fails, the path cannot be written
\* or a crashing engine left a line that does not parse.
WriteReport ==
  /\ pc = "settle" /\ pass = 2
  /\ \/ /\ report' = {<<"approvals", x>> : x \in debt}
                       \cup UNION {EngineIssues(e, results[e]) : e \in Engines}
        /\ pc' = "done"
        /\ UNCHANGED <<world, base, opts, pass, listing, engine, code, how, debt>>
     \/ (opts.faults \/ opts.sick # {}) /\ Traceback

Run == \/ FindRepoRoot \/ DiffDirty \/ DiffUntracked \/ ListStage \/ ListOthers \/ Prune
       \/ CheckAttr \/ PlanEngines \/ ListLinkTargets
       \/ EnsurePayloads \/ DigestUnits
       \/ \E e \in Engines : RunEngine(e)
       \/ EnginesDone \/ Console \/ Approve \/ WriteReport

Next == Run \/ \E p \in Paths : Save(p) \/ Remove(p) \/ Attribute(p) \/ Restage(p)

Spec == Init /\ [][Next]_vars

-----------------------------------------------------------------------------
(* Correctness.                                                            *)

\* The tree the run started with: the files there, those the attributes
\* exclude, what a link may name.
Listed == FilterSourceSet(LsFilesStage(base), LsFilesOthers(base), base)
Excluded == Listed \cap DOMAIN ParseCheckAttr(base, Paths)
Targets == BuildLinkTargets(LsFilesStage(base), LsFilesOthers(base), base)

\* The paths the user asked about.
Asked ==
  {p \in NarrowByPath(Listed \ Excluded, opts.scope) :
     \/ opts.mode = "all"
     \/ p \in DiffHead(base) \cup LsFilesOthers(base)
     \/ opts.mode = "since" /\ p \in Branch}

\* Whether some engine that lints p would fault it.
Faulty(t, p) ==
  \E e \in Engines :
     /\ p \in Lints[e] /\ t.disk[p] \in {"bug", "broken"}
     /\ e \in PackageMode => p \notin Constrained /\ NearestModules(Home[p]) # {}

\* Files that were staged back as HEAD has them: a difference when the run
\* started, none when it asks for differences.
StagedBack ==
  {p \in restaged : /\ opts.mode # "all" /\ ~(opts.mode = "since" /\ p \in Branch)
                    /\ base.index[p] = Nothing /\ base.disk[p] = base.head[p]}

\* Exit 0 vouches for every file asked about that nobody changed while the run
\* was going on: no other file's edit, deletion or attribute, no marker of this
\* run and no crash hides its findings.  The one gap is `git add` or `git rm
\* --cached` between two listings (gitfiles.py:44-55), which neither sees.
NothingUnlinted ==
  pc = "done" /\ code = 0 =>
     \A p \in Asked \ (touched \cup slipped \cup StagedBack) : ~Faulty(base, p)

\* Nothing changed, and every engine there is works.
Undisturbed ==
  /\ touched \cup restaged \cup opts.sick = {}
  /\ \A e \in Engines : ~Absent(e) /\ ~Fails(e)

\* In a tree nobody touches and with engines that work, the exit code is the
\* verdict: 1 exactly when a file that was asked about is faulty or links to
\* nothing, when a package with such a file has a fault anywhere but in an
\* excluded file or does not compile, or when the approvals do not match.
VerdictExact ==
  LET packages == {Home[p] : p \in {q \in Asked : \E e \in PackageMode : q \in Lints[e]}}
  IN  pc = "done" /\ how = "verdict" /\ Undisturbed =>
         (code # 0 <=>
            \/ \E p \in Asked : Faulty(base, p)
            \/ \E d \in packages :
                  /\ NearestModules(d) # {}
                  /\ \E p \in PackageFiles(base, d) :
                        base.disk[p] = "broken" \/ (base.disk[p] = "bug" /\ p \notin Excluded)
            \/ \E e \in LinkAware : \E p \in Asked \cap Lints[e] : DeadLink(e, p, Targets)
            \/ ApprovalsDebt(base, Listed \ Excluded) # {})

\* The CodeClimate report tells the same story as the exit code although it is
\* a second run over a warm cache: exit 0 means an empty report, and a failing
\* run whose engines work leaves at least one issue.
ReportTells ==
  pc = "done" /\ how = "verdict" /\ opts.quality /\ touched \cup restaged = {} =>
     /\ code = 0 => report = {}
     /\ code # 0 /\ Undisturbed => report # {}

\* What doctor passes, lint can use: on a machine on which every check is ok,
\* a lint of the same tree starts every engine it plans and ends with a
\* verdict (the two lists of tools are written independently, in doctor.py and
\* in the argv builders of engines.py; "runtime verification of a hermetic
\* install", doctor.py:1).
DoctorVouches ==
  LET included == Listed \ Excluded
  IN  /\ pc = "done" /\ ~opts.faults /\ touched \cup restaged \cup opts.sick = {}
      /\ DoctorOk(opts.machine, included \cap GoFiles # {}, included \cap JavaFiles # {})
      => (how = "verdict" /\ code # 2) \/ Refused(opts.scope) \/ Candidates = {}
         \/ ReportersRefused(base)

\* Every engine that failed in the report's pass has an issue of its own in the
\* report ("Located diagnostics plus one critical issue per failed engine
\* scope", codequality.py:94).
FailureReported ==
  pc = "done" /\ how = "verdict" /\ pass = 2 =>
     \A e \in Engines : ResultCode(results[e]) = 2 => \E i \in report : i[1] = e
=============================================================================
