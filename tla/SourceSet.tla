------------------------------ MODULE SourceSet ------------------------------
(***************************************************************************)
(* Which files tackbox lints: py/tackbox/source_set.py, and what           *)
(* py/tackbox/gitfiles.py asks git.  Pure definitions; LintRun takes the   *)
(* steps.                                                                  *)
(*                                                                         *)
(* A tree is a record: index[p] is the kind of p's entry in the git index  *)
(* and head[p] its content at HEAD ("none" when there is none), disk[p] is *)
(* what the worktree has at p (a content, "link", "dangling" or "none"),   *)
(* attr[p][a] is what check-attr answers for attribute a.                  *)
(***************************************************************************)
EXTENDS Naturals, FiniteSets, Functions

CONSTANTS Paths, Dirs, Root,
          Home,        \* Home[p]: the directory p is in
          Parent,      \* Parent[d]: the directory d is in
          GoFiles,     \* the paths that end in .go
          GoMods,      \* the directories with a go.mod
          Constrained, \* Go files a build constraint excludes
          Ignored,     \* paths .gitignore names
          Attributes,  \* EXCLUSION_ATTRIBUTES
          Contents

ASSUME LayoutAssumption ==
  /\ Home \in [Paths -> Dirs] /\ Parent \in [Dirs -> Dirs]
  /\ Root \in Dirs /\ Parent[Root] = Root /\ GoMods \subseteq Dirs
  /\ Constrained \subseteq GoFiles /\ GoFiles \subseteq Paths /\ Ignored \subseteq Paths

Nothing == "none"
Modes == {"file", "link", "gitlink"}
Values == {"set", "true", "false", "unset", "unspecified"}

\* A directory and the directories around it.
Above[d \in Dirs] == IF d = Root THEN {Root} ELSE {d} \cup Above[Parent[d]]

-----------------------------------------------------------------------------
(* What git and the worktree answer.                                       *)

Exists(t, p) == t.disk[p] \notin {Nothing, "dangling"}
IsSymlink(t, p) == t.disk[p] \in {"link", "dangling"}

\* git ls-files -s
LsFilesStage(t) == Restrict(t.index, {p \in Paths : t.index[p] # Nothing})

\* git ls-files --others --exclude-standard
LsFilesOthers(t) ==
  {p \in Paths \ Ignored : t.index[p] = Nothing /\ t.disk[p] # Nothing}

\* git diff --name-only HEAD
DiffHead(t) ==
  {p \in Paths : /\ t.index[p] # Nothing \/ t.head[p] # Nothing
                 /\ \/ t.index[p] = Nothing
                    \/ t.head[p] = Nothing
                    \/ t.index[p] = "file" /\ t.disk[p] # t.head[p]}

\* parse_check_attr: false, unset and unspecified do not exclude.
ParseCheckAttr(t, paths) ==
  LET On(p) == {a \in Attributes : t.attr[p][a] \in {"set", "true"}}
  IN  [p \in {q \in paths : On(q) # {}} |-> On(p)]

-----------------------------------------------------------------------------
(* The source set.                                                         *)

Tracked(stage, t) == {p \in DOMAIN stage : stage[p] = "file" /\ Exists(t, p)}
Missing(stage, t) == {p \in DOMAIN stage : stage[p] = "file" /\ ~Exists(t, p)}

\* filter_source_set before it narrows.
FilterSourceSet(stage, others, t) ==
  Tracked(stage, t) \cup {p \in others : ~IsSymlink(t, p)}

\* build_link_targets: the inventory of what a Markdown link may name, before
\* the attributes exclude anything.
BuildLinkTargets(stage, others, t) ==
  {<<"G", p>> : p \in {q \in DOMAIN stage : stage[q] = "gitlink"}}
    \cup {<<"L", p>> : p \in {q \in DOMAIN stage : stage[q] = "link"}}
    \cup {<<"F", p>> : p \in FilterSourceSet(stage, others, t)}

\* A scope is a path or a directory; anything else is a spelling
\* validate_path refuses.
Refused(scope) == scope \notin Paths \cup Dirs

\* narrow_by_path has directory boundaries; "." is everything.
NarrowByPath(paths, scope) ==
  {p \in paths : p = scope \/ scope \in Above[Home[p]]}

\* narrow_files; no changed scope is the scope of all paths.
NarrowFiles(files, scope, changed) == NarrowByPath(files \cap changed, scope)

\* build_snapshot.
BuildSnapshot(files, excludedMap, warnings) ==
  [included |-> files \ DOMAIN excludedMap,
   pairs |-> {x \in files \X Attributes :
                x[1] \in DOMAIN excludedMap /\ x[2] \in excludedMap[x[1]]},
   warnings |-> warnings]
ExcludedFiles(snapshot) == {x[1] : x \in snapshot.pairs}
CandidateFiles(snapshot) == snapshot.included \cup ExcludedFiles(snapshot)

-----------------------------------------------------------------------------
(* Go packages and modules.                                                *)

GoPackages(paths) == {Home[p] : p \in paths \cap GoFiles}

\* _nearest_module_root: the innermost directory with a go.mod, if any.
NearestModules(d) ==
  {m \in Above[d] \cap GoMods : \A n \in Above[d] \cap GoMods : n \in Above[m]}
OrphanPackages(dirs) == {d \in dirs : NearestModules(d) = {}}
InModule(dirs, m) == {d \in dirs : m \in NearestModules(d)}

\* The Go files a compiler reads of a package, whatever git says of them.
PackageFiles(t, d) ==
  {p \in GoFiles \ Constrained : Home[p] = d /\ Exists(t, p)}

\* _build_selected_go_dirs: go list says that build constraints exclude all Go
\* files, or that there is none.
BuildSelected(t, dirs) == {d \in dirs : PackageFiles(t, d) # {}}
=============================================================================
