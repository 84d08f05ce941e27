----------------------------- MODULE MCLintRun ------------------------------
(* Instances of LintRun for TLC: a Go package m with a hand-written and a  *)
(* generated file, a package of it that build constraints exclude, a Go    *)
(* file outside every module, a script, a Java file, a Markdown file with  *)
(* links, a tracked symlink and a submodule.                               *)
EXTENDS LintRun, TLC

CONSTANTS a, gen, con, orphan, w, j, doc, sym, sub,    \* paths
          root, m, y, x,                               \* directories
          erclint, eslint, javalint, mdlint, generated,
          store, thin, ercbin, nodebin, rules, jar     \* roots, parts

MCHome == a :> m @@ gen :> m @@ con :> y @@ orphan :> x @@ [p \in Paths |-> root]
MCParent == y :> m @@ [d \in Dirs |-> root]
MCLints == erclint :> {a, gen, con, orphan} @@ eslint :> {w} @@ javalint :> {j}
           @@ mdlint :> {doc}
MCLinks == [p \in Paths |-> IF p = doc THEN {w, sym, sub} ELSE {}]

\* What varies: the contents of a, gen, w and j, whether gen is generated,
\* what the manifest and the reporters file list, and what git knows of w
\* ("lost": tracked, and gone from the worktree; "unstaged": taken from the
\* index, as it is in HEAD) and whether the Go files are committed as they are.
World(ca, cg, cw, cj, value, kind, marks, decls) ==
  LET entry == IF kind \in {"untracked", "unstaged"} THEN Nothing ELSE "file"
  IN  [manifest |-> marks, reporters |-> decls,
       index |-> sym :> "link" @@ sub :> "gitlink" @@ w :> entry @@ [p \in Paths |-> "file"],
       head |-> sym :> "link" @@ sub :> Nothing
                @@ w :> (CASE kind = "untracked" -> Nothing [] kind = "unstaged" -> cw
                           [] OTHER -> "ok")
                @@ (IF kind = "committed" THEN a :> ca @@ gen :> cg ELSE <<>>)
                @@ [p \in Paths |-> "ok"],
       disk |-> a :> ca @@ gen :> cg @@ j :> cj @@ sub :> Nothing @@ sym :> "link"
                @@ w :> (IF kind = "lost" THEN Nothing ELSE cw)
                @@ con :> "bug" @@ orphan :> "bug" @@ [p \in Paths |-> "ok"],
       attr |-> gen :> [g \in Attributes |-> value]
                @@ [p \in Paths |-> [g \in Attributes |-> "unspecified"]]]

MCTop == nodebin :> store @@ [p \in Parts |-> thin]
MCTools == erclint :> {ercbin} @@ javalint :> {jar} @@ [e \in Engines |-> {nodebin, rules}]

\* The lists as the code has them, for a wheel that brings its own node: what
\* each engine of HERMETIC_ENGINES runs and reads (engines.py:1578-1680 and
\* hermetic_env), what engines.json pins (build_wheels.py:315-428, 534-608) and
\* what doctor probes (doctor.py:327-339), as <<root, path>>.
HermeticTools ==
  LET thinBin(f) == <<"tackbox", f>>
      payload(f) == <<"tackbox_engines", f>>
      rule(f) == {payload("node"), payload("vendor"), <<"tackbox", f>>}
  IN  [erclint |-> {thinBin("erclint")},
       erclint_opengrep |-> {thinBin("erclint-opengrep"), <<"tackbox_opengrep", "opengrep">>},
       jscpd |-> {thinBin("tackbox-jscpd"), payload("jscpd")},
       javalint |-> {thinBin("javalint.jar")},
       eslint |-> rule("tackbox-eslint.js"),
       mdlint |-> rule("tackbox-mdlint.js")]
EnginesJson ==
  ({"tackbox"} \X {"erclint", "erclint-opengrep", "tackbox-jscpd", "ast-grep", "javalint.jar",
                   "tackbox-eslint.js", "tackbox-mdlint.js"})
    \cup ({"tackbox_engines"} \X {"node", "jscpd", "vendor"})
    \cup {<<"tackbox_opengrep", "opengrep">>}
DoctorProbes ==
  {<<"tackbox", "erclint">>, <<"tackbox", "erclint-opengrep">>, <<"tackbox_opengrep", "opengrep">>,
   <<"tackbox_engines", "node">>, <<"tackbox_engines", "jscpd">>}

\* What EnginesAssumption takes for granted is so for these lists.
ASSUME HermeticListsAgree ==
  \A e \in DOMAIN HermeticTools :
     /\ HermeticTools[e] \subseteq EnginesJson
     /\ \A t \in HermeticTools[e] : \E z \in DoctorProbes : z[1] = t[1]

Good ==
  [platform |-> "this", present |-> [p \in Payloads |-> TRUE], network |-> TRUE,
   part |-> [p \in Parts |-> "pinned"], starts |-> [t \in {store, thin} |-> TRUE],
   git |-> TRUE, go |-> TRUE, java |-> 21, astGrep |-> "pinned"]
Fresh == [Good EXCEPT !.present = [p \in Payloads |-> FALSE]]
\* One thing is wrong.
Spoiled ==
  {[Good EXCEPT !.platform = "other"], [Fresh EXCEPT !.network = FALSE],
   [Good EXCEPT !.git = FALSE], [Good EXCEPT !.go = FALSE]}
  \cup {[Good EXCEPT !.java = v] : v \in {0, 11, 17}}
  \cup {[Good EXCEPT !.astGrep = v] : v \in {"none", "other"}}
  \cup {[Good EXCEPT !.starts[t] = FALSE] : t \in {store, thin}}
  \cup {[Good EXCEPT !.part[p] = v] : p \in Parts, v \in {"changed", "missing"}}

Command(scope, mode, cached, machine, sick, steps, faults) ==
  [scope |-> scope, mode |-> mode, cached |-> cached, quality |-> TRUE,
   machine |-> machine, sick |-> sick, steps |-> steps, faults |-> faults]

\* A quiet tree in every shape, trees that change under the run, and installs
\* that doctor would pass or fail.
Quiet ==
  {[tree |-> World(ca, cg, cw, cj, v, k, mf, {}), opts |-> Command(s, md, e = {}, Good, e, 0, e # {})] :
     ca \in Contents, cg \in {"ok", "bug", "broken"}, cw \in {"ok", "bug", "sup"},
     cj \in {"ok", "broken"}, v \in {"unset", "set"}, k \in {"tracked", "untracked"},
     s \in {root, m, w}, md \in {"all", "since"}, e \in {{}, {eslint}},
     mf \in {{}, {w}}}
\* A package of which a part is asked about.
Partial ==
  {[tree |-> World(ca, cg, "ok", "ok", v, "committed", {}, {}), opts |-> Command(s, md, c, Good, {}, 0, FALSE)] :
     ca \in Contents, cg \in {"ok", "bug", "broken"}, v \in {"unset", "set"},
     s \in {root, a, gen}, md \in {"all", "since"}, c \in BOOLEAN}
Disturbed ==
  {[tree |-> World(ca, cg, cw, "ok", "true", k, {}, ds), opts |-> Command(root, md, c, Good, {}, 1, FALSE)] :
     ca \in {"ok", "bug"}, cg \in {"bug", "broken"}, cw \in {"ok", "bug"},
     k \in {"tracked", "untracked", "lost", "unstaged"}, md \in {"all", "changed"}, c \in BOOLEAN,
     ds \in {{}, {[file |-> a, kind |-> "usage"]}}}
Declared ==
  {[tree |-> World("bug", "ok", "ok", "ok", "unset", "lost", {}, {[file |-> f, kind |-> kd]}),
    opts |-> Command(root, "all", TRUE, Good, {}, 0, FALSE)] :
     f \in {a, w, j, doc}, kd \in {"capture", "usage", "other"}}
Installs ==
  {[tree |-> World(ca, "ok", cw, cj, "unset", "tracked", mf, {}),
    opts |-> Command(s, "all", FALSE, mc, {}, 0, FALSE)] :
     ca \in {"ok", "bug"}, cw \in {"ok", "sup"}, cj \in {"ok", "broken"}, mf \in {{}, {w}},
     s \in {root, m, w}, mc \in {Good, Fresh} \cup Spoiled}
\* A java version that a digest needs and nobody can tell.
NoJava ==
  {[v EXCEPT !.opts.cached = TRUE] : v \in {u \in Installs : u.opts.machine.java = 0}}
MCWorlds == Quiet \cup Partial \cup Disturbed \cup Declared \cup Installs \cup NoJava
              \cup {[v EXCEPT !.opts.scope = "*"] : v \in Disturbed}
MCSickWorlds == {v \in Quiet : v.opts.scope = root}
=============================================================================
