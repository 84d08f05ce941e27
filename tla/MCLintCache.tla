---------------------------- MODULE MCLintCache -----------------------------
(* Instances of LintCache for TLC.                                         *)
EXTENDS LintCache, TLC

CONSTANTS r1, r2, r3, pkg, js, a, b, dep, tdep, go, eslint, v1, v2

MCEngine == pkg :> go @@ js :> eslint

\* The Go package holds a and b, and imports the package of dep, its tests that of
\* tdep; eslint also lints b.  Release v2 has a rule about the imports that v1 has
\* not.
MCOwn == pkg :> {a, b} @@ js :> {b}
MCCovered == pkg :> {a, b, dep} @@ js :> {b}
MCReads == pkg :> {a, b, dep, tdep} @@ js :> {b}
MCFinds(v, u, d) ==
  {f \in MCOwn[u] : \/ d[f] = "bug"
                    \/ u = pkg /\ v = v2 /\ "bug" \in {d[dep], d[tdep]}}

MCRelease == [r \in Runs |-> IF r = r3 THEN v1 ELSE v2]

\* Any two of the three runs, one after the other or at once; the imported files
\* are always among those to lint.
Pair == /\ Cardinality({r \in Runs : pc[r] # "start"}) <= 2
        /\ excluded \cap {dep, tdep} = {}

\* r1 and r2 are of one release.
Sym == Permutations({r1, r2})
=============================================================================
