--------------------------- MODULE MCHookVerdict ---------------------------
(***************************************************************************)
(* Two repositories, one with two files and one with one; an engine that   *)
(* reads packages (erclint) and one that reads files (jscpd).              *)
(***************************************************************************)
EXTENDS HookVerdict

CONSTANTS a, b, x, c, dev1, dev2, man1, man2, r1, r2

MCHome == [f \in {a, b, x, c, dev1, dev2, man1, man2} |-> IF f \in {c, dev2, man2} THEN r2 ELSE r1]
MCDevPy == [r \in {r1, r2} |-> IF r = r1 THEN dev1 ELSE dev2]
MCManifest == [r \in {r1, r2} |-> IF r = r1 THEN man1 ELSE man2]
MCLints == [e \in {"erclint", "jscpd"} |-> IF e = "erclint" THEN {a, b, x} ELSE {a, c}]

\* What an edit may leave in the first file, and what is in the others.
MCTrees ==
  {[f \in {a, b, x, c, dev1, dev2, man1, man2} |->
      CASE f = a -> inA [] f = b -> inB [] f = c -> <<"jscpd">> [] f = x -> <<"erclint">>
        [] OTHER -> <<"fine">>] :
     inA \in {<<"fine">>, <<"fine", "erclint">>, <<"erclint", "jscpd">>},
     inB \in {<<"fine">>, <<"erclint">>}}

Edit(f, fragment) == [file |-> f, stays |-> TRUE, whole |-> FALSE, added |-> {fragment}]
Write(f) == [file |-> f, stays |-> TRUE, whole |-> TRUE, added |-> {}]
Delete(f) == [file |-> f, stays |-> FALSE, whole |-> FALSE, added |-> {}]

MCTargets == {Edit(a, <<"fine">>), Edit(a, <<"fine", "erclint">>), Edit(a, <<"jscpd">>),
              Write(a), Delete(a), Edit(b, <<"fine">>), Edit(c, <<"jscpd">>),
              Delete(dev1), Write(man1)}

Pairs(s) == {{t, u} : t \in s, u \in s}

MCEvents ==
  [phase : {"pre", "post"}, unknown : {FALSE}, targets : {{}} \cup Pairs(MCTargets)]
  \cup [phase : {"pre", "post"}, unknown : {TRUE}, targets : {{}}]
=============================================================================
