---------------------------- MODULE MCReportLimit ---------------------------
(* Instances of ReportLimit for TLC.                                       *)
EXTENDS ReportLimit, TLC

CONSTANTS t1, t2, t3

\* Threads differ in nothing but their name.
Sym == Permutations({t1, t2, t3})
=============================================================================
