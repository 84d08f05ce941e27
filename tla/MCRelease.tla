----------------------------- MODULE MCRelease ------------------------------
(* An instance of Release for TLC: both payloads, a platform that has node *)
(* in its payload and one that builds jscpd from its crate.                *)
EXTENDS Release, TLC

CONSTANTS engines, opengrep, linux, android, node, jscpd, lockfile, og, notice

MCRoot == [x \in Parts |-> IF x \in {og, notice} THEN opengrep ELSE engines]
MCCompiled == linux :> {} @@ android :> {jscpd}
MCAbsent == linux :> {} @@ android :> {node}
=============================================================================
