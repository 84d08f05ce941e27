--------------------------- MODULE MCEngineStore ----------------------------
(* An instance of EngineStore for TLC.                                     *)
EXTENDS EngineStore, TLC

CONSTANTS p1, p2, p3, e1, o1

\* p1 needs both payloads; the others have a directory of engines of their own
\* (the *_DIR override) and need opengrep alone.
MCNeeds == p1 :> <<e1, o1>> @@ p2 :> <<o1>> @@ p3 :> <<o1>>
=============================================================================
