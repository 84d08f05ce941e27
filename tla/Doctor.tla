------------------------------- MODULE Doctor --------------------------------
(***************************************************************************)
(* What `tackbox doctor` vouches for: the checks of py/tackbox/doctor.py   *)
(* as conditions on a machine with a hermetic install.  (In dev mode the   *)
(* store, checksum and start checks say "skipped"; the informational       *)
(* attributes section decides nothing.)  Pure definitions; LintRun lints   *)
(* on such machines.                                                       *)
(*                                                                         *)
(* A machine is a record: platform says whether the wheel was built for    *)
(* it, present[p] and network whether payload p is unpacked and can be     *)
(* fetched, part[x] what is at x's path, starts[t] whether the programs    *)
(* under root t may run at all; git, go, java (its major version, 0 when   *)
(* there is none) and astGrep are found on PATH.                           *)
(***************************************************************************)
EXTENDS Naturals

CONSTANTS Payloads, Thin,  \* payload roots, and the root of the thin wheel
          Parts,           \* the paths engines.json pins
          Top,             \* Top[x]: the root that part x is under
          Probed           \* the programs _check_binaries_start runs

ASSUME PartsAssumption ==
  /\ Thin \notin Payloads /\ Top \in [Parts -> Payloads \cup {Thin}]
  /\ Probed \subseteq Parts

JavaMinMajor == 17

\* ensure_payload: a payload that is not there is fetched, and then whole.
Ensured(m, p) == m.platform = "this" /\ (m.present[p] \/ m.network)
PartOf(m, x) ==
  IF Top[x] \in Payloads /\ ~m.present[Top[x]]
  THEN IF Ensured(m, Top[x]) THEN "pinned" ELSE "missing"
  ELSE m.part[x]

CheckPlatform(m) == m.platform = "this"

\* The whole-tree checksum of one payload store.
CheckStore(m, p) ==
  Ensured(m, p) /\ \A x \in Parts : Top[x] = p => PartOf(m, x) = "pinned"

\* The checksum of every entry, of the wheel too.
CheckPayloadChecksums(m) == \A x \in Parts : PartOf(m, x) = "pinned"

Starts(m, x) == PartOf(m, x) = "pinned" /\ m.starts[Top[x]]
CheckBinariesStart(m) == \A x \in Probed : Starts(m, x)

\* Mutant: any java will do.
JavaPresent(m, needed) == needed => m.java > 0

\* The toolchains are asked for only when the source set has their files.
CheckGoToolchain(m, needed) == needed => m.go
CheckJavaToolchain(m, needed) == needed => m.java >= JavaMinMajor
CheckAstGrep(m) == m.astGrep = "pinned"

\* _run_all_checks; needsGo and needsJava come from one shared snapshot.
DoctorOk(m, needsGo, needsJava) ==
  /\ CheckPlatform(m)
  /\ \A p \in Payloads : CheckStore(m, p)
  /\ CheckPayloadChecksums(m)
  /\ CheckBinariesStart(m)
  /\ m.git
  /\ CheckGoToolchain(m, needsGo)
  /\ CheckJavaToolchain(m, needsJava)
  /\ CheckAstGrep(m)
=============================================================================
