------------------------------- MODULE Wheels --------------------------------
(***************************************************************************)
(* scripts/build_wheels.py for one platform: the two payload wheels, and   *)
(* the thin wheel that pins their trees and lists a digest of every part.  *)
(* Pure definitions; Release runs the build in the publish workflow.       *)
(*                                                                         *)
(* Abstractions.  A part is a file or a directory with a digest of its     *)
(* own; its content is its edition in the sources and, for what a compiler *)
(* makes, how that build turned out.  A digest is the content itself.      *)
(***************************************************************************)
EXTENDS Naturals, Functions

CONSTANTS Platforms, Payloads,
          Thin,        \* the root of the thin wheel
          Parts,
          Root,        \* Root[x]: the payload that part x belongs to, or Thin
          Absent,      \* Absent[pl]: parts the manifest has not for platform pl
          Pinned,      \* parts whose pins are in manifest.json or package-lock.json
          Vendored,    \* parts under vendor/, the tree npm ci installs
          Dotted,      \* parts with a dot-prefixed name on their path
          Compiled,    \* Compiled[pl]: parts built from their crate for pl, not
                       \* extracted from an archive
          Unlisted     \* parts without an entry in engines.json

ASSUME WheelsAssumption ==
  /\ Payloads # {} /\ Thin \notin Payloads
  /\ Root \in [Parts -> Payloads \cup {Thin}]
  /\ Absent \in [Platforms -> SUBSET Parts]
  /\ Compiled \in [Platforms -> SUBSET Parts]
  /\ Vendored \cup Dotted \cup Unlisted \cup Pinned \subseteq Parts

PartsOf(p, pl) == {x \in Parts \ Absent[pl] : Root[x] = p}

\* What cargo makes of the same crate may differ from build to build.
CargoBuild(src, pl, x, luck) == [edition |-> src.part[x][pl], luck |-> luck]

\* stage_binary and npm ci: an archive is what its pin says, or the build fails.
StageBinary(src, pl, x, luck) ==
  IF x \in Compiled[pl] THEN CargoBuild(src, pl, x, luck)
  ELSE [edition |-> src.part[x][pl], luck |-> 0]
Staged(src, pl, p, luck) == [x \in PartsOf(p, pl) |-> StageBinary(src, pl, x, luck)]

\* prune_dot_paths, called for the vendored tree alone, before it is hashed.
PruneDotPaths(tree) == Restrict(tree, DOMAIN tree \ (Vendored \cap Dotted))

Prepare(src, pl, p, luck) == PruneDotPaths(Staged(src, pl, p, luck))
Entries(tree) == Restrict(tree, DOMAIN tree \ Unlisted)

\* build_wheel: the package-data globs never match a dotted name, and miss
\* what nobody wrote a glob for.
BuildWheel(tree, missed) == Restrict(tree, DOMAIN tree \ (Dotted \cup missed))

VerifyWheelPayload(tree, wheel) == DOMAIN tree \subseteq DOMAIN wheel

\* main: what one build leaves in dist/, or nothing when a wheel lacks a part.
BuildPayloadWheel(src, pl, p, luck, missed) ==
  [version |-> src.version[p], content |-> BuildWheel(Prepare(src, pl, p, luck), missed)]

Pins(payload) == [p \in Payloads |-> [version |-> payload[p].version,
                                      store |-> payload[p].content]]

PrepareThin(src, pl, luck) ==
  [p \in Payloads \cup {Thin} |-> Entries(Prepare(src, pl, p, luck))]

\* Zip entries carry the time: a wheel built again is another file.
Built(src, pl, luck, missed, build) ==
  LET payload == [p \in Payloads |-> BuildPayloadWheel(src, pl, p, luck, missed)]
  IN  [payload |-> payload,
       thin |-> [build |-> build, pins |-> Pins(payload),
                 engines |-> PrepareThin(src, pl, luck),
                 content |-> BuildWheel(Prepare(src, pl, Thin, luck), missed)]]

BuildFails(src, pl, luck, missed) ==
  \E p \in Payloads \cup {Thin} :
     LET tree == Prepare(src, pl, p, luck)
     IN  ~VerifyWheelPayload(tree, BuildWheel(tree, missed))

\* doctor's payload-checksums over an install of thin whose stores hold
\* `stores`.
ChecksumsHold(thin, stores) ==
  \A p \in Payloads \cup {Thin} :
     LET found == IF p = Thin THEN thin.content ELSE stores[p]
     IN  \A x \in DOMAIN thin.engines[p] :
            x \in DOMAIN found /\ found[x] = thin.engines[p][x]
=============================================================================
