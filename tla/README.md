# Formal verification of tackbox

tackbox lints code that coding agents write. One Python program (`py/tackbox`)
drives a set of engines (Go analyzers, eslint, markdownlint, javalint, opengrep,
jscpd), and hooks in the agent hosts (`js/omp`, `js/codex`, and the native
`tackbox hook` protocols) ask it before and after every edit. Small report
helpers (`go/report`, `py/tackbox_report`, `java/report`, `js/report.js`) ship
with the applications that tackbox lints.

This directory holds TLA+ models of the parts of that program where steps of
several actors meet, the TLC configurations that check them, and TLAPS proofs
about them. Every definition that models code is mapped to its lines in
`PROJECT.json`; `PROJECT.json` also lists the hazards the properties are aimed
at. Paths below are relative to the repository.

To check a run: `tlc -config <cfg> <module>`. To check the proofs:
`tlapm EngineStoreProofs.tla`, `tlapm HookVerdictProofs.tla`.

## Inventory

| Component | State it keeps | Operations | Talks to | What is hard |
|---|---|---|---|---|
| engine store (`engines.py` 120-520) | store directories, lock files, work directories | `ensure_payloads`, download, verify, unpack, rename | PyPI, other invocations through the file system | concurrent cold starts, kills, cut or replaced downloads |
| lint cache (`cache.py`, `cli.py` 281-366, 638-803) | marker files, one per clean unit | digest, probe, mark, trim, drop stale releases | engine runner; other runs through the marker directory | the tree is edited while it is linted, runs race on markers |
| engine runner (`engines.py` 533-875) | none between runs | dispatch, run, normalize output | engines as child processes | one engine of several fails; a compile break looks like silence |
| lint verdict (`cli.py` 369-468, 740-839; `codequality.py`) | report files | changed scope, plan, aggregate exits, orphans, CodeClimate file | cache, approvals gate, source set | the tree changes under the run; one failure must not hide another; the report is a second pass |
| source set (`source_set.py`, `gitfiles.py`) | none | snapshot of candidates, exclusions, module scopes | git | the snapshot is taken by several git commands |
| approvals gate (`approvals.py`, `cli.py` 1260-1539) | `.tackbox/approvals`, HEAD and worktree | `check`, `session_report`, pre and post decisions | hooks, git, the owner | multisets of markers and entries, parallel edits, no dead ends |
| scopes and escapes (`scopes.py`, `escapes.py`) | none | marker to scope address | approvals gate | eight languages |
| hook decisions (`cli.py` 936-1146, 1541-1821; `hookproto.py` 205-219) | none | repository discovery, event parsing, pre and post verdicts | hook client | aggregation over repositories, stale line numbers |
| payload normalization (`js/omp/payload.js`, `hookproto.py` 110-302) | none | edits and patches to targets and move pairs, result records to targets | hook client | sequences of moves, deletes and creates of one path; pruned and failed records |
| hook client (`js/omp/hook.js`, `js/omp/index.js`, `js/codex/hook.js`) | one child process per event | spawn, feed, read, deadline, answer | hook-protocol child, agent host | pipes, exit and deadline come in any order |
| report helpers (`go/report`, `py/tackbox_report`, `java/report`, `js/report.js`) | last send per key | error, warn, quiet, notify, panic | Sentry, a notifier of the application | many threads, clocks, notifiers that throw |
| duplicate detection (`tackbox-jscpd`, `callable_zones.py`) | none | filter clones by zones | engine runner | |
| build and release (`scripts/`, `publish.yml`, `publish-npm.yml`) | package indexes, runs of the workflow | build wheels, lock check, guard, upload, release | PyPI, npm | uploads that cannot be undone, half-published releases, re-runs |
| rules: Go, Java, Python, JavaScript, Markdown | none | pattern checks over syntax trees | engine runner | |
| doctor (`doctor.py`) | none | checks of an install | engine store, engines | its list of tools is written apart from lint's |
| reporters policy, repository tooling | none | a parser; `dev.py`, `hygiene.py` | | |

What makes each of them correct:

- *engine store*: only the pinned tree is ever visible; one fetch per payload
  version; "ready" means installed; nobody waits forever.
- *lint cache*: a marker never vouches for content with findings; a cached run
  reports what an uncached one would, which fails for what tests alone import; the number of markers is bounded.
- *hook client*: an answer is either the child's whole decision or
  "unverified"; it comes once, and it always comes; a tool that
  changes files runs only after tackbox or the owner said yes.
- *approvals gate*: no approval without the owner; the session report agrees
  with the check CI makes; an agent with debt can always repair it; debt is
  told to the call that made it.
- *report helpers*: the user lane is never suppressed; captures of a key are a
  window apart; what is dropped was captured.
- *engine runner, lint verdict*: a failed engine never yields a clean verdict;
  the gravest outcome wins.
- *hook decisions*: the gravest outcome of all repositories is the answer; findings
  outside the edit are not blamed on it, findings in it are not lost.
- *payload normalization*: the targets describe the same file changes as the
  patch; a move's two ends name each other.
- *source set*: an excluded file is reported by nobody, a file that is not
  excluded by somebody.
- *doctor*: an install that it passes can lint.
- *build and release*: every thin wheel on PyPI finds the payloads it pins; a
  release is complete before npm and GitHub have it; nobody who changed nothing
  is refused.

## Plan

Modules, in order; those of rows 1 to 9 exist; `HookSession` does not.

| # | Modules | Abstract specification or reference | Theorems |
|---|---|---|---|
| 1 | `EngineStore`, `EngineStoreProofs` | `PayloadStore` | done |
| 2 | `LintCache`, `LintCacheProofs` | a run without a cache (as `CacheTransparent`) | done |
| 3 | `HookCall`, `HookCallProofs` | an atomic gate: ask, answer, run (planned) | done |
| 4 | `SessionGate`, `SessionGateProofs` | `TreeReport` as the reference of `SessionReport` | done: all of its properties |
| 5 | `ReportLimit`, `ReportLimitProofs` | | done |
| 6 | `HookVerdict`, `HookVerdictProofs` | the reference `Wrote` of `SpanLines` | done |
| 7 | `SourceSet`, `Doctor`, `LintRun`, `LintRunProofs` | what is faulty in the tree the run started with (`Asked`, `Faulty`) | done: all of its properties |
| 8 | `HookPayload`, proved in `HookCallProofs` | the input applied to a disk, row by row | done: all of its properties |
| 9 | `Wheels`, `Release`, `ReleaseProofs` | | done |
| 10 | `HookSession` = `HookCall` + `SessionGate`: one call per process, over a shared tree | `SessionGate` | |

Bounds: every run is to end within a minute or two. The interesting cases of
all components need at most three actors, three files and two manifest
lines. Pure functions (in 7 and 8) are checked against a reference definition
over every small input. The modules that are to be proved about have no RECURSIVE
operator; their invariants are conjunctions of named parts.

## The modules

### EngineStore

One process is one tackbox invocation running `ensure_payloads`
(`engines.py:194`). `pc[p]` is its place in `ensure_payload`, `at[p]` the
payload it has come to, `lock`, `store`, `work` what is in the file system,
`claims`, `tries`, `body` the locals of `_download_wheel`. There is an action
for each file system or network step: the check without the lock, the lock, the
check under it, index, attempt, first and last member of the unpack, digest of
the tree, rename, cleanup, unlock. `BodyError` is any other exception in the
body, `Crash` a kill at any point. `fetch` is a history variable.

`PayloadStore` is the promise: payloads appear whole, once, and stay; an
invocation is told "ready" when all of its payloads are there. The mapping
keeps the store and reads the answer off `pc`.

The Windows and the POSIX lock are both an exclusive lock that dies with its
holder. The tree digest is taken to identify the tree. The branch "lost the
init race" (`engines.py:334-337`) is modelled in `Rename`;
the theorem `FetchSafe` (`FetchOnlyWhenAbsent`) shows that it is dead as long as
every installer locks.

### LintCache

One run of `tackbox lint` per process; the marker directory and the tree are
shared and unlocked. A digest is the content it covers, so a marker is
<<release, unit, content>>; `Finds` is what the engines of a release find in a
content. What a digest covers (`Covered`) and what findings depend on (`Reads`)
are two things: `go list -deps` is asked without `-test` (`cache.py:313`), so a
package that only tests import is not in the digest of a package whose test
files erclint analyzes. `Cleared` is what a marker can vouch for: some content
alike in what was digested has nothing to find. `Located` are the engines whose
findings name their unit; `NeverCached` stands for units whose digest is `None`
and for engines that are not cacheable. The steps between which others come are
kept apart: digest and analysis read the file separately, `is_file` and `touch`
are two steps, the trim lists first and unlinks one by one. Listing and ranking the markers is one step, and
an unlink of the trim is assumed to succeed.

`Quiet` states the assumption that nobody saves a file between the start of a
run and the end of its engines. Without it `MarkersSound` is false (see
Findings).

### HookCall

One tool call through `tool_call` and `tool_result`, each of which runs
`execute()` of `hook.js` once. A tool that names no file (bash, eval) is not
asked about before it runs, and is checked after it. Each handler of `execute()` is an action, in any
order the event loop may deliver them: stdin's finish and error, data, stream
errors, the child's error and close, the deadline. The child is external and may
be any program: it may write a decision, garbage or part of either at any time,
before it has read the event and before the host learns that the event is out,
exit in any way, or hang. So 'close' may come before 'finish' with a decision
that reads well, and after it, and in both orders `finishClose` has to wait for
the other. A child that was sent SIGTERM is "dying": it may go on writing, may
exit zero, and may never end. `js/codex/hook.js` differs in rendering an ask as a
block, which `ApplyPre` includes.

### SessionGate

A worktree and a HEAD; `Check` and `SessionReport` are `approvals.check` and
`session_report` as operators over the two. All markers of a file share one
address and text, which is the case the multiset pairing is about, so a file
is its own identity. `Pre`, `Owner`, `Land`, `PostNames`, `PostPatches` and `Post` are the
steps of a tool call, between which other calls, commits and opaque writes come.
An entry in the manifest is `Blank`, unparsable or for a file. The session
report of the post hook asks git for names, then for patches, then reads the
files, and the worktree may change in between; that of the pre hook is taken in
one step, as is the reading of the files. Suppressed
findings of the engines, the reporters gate and the resolution of an address
are not here.

### ReportLimit

Threads of one application. A report goes through the user lane, then the rate
gate, then the capture. `runtime`, chosen at the start, tells the languages
apart: Python decides under a lock, Go and Java load and store separately, and
all three report a throwing notifier by a nested quiet. JavaScript runs one
report at a time, but a listener (or `window.onerror` after one threw) may
report on the same stack: `dispatching` is the guard that skips the dispatch of
such a report, whose capture still happens. `nested` is the inner report.
`lag` and `ahead` are what a wall clock (`System.currentTimeMillis`, `Date.now`) was
set back and put forward, all times together: a setback and its correction move
both. Where Python decides under its lock, the clock is monotonic and does neither
(Go's is too; its thread steps are Java's).

### HookVerdict

One event of `tackbox hook-protocol`, from `_hook_outcome` to the wire
decision. `event` is the parsed request; `found[t]` what discovery said of each
target's repository; `left` the groups still to be decided; `group`, `unread`,
`debt`, `scope`, `doubt`, `results` the locals of the decision in progress;
`kinds` the outcomes so far. Discovery, the session report, each target's landed
lines, the engines and the verdict are separate actions, and `Disturb` (one
other writer, one change) may come between any two of them. A line of a file is
"fine" or the name of the engine that finds fault with it, so what an engine
reports, what the edit wrote (`Wrote`) and what the code takes for it
(`SpanLines`) can be compared. An engine ends as it ran, without a place for a
finding, dead, with a failed analyzer, or skipped for want of a compilable
package. `failed`, `asked` and `heard` are history.

Not here: the gates that make `_pre_gate_reasons` ask (a target may or may not
draw an ask; `SessionGate` has the manifest's), suppressed findings, the cache,
and the rendering for Claude Code, which maps each outcome alike. Fragments are
whole lines, while the code also finds them inside lines and then covers more.

### HookPayload

The input of one file mutation, row by row: a patch text with its sections,
moves and removals, an edits list of one file, or a form of one step. `drafts`
are the drafts of `payload.js`; `Send` finalizes them and puts them before the
strict parser of `hookproto.py` (`ParseRequest`). Then the tool runs, and
`Report` takes the host's records, each failed, landed with its text, or landed
and pruned, through `normalizeResult` and the parser again. Beside the drafts
the model keeps what the tool makes of the same rows (`disk`, `log`): that is
the reference. Rows are identified by the section and the place they were
written at, so text that moves with a file is told from text that was there.

`after` has a target for each place in each record that landed, so that what
became of a record can be spoken of by its place.

The tool is the host's and external. A list that renames its file and then
renames or deletes it again may mean more than one thing, and counts as one
that the tool cannot apply. A host is taken to report every mutation
(`perFileResults`); `README.md:813` names the aggregate error that does not.

### SourceSet, Doctor and LintRun

`SourceSet` and `Doctor` are pure: what the index, the worktree and check-attr
answer and what the code makes of it; and which checks of a machine make
doctor's verdict. `LintRun` takes one `tackbox lint` through them: the changed
scope, two listings, the pruning of what is gone, the attributes, the plan, link
targets (a second inventory), the store, the digests, every engine, the marks,
the console verdict, the approvals, and with `--codequality` a second pass that
writes the report. The environment saves, removes, re-attributes and restages
files between any two of these steps. A package engine reads the neighbours of the
files it was asked about and reports what it finds in them, unless they are
excluded. `how` tells a verdict from an error
message (exit 2), a traceback (exit 1, as for a reported file that vanished
before it was hashed, `cli.py:677`) and a closed pipe. An engine fails by
crashing half way through its output or by a part or a Java that its install
lacks. Git, go, the java whose version a digest needs, the report's path and a
crashing engine's last line may fail any step that depends on them; the lint of
uncovered files for what their markers hide (`_approval_details`) is such a step
of `Approve`, and its findings are left out, which only word the message. A file's
content is what the engines make of it; `Diagnose` is external.

### Wheels and Release

`Wheels` is `build_wheels.py` for one platform: which parts are staged, pruned,
listed in `engines.json` and packed, and what the thin wheel pins. `Release`
runs it in `publish.yml`. A tag carries sources, chosen among everything that
may be committed since the tag before (`Commits`: edits without a version bump,
bumps without an edit, a stale lock). One run is active and one pending, as the
concurrency group says. Jobs start when what they need is done, fail at any
step, and are run again, all of them or the failed ones. The guard reads an
index listing that may lag; uploads go file by file and skip names that exist.
A crate may compile differently from build to build. Nothing on PyPI ever
changes. The smoke jobs are what `doctor` checks on the built wheels.

## What is checked

| Run | Question | States |
|---|---|---|
| `engine_store` | Concurrent invocations, two payloads, a refused host: does one of them fetch, does only the pinned tree appear, does everybody end, is "ready" true, is `PayloadStore` implemented? | 94k |
| `cache` | Two runs of one release or of two, over units that depend on each other, with changing exclusions and broken engines: do markers tell the truth, is the cap kept, is the cache transparent but for what digests leave out? | 3.3M |
| `cache_edited` | The same with a file saved during the run (violation) | stops early |
| `cache_tests` | Two runs, and between them an edit of a package that only tests import: is what was skipped clean? (violation) | stops early |
| `hook_call` | One tool call, every order of events: whole verdicts, fail closed, one answer, in time? And beside it every input of four rows and every result of it: do the targets say what the tool does? | 184k |
| `session` | Every worktree over every HEAD: does the session report agree with the whole-tree check? And two agents, commits and opaque writes: are approvals the owner's, is debt told in time, while others change the tree under the report? | 865k |
| `report_gate` | Three threads, both kinds of gate, listeners that report again, a clock that is set back, put forward and corrected: are notices complete, windows held, drops covered? | 5.7M |
| `hook_verdict` | Every event of one or two targets in two repositories, every failure, another writer: is everything told that must be, nothing without a reason? | 1.8M |
| `hook_masked` | Does an engine's death show when another one has findings elsewhere? (violation) | stops early |
| `lint_run` | Every quiet tree, trees that change once under the run, installs that lack something: do the exit code, the report and doctor tell the truth? | 1.3M |
| `lint_report` | Does every failed engine have an issue in the report? (violation) | stops early |
| `release` | Two tags, with a fault, an edit, a bump, a drifting build and a re-run between them: do pins resolve, are refusals earned, are releases complete? | 706k |

`hook_call` and `session` put two questions into one run: the initial state
chooses which of them it is about, and the half that is not asked does not move.

Bounds and why they are enough:

- `engine_store`: one invocation needs both payloads, another only the second
  (its engines come from a directory of its own), a third is refused. Two
  contend for one payload while the first may be fetching another, so lock
  waits, failed and killed holders and late arrivals occur. Two attempts show a
  retry and its end. The proofs cover any number of all of these.
- `cache`: any two of three runs (the constraint `Pair`), of one release or of
  two, one after the other or at once; two units that share a file, a dependency
  of the package and one of its tests alone, two contents, a cap of one marker: a
  marker can be hit, evicted and written back, and a cap of one is exceeded by
  every second marker.
- `session`: the trees of the first question have one file with two lines and
  two manifest lines, so duplicates, moved markers and surplus on either side
  occur. The sessions have two files and `Steps = 3`: two calls that overlap and
  one commit or write. Calls are symmetric.
- `report_gate`: `Window` and `End` are two ticks, so a window can be entered
  and left. The wall clock falls behind once and jumps ahead once, in either
  order, which is a correction when one follows the other. Threads and clock do
  what some runtime does each: Python decides under a lock on a monotonic clock,
  JavaScript in one turn of one thread on the wall clock with one report from a
  listener, Go on a monotonic clock, Java on the wall clock in two steps. The run
  checks a superset of each.
- `hook_verdict`: pairs of targets from two repositories, or of one file, are
  what grouping, the order of severity and the merge of scopes are about. Two
  lines show a fault on the edit, one beside it and both; the first file's
  package has a neighbour that is faulty and one that is excluded. Two engines,
  one of each kind, fail independently. `Marked` and `Shared` bound which files
  may be in debt and which another writer may change.

- `hook_call`: `HookCall` has no bound. The inputs are of up to four rows, two
  of them headers, over two files that are there and one that is not: two
  sections with a row each, a chain of moves, a move onto a file that is named
  too, and a file removed and written again all occur. Nothing follows a row
  that the tool cannot apply.
- `lint_run`: a Go package with a hand-written and a generated file, one that
  build constraints exclude, an orphan, a script, a Java file, a Markdown file
  with links, a symlink and a submodule; a quiet tree in every content, one of
  whose package only a part is asked about, or one change at any step. One change suffices to be seen by one listing and not by
  the other; races of two writers with each other add nothing that tackbox
  sees.
- `release`: two tags share a payload version or do not, one platform lacks a
  part and compiles another. `Edits`, `Bumps`, `Faults`, `Drifts` and `Reruns`
  are one each, all of them in one behaviour.

Fairness. `EngineStore` assumes that an invocation that can take a step takes
one (`WF` of `Progress`): the operating system schedules processes, and `flock`
is eventually granted to some waiter; an error in taking the lock is possible
but never assumed, since it would make the property true for the wrong reason.
Nothing is assumed of crashes. `HookCall` assumes that the host runs and that
its timer fires, and nothing of the child, its pipes or the user. All other
properties are safety properties under no fairness.

## What is proved

A theorem holds for every value of the constants that satisfies the named
assumptions of its module; nothing else is assumed, and no bound of a
configuration enters. Every safety property that a passing run checks is the
subject of one; two liveness properties are not. Each `*Proofs` module strengthens the properties its
component's run checks to invariants that are inductive; TLC checked each of
those invariants on the run's instance before it was proved. To check the
proofs, run `tlapm` on every `*Proofs.tla`.

### EngineStoreProofs

For any finite or infinite set of invocations and payload versions, any
assignment of payloads to invocations and any number of attempts.

1. `TypeInvariant`: `TypeInv` is inductive. It is `TypeOK`, the index staying
   within the list of payloads (`AtInRange`), and that a process about to
   rename holds the pinned tree (`Verified`). `TypeCorrect` follows.
2. `LockSafe`: `LockDiscipline` is inductive given `TypeInv`. It says that the
   holder of a lock is exactly the process inside that section, so two
   processes inside one section are one.
3. `StoreInvariant`: visible trees are absent or pinned, the root of a process
   that is fetching is absent, and the history of fetches agrees with the
   program counters and the store: who has "running" is at a fetching point,
   who has "won" left a pinned tree. These need each other: a fetch starts only
   under the lock and after the second check, so no winner exists; `VisibleSafe`,
   `FetchSafe` and `OnceSafe` are its parts. `FetchedOnce` alone is not
   inductive: it says nothing of the store that a new fetcher looks at.
4. `ServedInvariant`: every payload before `at[p]` is pinned in the store,
   which never loses one; `ReadySafe` follows, since a process is ready only
   past the end of its list.
5. `Implements`: a step maps to `Publish` (a winning `Rename`), `Grant`
   (`AllEnsured`), `Refuse` (a failure or a crash) or a stutter.

### LintCacheProofs

For any runs, units, engines, releases and caps, and whatever the engines find
(`UnitsAssumption`: a digest covers the unit's own files and no more than the
findings depend on; `FindsAssumption`: findings are about the unit's own files).

1. `SoundInvariant`, under `Quiet`: the tree rests from a run's snapshot to the
   end of its engines (`Frozen`), so a digest is of the tree the run started
   with (`FromBase`), an engine that did not break has found every fault of what it read
   (`Raw`), and a unit whose marker was seen is cleared by its digest (`HitClean`). A marker
   is written for a digest of a unit without a raw finding, hence `MarkersSafe`; and a
   run reports its raw findings less those excluded, hence `TransparentSafe`. Where
   `Covered` is all of `Reads`, to be cleared is to be clean, and the report is
   exactly that of an uncached run: `ExactSafe`. Where it is not, `cache_tests`
   shows a run that misses a finding. `Quiet` is
   needed: without it `cache_edited` refutes `MarkersSound`.
2. `CapInvariant`, without `Quiet`. A cap at rest says nothing of the states in
   between, and two trims may list and unlink at once, so the invariant counts
   the markers of a release that nobody is about to unlink (`Held`), and caps
   them whenever no run of that release can still add one (`Pending`). A trim
   keeps the youngest: the markers have touch times of their own (`Times`), so
   their ranks by age are an injection into the naturals, and those kept map
   into `SoftCap` of them. No induction on the size of a set is used. At rest nothing
   is pending and no victims are left: `CapSafe`.

### HookCallProofs

For any interleaving of host, child, pipes, timer and user; there are no
constants to bound.

1. `ConversationInvariant`: a child has an exit code exactly when it is gone,
   'close' comes after both streams, a promise is settled exactly when there is
   an answer, and once 'close' and 'finish' have both come, and outside a hook
   there is neither deadline nor a child left to itself: `NothingLeftSafe` is a
   part.
2. `VerdictInvariant`: an answer was given after 'close', or it is "unverified" and
   the conversation a failure (`Verdict`), so nothing that comes later, a child
   that was killed and exits zero included, can make a verdict of it; this is what
   `WholeVerdictSafe` and `NoFalseAlarmSafe` need of the steps after the
   answer. That a deadline never fires on a complete conversation follows from the
   third part of `ConversationInvariant`.
3. `PassageInvariant`: what the host knows at each step of the call (`Passage`)
   carries "allow", or the user's yes, to the point where the tool runs:
   `FailClosedSafe`, `SilenceIsCleanSafe`.

For `HookPayload`, any number of files (of which finitely many are there
before the tool, `PathsAssumption`), rows, sections and records. A row is a
step, so an invariant of the steps says of an input of any length what it comes
to; no induction over a list is needed. `ReducedInvariant` has six parts:

1. `PayloadTyped`, and `Opened`: an open section has a draft and an entry of the
   log, and a draft that moves has a draft where it moves to.
2. `Mirrored`: as long as the tool can apply the rows, the drafts mirror the
   disk. No draft, and the file is as it was; a draft that stays, and the file is
   there, with no row that is neither old, nor in the draft, nor covered by the word
   that the text is not known. The converse fails in one place: a file that is
   removed and then written again is there while its draft, whose operation
   alone is set, does not expect it. Such a request is refused by
   `ParseTarget`, which is why `PreSafe` also needs
3. `Judged`: what was sent on was accepted, what was refused was not.
4. `Accounted`: the file an entry of the log leaves behind (`Left`) is in a draft,
   and the draft has the entry's rows as long as it stays. A pruned record takes its
   text from the target of the same file, operation and presence (`PrunedIs`),
   so it takes the right rows: `PostSafe`. The rows still to come are for the last
   entry's file, if that stays.
5. `Pairs`: in a plain input every move is one whole pair, x left for y and nothing
   else was said of either; this is what `ValidateMovePairs` asks for:
   `PlainSafe`.

### HookVerdictProofs

For any repositories, files, engines, disks and events that satisfy
`LayoutAssumption` (what is where) and `EventsAssumption` (what `parse_request`
lets pass).

1. `StructInvariant`: the locals belong to the group being decided, which is
   among those left, and are blank in between; all targets are discovered
   before the first group is decided. `TypedInvariant` adds the types, with
   the length of texts that keeps lines in range (`TypeSafe`).
2. `PendingInvariant`: `FailureTold` speaks of the answer only, so it is
   strengthened to every earlier state. A failure has made a grave outcome, or
   is in doubt in this group, or waits in a group left (`FailurePending`). An
   engine that failed where there is nothing to find has made a grave outcome,
   or its result awaits the verdict with no finding beside it
   (`TroublePending`, by `NothingFound` and, since another writer cannot make
   trouble, by `TroubleBefore`). A repository that lost its dev.py to the event
   has made a grave outcome or waits in a group that is not active
   (`LossPending`). `FailureSafe` follows when the last group is decided, since
   a grave outcome of one group is the answer to the event (`GraveAnswer`).
3. `FindingSafe`, from `EvidencePending`: a fault that stands on a line the
   edit wrote is ahead of the decision at every program point (`Ahead`): its
   repository is not yet decided, or its line is in the scope, or its engine's
   result is among the results, or the event is grave.
4. `BlameInvariant`: the way back. Every line in the scope was written by a
   target or belongs to one whose text is not there (`ScopeFounded`), every
   finding among the results is a faulty line of a file linted
   (`ResultsFounded`), so an outcome that blames the edit has its `Grounds`:
   `BlameSafe`.
5. `DecisionInvariant`: before an edit, the groups decided so far are refused
   exactly for those among them that refuse (`DecisionPending`), whatever the order in which
   they were decided; with none left this is `DecisionSafe`.

### ReportLimitProofs

For any number of threads, keys and reports, any window, and clocks that run,
are set back and are put forward for any time, any number of times (`NoKeyAssumption` keeps "no key" apart).

1. `UserLaneInvariant`: one report at a time in JavaScript (`OneTurn`), the guard
   up exactly while a listener is on the stack (`Guarded`), and a thread that
   owes one notice from the verb to the dispatch (`Owing`): `UserLaneSafe`.
2. `WindowInvariant`: a reading lags behind that of a clock that is put forward
   alike and never set back (`Steady`) by no more than the clock does
   (`Readings`), and where nothing comes between lookup and store, no
   capture is later than what is stored under its key but for that lag
   (`Behind`), for the thread about to look as well: `WindowSafe`. `Steady` is real
   time plus what the clock was put forward, which is where "less what it was put
   forward between them" comes from.
3. `DropInvariant`: with a clock never set back, what is stored under a key is
   the reading of a capture (`Witnessed`), in the racing runtimes too, and of two
   readings that the clock was put forward between the later one is the one
   after (`Ordered`), so that forward steps shorten no cover: `DropSafe`.

### ReleaseProofs

For any tags, platforms, payloads and parts, any budget of edits, bumps,
faults, drifting builds and re-runs; what is committed between two tags stays
opaque (`JobNamesAssumption` keeps the jobs apart; there is at least one
payload, without which the thin wheels would have nothing to wait for).

`Invariant` is one conjunction: the concurrency group (`Queue`), the order of jobs
(`Chain`), what a platform's build leaves (`DistInv`: versions and trees of
its sources, and a thin wheel that pins exactly those), what a job that is done
leaves (`DoneInv`), that every file on PyPI was built from the sources of a tag
of its version (`OriginInv`), and that behind a guard that saw every file of
its names those files are what the run built (`MatchInv`). The last is what
`EveryPinResolves` needs and does not say: a pin is right because the guard
compared, and stays right because uploads skip what exists and the other tag of
that version cannot be running. `PinsSafe`, `RefusedSafe` and `CompleteSafe` are
parts.

### SessionGateProofs

For any finite sets of files, lines and manifest lines (`LinesAssumption`), any
calls, edits and writes that name places of those and change a place once
(`EditsAssumption`), and file names that differ from the other contents of a
manifest line (`EntriesAssumption`) and from the other targets
(`TargetsAssumption`).

1. `TypeInvariant`.
2. `ApprovalSafe`. `NoSilentApproval` compares entries with what was given, and
   says nothing of a call that was allowed and has not landed. `Granted` counts
   its entries too (`Outstanding`), so it is inductive: `Pre` allows only edits
   that add none, the owner's yes gives what it makes outstanding, and a landing
   adds at most its share (`EntriesAfter`).
3. The pairing. `approvals.check` takes the first so many of a set, unchanged
   lines first. `Turns` says that this order is a numbering, so that what is left has
   the size it should (`SurplusSize`), and, when the unchanged are no more than are
   taken, is among the added (`AddedLast`). `ReportParts` then states the
   session report file by file.
4. `FalseDebtSafe`, `CapacitySafe` and `EscapeSafe` follow from types and those
   lemmas: they hold of every pair of a worktree and a HEAD, not only of those
   a session reaches.
5. `UnseenSafe`. `NoUnseenDebt` speaks of a session at rest, so it is not
   inductive. `Told` says, at any time when the manifest parses: debt that is not
   known is about to be told, by a call that touched the file or the manifest
   and is `Current`: its post hook has yet to ask git, or the names or patches it
   has read show the file as it is now (`Naming`, `Showing`), or more. That more is
   allowed is what makes it inductive: a commit, or a landing elsewhere, only takes
   from the difference (`Shrinks`), and a difference that shows more reports the
   file still (`ReportShrinks`, `ShownIsReported`). A landing that touches the file or
   the manifest becomes `Current` itself. TLC checked `Told` on the instance of
   `session_gate` first.
6. `RepairSafe`, for every pair of trees again. `Burden` is a number of four
   digits (`BurdenForm`), and no part of a report needs two (`RadixBound`,
   `ReportSizes`), so it is enough that the first digit that changes falls
   (`Smaller`, `LessToRepair`). The repairs are: blank a line that does not parse
   (`RepairManifest`), blank an entry that covers nothing or whose file does not
   resolve (`RepairEntry`), give a file good syntax, take out a marker that is
   debt (`FileRepair` of `Mending` and `Unmarking`). Each is in the fix set and asks
   nobody. What it does to one file is counted, the others' shares are equal
   (`ElsewhereSame`, `OtherFiles`).

### LintRunProofs

For any directories, files, engines, links and machines, and any worlds that
are trees with a machine whose Java has a number or none, 0 (`WorldsAssumption`).
Package engines print findings as JSON, lint Go files and take no link targets,
an engine that runs on Java lints Java files, every tool of an engine is a
part that `engines.json` pins, and of every root with a tool in it doctor probes
some program (`EnginesAssumption`).
That doctor's list and the command lines of the engines agree in this way is not
something `DoctorVouches` derives: `MCLintRun` writes down both lists as the code
has them (`HermeticTools`, `EnginesJson`, `DoctorProbes`) and TLC evaluates the
agreement (`HermeticListsAgree`); a tool added to one of them alone shows there
only once it is written down again.

`NothingUnlinted` speaks of the end of a run. `Vouched` says where a faulty file
that nobody touched (`Culprit`) is at every step before it:

1. `Standing`: where nobody was, the tree is as it was. A file that was staged
   or unstaged is a difference from HEAD all the same, unless it was staged
   back as HEAD has it, and is tracked or untracked, unless it slipped between two
   listings (`StillThere`). A change of the tree is noted (`ChangeStep`).
2. `Listing`: the file is among the changed, then in one of the two listings or
   still to be listed by the other, then in the snapshot.
3. `Planning`: its unit is among the arguments of every engine that faults it,
   with no marker of this run to take it out (`Orderly`), until the result of
   that engine blames something (`OutcomeBlames`, for an engine that works, crashes
   half way or cannot start). `BlameCounts`: one such result makes the exit code
   of them all a failure.
4. From there on the exit code is not 0, and nothing after it makes it 0 again.

The attempt corrected the property: it used to be claimed of a file that was
unstaged when the run began and is staged back before `git diff` is asked,
which `--changed` does not see. The instance has such a file now (`unstaged`).

The other three properties are about a tree that nobody touches, and say more of
it: not that a fault is found but that what is found is there. `Truthful` says
so at every step, of what the run would hold in an ideal world: the files
listed and excluded, `Plan`, and `Finds`, all of the first tree.

5. `Inventory`: each list is what the tree says. `Schedule`: the arguments are the
   plan, but for units that a marker of this run took out, in which nothing is to be
   found (`Covers`, `Spotless`; by `MarksSpotless` a marker is only made for such
   a unit, since a finding keeps its package or file out of `CleanArgs`).
6. `Testimony`: the result of an engine is all it has to say of its units
   (`WholeOf`), or it is broken and has exited 2 (`Heard`; `OutcomeSound`). A whole
   result blames, and has an issue, exactly when the engine has something to
   blame (`Guilty`; `WholeBlames`, `WholeIssues`). The second pass may have
   fewer results than the first; what it lacks is spotless.
7. `Verdict`: exit 0 is everybody's acquittal and no debt, any other exit is
   somebody's fault or a debt; and exit 2 is a broken engine's. `GuiltIsReason`: some
   engine is guilty exactly for one of the reasons that `VerdictExact` names.
   `VerdictSafe` follows.
8. `Story`: the report agrees, though the second pass has the markers of the
   first: `ReportSafe`.
9. `Served`: on a machine that doctor passes the run comes to a verdict, or the
   command line or the declarations were refused. With `HealthyEngine` (what
   doctor checks of the machine lets every engine with a plan start) and the
   last part of `Verdict` this is `DoctorSafe`.

This attempt corrected a property too. `VerdictExact` named as reasons the
faults of files asked about, packages that do not compile and debt. With
`--changed`, `--since` or a path, a package may be asked about in part, and a
finding in one of its other files fails the run as well. The instance
had no tree where that made the difference; it has some now (`Partial`), and the
property names the reason.

### Only model-checked

- `EveryInvocationEnds` and `HookReturns`: liveness and ENABLED are outside the
  proof system used here.

## Findings

- `cache_edited`: a file saved between its digest and its analysis leaves a
  clean marker for a content that the engine never saw
  (`py/tackbox/cli.py:676` against `cache.py:8`, `cli.py:709`). The marker is
  found again when the file is restored to the earlier content.
- `cache_tests`: the digest of a Go package does not cover the in-module packages
  that only its tests import, since `go list -deps` is asked without `-test`
  (`py/tackbox/cache.py:313`), but erclint analyzes test files. A change there
  leaves the importing package its clean marker, against `cache.py:20-21`
  ("A signature change in package B invalidates every in-module package that
  depends on B").
- `hook_masked`: after an edit, exit codes of the engines are looked at only
  when no finding is visible at all. A finding elsewhere, which the edit is not
  blamed for, makes the hook say "allow" although another engine died without
  findings (`py/tackbox/cli.py:1572` against `cli.py:1783`).

- `lint_report`: a failed engine that had printed a suppressed finding has no
  issue in the CodeClimate report: the printed finding stops the issue of the
  failure, and is itself filtered out (`py/tackbox/codequality.py:112` against
  `:94`). The exit code is 2 all the same.

Observed while modelling, without a run of their own; the first two are on the
safe side:

- A patch text that deletes a file and adds it again is refused as unverified
  (`payload.js` sets the operation and leaves the deletion's absence), while
  an edits list that says the same is accepted.
- `hookproto.py:84` says that a target may be absent after a failed operation
  without becoming unverified; `_post_scope` (`cli.py:1640`) reads neither
  `succeeded` nor `targetless`, and makes it unverified.
- `README.md:134` and `:145` say that `--changed` limits the scan to the dirty
  files; `erclint` analyzes whole packages, so it reports the unchanged
  neighbours of a dirty file, and fails the run for them. Only attributes
  filter its findings (`py/tackbox/cli.py:751`).
- `docs/report-contracts.md:57` says that Go and Java may admit "one extra
  in-window capture during a race". Nothing bounds it by one: as many threads as
  come between another one's lookup and its store (`go/report/report.go:359-364`)
  capture, each once.
- The rate window of JavaScript and Java is one of the wall clock
  (`js/report.js:59-66`, `Report.java:260`): put forward, or corrected after a
  setback, it lets a key be captured twice within one real window. `WindowHeld`
  says by how much, and that nothing else does.
- D005 says that every user-facing event is delivered; in JavaScript the notice
  of a report that a listener makes is skipped (`report.js:149`), which
  `js/README.md:315` documents for a listener that threw, and which also happens
  to one that did not. `UserLaneComplete` is about the other reports.

## Assumptions worth knowing

- `NothingUnlinted` exempts files that were themselves changed, files that
  were staged or unstaged between two listings of the run, which may see them
  in neither, and files that were staged back as HEAD has them before a run that
  asks for differences looked.
- `EveryPinResolves` exempts tags whose guard was given a listing that lacked a
  published file. The exemption is the model's, not the code's: the guard's
  docstring says "No CDN wait needed: it checks the already-converged published
  version" (`guard_engines_publish.py:18-19`), and for a listing that has not
  converged, as after a payload published minutes before, nothing makes that so.
- `PreFaithful` speaks of inputs that the tool can apply as a whole,
  `PostFaithful` of any record that landed.
- `FindingOnEditTold` exempts a file that another writer changed during the
  check: the landed lines are located first and linted later, so line numbers
  may have moved. `FailureTold` makes the same exception for an engine
  that failed with nothing to find and for a dev.py taken away, and none for
  the failures of its first part.
- `NoUnseenDebt` exempts files that an attribute change brought into linting:
  the post hook reports on the files of the edit (D020).
- `DropIsCovered` excepts a clock that was set back: Java and JavaScript then
  drop reports of a key until the wall clock has caught up.
- A repair in `DebtIsRepairable` is a single change of one line or file, and
  `Burden` is a measure that each such repair lowers.

## Not modelled, and why

Rules and engine wrappers are pattern checks over syntax trees: pure, and better
served by their tests. The parsing of sources (`scopes.py`, `escapes.py`), of
patch headers and of `.tackbox/reporters` is text processing; its result is the
identity of a marker, the file of a row or a set of declarations, which the
models take as given. Doctor's attributes section only informs. The development
builds of engines (`engines.py` 1242-1287 and 1424-1466), `dev.py` and `hygiene.py` are for
the project's own developers.
