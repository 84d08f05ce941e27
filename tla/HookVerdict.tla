---------------------------- MODULE HookVerdict ----------------------------
(***************************************************************************)
(* One event of an agent host as `tackbox hook-protocol` decides it        *)
(* (py/tackbox/cli.py).  The targets of one tool call may lie in several   *)
(* repositories.  Each repository is decided by itself, and the gravest    *)
(* outcome becomes the one answer.  After an edit the repository reports   *)
(* approvals debt, locates the landed lines of every target, lints the     *)
(* files and blames the edit for what is found on those lines.  Nothing is *)
(* locked: another writer may come between any two of these steps.         *)
(*                                                                         *)
(* Abstractions.  A line is "fine" or the name of the engine that finds    *)
(* fault with it; a fragment is a sequence of whole lines.  The files of a *)
(* repository that the package engine reads form one package.  Findings    *)
(* are those that no marker suppresses.  Approvals debt is a set of files  *)
(* (SessionGate computes it).  Discovery that fails groups by repository   *)
(* here, by message in the code; the outcome is the same.                  *)
(***************************************************************************)
EXTENDS Naturals, Sequences, FiniteSets

CONSTANTS Repos, Files,
          Home,         \* the repository of a file
          DevPy,        \* a repository's root dev.py
          Manifest,     \* a repository's .tackbox/approvals
          Engines,
          Lints,        \* the files each engine can read
          PackageEngine, \* erclint, which reads whole packages
          Excluded,     \* the files excluded by attributes
          Trees,        \* contents that the files of a disk may have
          Marked,       \* bound: the files that may be in debt
          Shared,       \* bound: the files another writer may change
          MaxLines,     \* bound: lines of a content
          Events        \* the events of the host

ASSUME LayoutAssumption ==
  /\ Home \in [Files -> Repos]
  /\ DevPy \in [Repos -> Files]
  /\ Manifest \in [Repos -> Files]
  /\ Lints \in [Engines -> SUBSET Files]
  /\ Excluded \subseteq Files /\ Marked \subseteq Files /\ Shared \subseteq Files
  /\ "fine" \notin Engines
  /\ MaxLines \in Nat
  /\ \A tree \in Trees :
       /\ tree \in [Files -> Seq(Engines \cup {"fine"})]
       /\ \A f \in Files : Len(tree[f]) <= MaxLines

ASSUME EventsAssumption ==
  \A e \in Events :
    /\ e.phase \in {"pre", "post"} /\ e.unknown \in BOOLEAN
    /\ e.unknown => e.targets = {}
    /\ \A t \in e.targets : t.file \in Files /\ t.stays \in BOOLEAN /\ t.whole \in BOOLEAN
    /\ \A t \in e.targets : t.added \subseteq Seq(Engines \cup {"fine"})

VARIABLES event,    \* phase, targets, and whether the host could name them
          present,  \* the disk: files that exist,
          text,     \* their contents,
          owed,     \* files with approvals debt
          disturbed, \* bound: the file that another writer has changed, if any
          pc,
          found,    \* what discovery said of each target
          left,     \* groups still to be decided
          group,    \* the group being decided
          unread,   \* its targets that _post_scope has not looked at
          debt,     \* its debt, as far as this event touches it
          scope,    \* HookPostScope.files
          doubt,    \* HookPostScope.failures is not empty
          results,  \* what its engines returned
          kinds,    \* the outcomes of the groups decided so far
          answer,
          failed, asked, heard \* history: failures, approvals asked for, and
                               \* which engines had trouble

disk == <<present, text, owed>>
locals == <<group, unread, debt, scope, doubt, results>>
history == <<failed, asked, heard>>
vars == <<event, disk, disturbed, pc, found, left, locals, kinds, answer, history>>

-----------------------------------------------------------------------------
Targets == event.targets
FilesOf(r) == {f \in Files : Home[f] = r}
Groups == {<<Home[t.file], found[t]>> : t \in Targets}
Members == {t \in Targets : <<Home[t.file], found[t]>> = group}
Repo == group[1]
Touched == {t.file : t \in Members}

\* _target_removes_root_dev_py.
RemovesDevPy(t) == ~t.stays /\ t.file = DevPy[Home[t.file]]

\* The first lines of the occurrences of a fragment.
Starts(content, fragment) ==
  {s \in 1..Len(content) : s + Len(fragment) - 1 <= Len(content)
                           /\ SubSeq(content, s, s + Len(fragment) - 1) = fragment}

\* _span_lines: the lines that the fragments occupy.
SpanLines(content, fragments) ==
  UNION {UNION {s .. s + Len(fragment) - 1 : s \in Starts(content, fragment)} : fragment \in fragments}

Missing(content, fragments) == {fragment \in fragments : Starts(content, fragment) = {}}

\* A file in scope as a whole: None.
AllLines == 1..MaxLines

\* _affected_for, of a file that could be read.
Affected(t) ==
  IF t.whole \/ t.added = {} \/ Missing(text[t.file], t.added) # {} THEN AllLines
  ELSE SpanLines(text[t.file], t.added)

\* Mutant: a second edit of a file replaces the lines of the first.
Replace(files, file, lines) ==
  [f \in DOMAIN files \cup {file} |-> IF f = file THEN lines ELSE files[f]]

\* The lines of several targets of one file add up.
Widen(files, file, lines) ==
  [f \in DOMAIN files \cup {file} |->
    (IF f \in DOMAIN files THEN files[f] ELSE {}) \cup (IF f = file THEN lines ELSE {})]

-----------------------------------------------------------------------------
\* What engine e finds in the files, as <<file, line>>.
Faults(e, files) == 
  {v \in files \X AllLines : v[2] <= Len(text[v[1]]) /\ text[v[1]][v[2]] = e}

Dispatched(files) == {f \in files : f \in present /\ f \notin Excluded}
Plan(files) == {e \in Engines : Lints[e] \cap Dispatched(files) # {}}

Reads(e, files) ==
  Lints[e] \cap Dispatched(IF e = PackageEngine THEN FilesOf(Repo) ELSE files)

\* How an engine can end: it ran; it ran and found something without a place;
\* it died or its output did not parse; an analyzer of it failed; the package
\* does not compile.
Moods(e) == {"ran", "vague", "died", "partial"} \cup (IF e = PackageEngine THEN {"skipped"} ELSE {})

Located(e, mood, files) ==
  IF mood \in {"ran", "vague", "partial"} THEN Faults(e, Reads(e, files)) ELSE {}

\* Every finding, wherever it is: visible.
Visible == UNION {r.findings : r \in results}

\* Mutant: a finding in a file that is not in scope is the edit's.
OnAnyFile == {v \in Visible : v[1] \in DOMAIN scope => v[2] \in scope[v[1]]}

\* _partition_by_scope: the findings to blame on the edit.
OnDiff == {v \in Visible : v[1] \in DOMAIN scope /\ v[2] \in scope[v[1]]}

\* _hook_findings_outcome.
LintOutcome ==
  IF OnDiff # {} \/ \E r \in results : r.unlocated THEN "violation" ELSE "allow"

\* _hook_infra_or_clean and _aggregate_exit.
InfraOrClean == IF \E r \in results : r.nonzero THEN "unverified" ELSE "allow"

\* Mutant: uncertainty is forgotten.
AsItIs(kind) == kind

\* _with_scope_failures.
WithScopeFailures(kind) == IF doubt /\ kind # "violation" THEN "unverified" ELSE kind

\* The end of _hook_post_decision.
PostOutcome ==
  WithScopeFailures(
    IF debt # {} \/ LintOutcome = "violation" \/ \E r \in results : r.broken THEN "violation"
    ELSE IF Visible # {} THEN LintOutcome
    ELSE InfraOrClean)

\* The gravest outcome.
Gravest(all) ==
  IF "violation" \in all THEN "violation"
  ELSE IF "unverified" \in all THEN "unverified"
  ELSE IF "approval" \in all THEN "approval"
  ELSE "allow"

\* Mutant: the phase does not count.
WireAlike(kind) ==
  CASE kind = "violation" -> "block"
    [] kind = "unverified" -> "warn"
    [] kind = "approval" -> "ask"
    [] OTHER -> "allow"

\* wire_decision.
Wire(kind) ==
  CASE kind = "violation" -> "block"
    [] kind = "unverified" -> IF event.phase = "pre" THEN "block" ELSE "warn"
    [] kind = "approval" -> IF event.phase = "pre" THEN "ask" ELSE "block"
    [] OTHER -> "allow"

-----------------------------------------------------------------------------
\* Mutant: the manifest is not part of a repair.
CodeOnly(r) == owed \cap FilesOf(r)

\* The files an edit may touch while the repository is in debt.
FixFiles(r) == (owed \cap FilesOf(r)) \cup {Manifest[r]}

\* _hook_pre_decision: the edit does more than repair the debt.
Strays == /\ Touched # {Manifest[Repo]}
          /\ owed \cap FilesOf(Repo) # {}
          /\ Touched \ FixFiles(Repo) # {}

Init ==
  /\ event \in Events
  /\ present \in {Files \ gone : gone \in SUBSET {t.file : t \in event.targets}}
  /\ text \in Trees
  /\ owed \in SUBSET Marked
  /\ disturbed = {}
  /\ pc = "start"
  /\ found = [t \in event.targets |-> "unknown"]
  /\ left = {} /\ group = <<>> /\ unread = {} /\ debt = {}
  /\ scope = <<>> /\ doubt = FALSE /\ results = {}
  /\ kinds = {} /\ answer = "none"
  /\ failed = {} /\ asked = {} /\ heard = {}

Finish(kind) == pc' = "done" /\ answer' = Wire(kind)

\* The host could not tell which files the tool touches.
Unclassified ==
  /\ pc = "start" /\ event.unknown
  /\ Finish("unverified")
  /\ UNCHANGED <<event, disk, disturbed, found, left, locals, kinds, history>>

\* A tool call that touches no file.
Untargeted ==
  /\ pc = "start" /\ ~event.unknown /\ Targets = {}
  /\ Finish("allow")
  /\ UNCHANGED <<event, disk, disturbed, found, left, locals, kinds, history>>

\* Discovery of one target's repository, which may fail.
Discover(t) ==
  /\ pc = "start" /\ ~event.unknown /\ found[t] = "unknown"
  /\ \E state \in {IF DevPy[Home[t.file]] \in present THEN "active" ELSE "inactive", "failed"} :
       /\ found' = [found EXCEPT ![t] = state]
       /\ failed' = IF state = "failed" THEN failed \cup {<<Home[t.file], "discovery">>} ELSE failed
  /\ UNCHANGED <<event, disk, disturbed, pc, left, locals, kinds, answer, asked, heard>>

Discovered ==
  /\ pc = "start" /\ Targets # {} /\ \A t \in Targets : found[t] # "unknown"
  /\ left' = Groups
  /\ pc' = "decide"
  /\ UNCHANGED <<event, disk, disturbed, found, locals, kinds, answer, history>>

\* The group has its outcome.
Decided(kind) ==
  /\ kinds' = kinds \cup {kind}
  /\ left' = left \ {group}
  /\ pc' = "decide"
  /\ group' = <<>> /\ unread' = {} /\ debt' = {}
  /\ scope' = <<>> /\ doubt' = FALSE /\ results' = {}

Enter(g) ==
  /\ pc = "decide" /\ g \in left
  /\ group' = g
  /\ pc' = IF g[2] # "active" THEN g[2] ELSE event.phase
  /\ UNCHANGED <<event, disk, disturbed, found, left, unread, debt, scope, doubt, results, kinds, answer, history>>

Undiscovered ==
  /\ pc = "failed"
  /\ Decided("unverified")
  /\ UNCHANGED <<event, disk, disturbed, found, answer, history>>

\* No dev.py in the root: nobody asked for the hook, unless this very event
\* took it away.
Inactive ==
  /\ pc = "inactive"
  /\ Decided(IF event.phase = "post" /\ \E t \in Members : RemovesDevPy(t)
             THEN "unverified" ELSE "inactive")
  /\ UNCHANGED <<event, disk, disturbed, found, answer, history>>

\* _hook_pre_decision; whether a target draws an approval is up to its content.
PreDecision ==
  /\ pc = "pre"
  /\ \E asks \in {TRUE, \E t \in Members : RemovesDevPy(t)} :
       /\ Decided(IF Strays THEN "violation" ELSE IF asks THEN "approval" ELSE "allow")
       /\ asked' = IF asks THEN asked \cup {Repo} ELSE asked
  /\ UNCHANGED <<event, disk, disturbed, found, answer, failed, heard>>

\* A HookInfrastructureError reaches _hook_event_outcome.
Raise(what) ==
  /\ Decided("unverified")
  /\ failed' = failed \cup {<<Repo, what>>}
  /\ UNCHANGED <<event, disk, disturbed, found, answer, asked, heard>>

\* Attributes, the session report or the findings of the debt are not to be had.
PreFailure == pc = "pre" /\ Raise("policy")

\* _hook_session_report, reduced to what the event touches.
Session ==
  /\ pc = "post"
  /\ debt' = IF Manifest[Repo] \in Touched THEN owed \cap FilesOf(Repo) ELSE owed \cap Touched
  /\ unread' = {t \in Members : t.stays}
  /\ pc' = "scope"
  /\ UNCHANGED <<event, disk, disturbed, found, left, group, scope, doubt, results, kinds, answer, history>>

SessionFailure == pc = "post" /\ Raise("session")

\* _post_scope, one target.
Locate(t) ==
  /\ pc = "scope" /\ t \in unread /\ t.file \in present
  /\ scope' = Widen(scope, t.file, Affected(t))
  /\ LET missing == ~t.whole /\ Missing(text[t.file], t.added) # {} IN
       /\ doubt' = (doubt \/ missing)
       /\ failed' = IF missing THEN failed \cup {<<t.file, "fragment">>} ELSE failed
  /\ unread' = unread \ {t}
  /\ UNCHANGED <<event, disk, disturbed, pc, found, left, group, debt, results, kinds, answer, asked, heard>>

\* The file is gone or cannot be read.
Unlocated(t) ==
  /\ pc = "scope" /\ t \in unread
  /\ doubt' = TRUE
  /\ failed' = failed \cup {<<t.file, "unread">>}
  /\ unread' = unread \ {t}
  /\ UNCHANGED <<event, disk, disturbed, pc, found, left, group, debt, scope, results, kinds, answer, asked, heard>>

\* _lint_results: every engine of the plan returns.
Lint ==
  /\ pc = "scope" /\ unread = {}
  /\ \E mood \in [Plan(DOMAIN scope) -> Moods(PackageEngine)] :
       /\ \A e \in DOMAIN mood : mood[e] \in Moods(e)
       /\ results' = {[engine |-> e,
                       findings |-> Located(e, mood[e], DOMAIN scope),
                       unlocated |-> mood[e] = "vague",
                       broken |-> mood[e] = "skipped",
                       nonzero |-> mood[e] # "ran" \/ Located(e, mood[e], DOMAIN scope) # {}]
                        : e \in DOMAIN mood}
       /\ heard' = heard \cup {<<Repo, e, mood[e]>> : e \in {d \in DOMAIN mood : mood[d] # "ran"}}
  /\ pc' = "verdict"
  /\ UNCHANGED <<event, disk, disturbed, found, left, group, unread, debt, scope, doubt, kinds, answer, failed, asked>>

\* No engine could be run; _scoped_hook_error keeps what was in doubt.
LintFailure ==
  /\ pc = "scope" /\ unread = {} /\ DOMAIN scope # {}
  /\ Raise("lint")

Verdict ==
  /\ pc = "verdict"
  /\ Decided(PostOutcome)
  /\ UNCHANGED <<event, disk, disturbed, found, answer, history>>

Answer ==
  /\ pc = "decide" /\ left = {}
  /\ Finish(Gravest(kinds))
  /\ UNCHANGED <<event, disk, disturbed, found, left, locals, kinds, history>>

\* Another agent, the user or a formatter.
Disturb ==
  /\ pc # "done" /\ disturbed = {}
  /\ \E f \in Shared :
       /\ disturbed' = {f}
       /\ \/ /\ present' = (IF f \in present THEN present \ {f} ELSE present \cup {f})
             /\ UNCHANGED text
          \/ /\ f \in present
             /\ \E tree \in Trees : tree[f] # text[f] /\ text' = [text EXCEPT ![f] = tree[f]]
             /\ UNCHANGED present
  /\ UNCHANGED <<event, owed, pc, found, left, locals, kinds, answer, history>>

Done == pc = "done" /\ UNCHANGED vars

Next ==
  \/ Unclassified \/ Untargeted \/ Discovered
  \/ \E t \in Targets : Discover(t)
  \/ \E g \in left : Enter(g)
  \/ Undiscovered \/ Inactive
  \/ PreDecision \/ PreFailure
  \/ Session \/ SessionFailure
  \/ \E t \in unread : Locate(t) \/ Unlocated(t)
  \/ Lint \/ LintFailure \/ Verdict
  \/ Answer \/ Disturb \/ Done

Spec == Init /\ [][Next]_vars

-----------------------------------------------------------------------------
States == {"unknown", "active", "inactive", "failed"}
Kinds == {"allow", "inactive", "approval", "violation", "unverified"}
Answered == answer # "none"
Active(r) == DevPy[r] \in present
Failed(where, what) == <<where, what>> \in failed
EngineFailed(r, e) == \E mood \in {"died", "partial", "skipped"} : <<r, e, mood>> \in heard

\* The state is well formed (cli.py 91-105, 1011-1058).
TypeOK ==
  /\ event \in Events /\ present \subseteq Files /\ owed \subseteq Files
  /\ \A f \in Files : \A i \in 1..Len(text[f]) : text[f][i] \in Engines \cup {"fine"}
  /\ disturbed \subseteq Shared /\ doubt \in BOOLEAN
  /\ pc \in {"start", "decide", "failed", "inactive", "pre", "post", "scope", "verdict", "done"}
  /\ found \in [Targets -> States]
  /\ left \subseteq Groups /\ unread \subseteq Targets /\ debt \subseteq Files
  /\ DOMAIN scope \subseteq Files /\ \A f \in DOMAIN scope : scope[f] \subseteq AllLines
  /\ \A r \in results : r.engine \in Engines
  /\ kinds \subseteq Kinds
  /\ answer \in {"none", "allow", "ask", "block", "warn"}
  /\ (answer = "ask" => event.phase = "pre") /\ (answer = "warn" => event.phase = "post")

\* Line i of a target's file is one the edit wrote.
Wrote(t, i) ==
  \/ t.whole \/ t.added = {}
  \/ \E fragment \in t.added : \E j \in 1..Len(fragment) :
       /\ i >= j /\ i - j + Len(fragment) <= Len(text[t.file])
       /\ \A k \in 1..Len(fragment) : text[t.file][i - j + k] = fragment[k]

\* Engine e is there to find fault with line i of the target's file.
Faulty(t, i, e) ==
  /\ t.stays /\ t.file \in present \cap Lints[e] /\ t.file \notin Excluded
  /\ i <= Len(text[t.file]) /\ text[t.file][i] = e

\* A finding on a line the edit wrote becomes a tool error, whatever else is
\* in the event: other targets of the file, other repositories, targets that
\* cannot be read, engines that fail (README.md 656-662; cli.py 1529-1580).
\* It may be lost only when the report itself, that engine or the reading of
\* that file failed, or another writer changed that very file meanwhile.
FindingOnEditTold ==
  event.phase = "post" /\ Answered =>
    \A t \in Targets : \A e \in Engines : \A i \in AllLines :
      (/\ Faulty(t, i, e) /\ Wrote(t, i) /\ Active(Home[t.file])
       /\ {t.file, DevPy[Home[t.file]]} \cap disturbed = {}
       /\ ~\E what \in {"discovery", "session", "lint"} : Failed(Home[t.file], what)
       /\ ~Failed(t.file, "unread")
       /\ ~EngineFailed(Home[t.file], e))
      => answer = "block"

\* Nothing in the repository is there to be found.
Faultless(r) == \A f \in FilesOf(r) \ Excluded : \A i \in 1..Len(text[f]) : text[f][i] = "fine"

\* What could not be verified is never passed as clean, whichever repository
\* of the event it happened in and whoever else was writing: a repository
\* that could not be discovered, a policy, report, file or linter that could
\* not be read or run, an engine that failed where there was no finding to
\* report, and a dev.py that the event itself took away (README.md 664-670;
\* cli.py 1061-1146).
FailureTold ==
  Answered /\ ~event.unknown =>
    /\ failed # {} => answer \in {"warn", "block"}
    /\ (\E r \in Repos : /\ \E e \in Engines : EngineFailed(r, e)
                         /\ Faultless(r) /\ disturbed \cap FilesOf(r) = {})
       => answer \in {"warn", "block"}
    /\ (/\ event.phase = "post"
        /\ \E t \in Targets : RemovesDevPy(t) /\ ~Active(Home[t.file]) /\ t.file \notin disturbed)
       => answer \in {"warn", "block"}

\* A finding is blamed on the edit only for a reason: a line the edit wrote, a
\* file that was widened because a fragment was not found in it, a finding
\* without a place, a package that does not compile, or debt in a file it
\* touched (cli.py 1532, 1740-1759, D020).
BlameHasReason ==
  event.phase = "post" /\ answer = "block" /\ disturbed = {} =>
    \E r \in Repos :
      /\ Active(r)
      /\ \/ \E e \in Engines : {<<r, e, "vague">>, <<r, e, "skipped">>} \cap heard # {}
         \/ \E t \in Targets : Home[t.file] = r /\ (t.file \in owed \/ (t.file = Manifest[r] /\ owed \cap FilesOf(r) # {}))
         \/ \E t \in Targets : \E e \in Engines : \E i \in AllLines :
              /\ Home[t.file] = r /\ Faulty(t, i, e)
              /\ Wrote(t, i) \/ Missing(text[t.file], t.added) # {}

\* The targets of one repository do more than repair its debt.
IndebtedStray(r) ==
  LET touched == {t.file : t \in {u \in Targets : Home[u.file] = r}} IN
    /\ touched # {} /\ touched # {Manifest[r]} /\ owed \cap FilesOf(r) # {}
    /\ \E f \in touched : f \notin owed /\ f # Manifest[r]

\* Before an edit the answer covers all of its repositories or none: it is
\* refused as a whole when one of them is in debt that the edit does not
\* repair, the debt of one never restricts another, and an approval one of
\* them needs is asked for (README.md 678-688).
OneDecision ==
  event.phase = "pre" /\ Answered /\ ~event.unknown /\ failed = {}
  /\ disturbed \cap {DevPy[r] : r \in Repos} = {} =>
    /\ (answer = "block") <=> (\E r \in Repos : Active(r) /\ IndebtedStray(r))
    /\ (answer = "ask") <=> (answer # "block" /\ asked # {})

\* cli.py 1783 says of the lint after an edit: "Treat a nonzero engine without
\* findings as unverified, never as clean."
NonzeroEngineTold ==
  event.phase = "post" /\ Answered =>
    \A r \in Repos, e \in Engines : <<r, e, "died">> \in heard => answer # "allow"
=============================================================================
