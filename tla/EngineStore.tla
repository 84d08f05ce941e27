---------------------------- MODULE EngineStore -----------------------------
(***************************************************************************)
(* The engine store of py/tackbox/engines.py: concurrent tackbox           *)
(* invocations (agent hooks, lint runs) each call ensure_payloads(), which *)
(* makes sure that every payload version they pin is installed in a        *)
(* machine-wide directory.  An absent payload is downloaded into a work    *)
(* directory, unpacked, compared with the pinned tree digest and renamed   *)
(* into place, all under one advisory file lock per payload version.       *)
(*                                                                         *)
(* One process of the model is one invocation: it is started once and      *)
(* ends ready, failed or killed.  A later retry is another process.        *)
(*                                                                         *)
(* Abstractions.  A tree is one of: the pinned one, another one, an        *)
(* unfinished one.  A downloaded body is named for what is wrong with it.  *)
(* Any OSError or bad archive met between making the work directory and    *)
(* the rename is the one action BodyError.  A payload whose *_DIR override *)
(* is set short-circuits ensure_payload and is simply not in Needs[p].     *)
(***************************************************************************)
EXTENDS Naturals, Sequences

CONSTANTS Procs,      \* invocations
          Roots,      \* store_base(payload) / version, over all payloads
          Needs,      \* Needs[p]: the roots p ensures, in PAYLOADS order
          Drifted,    \* invocations whose wheel pins another platform
          Attempts,   \* _DOWNLOAD_ATTEMPTS
          NoProc      \* the lock is free

ASSUME NeedsAssumption == Needs \in [Procs -> Seq(Roots)]
ASSUME DriftedAssumption == Drifted \subseteq Procs
ASSUME AttemptsAssumption == Attempts \in Nat \ {0}
ASSUME NoProcAssumption == NoProc \notin Procs

VARIABLES pc,       \* where p is in ensure_payload
          at,       \* index in Needs[p] of the payload p is ensuring
          lock,     \* lock[r]: the holder of r's install lock
          store,    \* store[r]: the tree a reader finds at r
          work,     \* work[p]: p's work directory, by the tree staged in it
          claims,   \* claims[p]: what p's index entry lets it check
          tries,    \* tries[p]: the download attempt p is making
          body,     \* body[p]: what p downloaded
          raised,   \* an exception is unwinding p
          fetch     \* history: how p's fetch of r went

dl == <<claims, tries, body>>   \* the locals of _download_wheel

vars == <<pc, at, lock, store, work, dl, raised, fetch>>

-----------------------------------------------------------------------------
(* The data.                                                               *)

Absent == "absent"
Pinned == "pinned"

Trees == {Absent, "partial", "other", Pinned}

\* A body as it lands on disk: the published wheel (whose tree is the pinned
\* one or another one), one cut short in transit, one garbled in transit, or
\* nothing because the transport raised.
Bodies == {"published", "foreign", "cut", "garbled", "none"}

\* What an index entry offers for checking a download.
Claims == SUBSET {"size", "digest"}

\* The tree a whole archive unpacks to; a garbled one that still opens holds
\* some other tree.
TreeOf(b) == IF b = "published" THEN Pinned ELSE "other"

\* _download_verified's checks: the size and the digest the index claims, each
\* made only when the entry has it.
Accepts(c, b) == /\ b # "none"
                 /\ "size" \in c => b # "cut"
                 /\ "digest" \in c => b \notin {"cut", "garbled"}

Fetching == {"index", "download", "unpack", "unpacking", "verify", "rename"}
Holding  == {"recheck", "cleanup", "unlock"} \cup Fetching
Ended    == {"ready", "failed", "crashed"}
PCs      == {"check", "lock"} \cup Holding \cup Ended

Fetches == {"never", "running", "abandoned", "won"}

Root(p) == Needs[p][at[p]]
NeedCount(p) == Len(Needs[p])
Finished(p) == at[p] > NeedCount(p)

-----------------------------------------------------------------------------
Init ==
  /\ pc = [p \in Procs |-> "check"]
  /\ at = [p \in Procs |-> 1]
  /\ lock = [r \in Roots |-> NoProc]
  /\ store = [r \in Roots |-> Absent]
  /\ work = [p \in Procs |-> "none"]
  /\ claims = [p \in Procs |-> {}]
  /\ tries = [p \in Procs |-> 1]
  /\ body = [p \in Procs |-> "none"]
  /\ raised = [p \in Procs |-> FALSE]
  /\ fetch = [p \in Procs |-> [r \in Roots |-> "never"]]

\* ensure_payloads has been through all of PAYLOADS.
AllEnsured(p) ==
  /\ pc[p] = "check" /\ Finished(p)
  /\ pc' = [pc EXCEPT ![p] = "ready"]
  /\ UNCHANGED <<at, lock, store, work, dl, raised, fetch>>

\* _assert_runtime_platform refuses before any lock or download.
RefusePlatform(p) ==
  /\ pc[p] = "check" /\ ~Finished(p)
  /\ p \in Drifted
  /\ raised' = [raised EXCEPT ![p] = TRUE]
  /\ pc' = [pc EXCEPT ![p] = "failed"]
  /\ UNCHANGED <<at, lock, store, work, dl, fetch>>

\* The first root.is_dir(), made without the lock.
CheckUnlocked(p) ==
  /\ pc[p] = "check" /\ ~Finished(p)
  /\ p \notin Drifted
  /\ \/ /\ store[Root(p)] # Absent
        /\ at' = [at EXCEPT ![p] = @ + 1]
        /\ UNCHANGED pc
     \/ /\ store[Root(p)] = Absent
        /\ pc' = [pc EXCEPT ![p] = "lock"]
        /\ UNCHANGED at
  /\ UNCHANGED <<lock, store, work, dl, raised, fetch>>

\* flock(LOCK_EX) returns once nobody else holds r's lock file.
Lock(p) ==
  /\ pc[p] = "lock"
  /\ lock[Root(p)] = NoProc
  /\ lock' = [lock EXCEPT ![Root(p)] = p]
  /\ pc' = [pc EXCEPT ![p] = "recheck"]
  /\ UNCHANGED <<at, store, work, dl, raised, fetch>>

\* The lock file cannot be created or locked.
LockError(p) ==
  /\ pc[p] = "lock"
  /\ raised' = [raised EXCEPT ![p] = TRUE]
  /\ pc' = [pc EXCEPT ![p] = "failed"]
  /\ UNCHANGED <<at, lock, store, work, dl, fetch>>

\* Mutant: the check made without the lock is trusted.
TrustFirstCheck(p) ==
  /\ pc[p] = "recheck"
  /\ pc' = [pc EXCEPT ![p] = "index"]
  /\ work' = [work EXCEPT ![p] = Absent]
  /\ fetch' = [fetch EXCEPT ![p] = [@ EXCEPT ![Root(p)] = "running"]]
  /\ UNCHANGED <<at, lock, store, dl, raised>>

\* root.is_dir() again, under the lock; mkdtemp when it is still absent.
Recheck(p) ==
  /\ pc[p] = "recheck"
  /\ \/ /\ store[Root(p)] # Absent
        /\ pc' = [pc EXCEPT ![p] = "unlock"]
        /\ UNCHANGED <<work, fetch>>
     \/ /\ store[Root(p)] = Absent
        /\ pc' = [pc EXCEPT ![p] = "index"]
        /\ work' = [work EXCEPT ![p] = Absent]
        /\ fetch' = [fetch EXCEPT ![p] = [@ EXCEPT ![Root(p)] = "running"]]
  /\ UNCHANGED <<at, lock, store, dl, raised>>

\* The release's index entry: it may or may not claim a size and a digest.
FetchIndex(p) ==
  /\ pc[p] = "index"
  /\ \E c \in Claims : claims' = [claims EXCEPT ![p] = c]
  /\ pc' = [pc EXCEPT ![p] = "download"]
  /\ UNCHANGED <<tries, body, at, lock, store, work, raised, fetch>>

\* An exception unwinds to the finally of _fetch_and_install.
Raise(p) ==
  /\ raised' = [raised EXCEPT ![p] = TRUE]
  /\ fetch' = [fetch EXCEPT ![p] = [@ EXCEPT ![Root(p)] = "abandoned"]]
  /\ pc' = [pc EXCEPT ![p] = "cleanup"]

\* One attempt of _download_wheel; the attempts share one destination file.
Download(p) ==
  /\ pc[p] = "download"
  /\ \E b \in Bodies :
       \/ /\ Accepts(claims[p], b)
          /\ body' = [body EXCEPT ![p] = b]
          /\ pc' = [pc EXCEPT ![p] = "unpack"]
          /\ UNCHANGED <<tries, raised, fetch>>
       \/ /\ ~Accepts(claims[p], b)
          /\ tries[p] < Attempts
          /\ tries' = [tries EXCEPT ![p] = @ + 1]
          /\ UNCHANGED <<pc, body, raised, fetch>>
       \/ /\ ~Accepts(claims[p], b)
          /\ tries[p] = Attempts
          /\ Raise(p)
          /\ UNCHANGED <<tries, body>>
  /\ UNCHANGED <<at, lock, store, work, claims>>

\* Mutant: members are written straight into the store.
UnpackInPlace(p) ==
  /\ pc[p] = "unpack"
  /\ body[p] # "cut"
  /\ store' = [store EXCEPT ![Root(p)] = "partial"]
  /\ work' = [work EXCEPT ![p] = "partial"]
  /\ pc' = [pc EXCEPT ![p] = "unpacking"]
  /\ UNCHANGED <<at, lock, dl, raised, fetch>>

\* _unpack_payload writes member after member into work/store.
UnpackStart(p) ==
  /\ pc[p] = "unpack"
  /\ body[p] # "cut"       \* a cut archive does not open: BodyError
  /\ work' = [work EXCEPT ![p] = "partial"]
  /\ pc' = [pc EXCEPT ![p] = "unpacking"]
  /\ UNCHANGED <<at, lock, store, dl, raised, fetch>>

UnpackEnd(p) ==
  /\ pc[p] = "unpacking"
  /\ work' = [work EXCEPT ![p] = TreeOf(body[p])]
  /\ pc' = [pc EXCEPT ![p] = "verify"]
  /\ UNCHANGED <<at, lock, store, dl, raised, fetch>>

\* Mutant: what the download checked is not checked again.
TrustDownload(p) ==
  /\ pc[p] = "verify"
  /\ pc' = [pc EXCEPT ![p] = "rename"]
  /\ UNCHANGED <<at, lock, store, work, dl, raised, fetch>>

\* sha256_tree(staged) against the pin.
VerifyTree(p) ==
  /\ pc[p] = "verify"
  /\ \/ /\ work[p] = Pinned
        /\ pc' = [pc EXCEPT ![p] = "rename"]
        /\ UNCHANGED <<raised, fetch>>
     \/ /\ work[p] # Pinned
        /\ Raise(p)
  /\ UNCHANGED <<at, lock, store, work, dl>>

\* os.rename(staged, root); when root is already a directory the staged tree
\* is dropped and the one in place is used.
Rename(p) ==
  /\ pc[p] = "rename"
  /\ store' = [store EXCEPT ![Root(p)] = IF @ = Absent THEN work[p] ELSE @]
  /\ work' = [work EXCEPT ![p] = Absent]
  /\ fetch' = [fetch EXCEPT ![p] = [@ EXCEPT ![Root(p)] = "won"]]
  /\ pc' = [pc EXCEPT ![p] = "cleanup"]
  /\ UNCHANGED <<at, lock, dl, raised>>

\* Any other failure of the body: an index without the wheel, a full disk, an
\* archive that does not open or has no payload, a rename the system refuses.
BodyError(p) ==
  /\ pc[p] \in Fetching
  /\ Raise(p)
  /\ UNCHANGED <<at, lock, store, work, dl>>

\* Mutant: attempts are counted from zero.
CountFromZero(p) ==
  /\ claims' = [claims EXCEPT ![p] = {}]
  /\ tries' = [tries EXCEPT ![p] = 0]
  /\ body' = [body EXCEPT ![p] = "none"]

\* _download_wheel's frame is gone.
ForgetDownload(p) ==
  /\ claims' = [claims EXCEPT ![p] = {}]
  /\ tries' = [tries EXCEPT ![p] = 1]
  /\ body' = [body EXCEPT ![p] = "none"]

\* finally: shutil.rmtree(work).
Cleanup(p) ==
  /\ pc[p] = "cleanup"
  /\ work' = [work EXCEPT ![p] = "none"]
  /\ ForgetDownload(p)
  /\ pc' = [pc EXCEPT ![p] = "unlock"]
  /\ UNCHANGED <<at, lock, store, raised, fetch>>

\* Mutants: the lock is released on success only; the failure is swallowed.
UnlockOnSuccess(p) ==
  /\ pc[p] = "unlock"
  /\ \/ /\ raised[p]
        /\ pc' = [pc EXCEPT ![p] = "failed"]
        /\ UNCHANGED <<at, lock>>
     \/ /\ ~raised[p]
        /\ lock' = [lock EXCEPT ![Root(p)] = NoProc]
        /\ pc' = [pc EXCEPT ![p] = "check"]
        /\ at' = [at EXCEPT ![p] = @ + 1]
  /\ UNCHANGED <<store, work, dl, raised, fetch>>
SwallowFailure(p) ==
  /\ pc[p] = "unlock"
  /\ lock' = [lock EXCEPT ![Root(p)] = NoProc]
  /\ pc' = [pc EXCEPT ![p] = "check"]
  /\ at' = [at EXCEPT ![p] = @ + 1]
  /\ UNCHANGED <<store, work, dl, raised, fetch>>

\* Leaving the with block: the lock is released, then either the exception
\* goes on or ensure_payloads takes the next payload.
Unlock(p) ==
  /\ pc[p] = "unlock"
  /\ lock' = [lock EXCEPT ![Root(p)] = NoProc]
  /\ \/ /\ raised[p]
        /\ pc' = [pc EXCEPT ![p] = "failed"]
        /\ UNCHANGED at
     \/ /\ ~raised[p]
        /\ pc' = [pc EXCEPT ![p] = "check"]
        /\ at' = [at EXCEPT ![p] = @ + 1]
  /\ UNCHANGED <<store, work, dl, raised, fetch>>

\* Mutant: a lock file that outlives its holder.
CrashHoldingLock(p) ==
  /\ pc[p] \notin Ended
  /\ pc' = [pc EXCEPT ![p] = "crashed"]
  /\ fetch' = [fetch EXCEPT ![p] =
                 [r \in Roots |-> IF @[r] = "running" THEN "abandoned" ELSE @[r]]]
  /\ work' = [work EXCEPT ![p] = "none"]
  /\ ForgetDownload(p)
  /\ UNCHANGED <<at, lock, store, raised>>

\* The process is killed: no finally runs and the kernel releases every lock
\* the process held.  Its work directory stays behind under a name no process
\* uses again (mkdtemp), so the model forgets it.
Crash(p) ==
  /\ pc[p] \notin Ended
  /\ pc' = [pc EXCEPT ![p] = "crashed"]
  /\ lock' = [r \in Roots |-> IF lock[r] = p THEN NoProc ELSE lock[r]]
  /\ fetch' = [fetch EXCEPT ![p] =
                 [r \in Roots |-> IF @[r] = "running" THEN "abandoned" ELSE @[r]]]
  /\ work' = [work EXCEPT ![p] = "none"]
  /\ ForgetDownload(p)
  /\ UNCHANGED <<at, store, raised>>

Step(p) == \/ AllEnsured(p) \/ RefusePlatform(p) \/ CheckUnlocked(p)
           \/ Lock(p) \/ LockError(p) \/ Recheck(p)
           \/ FetchIndex(p) \/ Download(p)
           \/ UnpackStart(p) \/ UnpackEnd(p) \/ VerifyTree(p) \/ Rename(p)
           \/ BodyError(p) \/ Cleanup(p) \/ Unlock(p)

\* Every invocation has ended.
AllEnded == /\ \A p \in Procs : pc[p] \in Ended
            /\ UNCHANGED vars

Next == \/ \E p \in Procs : Step(p) \/ Crash(p)
        \/ AllEnded

Spec == Init /\ [][Next]_vars

\* A process that is not blocked on the lock keeps running; nothing makes it
\* crash, and nothing makes the wait for a lock fail.  flock need not be fair:
\* each process takes a lock finitely often.
Progress(p) == Step(p) /\ ~(pc[p] = "lock" /\ pc'[p] = "failed")
FairSpec == Spec /\ \A p \in Procs : WF_vars(Progress(p))

-----------------------------------------------------------------------------
(* Correctness.                                                            *)

TypeOK ==
  /\ pc \in [Procs -> PCs]
  /\ at \in [Procs -> Nat \ {0}]
  /\ lock \in [Roots -> Procs \cup {NoProc}]
  /\ store \in [Roots -> Trees]
  /\ work \in [Procs -> Trees \cup {"none"}]
  /\ claims \in [Procs -> Claims]
  /\ tries \in [Procs -> 1..Attempts]
  /\ body \in [Procs -> Bodies]
  /\ raised \in [Procs -> BOOLEAN]
  /\ fetch \in [Procs -> [Roots -> Fetches]]

\* Mutual exclusion of the install section of one payload version, and no
\* hold-and-wait across payloads: a process holds exactly the lock of the
\* payload it is installing, and none while it waits or has ended.  (The with
\* block of ensure_payload, engines.py:186-190, and the release by the kernel.)
LockDiscipline ==
  \A p \in Procs, r \in Roots :
     lock[r] = p <=> pc[p] \in Holding /\ r = Root(p)

\* What a reader finds at a store root is either nothing or the pinned tree:
\* no unfinished unpack, no unverified or substituted tree is ever visible,
\* whatever the network delivers and whenever a process dies
\* (engines.py:313-339, "verifies ... and installs it atomically").
OnlyVerifiedVisible == \A r \in Roots : store[r] \in {Absent, Pinned}

\* While one process fetches a payload its root stays absent, so the rename
\* never meets a committed store: the "lost the init race" branch
\* (engines.py:334-337) cannot be taken while every installer uses the lock.
FetchOnlyWhenAbsent ==
  \A p \in Procs : pc[p] \in Fetching => store[Root(p)] = Absent

\* Exactly-once fetch ("A machine-wide per-version lock makes the fetch
\* exactly-once even when many hooks discover an absent store concurrently",
\* engines.py:172-173): of all the processes that ever started to fetch a
\* payload version, at most one did not fail or die in the attempt, and once
\* it has won nobody fetches again.
FetchedOnce ==
  \A r \in Roots : \A p, q \in Procs :
     (/\ fetch[p][r] \in {"running", "won"}
      /\ fetch[q][r] \in {"running", "won"}) => p = q

\* ensure_payloads returns only when every payload it was asked for is there.
ReadyMeansInstalled ==
  \A p \in Procs : pc[p] = "ready" =>
     \A i \in 1..Len(Needs[p]) : store[Needs[p][i]] = Pinned

\* Whoever waits for the lock is served or fails: a crashed or failed fetcher
\* never blocks later hooks (engines.py:202-205), and fetching processes never
\* wait for one another in a cycle.
EveryInvocationEnds == \A p \in Procs : <>(pc[p] \in Ended)

\* The refinement mapping: readers see the same store, and an invocation is
\* answered when it ends.
Answer ==
  [p \in Procs |-> IF pc[p] = "ready" THEN "ready"
                   ELSE IF pc[p] \in Ended THEN "refused" ELSE "open"]

Abstract == INSTANCE PayloadStore WITH answer <- Answer

\* The store keeps PayloadStore's promise: payloads appear whole, once, and
\* stay, and nobody is told "ready" too early.
ImplementsPayloadStore == Abstract!Spec
=============================================================================
