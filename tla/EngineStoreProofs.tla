------------------------- MODULE EngineStoreProofs --------------------------
(* Proofs about EngineStore, for any number of invocations, payload        *)
(* versions and download attempts.                                         *)
EXTENDS EngineStore, TLAPS

\* Program points at which a process is ensuring one payload.
Busy == {"lock"} \cup Holding

\* p's current payload is one of those it needs.
AtInRange ==
  \A p \in Procs :
    /\ at[p] <= NeedCount(p) + 1
    /\ pc[p] \in Busy => at[p] <= NeedCount(p)

\* How many payloads an invocation needs is a number.
LEMMA NeedCountType == \A p \in Procs : NeedCount(p) \in Nat
BY NeedsAssumption DEF NeedCount

\* The root p works on is a store root whenever p works on one.
LEMMA RootType ==
  ASSUME TypeOK, AtInRange, NEW p \in Procs, at[p] <= NeedCount(p)
  PROVE  Root(p) \in Roots
<1>1. Needs[p] \in Seq(Roots) /\ at[p] \in 1..Len(Needs[p])
  BY NeedsAssumption DEF TypeOK, NeedCount
<1>. QED BY <1>1 DEF Root

\* Which program points are busy ones.
LEMMA BusyPoints ==
  /\ "lock" \in Busy
  /\ "recheck" \in Busy
  /\ "cleanup" \in Busy
  /\ "unlock" \in Busy
  /\ "index" \in Busy
  /\ "download" \in Busy
  /\ "unpack" \in Busy
  /\ "unpacking" \in Busy
  /\ "verify" \in Busy
  /\ "rename" \in Busy
  /\ "check" \notin Busy
  /\ "ready" \notin Busy
  /\ "failed" \notin Busy
  /\ "crashed" \notin Busy
BY DEF Fetching, Holding, Busy

\* Which program points are inside the lock.
LEMMA HoldingPoints ==
  /\ "recheck" \in Holding
  /\ "cleanup" \in Holding
  /\ "unlock" \in Holding
  /\ "index" \in Holding
  /\ "download" \in Holding
  /\ "unpack" \in Holding
  /\ "unpacking" \in Holding
  /\ "verify" \in Holding
  /\ "rename" \in Holding
  /\ "check" \notin Holding
  /\ "lock" \notin Holding
  /\ "ready" \notin Holding
  /\ "failed" \notin Holding
  /\ "crashed" \notin Holding
  /\ Fetching \subseteq Holding
BY DEF Fetching, Holding

\* Which program points are inside a fetch.
LEMMA FetchingPoints ==
  /\ "index" \in Fetching
  /\ "download" \in Fetching
  /\ "unpack" \in Fetching
  /\ "unpacking" \in Fetching
  /\ "verify" \in Fetching
  /\ "rename" \in Fetching
  /\ "check" \notin Fetching
  /\ "lock" \notin Fetching
  /\ "recheck" \notin Fetching
  /\ "cleanup" \notin Fetching
  /\ "unlock" \notin Fetching
  /\ "ready" \notin Fetching
  /\ "failed" \notin Fetching
  /\ "crashed" \notin Fetching
BY DEF Fetching

\* The program points that actions name are program points.
LEMMA PointTypes ==
  /\ "check" \in PCs
  /\ "lock" \in PCs
  /\ "recheck" \in PCs
  /\ "cleanup" \in PCs
  /\ "unlock" \in PCs
  /\ "index" \in PCs
  /\ "download" \in PCs
  /\ "unpack" \in PCs
  /\ "unpacking" \in PCs
  /\ "verify" \in PCs
  /\ "rename" \in PCs
  /\ "ready" \in PCs
  /\ "failed" \in PCs
  /\ "crashed" \in PCs
BY DEF Fetching, Holding, PCs, Ended

\* Recording how p's fetch goes leaves a history of fetches.
LEMMA FetchUpdate ==
  ASSUME TypeOK, NEW p \in Procs, NEW f \in Fetches
  PROVE  [fetch EXCEPT ![p] = [@ EXCEPT ![Root(p)] = f]] \in [Procs -> [Roots -> Fetches]]
<1>1. fetch[p] \in [Roots -> Fetches]
  BY DEF TypeOK
<1>2. [fetch[p] EXCEPT ![Root(p)] = f] \in [Roots -> Fetches]
  BY <1>1
<1>. QED BY <1>2 DEF TypeOK

\* A tree is renamed into the store only after it was compared with the pin.
Verified == \A p \in Procs : pc[p] = "rename" => work[p] = Pinned

TypeInv == TypeOK /\ AtInRange /\ Verified

\* Every variable keeps its type, no process runs past the payloads it needs
\* (ensure_payloads, engines.py:194-196), and only a compared tree is renamed
\* (engines.py:325-332).
THEOREM TypeInvariant == Spec => []TypeInv
<1>1. Init => TypeInv
  <2>1. ASSUME Init PROVE TypeOK
    BY <2>1, PointTypes, AttemptsAssumption
    DEF Init, TypeOK, Trees, Absent, Fetches, Claims, Bodies
  <2>2. ASSUME Init PROVE AtInRange
    <3>1. \A p \in Procs : at[p] = 1 /\ pc[p] = "check"
      BY <2>2 DEF Init
    <3>2. ASSUME NEW p \in Procs
          PROVE  at[p] <= NeedCount(p) + 1 /\ pc[p] \notin Busy
      BY <3>1, NeedCountType, BusyPoints
    <3>. QED BY <3>2 DEF AtInRange
  <2>3. ASSUME Init PROVE Verified
    BY <2>3 DEF Init, Verified
  <2>. QED BY <2>1, <2>2, <2>3 DEF TypeInv
<1>2. TypeInv /\ [Next]_vars => TypeInv'
  <2>. SUFFICES ASSUME TypeOK, AtInRange, Verified, [Next]_vars
                PROVE  TypeOK' /\ AtInRange' /\ Verified'
    BY DEF TypeInv
  <2>1. ASSUME NEW p \in Procs, AllEnsured(p) PROVE TypeOK' /\ AtInRange' /\ Verified'
    <3>1. TypeOK'
      BY <2>1, PointTypes DEF AllEnsured, TypeOK, dl
    <3>2. AtInRange'
      BY <2>1, NeedCountType, BusyPoints DEF AllEnsured, TypeOK, AtInRange
    <3>3. Verified'
      BY <2>1 DEF AllEnsured, TypeOK, Verified
    <3>. QED BY <3>1, <3>2, <3>3
  <2>2. ASSUME NEW p \in Procs, RefusePlatform(p) PROVE TypeOK' /\ AtInRange' /\ Verified'
    <3>1. TypeOK'
      BY <2>2, PointTypes DEF RefusePlatform, TypeOK, dl
    <3>2. AtInRange'
      BY <2>2, NeedCountType, BusyPoints DEF RefusePlatform, TypeOK, AtInRange
    <3>3. Verified'
      BY <2>2 DEF RefusePlatform, TypeOK, Verified
    <3>. QED BY <3>1, <3>2, <3>3
  <2>3. ASSUME NEW p \in Procs, CheckUnlocked(p) PROVE TypeOK' /\ AtInRange' /\ Verified'
    <3>1. TypeOK'
      BY <2>3, PointTypes DEF CheckUnlocked, TypeOK, dl
    <3>2. AtInRange'
      <4>1. at[p] \in Nat /\ at[p] <= NeedCount(p)
        BY <2>3, NeedCountType DEF CheckUnlocked, Finished, TypeOK
      <4>2. at' = at \/ (at' = [at EXCEPT ![p] = @ + 1] /\ pc' = pc)
        BY <2>3, Zenon DEF CheckUnlocked
      <4>3. pc' = pc \/ (pc' = [pc EXCEPT ![p] = "lock"] /\ at' = at)
        BY <2>3, Zenon DEF CheckUnlocked
      <4>4. ASSUME NEW q \in Procs
            PROVE  /\ at'[q] <= NeedCount(q) + 1
                   /\ pc'[q] \in Busy => at'[q] <= NeedCount(q)
        <5>1. CASE q = p /\ at' = at
          BY <4>1, <5>1, NeedCountType
        <5>2. CASE q = p /\ pc' = pc /\ at' = [at EXCEPT ![p] = @ + 1]
          BY <2>3, <4>1, <5>2, NeedCountType, BusyPoints DEF CheckUnlocked, TypeOK
        <5>3. CASE q # p
          BY <4>2, <4>3, <5>3 DEF TypeOK, AtInRange
        <5>. QED BY <4>2, <4>3, <5>1, <5>2, <5>3
      <4>. QED BY <4>4 DEF AtInRange, NeedCount
    <3>3. Verified'
      BY <2>3 DEF CheckUnlocked, TypeOK, Verified
    <3>. QED BY <3>1, <3>2, <3>3
  <2>4. ASSUME NEW p \in Procs, Lock(p) PROVE TypeOK' /\ AtInRange' /\ Verified'
    <3>1. TypeOK'
      BY <2>4, PointTypes DEF Lock, TypeOK, dl
    <3>2. AtInRange'
      BY <2>4, NeedCountType, BusyPoints DEF Lock, TypeOK, AtInRange
    <3>3. Verified'
      BY <2>4 DEF Lock, TypeOK, Verified
    <3>. QED BY <3>1, <3>2, <3>3
  <2>5. ASSUME NEW p \in Procs, LockError(p) PROVE TypeOK' /\ AtInRange' /\ Verified'
    <3>1. TypeOK'
      BY <2>5, PointTypes DEF LockError, TypeOK, dl
    <3>2. AtInRange'
      BY <2>5, NeedCountType, BusyPoints DEF LockError, TypeOK, AtInRange
    <3>3. Verified'
      BY <2>5 DEF LockError, TypeOK, Verified
    <3>. QED BY <3>1, <3>2, <3>3
  <2>6. ASSUME NEW p \in Procs, Recheck(p) PROVE TypeOK' /\ AtInRange' /\ Verified'
    <3>1. TypeOK'
      <4>1. fetch' \in [Procs -> [Roots -> Fetches]]
        <5>1. \/ fetch' = fetch
              \/ fetch' = [fetch EXCEPT ![p] = [@ EXCEPT ![Root(p)] = "running"]]
          BY <2>6, Zenon DEF Recheck
        <5>2. [fetch EXCEPT ![p] = [@ EXCEPT ![Root(p)] = "running"]] \in [Procs -> [Roots -> Fetches]]
          BY FetchUpdate, Zenon DEF Fetches
        <5>. QED BY <5>1, <5>2, Zenon DEF TypeOK
      <4>2. pc' \in [Procs -> PCs]
        BY <2>6, PointTypes DEF Recheck, TypeOK
      <4>3. work' \in [Procs -> Trees \cup {"none"}]
        BY <2>6 DEF Recheck, TypeOK, Trees
      <4>. QED BY <2>6, <4>1, <4>2, <4>3 DEF Recheck, TypeOK, dl
    <3>2. AtInRange'
      BY <2>6, NeedCountType, BusyPoints DEF Recheck, TypeOK, AtInRange
    <3>3. Verified'
      BY <2>6 DEF Recheck, TypeOK, Verified
    <3>. QED BY <3>1, <3>2, <3>3
  <2>7. ASSUME NEW p \in Procs, FetchIndex(p) PROVE TypeOK' /\ AtInRange' /\ Verified'
    <3>1. TypeOK'
      BY <2>7, PointTypes DEF FetchIndex, TypeOK
    <3>2. AtInRange'
      BY <2>7, NeedCountType, BusyPoints DEF FetchIndex, TypeOK, AtInRange
    <3>3. Verified'
      BY <2>7 DEF FetchIndex, TypeOK, Verified
    <3>. QED BY <3>1, <3>2, <3>3
  <2>8. ASSUME NEW p \in Procs, Download(p) PROVE TypeOK' /\ AtInRange' /\ Verified'
    <3>1. TypeOK'
      <4>1. fetch' \in [Procs -> [Roots -> Fetches]]
        <5>1. \/ fetch' = fetch
              \/ fetch' = [fetch EXCEPT ![p] = [@ EXCEPT ![Root(p)] = "abandoned"]]
          BY <2>8, Zenon DEF Download, Raise
        <5>2. [fetch EXCEPT ![p] = [@ EXCEPT ![Root(p)] = "abandoned"]] \in [Procs -> [Roots -> Fetches]]
          BY FetchUpdate, Zenon DEF Fetches
        <5>. QED BY <5>1, <5>2, Zenon DEF TypeOK
      <4>2. pc' \in [Procs -> PCs]
        BY <2>8, PointTypes DEF Download, TypeOK, Raise
      <4>3. tries' \in [Procs -> 1..Attempts]
        BY <2>8, AttemptsAssumption DEF Download, TypeOK
      <4>4. body' \in [Procs -> Bodies]
        BY <2>8 DEF Download, TypeOK
      <4>5. raised' \in [Procs -> BOOLEAN]
        BY <2>8 DEF Download, Raise, TypeOK
      <4>. QED BY <2>8, <4>1, <4>2, <4>3, <4>4, <4>5 DEF Download, TypeOK
    <3>2. AtInRange'
      BY <2>8, NeedCountType, BusyPoints DEF Download, TypeOK, AtInRange, Raise
    <3>3. Verified'
      BY <2>8 DEF Download, TypeOK, Verified, Raise
    <3>. QED BY <3>1, <3>2, <3>3
  <2>9. ASSUME NEW p \in Procs, UnpackStart(p) PROVE TypeOK' /\ AtInRange' /\ Verified'
    <3>1. TypeOK'
      BY <2>9, PointTypes DEF UnpackStart, TypeOK, dl, Trees
    <3>2. AtInRange'
      BY <2>9, NeedCountType, BusyPoints DEF UnpackStart, TypeOK, AtInRange
    <3>3. Verified'
      BY <2>9 DEF UnpackStart, TypeOK, Verified
    <3>. QED BY <3>1, <3>2, <3>3
  <2>10. ASSUME NEW p \in Procs, UnpackEnd(p) PROVE TypeOK' /\ AtInRange' /\ Verified'
    <3>1. TypeOK'
      BY <2>10, PointTypes DEF UnpackEnd, TypeOK, dl, Trees, TreeOf
    <3>2. AtInRange'
      BY <2>10, NeedCountType, BusyPoints DEF UnpackEnd, TypeOK, AtInRange
    <3>3. Verified'
      BY <2>10 DEF UnpackEnd, TypeOK, Verified
    <3>. QED BY <3>1, <3>2, <3>3
  <2>11. ASSUME NEW p \in Procs, VerifyTree(p) PROVE TypeOK' /\ AtInRange' /\ Verified'
    <3>1. TypeOK'
      <4>1. fetch' \in [Procs -> [Roots -> Fetches]]
        <5>1. \/ fetch' = fetch
              \/ fetch' = [fetch EXCEPT ![p] = [@ EXCEPT ![Root(p)] = "abandoned"]]
          BY <2>11, Zenon DEF VerifyTree, Raise
        <5>2. [fetch EXCEPT ![p] = [@ EXCEPT ![Root(p)] = "abandoned"]] \in [Procs -> [Roots -> Fetches]]
          BY FetchUpdate, Zenon DEF Fetches
        <5>. QED BY <5>1, <5>2, Zenon DEF TypeOK
      <4>2. pc' \in [Procs -> PCs]
        BY <2>11, PointTypes DEF VerifyTree, TypeOK, Raise
      <4>3. raised' \in [Procs -> BOOLEAN]
        BY <2>11 DEF VerifyTree, Raise, TypeOK
      <4>. QED BY <2>11, <4>1, <4>2, <4>3 DEF VerifyTree, TypeOK, dl
    <3>2. AtInRange'
      BY <2>11, NeedCountType, BusyPoints DEF VerifyTree, TypeOK, AtInRange, Raise
    <3>3. Verified'
      BY <2>11 DEF VerifyTree, TypeOK, Verified, Raise
    <3>. QED BY <3>1, <3>2, <3>3
  <2>12. ASSUME NEW p \in Procs, Rename(p) PROVE TypeOK' /\ AtInRange' /\ Verified'
    <3>1. TypeOK'
      <4>1. fetch' \in [Procs -> [Roots -> Fetches]]
        BY <2>12, FetchUpdate DEF Rename, TypeOK, Fetches
      <4>2. pc' \in [Procs -> PCs]
        BY <2>12, PointTypes DEF Rename, TypeOK
      <4>3. work[p] = Pinned
        BY <2>12 DEF Rename, Verified
      <4>4. store' \in [Roots -> Trees] /\ work' \in [Procs -> Trees \cup {"none"}]
        BY <2>12, <4>3 DEF Rename, TypeOK, Trees
      <4>. QED BY <2>12, <4>1, <4>2, <4>4 DEF Rename, TypeOK, dl
    <3>2. AtInRange'
      BY <2>12, NeedCountType, BusyPoints DEF Rename, TypeOK, AtInRange
    <3>3. Verified'
      BY <2>12 DEF Rename, TypeOK, Verified
    <3>. QED BY <3>1, <3>2, <3>3
  <2>13. ASSUME NEW p \in Procs, BodyError(p) PROVE TypeOK' /\ AtInRange' /\ Verified'
    <3>1. TypeOK'
      BY <2>13, PointTypes, FetchUpdate DEF BodyError, TypeOK, dl, Raise, Fetches
    <3>2. AtInRange'
      <4>1. pc[p] \in Busy
        BY <2>13 DEF BodyError, Busy, Holding
      <4>. QED BY <2>13, <4>1 DEF BodyError, Raise, TypeOK, AtInRange
    <3>3. Verified'
      BY <2>13 DEF BodyError, TypeOK, Verified, Raise
    <3>. QED BY <3>1, <3>2, <3>3
  <2>14. ASSUME NEW p \in Procs, Cleanup(p) PROVE TypeOK' /\ AtInRange' /\ Verified'
    <3>1. TypeOK'
      BY <2>14, PointTypes, AttemptsAssumption DEF Cleanup, ForgetDownload, TypeOK, Claims, Bodies
    <3>2. AtInRange'
      BY <2>14, NeedCountType, BusyPoints DEF Cleanup, TypeOK, AtInRange
    <3>3. Verified'
      BY <2>14 DEF Cleanup, TypeOK, Verified
    <3>. QED BY <3>1, <3>2, <3>3
  <2>15. ASSUME NEW p \in Procs, Unlock(p) PROVE TypeOK' /\ AtInRange' /\ Verified'
    <3>1. TypeOK'
      <4>1. pc' \in [Procs -> PCs]
        BY <2>15, PointTypes DEF Unlock, TypeOK
      <4>2. at' \in [Procs -> Nat \ {0}]
        BY <2>15 DEF Unlock, TypeOK
      <4>. QED BY <2>15, <4>1, <4>2 DEF Unlock, TypeOK, dl
    <3>2. AtInRange'
      BY <2>15, NeedCountType, BusyPoints DEF Unlock, TypeOK, AtInRange
    <3>3. Verified'
      BY <2>15 DEF Unlock, TypeOK, Verified
    <3>. QED BY <3>1, <3>2, <3>3
  <2>16. ASSUME NEW p \in Procs, Crash(p) PROVE TypeOK' /\ AtInRange' /\ Verified'
    <3>1. TypeOK'
      BY <2>16, PointTypes, AttemptsAssumption DEF Crash, ForgetDownload, TypeOK, Claims, Bodies, Fetches
    <3>2. AtInRange'
      BY <2>16, NeedCountType, BusyPoints DEF Crash, TypeOK, AtInRange
    <3>3. Verified'
      BY <2>16 DEF Crash, TypeOK, Verified
    <3>. QED BY <3>1, <3>2, <3>3
  <2>17. CASE UNCHANGED vars
    BY <2>17 DEF vars, dl, TypeOK, AtInRange, Verified
  <2>. QED
    BY <2>1, <2>2, <2>3, <2>4, <2>5, <2>6, <2>7, <2>8, <2>9, <2>10, <2>11,
       <2>12, <2>13, <2>14, <2>15, <2>16, <2>17 DEF Next, Step, AllEnded
<1>. QED BY <1>1, <1>2, PTL DEF Spec

-----------------------------------------------------------------------------
(* Mutual exclusion.                                                       *)

\* Type correctness alone.
THEOREM TypeCorrect == Spec => []TypeOK
<1>1. TypeInv => TypeOK
  BY DEF TypeInv
<1>. QED BY <1>1, TypeInvariant, PTL

\* A step of p that keeps the lock table, and keeps p inside or outside the
\* section, keeps the lock discipline.
LEMMA LockFrame ==
  ASSUME LockDiscipline, NEW p \in Procs,
         lock' = lock,
         \A q \in Procs \ {p} : pc'[q] = pc[q] /\ at'[q] = at[q],
         pc'[p] \in Holding <=> pc[p] \in Holding,
         pc[p] \in Holding => at'[p] = at[p]
  PROVE  LockDiscipline'
<1>. SUFFICES ASSUME NEW q \in Procs, NEW r \in Roots
              PROVE  lock'[r] = q <=> pc'[q] \in Holding /\ r = Root(q)'
  BY DEF LockDiscipline
<1>1. at'[q] = at[q] => Root(q)' = Root(q)
  BY DEF Root
<1>2. CASE q = p
  BY <1>1, <1>2 DEF LockDiscipline
<1>3. CASE q # p
  BY <1>1, <1>3 DEF LockDiscipline
<1>. QED BY <1>2, <1>3

\* At most one process is between locking and unlocking one payload version,
\* and a process holds no lock but that of the payload it installs.
THEOREM LockSafe == Spec => []LockDiscipline
<1>1. Init => LockDiscipline
  <2>. SUFFICES ASSUME Init, NEW q \in Procs, NEW r \in Roots
                PROVE  lock[r] = q <=> pc[q] \in Holding /\ r = Root(q)
    BY DEF LockDiscipline
  <2>. QED BY NoProcAssumption, HoldingPoints DEF Init
<1>2. TypeInv /\ LockDiscipline /\ [Next]_vars => LockDiscipline'
  <2>. SUFFICES ASSUME TypeOK, AtInRange, LockDiscipline, [Next]_vars
                PROVE  LockDiscipline'
    BY DEF TypeInv
  <2>1. ASSUME NEW p \in Procs, AllEnsured(p) PROVE LockDiscipline'
    BY <2>1, LockFrame, HoldingPoints DEF AllEnsured, TypeOK
  <2>2. ASSUME NEW p \in Procs, RefusePlatform(p) PROVE LockDiscipline'
    BY <2>2, LockFrame, HoldingPoints DEF RefusePlatform, TypeOK
  <2>3. ASSUME NEW p \in Procs, CheckUnlocked(p) PROVE LockDiscipline'
    BY <2>3, LockFrame, HoldingPoints DEF CheckUnlocked, TypeOK
  <2>4. ASSUME NEW p \in Procs, LockError(p) PROVE LockDiscipline'
    BY <2>4, LockFrame, HoldingPoints DEF LockError, TypeOK
  <2>5. ASSUME NEW p \in Procs, Recheck(p) PROVE LockDiscipline'
    BY <2>5, LockFrame, HoldingPoints DEF Recheck, TypeOK
  <2>6. ASSUME NEW p \in Procs, FetchIndex(p) PROVE LockDiscipline'
    BY <2>6, LockFrame, HoldingPoints DEF FetchIndex, TypeOK
  <2>7. ASSUME NEW p \in Procs, Download(p) PROVE LockDiscipline'
    BY <2>7, LockFrame, HoldingPoints DEF Download, TypeOK, Raise
  <2>8. ASSUME NEW p \in Procs, UnpackStart(p) PROVE LockDiscipline'
    BY <2>8, LockFrame, HoldingPoints DEF UnpackStart, TypeOK
  <2>9. ASSUME NEW p \in Procs, UnpackEnd(p) PROVE LockDiscipline'
    BY <2>9, LockFrame, HoldingPoints DEF UnpackEnd, TypeOK
  <2>10. ASSUME NEW p \in Procs, VerifyTree(p) PROVE LockDiscipline'
    BY <2>10, LockFrame, HoldingPoints DEF VerifyTree, TypeOK, Raise
  <2>11. ASSUME NEW p \in Procs, Rename(p) PROVE LockDiscipline'
    BY <2>11, LockFrame, HoldingPoints DEF Rename, TypeOK
  <2>12. ASSUME NEW p \in Procs, BodyError(p) PROVE LockDiscipline'
    BY <2>12, LockFrame, HoldingPoints DEF BodyError, TypeOK, Raise
  <2>13. ASSUME NEW p \in Procs, Cleanup(p) PROVE LockDiscipline'
    BY <2>13, LockFrame, HoldingPoints DEF Cleanup, TypeOK
  <2>14. ASSUME NEW p \in Procs, Lock(p) PROVE LockDiscipline'
    <3>. SUFFICES ASSUME NEW q \in Procs, NEW r \in Roots
                  PROVE  lock'[r] = q <=> pc'[q] \in Holding /\ r = Root(q)'
      BY DEF LockDiscipline
    <3>1. Root(p) \in Roots /\ Root(q)' = Root(q)
      BY <2>14, RootType, BusyPoints DEF Lock, AtInRange, Root
    <3>2. pc[p] \notin Holding /\ pc'[p] \in Holding
      BY <2>14, HoldingPoints DEF Lock, TypeOK
    <3>3. CASE q = p
      BY <2>14, <3>1, <3>2, <3>3 DEF Lock, TypeOK, LockDiscipline
    <3>4. CASE q # p
      BY <2>14, <3>1, <3>4, NoProcAssumption DEF Lock, TypeOK, LockDiscipline
    <3>. QED BY <3>3, <3>4
  <2>15. ASSUME NEW p \in Procs, Unlock(p) PROVE LockDiscipline'
    <3>. SUFFICES ASSUME NEW q \in Procs, NEW r \in Roots
                  PROVE  lock'[r] = q <=> pc'[q] \in Holding /\ r = Root(q)'
      BY DEF LockDiscipline
    <3>1. Root(p) \in Roots /\ pc[p] \in Holding
      BY <2>15, RootType, BusyPoints, HoldingPoints DEF Unlock, AtInRange
    <3>2. pc'[p] \notin Holding
      BY <2>15, HoldingPoints DEF Unlock, TypeOK
    <3>3. lock'[r] = (IF r = Root(p) THEN NoProc ELSE lock[r])
      BY <2>15, <3>1 DEF Unlock, TypeOK
    <3>4. CASE q = p
      BY <3>1, <3>2, <3>3, <3>4, NoProcAssumption DEF LockDiscipline
    <3>5. CASE q # p
      <4>1. pc'[q] = pc[q] /\ Root(q)' = Root(q)
        BY <2>15, <3>5 DEF Unlock, TypeOK, Root
      <4>. QED BY <3>1, <3>3, <3>5, <4>1, NoProcAssumption DEF LockDiscipline
    <3>. QED BY <3>4, <3>5
  <2>16. ASSUME NEW p \in Procs, Crash(p) PROVE LockDiscipline'
    <3>. SUFFICES ASSUME NEW q \in Procs, NEW r \in Roots
                  PROVE  lock'[r] = q <=> pc'[q] \in Holding /\ r = Root(q)'
      BY DEF LockDiscipline
    <3>1. Root(q)' = Root(q)
      BY <2>16 DEF Crash, Root
    <3>2. lock'[r] = (IF lock[r] = p THEN NoProc ELSE lock[r])
      BY <2>16 DEF Crash
    <3>3. pc'[p] \notin Holding /\ (q # p => pc'[q] = pc[q])
      BY <2>16, HoldingPoints DEF Crash, TypeOK
    <3>. QED BY <3>1, <3>2, <3>3, NoProcAssumption DEF LockDiscipline
  <2>17. CASE UNCHANGED vars
    BY <2>17 DEF vars, LockDiscipline, Root
  <2>. QED
    BY <2>1, <2>2, <2>3, <2>4, <2>5, <2>6, <2>7, <2>8, <2>9, <2>10, <2>11,
       <2>12, <2>13, <2>14, <2>15, <2>16, <2>17 DEF Next, Step, AllEnded
<1>. QED BY <1>1, <1>2, TypeInvariant, PTL DEF Spec

-----------------------------------------------------------------------------
(* What is in the store, and who fetched it.                               *)

\* The fetch history agrees with the program points and with the store.
History ==
  \A p \in Procs, r \in Roots :
    /\ fetch[p][r] = "running" => pc[p] \in Fetching /\ r = Root(p)
    /\ fetch[p][r] = "won" => store[r] = Pinned

StoreInv == /\ OnlyVerifiedVisible
            /\ FetchOnlyWhenAbsent
            /\ History
            /\ FetchedOnce

\* A step of p that touches neither store nor history, and keeps p inside or
\* outside its fetch, keeps StoreInv.
LEMMA StoreFrame ==
  ASSUME StoreInv, NEW p \in Procs,
         store' = store, fetch' = fetch,
         \A q \in Procs \ {p} : pc'[q] = pc[q] /\ at'[q] = at[q],
         pc'[p] \in Fetching <=> pc[p] \in Fetching,
         pc[p] \in Fetching => at'[p] = at[p]
  PROVE  StoreInv'
<1>1. \A q \in Procs : at'[q] = at[q] => Root(q)' = Root(q)
  BY DEF Root
<1>2. OnlyVerifiedVisible' /\ FetchedOnce'
  BY DEF StoreInv, OnlyVerifiedVisible, FetchedOnce
<1>3. \A q \in Procs : pc'[q] \in Fetching => pc[q] \in Fetching /\ Root(q)' = Root(q)
  BY <1>1
<1>4. \A q \in Procs : pc[q] \in Fetching => pc'[q] \in Fetching /\ Root(q)' = Root(q)
  BY <1>1
<1>5. FetchOnlyWhenAbsent'
  BY <1>3 DEF StoreInv, FetchOnlyWhenAbsent
<1>6. History'
  BY <1>4 DEF StoreInv, History
<1>. QED BY <1>2, <1>5, <1>6 DEF StoreInv

\* A step of p that abandons its fetch keeps StoreInv.
LEMMA StoreAbandon ==
  ASSUME TypeOK, StoreInv, NEW p \in Procs, Root(p) \in Roots,
         Raise(p), store' = store, at' = at
  PROVE  StoreInv'
<1>1. \A q \in Procs : Root(q)' = Root(q)
  BY DEF Root
<1>2. \A q \in Procs : pc'[q] \in Fetching => pc[q] \in Fetching
  BY FetchingPoints DEF Raise, TypeOK
<1>3. \A q \in Procs, r \in Roots :
        fetch'[q][r] = IF q = p /\ r = Root(p) THEN "abandoned" ELSE fetch[q][r]
  BY DEF Raise, TypeOK
<1>4. OnlyVerifiedVisible'
  BY DEF StoreInv, OnlyVerifiedVisible
<1>5. FetchOnlyWhenAbsent'
  BY <1>1, <1>2 DEF StoreInv, FetchOnlyWhenAbsent
<1>6. History'
  <2>. SUFFICES ASSUME NEW q \in Procs, NEW r \in Roots
                PROVE  /\ fetch'[q][r] = "running" => pc'[q] \in Fetching /\ r = Root(q)'
                       /\ fetch'[q][r] = "won" => store'[r] = Pinned
    BY DEF History
  <2>1. q # p => pc'[q] = pc[q]
    BY DEF Raise, TypeOK
  <2>. QED BY <2>1, <1>1, <1>3 DEF StoreInv, History
<1>7. FetchedOnce'
  BY <1>3 DEF StoreInv, FetchedOnce
<1>. QED BY <1>4, <1>5, <1>6, <1>7 DEF StoreInv

\* StoreInv is an invariant.
THEOREM StoreInvariant == Spec => []StoreInv
<1>1. Init => StoreInv
  <2>. SUFFICES ASSUME Init PROVE StoreInv
    OBVIOUS
  <2>1. OnlyVerifiedVisible /\ FetchOnlyWhenAbsent
    BY FetchingPoints DEF Init, OnlyVerifiedVisible, FetchOnlyWhenAbsent
  <2>2. \A p \in Procs, r \in Roots : fetch[p][r] = "never"
    BY DEF Init
  <2>3. History /\ FetchedOnce
    BY <2>2 DEF History, FetchedOnce
  <2>. QED BY <2>1, <2>3 DEF StoreInv
<1>2. TypeInv /\ LockDiscipline /\ StoreInv /\ [Next]_vars => StoreInv'
  <2>. SUFFICES ASSUME TypeInv, LockDiscipline, StoreInv, [Next]_vars
                PROVE  StoreInv'
    OBVIOUS
  <2>0. TypeOK /\ AtInRange /\ Verified
    BY DEF TypeInv
  <2>a. \A p \in Procs : pc[p] \in Busy => Root(p) \in Roots
    BY <2>0, RootType DEF AtInRange
  <2>1. ASSUME NEW p \in Procs, AllEnsured(p) PROVE StoreInv'
    BY <2>1, <2>0, StoreFrame, FetchingPoints DEF AllEnsured, TypeOK
  <2>2. ASSUME NEW p \in Procs, RefusePlatform(p) PROVE StoreInv'
    BY <2>2, <2>0, StoreFrame, FetchingPoints DEF RefusePlatform, TypeOK
  <2>3. ASSUME NEW p \in Procs, CheckUnlocked(p) PROVE StoreInv'
    BY <2>3, <2>0, StoreFrame, FetchingPoints DEF CheckUnlocked, TypeOK
  <2>4. ASSUME NEW p \in Procs, Lock(p) PROVE StoreInv'
    BY <2>4, <2>0, StoreFrame, FetchingPoints DEF Lock, TypeOK
  <2>5. ASSUME NEW p \in Procs, LockError(p) PROVE StoreInv'
    BY <2>5, <2>0, StoreFrame, FetchingPoints DEF LockError, TypeOK
  <2>6. ASSUME NEW p \in Procs, FetchIndex(p) PROVE StoreInv'
    BY <2>6, <2>0, StoreFrame, FetchingPoints DEF FetchIndex, TypeOK
  <2>7. ASSUME NEW p \in Procs, UnpackStart(p) PROVE StoreInv'
    BY <2>7, <2>0, StoreFrame, FetchingPoints DEF UnpackStart, TypeOK
  <2>8. ASSUME NEW p \in Procs, UnpackEnd(p) PROVE StoreInv'
    BY <2>8, <2>0, StoreFrame, FetchingPoints DEF UnpackEnd, TypeOK
  <2>9. ASSUME NEW p \in Procs, Cleanup(p) PROVE StoreInv'
    BY <2>9, <2>0, StoreFrame, FetchingPoints DEF Cleanup, TypeOK
  <2>10. ASSUME NEW p \in Procs, Unlock(p) PROVE StoreInv'
    BY <2>10, <2>0, StoreFrame, FetchingPoints DEF Unlock, TypeOK
  <2>11. ASSUME NEW p \in Procs, Download(p) PROVE StoreInv'
    <3>1. Root(p) \in Roots
      BY <2>11, <2>a, BusyPoints DEF Download
    <3>2. CASE Raise(p)
      BY <2>11, <2>0, <3>1, <3>2, StoreAbandon DEF Download
    <3>3. CASE ~Raise(p)
      <4>1. /\ fetch' = fetch /\ store' = store /\ at' = at
            /\ pc' = pc \/ pc' = [pc EXCEPT ![p] = "unpack"]
        BY <2>11, <3>3 DEF Download
      <4>2. pc[p] = "download"
        BY <2>11 DEF Download
      <4>. QED BY <2>0, <4>1, <4>2, StoreFrame, FetchingPoints DEF TypeOK
    <3>. QED BY <3>2, <3>3
  <2>12. ASSUME NEW p \in Procs, VerifyTree(p) PROVE StoreInv'
    <3>1. Root(p) \in Roots
      BY <2>12, <2>a, BusyPoints DEF VerifyTree
    <3>2. CASE Raise(p)
      BY <2>12, <2>0, <3>1, <3>2, StoreAbandon DEF VerifyTree
    <3>3. CASE ~Raise(p)
      <4>1. /\ fetch' = fetch /\ store' = store /\ at' = at
            /\ pc' = [pc EXCEPT ![p] = "rename"] /\ pc[p] = "verify"
        BY <2>12, <3>3 DEF VerifyTree
      <4>. QED BY <2>0, <4>1, StoreFrame, FetchingPoints DEF TypeOK
    <3>. QED BY <3>2, <3>3
  <2>13. ASSUME NEW p \in Procs, BodyError(p) PROVE StoreInv'
    <3>1. Root(p) \in Roots
      BY <2>13, <2>a DEF BodyError, Busy, Holding
    <3>. QED BY <2>13, <2>0, <3>1, StoreAbandon DEF BodyError
  <2>14. ASSUME NEW p \in Procs, Recheck(p) PROVE StoreInv'
    <3>1. Root(p) \in Roots /\ pc[p] = "recheck" /\ \A q \in Procs : Root(q)' = Root(q)
      BY <2>14, <2>a, BusyPoints DEF Recheck, Root
    <3>2. CASE store[Root(p)] # Absent
      BY <2>14, <2>0, <3>1, <3>2, StoreFrame, FetchingPoints DEF Recheck, TypeOK
    <3>3. CASE store[Root(p)] = Absent
      <4>1. pc' = [pc EXCEPT ![p] = "index"] /\ store' = store /\ at' = at
        BY <2>14, <3>3 DEF Recheck
      <4>2. \A q \in Procs, r \in Roots :
              fetch'[q][r] = IF q = p /\ r = Root(p) THEN "running" ELSE fetch[q][r]
        BY <2>14, <2>0, <3>1, <3>3 DEF Recheck, TypeOK
      <4>3. \A q \in Procs : q # p => pc'[q] = pc[q]
        BY <2>0, <4>1 DEF TypeOK
      <4>4. pc'[p] \in Fetching /\ pc[p] \notin Fetching
        BY <2>0, <3>1, <4>1, FetchingPoints DEF TypeOK
      <4>5. OnlyVerifiedVisible'
        BY <4>1 DEF StoreInv, OnlyVerifiedVisible
      <4>6. FetchOnlyWhenAbsent'
        BY <3>1, <3>3, <4>1, <4>3 DEF StoreInv, FetchOnlyWhenAbsent
      <4>7. History'
        BY <3>1, <4>1, <4>2, <4>3, <4>4 DEF StoreInv, History
      <4>8. \A q \in Procs : fetch[q][Root(p)] \notin {"running", "won"}
        <5>. SUFFICES ASSUME NEW q \in Procs, fetch[q][Root(p)] \in {"running", "won"}
                      PROVE  FALSE
          OBVIOUS
        <5>1. fetch[q][Root(p)] # "won"
          BY <3>1, <3>3 DEF StoreInv, History, Absent, Pinned
        <5>2. pc[q] \in Fetching /\ Root(p) = Root(q)
          BY <3>1, <5>1 DEF StoreInv, History
        <5>3. lock[Root(p)] = q /\ lock[Root(p)] = p
          BY <3>1, <5>2, HoldingPoints DEF LockDiscipline
        <5>. QED BY <5>2, <5>3, <4>4
      <4>9. FetchedOnce'
        BY <3>1, <4>2, <4>8 DEF StoreInv, FetchedOnce
      <4>. QED BY <4>5, <4>6, <4>7, <4>9 DEF StoreInv
    <3>. QED BY <3>2, <3>3
  <2>15. ASSUME NEW p \in Procs, Rename(p) PROVE StoreInv'
    <3>1. /\ Root(p) \in Roots /\ pc[p] = "rename" /\ work[p] = Pinned
          /\ \A q \in Procs : Root(q)' = Root(q)
      BY <2>15, <2>0, <2>a, BusyPoints DEF Rename, Root, Verified
    <3>2. store[Root(p)] = Absent
      BY <3>1, FetchingPoints DEF StoreInv, FetchOnlyWhenAbsent
    <3>3. \A r \in Roots : store'[r] = IF r = Root(p) THEN Pinned ELSE store[r]
      BY <2>15, <2>0, <3>1, <3>2 DEF Rename, TypeOK
    <3>4. \A q \in Procs, r \in Roots :
            fetch'[q][r] = IF q = p /\ r = Root(p) THEN "won" ELSE fetch[q][r]
      BY <2>15, <2>0, <3>1 DEF Rename, TypeOK
    <3>5. pc'[p] \notin Fetching /\ \A q \in Procs : q # p => pc'[q] = pc[q]
      BY <2>15, <2>0, FetchingPoints DEF Rename, TypeOK
    <3>6. \A q \in Procs : q # p /\ pc[q] \in Fetching => Root(q) # Root(p)
      BY <3>1, HoldingPoints, FetchingPoints DEF LockDiscipline
    <3>7. OnlyVerifiedVisible'
      BY <3>3 DEF StoreInv, OnlyVerifiedVisible
    <3>8. FetchOnlyWhenAbsent'
      <4>. SUFFICES ASSUME NEW q \in Procs, pc'[q] \in Fetching
                    PROVE  store'[Root(q)'] = Absent
        BY DEF FetchOnlyWhenAbsent
      <4>1. q # p /\ pc[q] \in Fetching /\ Root(q)' = Root(q) /\ Root(q) \in Roots
        BY <2>a, <3>1, <3>5 DEF Busy, Holding
      <4>. QED BY <3>3, <3>6, <4>1 DEF StoreInv, FetchOnlyWhenAbsent
    <3>9. History'
      <4>. SUFFICES ASSUME NEW q \in Procs, NEW r \in Roots
                    PROVE  /\ fetch'[q][r] = "running" => pc'[q] \in Fetching /\ r = Root(q)'
                           /\ fetch'[q][r] = "won" => store'[r] = Pinned
        BY DEF History
      <4>. QED BY <3>1, <3>3, <3>4, <3>5 DEF StoreInv, History
    <3>10. \A q \in Procs : q # p => fetch[q][Root(p)] \notin {"running", "won"}
      BY <3>1, <3>2, <3>6 DEF StoreInv, History, Absent, Pinned
    <3>11. FetchedOnce'
      BY <3>1, <3>4, <3>10 DEF StoreInv, FetchedOnce
    <3>. QED BY <3>7, <3>8, <3>9, <3>11 DEF StoreInv
  <2>16. ASSUME NEW p \in Procs, Crash(p) PROVE StoreInv'
    <3>1. store' = store /\ at' = at /\ \A q \in Procs : Root(q)' = Root(q)
      BY <2>16 DEF Crash, Root
    <3>2. pc'[p] \notin Fetching /\ \A q \in Procs : q # p => pc'[q] = pc[q]
      BY <2>16, <2>0, FetchingPoints DEF Crash, TypeOK
    <3>3. \A q \in Procs, r \in Roots :
            fetch'[q][r] = IF q = p /\ fetch[q][r] = "running" THEN "abandoned" ELSE fetch[q][r]
      BY <2>16, <2>0 DEF Crash, TypeOK
    <3>4. OnlyVerifiedVisible'
      BY <3>1 DEF StoreInv, OnlyVerifiedVisible
    <3>5. FetchOnlyWhenAbsent'
      BY <3>1, <3>2 DEF StoreInv, FetchOnlyWhenAbsent
    <3>6. History'
      <4>. SUFFICES ASSUME NEW q \in Procs, NEW r \in Roots
                    PROVE  /\ fetch'[q][r] = "running" => pc'[q] \in Fetching /\ r = Root(q)'
                           /\ fetch'[q][r] = "won" => store'[r] = Pinned
        BY DEF History
      <4>. QED BY <3>1, <3>2, <3>3 DEF StoreInv, History
    <3>7. FetchedOnce'
      BY <3>3 DEF StoreInv, FetchedOnce
    <3>. QED BY <3>4, <3>5, <3>6, <3>7 DEF StoreInv
  <2>17. CASE UNCHANGED vars
    BY <2>17 DEF vars, StoreInv, OnlyVerifiedVisible, FetchOnlyWhenAbsent, History,
                 FetchedOnce, Root
  <2>. QED
    BY <2>1, <2>2, <2>3, <2>4, <2>5, <2>6, <2>7, <2>8, <2>9, <2>10, <2>11,
       <2>12, <2>13, <2>14, <2>15, <2>16, <2>17 DEF Next, Step, AllEnded
<1>. QED BY <1>1, <1>2, TypeInvariant, LockSafe, PTL DEF Spec

\* Readers never see anything but the pinned tree (engines.py:313-339).
THEOREM VisibleSafe == Spec => []OnlyVerifiedVisible
<1>1. StoreInv => OnlyVerifiedVisible
  BY DEF StoreInv
<1>. QED BY <1>1, StoreInvariant, PTL

\* A payload is fetched only while it is absent, so the rename never loses a
\* race (engines.py:331-337).
THEOREM FetchSafe == Spec => []FetchOnlyWhenAbsent
<1>1. StoreInv => FetchOnlyWhenAbsent
  BY DEF StoreInv
<1>. QED BY <1>1, StoreInvariant, PTL

\* A payload version is fetched exactly once (engines.py:172-173).
THEOREM OnceSafe == Spec => []FetchedOnce
<1>1. StoreInv => FetchedOnce
  BY DEF StoreInv
<1>. QED BY <1>1, StoreInvariant, PTL

-----------------------------------------------------------------------------
(* What a process that has passed a payload may rely on.                   *)

\* Every payload p is past is installed, and p leaves the section of its
\* current payload in good order only with that payload installed.
Served ==
  \A p \in Procs :
    /\ \A i \in 1..NeedCount(p) : i < at[p] => store[Needs[p][i]] = Pinned
    /\ pc[p] \in {"cleanup", "unlock"} /\ ~raised[p] => store[Root(p)] = Pinned
    /\ pc[p] = "ready" => at[p] > NeedCount(p)

\* What an invocation needs are store roots.
LEMMA NeedIsRoot == \A p \in Procs : \A i \in 1..NeedCount(p) : Needs[p][i] \in Roots
BY NeedsAssumption DEF NeedCount

\* A step of p that removes nothing from the store keeps Served, provided p
\* advances, leaves and finishes only as it may.
LEMMA ServedFrame ==
  ASSUME TypeOK, AtInRange, Served, NEW p \in Procs,
         \A r \in Roots : store[r] = Pinned => store'[r] = Pinned,
         \A q \in Procs \ {p} : pc'[q] = pc[q] /\ at'[q] = at[q] /\ raised'[q] = raised[q],
         \/ at'[p] = at[p]
         \/ at'[p] = at[p] + 1 /\ at[p] <= NeedCount(p) /\ store'[Root(p)] = Pinned,
         pc'[p] \in {"cleanup", "unlock"} /\ ~raised'[p] =>
            at'[p] = at[p] /\ store'[Root(p)] = Pinned,
         pc'[p] = "ready" => at'[p] > NeedCount(p)
  PROVE  Served'
<1>1. ASSUME NEW q \in Procs, NEW i \in 1..NeedCount(q), i < at'[q]
      PROVE  store'[Needs[q][i]] = Pinned
  <2>1. CASE i < at[q]
    BY <2>1, NeedIsRoot DEF Served
  <2>2. CASE ~(i < at[q])
    <3>1. q = p
      BY <1>1, <2>2
    <3>2. i \in Nat /\ at[p] \in Nat
      BY <1>1, NeedCountType DEF TypeOK
    <3>3. at'[p] = at[p] + 1 /\ store'[Root(p)] = Pinned
      BY <1>1, <2>2, <3>1
    <3>4. i = at[p]
      BY <1>1, <2>2, <3>1, <3>2, <3>3
    <3>. QED BY <3>1, <3>3, <3>4 DEF Root
  <2>. QED BY <2>1, <2>2
<1>2. ASSUME NEW q \in Procs, pc'[q] \in {"cleanup", "unlock"}, ~raised'[q]
      PROVE  store'[Root(q)'] = Pinned
  <2>1. at'[q] = at[q]
    BY <1>2
  <2>2. Root(q)' = Root(q)
    BY <2>1 DEF Root
  <2>3. CASE q = p
    BY <1>2, <2>2, <2>3
  <2>4. CASE q # p
    <3>1. pc[q] \in {"cleanup", "unlock"} /\ ~raised[q]
      BY <1>2, <2>4
    <3>2. Root(q) \in Roots
      BY <3>1, RootType, BusyPoints DEF AtInRange
    <3>. QED BY <2>2, <3>1, <3>2 DEF Served
  <2>. QED BY <2>3, <2>4
<1>3. ASSUME NEW q \in Procs, pc'[q] = "ready"
      PROVE  at'[q] > NeedCount(q)
  BY <1>3 DEF Served
<1>. QED BY <1>1, <1>2, <1>3 DEF Served, NeedCount

\* Served is an invariant.
THEOREM ServedInvariant == Spec => []Served
<1>1. Init => Served
  <2>. SUFFICES ASSUME Init, NEW p \in Procs
                PROVE  /\ \A i \in 1..NeedCount(p) : i < at[p] => store[Needs[p][i]] = Pinned
                       /\ pc[p] \notin {"cleanup", "unlock", "ready"}
    BY DEF Served
  <2>. QED BY NeedCountType DEF Init
<1>2. TypeInv /\ StoreInv /\ Served /\ [Next]_vars => Served'
  <2>. SUFFICES ASSUME TypeOK, AtInRange, Verified, StoreInv, Served, [Next]_vars
                PROVE  Served'
    BY DEF TypeInv
  <2>a. \A p \in Procs : pc[p] \in Busy => Root(p) \in Roots
    BY RootType DEF AtInRange
  <2>b. \A r \in Roots : store[r] # Absent => store[r] = Pinned
    BY DEF StoreInv, OnlyVerifiedVisible
  <2>1. ASSUME NEW p \in Procs, RefusePlatform(p) PROVE Served'
    BY <2>1, ServedFrame DEF RefusePlatform, TypeOK
  <2>2. ASSUME NEW p \in Procs, Lock(p) PROVE Served'
    BY <2>2, ServedFrame DEF Lock, TypeOK
  <2>3. ASSUME NEW p \in Procs, LockError(p) PROVE Served'
    BY <2>3, ServedFrame DEF LockError, TypeOK
  <2>4. ASSUME NEW p \in Procs, FetchIndex(p) PROVE Served'
    BY <2>4, ServedFrame DEF FetchIndex, TypeOK
  <2>5. ASSUME NEW p \in Procs, Download(p) PROVE Served'
    BY <2>5, ServedFrame DEF Download, TypeOK, Raise
  <2>6. ASSUME NEW p \in Procs, UnpackStart(p) PROVE Served'
    BY <2>6, ServedFrame DEF UnpackStart, TypeOK
  <2>7. ASSUME NEW p \in Procs, UnpackEnd(p) PROVE Served'
    BY <2>7, ServedFrame DEF UnpackEnd, TypeOK
  <2>8. ASSUME NEW p \in Procs, VerifyTree(p) PROVE Served'
    BY <2>8, ServedFrame DEF VerifyTree, TypeOK, Raise
  <2>9. ASSUME NEW p \in Procs, BodyError(p) PROVE Served'
    BY <2>9, ServedFrame DEF BodyError, TypeOK, Raise
  <2>10. ASSUME NEW p \in Procs, Crash(p) PROVE Served'
    BY <2>10, ServedFrame DEF Crash, TypeOK
  <2>11. ASSUME NEW p \in Procs, AllEnsured(p) PROVE Served'
    BY <2>11, ServedFrame, NeedCountType DEF AllEnsured, Finished, TypeOK
  <2>12. ASSUME NEW p \in Procs, CheckUnlocked(p) PROVE Served'
    <3>1. at[p] <= NeedCount(p) /\ Root(p) \in Roots
      BY <2>12, NeedCountType, RootType DEF CheckUnlocked, Finished, TypeOK, NeedCount
    <3>2. CASE store[Root(p)] # Absent
      BY <2>12, <2>b, <3>1, <3>2, ServedFrame DEF CheckUnlocked, TypeOK
    <3>3. CASE store[Root(p)] = Absent
      BY <2>12, <3>3, ServedFrame DEF CheckUnlocked, TypeOK
    <3>. QED BY <3>2, <3>3
  <2>13. ASSUME NEW p \in Procs, Recheck(p) PROVE Served'
    <3>1. Root(p) \in Roots
      BY <2>13, <2>a, BusyPoints DEF Recheck
    <3>2. CASE store[Root(p)] # Absent
      BY <2>13, <2>b, <3>1, <3>2, ServedFrame DEF Recheck, TypeOK
    <3>3. CASE store[Root(p)] = Absent
      BY <2>13, <3>3, ServedFrame DEF Recheck, TypeOK
    <3>. QED BY <3>2, <3>3
  <2>14. ASSUME NEW p \in Procs, Rename(p) PROVE Served'
    <3>1. Root(p) \in Roots /\ work[p] = Pinned /\ store[Root(p)] = Absent
      BY <2>14, <2>a, BusyPoints, FetchingPoints
      DEF Rename, Verified, StoreInv, FetchOnlyWhenAbsent
    <3>2. \A r \in Roots : store'[r] = IF r = Root(p) THEN Pinned ELSE store[r]
      BY <2>14, <3>1 DEF Rename, TypeOK
    <3>3. /\ at' = at /\ raised' = raised /\ pc' = [pc EXCEPT ![p] = "cleanup"]
      BY <2>14 DEF Rename
    <3>. QED BY <3>1, <3>2, <3>3, ServedFrame DEF TypeOK
  <2>15. ASSUME NEW p \in Procs, Cleanup(p) PROVE Served'
    <3>1. ~raised[p] => store[Root(p)] = Pinned
      BY <2>15 DEF Cleanup, Served
    <3>2. /\ at' = at /\ raised' = raised /\ store' = store
          /\ pc' = [pc EXCEPT ![p] = "unlock"]
      BY <2>15 DEF Cleanup
    <3>. QED BY <3>1, <3>2, ServedFrame DEF TypeOK
  <2>16. ASSUME NEW p \in Procs, Unlock(p) PROVE Served'
    <3>1. at[p] <= NeedCount(p) /\ (~raised[p] => store[Root(p)] = Pinned)
      BY <2>16, BusyPoints DEF Unlock, Served, AtInRange
    <3>2. CASE raised[p]
      BY <2>16, <3>2, ServedFrame DEF Unlock, TypeOK
    <3>3. CASE ~raised[p]
      BY <2>16, <3>1, <3>3, ServedFrame DEF Unlock, TypeOK
    <3>. QED BY <3>2, <3>3
  <2>17. CASE UNCHANGED vars
    BY <2>17 DEF vars, Served, Root, NeedCount
  <2>. QED
    BY <2>1, <2>2, <2>3, <2>4, <2>5, <2>6, <2>7, <2>8, <2>9, <2>10, <2>11,
       <2>12, <2>13, <2>14, <2>15, <2>16, <2>17 DEF Next, Step, AllEnded
<1>. QED BY <1>1, <1>2, TypeInvariant, StoreInvariant, PTL DEF Spec

\* ensure_payloads returns in good order only with every payload installed.
THEOREM ReadySafe == Spec => []ReadyMeansInstalled
<1>1. TypeInv /\ Served => ReadyMeansInstalled
  <2>. SUFFICES ASSUME TypeOK, Served, NEW p \in Procs, pc[p] = "ready",
                       NEW i \in 1..NeedCount(p)
                PROVE  store[Needs[p][i]] = Pinned
    BY DEF TypeInv, ReadyMeansInstalled, NeedCount
  <2>1. at[p] > NeedCount(p) /\ at[p] \in Nat
    BY DEF Served, TypeOK
  <2>2. i < at[p]
    BY <2>1, NeedCountType
  <2>. QED BY <2>2 DEF Served
<1>. QED BY <1>1, ServedInvariant, TypeInvariant, PTL

-----------------------------------------------------------------------------
(* Refinement.                                                             *)

\* A step of p that leaves the store alone and neither ends p nor touches
\* another process is invisible to PayloadStore.
LEMMA StutterStep ==
  ASSUME TypeOK, NEW p \in Procs, pc[p] \notin Ended, store' = store,
         pc' = pc \/ \E s \in PCs \ Ended : pc' = [pc EXCEPT ![p] = s]
  PROVE  UNCHANGED Abstract!absVars
<1>1. \A q \in Procs : pc'[q] # pc[q] => pc'[q] \notin Ended /\ pc[q] \notin Ended
  BY DEF TypeOK
<1>2. \A q \in Procs : pc'[q] = "ready" <=> pc[q] = "ready"
  BY <1>1 DEF Ended
<1>3. \A q \in Procs : pc'[q] \in Ended <=> pc[q] \in Ended
  BY <1>1
<1>4. Answer' = Answer
  BY <1>2, <1>3 DEF Answer
<1>. QED BY <1>4 DEF Abstract!absVars

\* A step that ends p, in good order or not, changes p's answer alone.
LEMMA EndStep ==
  ASSUME TypeOK, NEW p \in Procs, pc[p] \notin Ended,
         NEW s \in Ended, pc' = [pc EXCEPT ![p] = s]
  PROVE  /\ Answer[p] = "open"
         /\ Answer' = [Answer EXCEPT ![p] = IF s = "ready" THEN "ready" ELSE "refused"]
<1>1. Answer[p] = "open"
  BY DEF Answer, Ended
<1>2. \A q \in Procs : pc'[q] = IF q = p THEN s ELSE pc[q]
  BY DEF TypeOK
<1>. QED BY <1>1, <1>2 DEF Answer, Ended

\* The program points a running process can reach.
LEMMA RunningPoints ==
  /\ "check" \in PCs \ Ended
  /\ "lock" \in PCs \ Ended
  /\ "recheck" \in PCs \ Ended
  /\ "cleanup" \in PCs \ Ended
  /\ "unlock" \in PCs \ Ended
  /\ "index" \in PCs \ Ended
  /\ "download" \in PCs \ Ended
  /\ "unpack" \in PCs \ Ended
  /\ "unpacking" \in PCs \ Ended
  /\ "verify" \in PCs \ Ended
  /\ "rename" \in PCs \ Ended
  /\ Fetching \subseteq PCs \ Ended
BY DEF PCs, Holding, Fetching, Ended

\* The store keeps PayloadStore's promise.
THEOREM Implements == Spec => ImplementsPayloadStore
<1>1. Init => Abstract!Init
  BY DEF Init, Abstract!Init, Answer, Ended, Absent, Abstract!Absent
<1>2. TypeInv /\ StoreInv /\ Served /\ [Next]_vars => [Abstract!Next]_(Abstract!absVars)
  <2>. SUFFICES ASSUME TypeOK, AtInRange, Verified, StoreInv, Served, [Next]_vars
                PROVE  [Abstract!Next]_(Abstract!absVars)
    BY DEF TypeInv
  <2>. DEFINE Mapped == [Abstract!Next]_(Abstract!absVars)
  <2>1. ASSUME NEW p \in Procs, CheckUnlocked(p) PROVE Mapped
    <3>1. pc[p] \notin Ended /\ store' = store
      BY <2>1, RunningPoints DEF CheckUnlocked
    <3>2. pc' = pc \/ \E s \in PCs \ Ended : pc' = [pc EXCEPT ![p] = s]
      BY <2>1, RunningPoints DEF CheckUnlocked
    <3>. QED BY <3>1, <3>2, StutterStep
  <2>2. ASSUME NEW p \in Procs, Lock(p) PROVE Mapped
    <3>1. pc[p] \notin Ended /\ store' = store
      BY <2>2, RunningPoints DEF Lock
    <3>2. pc' = pc \/ \E s \in PCs \ Ended : pc' = [pc EXCEPT ![p] = s]
      BY <2>2, RunningPoints DEF Lock
    <3>. QED BY <3>1, <3>2, StutterStep
  <2>3. ASSUME NEW p \in Procs, Recheck(p) PROVE Mapped
    <3>1. pc[p] \notin Ended /\ store' = store
      BY <2>3, RunningPoints DEF Recheck
    <3>2. pc' = pc \/ \E s \in PCs \ Ended : pc' = [pc EXCEPT ![p] = s]
      BY <2>3, RunningPoints DEF Recheck
    <3>. QED BY <3>1, <3>2, StutterStep
  <2>4. ASSUME NEW p \in Procs, FetchIndex(p) PROVE Mapped
    <3>1. pc[p] \notin Ended /\ store' = store
      BY <2>4, RunningPoints DEF FetchIndex
    <3>2. pc' = pc \/ \E s \in PCs \ Ended : pc' = [pc EXCEPT ![p] = s]
      BY <2>4, RunningPoints DEF FetchIndex
    <3>. QED BY <3>1, <3>2, StutterStep
  <2>5. ASSUME NEW p \in Procs, Download(p) PROVE Mapped
    <3>1. pc[p] \notin Ended /\ store' = store
      BY <2>5, RunningPoints DEF Download
    <3>2. pc' = pc \/ \E s \in PCs \ Ended : pc' = [pc EXCEPT ![p] = s]
      BY <2>5, RunningPoints DEF Download, Raise
    <3>. QED BY <3>1, <3>2, StutterStep
  <2>6. ASSUME NEW p \in Procs, UnpackStart(p) PROVE Mapped
    <3>1. pc[p] \notin Ended /\ store' = store
      BY <2>6, RunningPoints DEF UnpackStart
    <3>2. pc' = pc \/ \E s \in PCs \ Ended : pc' = [pc EXCEPT ![p] = s]
      BY <2>6, RunningPoints DEF UnpackStart
    <3>. QED BY <3>1, <3>2, StutterStep
  <2>7. ASSUME NEW p \in Procs, UnpackEnd(p) PROVE Mapped
    <3>1. pc[p] \notin Ended /\ store' = store
      BY <2>7, RunningPoints DEF UnpackEnd
    <3>2. pc' = pc \/ \E s \in PCs \ Ended : pc' = [pc EXCEPT ![p] = s]
      BY <2>7, RunningPoints DEF UnpackEnd
    <3>. QED BY <3>1, <3>2, StutterStep
  <2>8. ASSUME NEW p \in Procs, VerifyTree(p) PROVE Mapped
    <3>1. pc[p] \notin Ended /\ store' = store
      BY <2>8, RunningPoints DEF VerifyTree
    <3>2. pc' = pc \/ \E s \in PCs \ Ended : pc' = [pc EXCEPT ![p] = s]
      BY <2>8, RunningPoints DEF VerifyTree, Raise
    <3>. QED BY <3>1, <3>2, StutterStep
  <2>9. ASSUME NEW p \in Procs, BodyError(p) PROVE Mapped
    <3>1. pc[p] \notin Ended /\ store' = store
      BY <2>9, RunningPoints DEF BodyError
    <3>2. pc' = pc \/ \E s \in PCs \ Ended : pc' = [pc EXCEPT ![p] = s]
      BY <2>9, RunningPoints DEF BodyError, Raise
    <3>. QED BY <3>1, <3>2, StutterStep
  <2>10. ASSUME NEW p \in Procs, Cleanup(p) PROVE Mapped
    <3>1. pc[p] \notin Ended /\ store' = store
      BY <2>10, RunningPoints DEF Cleanup
    <3>2. pc' = pc \/ \E s \in PCs \ Ended : pc' = [pc EXCEPT ![p] = s]
      BY <2>10, RunningPoints DEF Cleanup
    <3>. QED BY <3>1, <3>2, StutterStep
  <2>11. ASSUME NEW p \in Procs, AllEnsured(p) PROVE Mapped
    <3>1. /\ pc[p] \notin Ended /\ "ready" \in Ended /\ store' = store
          /\ pc' = [pc EXCEPT ![p] = "ready"]
      BY <2>11, RunningPoints DEF AllEnsured, Ended
    <3>2. Answer[p] = "open" /\ Answer' = [Answer EXCEPT ![p] = "ready"]
      BY <3>1, EndStep
    <3>3. \A i \in 1..NeedCount(p) : store[Needs[p][i]] = Pinned
      <4>. SUFFICES ASSUME NEW i \in 1..NeedCount(p) PROVE store[Needs[p][i]] = Pinned
        OBVIOUS
      <4>1. at[p] > NeedCount(p) /\ at[p] \in Nat
        BY <2>11 DEF AllEnsured, Finished, TypeOK
      <4>2. i < at[p]
        BY <4>1, NeedCountType
      <4>. QED BY <4>2 DEF Served
    <3>4. Abstract!Grant(p)
      BY <3>1, <3>2, <3>3 DEF Abstract!Grant, NeedCount, Pinned, Abstract!Pinned
    <3>. QED BY <3>4 DEF Abstract!Next
  <2>12. ASSUME NEW p \in Procs, pc[p] \notin Ended, store' = store,
                NEW s \in {"failed", "crashed"}, pc' = [pc EXCEPT ![p] = s]
         PROVE  Mapped
    <3>1. Answer[p] = "open" /\ Answer' = [Answer EXCEPT ![p] = "refused"]
      <4>1. s \in Ended /\ s # "ready"
        BY DEF Ended
      <4>. QED BY <2>12, <4>1, EndStep
    <3>2. Abstract!Refuse(p)
      BY <2>12, <3>1 DEF Abstract!Refuse
    <3>. QED BY <3>2 DEF Abstract!Next
  <2>13. ASSUME NEW p \in Procs, RefusePlatform(p) PROVE Mapped
    BY <2>12, <2>13, RunningPoints DEF RefusePlatform
  <2>14. ASSUME NEW p \in Procs, LockError(p) PROVE Mapped
    BY <2>12, <2>14, RunningPoints DEF LockError
  <2>15. ASSUME NEW p \in Procs, Crash(p) PROVE Mapped
    BY <2>12, <2>15 DEF Crash
  <2>16. ASSUME NEW p \in Procs, Unlock(p) PROVE Mapped
    <3>1. pc[p] \notin Ended /\ store' = store
      BY <2>16, RunningPoints DEF Unlock
    <3>2. CASE raised[p]
      BY <2>12, <2>16, <3>1, <3>2 DEF Unlock
    <3>3. CASE ~raised[p]
      <4>1. pc' = [pc EXCEPT ![p] = "check"]
        BY <2>16, <3>3 DEF Unlock
      <4>. QED BY <3>1, <4>1, StutterStep, RunningPoints
    <3>. QED BY <3>2, <3>3
  <2>17. ASSUME NEW p \in Procs, Rename(p) PROVE Mapped
    <3>1. Root(p) \in Roots /\ work[p] = Pinned /\ store[Root(p)] = Absent
      BY <2>17, RootType, BusyPoints, FetchingPoints
      DEF Rename, Verified, StoreInv, FetchOnlyWhenAbsent, AtInRange
    <3>2. store' = [store EXCEPT ![Root(p)] = Pinned]
      BY <2>17, <3>1 DEF Rename
    <3>3. Answer' = Answer
      <4>1. pc[p] = "rename" /\ pc' = [pc EXCEPT ![p] = "cleanup"]
        BY <2>17 DEF Rename
      <4>2. \A q \in Procs : /\ pc'[q] = "ready" <=> pc[q] = "ready"
                             /\ pc'[q] \in Ended <=> pc[q] \in Ended
        BY <4>1 DEF TypeOK, Ended
      <4>. QED BY <4>2 DEF Answer
    <3>4. Abstract!Publish(Root(p))
      BY <3>1, <3>2, <3>3
      DEF Abstract!Publish, Absent, Abstract!Absent, Pinned, Abstract!Pinned
    <3>. QED BY <3>1, <3>4 DEF Abstract!Next
  <2>18. CASE UNCHANGED vars
    BY <2>18 DEF vars, Answer, Abstract!absVars
  <2>. QED
    BY <2>1, <2>2, <2>3, <2>4, <2>5, <2>6, <2>7, <2>8, <2>9, <2>10, <2>11,
       <2>13, <2>14, <2>15, <2>16, <2>17, <2>18 DEF Next, Step, AllEnded
<1>. QED
  BY <1>1, <1>2, TypeInvariant, StoreInvariant, ServedInvariant, PTL
  DEF Spec, ImplementsPayloadStore, Abstract!Spec
=============================================================================
