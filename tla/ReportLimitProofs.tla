-------------------------- MODULE ReportLimitProofs -------------------------
(***************************************************************************)
(* Proofs about ReportLimit, for any number of threads, keys and reports,  *)
(* any rate window, and clocks that run and are set back and put forward   *)
(* for any time, any number of times.                                      *)
(***************************************************************************)
EXTENDS ReportLimit, TLAPS

Points == {"idle", "notice", "listening", "gate", "check", "store"}

TypeOK ==
  /\ runtime \in {"lock", "race", "turn"}
  /\ time \in Nat
  /\ lag \in 0..MaxLag /\ ahead \in Nat
  /\ pc \in [Threads -> Points]
  /\ key \in [Threads -> AllKeys]
  /\ nested \in [Threads -> AllKeys \cup {NoKey}]
  /\ from \in [Threads -> {"report", "notify"}]
  /\ dispatching \in BOOLEAN
  /\ now \in [Threads -> Int \X Nat \X Nat]
  /\ lastSent \in [AllKeys -> Int]
  /\ made \in [Threads -> Nat]
  /\ loud \in [Threads -> Nat]
  /\ notices \in [Threads -> Nat]

\* JavaScript has one thread: one report is under way, with what it nests.
OneTurn ==
  runtime = "turn" => \A t, u \in Threads : pc[t] # "idle" /\ pc[u] # "idle" => t = u

\* The guard is up while a listener is on the stack, and in JavaScript alone.
Guarded ==
  /\ dispatching => runtime = "turn" /\ \E t \in Threads : pc[t] # "idle"
  /\ \A t \in Threads :
       /\ pc[t] = "listening" => runtime = "turn"
       /\ pc[t] = "store" => runtime = "race"
       /\ pc[t] \in {"idle", "listening"} => nested[t] = NoKey
       /\ runtime = "turn" /\ pc[t] # "idle" =>
            (dispatching <=> pc[t] = "listening" \/ nested[t] # NoKey)
       /\ runtime # "turn" /\ pc[t] \in {"notice", "gate"} => nested[t] = NoKey

\* A thread owes one notice from the verb to the dispatch, and none elsewhere.
Owing ==
  \A t \in Threads :
    loud[t] = IF pc[t] = "notice" /\ nested[t] = NoKey THEN notices[t] + 1 ELSE notices[t]

UserLaneInv == OneTurn /\ Guarded /\ Owing

\* A reading is behind that of a clock never set back by a lag that the clock
\* has had.
Readings ==
  /\ runtime = "lock" => lag = 0
  /\ \A k \in AllKeys : lastSent[k] # Never => lastSent[k] >= -MaxLag
  /\ \A t \in Threads : pc[t] \in {"check", "store"} =>
       /\ now[t][1] >= -MaxLag
       /\ Steady(now[t]) - now[t][1] \in 0..lag

\* A capture has left its reading, or a later one, under its key.
Stored ==
  \A x \in captured : x[1] \in AllKeys /\ x[2] \in Nat /\ x[3] \in Nat /\ lastSent[x[1]] # Never

\* Where nothing comes between lookup and store, no capture is later than what
\* is stored under its key, but for the lag of the clock; and whoever is about
\* to look has read a clock that was as far behind.
Behind ==
  atomic => \A x \in captured :
    /\ Steady(x) - lastSent[x[1]] <= lag
    /\ \A t \in Threads : pc[t] = "check" =>
          Steady(x) - lastSent[x[1]] <= Steady(now[t]) - now[t][1]

WindowInv == Readings /\ Stored /\ Behind /\ WindowHeld

\* With a clock that was never set back, what is stored under a key is the
\* reading of a capture.
Witnessed ==
  lag = 0 => \A k \in AllKeys : lastSent[k] # Never =>
    \E x \in captured : x[1] = k /\ Steady(x) = lastSent[k]

\* Of two readings that the clock was put forward between, the later one is the
\* one after; none is later than now.
Ordered ==
  \A t \in Threads :
    /\ now[t][2] <= time /\ now[t][3] <= ahead
    /\ \A u \in Threads : now[u][3] > now[t][3] => now[u][2] >= now[t][2]
    /\ \A x \in captured : /\ x[2] \in Nat /\ x[3] \in Nat
                           /\ x[3] <= ahead
                           /\ x[3] > now[t][3] => x[2] >= now[t][2]

DropInv == Ordered /\ Witnessed /\ DropIsCovered

-----------------------------------------------------------------------------
\* The key of the report a thread is in is a key.
LEMMA KeyOfType ==
  ASSUME TypeOK, NEW t \in Threads
  PROVE  KeyOf(t) \in AllKeys
BY DEF KeyOf, TypeOK

\* The keys of the application and the notifier's own are keys.
LEMMA KeyTypes == NotifierKey \in AllKeys /\ \A k \in Keys : k \in AllKeys
BY DEF AllKeys

\* What a clock says is a number.
LEMMA ClockType ==
  TypeOK => Clock \in Int /\ Reading \in Int \X Nat \X Nat /\ MaxLag \in Nat /\ lag \in Nat
BY BoundsAssumption DEF Clock, Reading, TypeOK

\* No step makes a value of another kind.
LEMMA TypeStep ==
  ASSUME TypeOK, [Next]_vars
  PROVE  TypeOK'
<1>. USE BoundsAssumption DEF TypeOK, Points, clock, thread, history
<1>1. CASE Tick
  BY <1>1 DEF Tick
<1>2. CASE SetBack
  BY <1>2 DEF SetBack
<1>3. ASSUME NEW t \in Threads, Step(t)
      PROVE  TypeOK'
  <2>1. CASE Report(t)
    <3>1. PICK k \in Keys : key' = [key EXCEPT ![t] = k]
      BY <2>1 DEF Report
    <3>2. k \in AllKeys
      BY KeyTypes
    <3>3. pc' \in [Threads -> Points]
      BY <2>1 DEF Report, Goto
    <3>4. loud' \in [Threads -> Nat]
      BY <2>1 DEF Report
    <3>5. key' \in [Threads -> AllKeys] /\ made' \in [Threads -> Nat]
      BY <2>1, <3>1, <3>2 DEF Report, Call
    <3>6. from' \in [Threads -> {"report", "notify"}]
      BY <2>1 DEF Report
    <3>. QED
      BY <2>1, <3>3, <3>4, <3>5, <3>6 DEF Report, Call
  <2>2. CASE Notify(t)
    BY <2>2 DEF Notify, Call, Goto
  <2>3. CASE Dispatch(t)
    BY <2>3 DEF Dispatch, Deliver, Goto, AfterNotice
  <2>4. CASE DispatchThrows(t)
    <3>1. pc' \in [Threads -> Points] /\ notices' \in [Threads -> Nat]
      BY <2>4 DEF DispatchThrows, Goto, Deliver
    <3>2. nested' \in [Threads -> AllKeys \cup {NoKey}]
      BY <2>4, KeyTypes DEF DispatchThrows
    <3>3. now' \in [Threads -> Int \X Nat \X Nat]
      <4>1. Reading \in Int \X Nat \X Nat /\ now' = [now EXCEPT ![t] = Reading]
        BY <2>4, ClockType DEF DispatchThrows
      <4>. QED
        BY <4>1
    <3>4. /\ UNCHANGED <<runtime, time, lag, ahead, key, from, dispatching>>
          /\ UNCHANGED <<lastSent, made, loud>>
      BY <2>4 DEF DispatchThrows
    <3>. QED
      BY <3>1, <3>2, <3>3, <3>4
  <2>5. CASE DispatchEvent(t)
    <3>1. CASE dispatching
      BY <2>5, <3>1 DEF DispatchEvent, Goto, AfterNotice
    <3>2. CASE ~dispatching
      <4>1. pc' = [pc EXCEPT ![t] = "listening"] /\ notices' = [notices EXCEPT ![t] = @ + 1]
        BY <2>5, <3>2 DEF DispatchEvent, Goto, Deliver
      <4>2. dispatching' = TRUE
        BY <2>5, <3>2 DEF DispatchEvent
      <4>. QED
        BY <2>5, <4>1, <4>2 DEF DispatchEvent
    <3>. QED
      BY <3>1, <3>2
  <2>6. CASE ListenerReports(t)
    <3>1. PICK k \in Keys : nested' = [nested EXCEPT ![t] = k]
      BY <2>6 DEF ListenerReports
    <3>2. k \in AllKeys
      BY KeyTypes
    <3>3. pc' \in [Threads -> Points] /\ made' \in [Threads -> Nat]
      BY <2>6 DEF ListenerReports, Goto
    <3>4. nested' \in [Threads -> AllKeys \cup {NoKey}]
      BY <3>1, <3>2
    <3>. QED
      BY <2>6, <3>3, <3>4 DEF ListenerReports
  <2>7. CASE EventDispatched(t)
    BY <2>7 DEF EventDispatched, Goto, AfterNotice
  <2>8. CASE ReadClock(t)
    BY <2>8, ClockType DEF ReadClock, Goto
  <2>9. CASE Drop(t)
    BY <2>9, KeyOfType DEF Drop, Return, Goto, AfterNotice
  <2>10. CASE Pass(t)
    BY <2>10, KeyOfType DEF Pass, Admit, Return, Goto, AfterNotice
  <2>11. CASE Look(t)
    BY <2>11 DEF Look, Goto
  <2>12. CASE Store(t)
    BY <2>12, KeyOfType DEF Store, Admit, Return, Goto, AfterNotice
  <2>. QED
    BY <1>3, <2>1, <2>2, <2>3, <2>4, <2>5, <2>6, <2>7, <2>8, <2>9, <2>10, <2>11, <2>12 DEF Step
<1>4. CASE SetForward
  BY <1>4 DEF SetForward
<1>5. CASE UNCHANGED vars
  BY <1>5 DEF vars
<1>. QED
  BY <1>1, <1>2, <1>3, <1>4, <1>5 DEF Next

\* Every variable stays in its range.
THEOREM TypeInvariant == Spec => []TypeOK
<1>1. ASSUME Init PROVE TypeOK
  <2>1. Never \in Int /\ NotifierKey \in AllKeys /\ 0 \in 0..MaxLag
    BY BoundsAssumption, WindowAssumption DEF Never, AllKeys
  <2>2. runtime \in {"lock", "race", "turn"} /\ time \in Nat /\ lag \in 0..MaxLag /\ ahead \in Nat
    BY <1>1, <2>1, RuntimesAssumption DEF Init
  <2>3. now \in [Threads -> Int \X Nat \X Nat] /\ lastSent \in [AllKeys -> Int]
    BY <1>1, <2>1 DEF Init
  <2>4. /\ pc \in [Threads -> Points]
        /\ key \in [Threads -> AllKeys]
        /\ nested \in [Threads -> AllKeys \cup {NoKey}]
        /\ from \in [Threads -> {"report", "notify"}]
    BY <1>1, <2>1 DEF Init, Points
  <2>5. /\ dispatching \in BOOLEAN
        /\ made \in [Threads -> Nat]
        /\ loud \in [Threads -> Nat]
        /\ notices \in [Threads -> Nat]
    BY <1>1 DEF Init
  <2>. QED
    BY <2>2, <2>3, <2>4, <2>5 DEF TypeOK
<1>2. TypeOK /\ [Next]_vars => TypeOK'
  BY TypeStep
<1>. QED
  BY <1>1, <1>2, PTL DEF Spec

\* A notice becomes due and is delivered outside every listener, and the guard
\* goes up and down with the listener.
LEMMA UserLaneStep ==
  ASSUME TypeOK, UserLaneInv, [Next]_vars
  PROVE  UserLaneInv'
<1>. USE NoKeyAssumption DEF TypeOK, UserLaneInv, OneTurn, Guarded, Owing, clock, thread, history, Points,
            atomic
<1>1. CASE Tick
  BY <1>1 DEF Tick
<1>2. CASE SetBack
  BY <1>2 DEF SetBack
<1>3. ASSUME NEW t \in Threads, Step(t)
      PROVE  UserLaneInv'
  <2>1. CASE Report(t)
    BY <2>1 DEF Report, Call, Goto
  <2>2. CASE Notify(t)
    BY <2>2 DEF Notify, Call, Goto
  <2>3. CASE Dispatch(t)
    BY <2>3 DEF Dispatch, Deliver, Goto, AfterNotice
  <2>4. CASE DispatchThrows(t)
    BY <2>4 DEF DispatchThrows, Deliver, Goto
  <2>5. CASE DispatchEvent(t)
    <3>1. CASE dispatching
      BY <2>5, <3>1 DEF DispatchEvent, Goto, AfterNotice
    <3>2. CASE ~dispatching
      <4>1. /\ pc' = [pc EXCEPT ![t] = "listening"]
            /\ notices' = [notices EXCEPT ![t] = @ + 1]
            /\ dispatching' = TRUE
            /\ UNCHANGED <<runtime, nested, loud>>
            /\ runtime = "turn" /\ pc[t] = "notice"
        BY <2>5, <3>2 DEF DispatchEvent, Deliver, Goto
      <4>2. OneTurn'
        BY <4>1
      <4>3. Guarded'
        BY <4>1, <3>2
      <4>4. Owing'
        BY <4>1, <3>2
      <4>. QED
        BY <4>2, <4>3, <4>4
    <3>. QED
      BY <3>1, <3>2
  <2>6. CASE ListenerReports(t)
    <3>1. PICK k \in Keys : nested' = [nested EXCEPT ![t] = k]
      BY <2>6 DEF ListenerReports
    <3>2. k # NoKey
      BY DEF AllKeys
    <3>3. OneTurn'
      BY <2>6 DEF ListenerReports, Goto
    <3>4. Guarded'
      BY <2>6, <3>1, <3>2, <3>3 DEF ListenerReports, Goto
    <3>5. Owing'
      BY <2>6, <3>1, <3>2 DEF ListenerReports, Goto
    <3>. QED
      BY <3>3, <3>4, <3>5
  <2>7. CASE EventDispatched(t)
    BY <2>7 DEF EventDispatched, Goto, AfterNotice
  <2>8. CASE ReadClock(t)
    BY <2>8 DEF ReadClock, Goto
  <2>9. CASE Drop(t)
    BY <2>9 DEF Drop, Return, Goto, AfterNotice
  <2>10. CASE Pass(t)
    BY <2>10 DEF Pass, Admit, Return, Goto, AfterNotice
  <2>11. CASE Look(t)
    BY <2>11 DEF Look, Goto
  <2>12. CASE Store(t)
    BY <2>12 DEF Store, Admit, Return, Goto, AfterNotice
  <2>. QED
    BY <1>3, <2>1, <2>2, <2>3, <2>4, <2>5, <2>6, <2>7, <2>8, <2>9, <2>10, <2>11, <2>12 DEF Step
<1>4. CASE SetForward
  BY <1>4 DEF SetForward
<1>5. CASE UNCHANGED vars
  BY <1>5 DEF vars
<1>. QED
  BY <1>1, <1>2, <1>3, <1>4, <1>5 DEF Next

\* Notices and loud reports agree between reports.
THEOREM UserLaneInvariant == Spec => []UserLaneInv
<1>1. Init => UserLaneInv
  BY DEF Init, UserLaneInv, OneTurn, Guarded, Owing
<1>2. TypeOK /\ UserLaneInv /\ [Next]_vars => UserLaneInv'
  BY UserLaneStep
<1>. QED
  BY <1>1, <1>2, TypeInvariant, PTL DEF Spec

\* D005: the user lane is complete, whatever was dropped and whoever threw or
\* reported in between.
THEOREM UserLaneSafe == Spec => []UserLaneComplete
<1>1. UserLaneInv => UserLaneComplete
  BY DEF UserLaneInv, Owing, UserLaneComplete
<1>. QED
  BY <1>1, UserLaneInvariant, PTL

\* The lag of a reading, and of what is stored, is one the clock has had.
LEMMA ReadingsStep ==
  ASSUME TypeOK, Readings, [Next]_vars
  PROVE  Readings'
<1>. USE BoundsAssumption DEF TypeOK, Readings, clock, thread, history, Points, atomic
<1>1. CASE Tick
  BY <1>1 DEF Tick
<1>2. CASE SetBack
  BY <1>2 DEF SetBack
<1>3. ASSUME NEW t \in Threads, Step(t)
      PROVE  Readings'
  <2>1. CASE Report(t)
    BY <2>1 DEF Report, Call, Goto
  <2>2. CASE Notify(t)
    BY <2>2 DEF Notify, Call, Goto
  <2>3. CASE Dispatch(t)
    BY <2>3 DEF Dispatch, Deliver, Goto, AfterNotice
  <2>4. CASE DispatchThrows(t)
    BY <2>4, ClockType DEF DispatchThrows, Deliver, Goto, Clock, Reading, Steady
  <2>5. CASE DispatchEvent(t)
    BY <2>5 DEF DispatchEvent, Deliver, Goto, AfterNotice
  <2>6. CASE ListenerReports(t)
    BY <2>6 DEF ListenerReports, Goto
  <2>7. CASE EventDispatched(t)
    BY <2>7 DEF EventDispatched, Goto, AfterNotice
  <2>8. CASE ReadClock(t)
    BY <2>8, ClockType DEF ReadClock, Goto, Clock, Reading, Steady
  <2>9. CASE Drop(t)
    BY <2>9 DEF Drop, Return, Goto, AfterNotice
  <2>10. CASE Pass(t)
    BY <2>10, KeyOfType DEF Pass, Admit, Return, Goto, AfterNotice
  <2>11. CASE Look(t)
    BY <2>11 DEF Look, Goto
  <2>12. CASE Store(t)
    BY <2>12, KeyOfType DEF Store, Admit, Return, Goto, AfterNotice
  <2>. QED
    BY <1>3, <2>1, <2>2, <2>3, <2>4, <2>5, <2>6, <2>7, <2>8, <2>9, <2>10, <2>11, <2>12 DEF Step
<1>4. CASE SetForward
  BY <1>4 DEF SetForward
<1>5. CASE UNCHANGED vars
  BY <1>5 DEF vars
<1>. QED
  BY <1>1, <1>2, <1>3, <1>4, <1>5 DEF Next

\* Nothing takes a stored reading away, and none is mistaken for none.
LEMMA StoredStep ==
  ASSUME TypeOK, Readings, Stored, [Next]_vars
  PROVE  Stored'
<1>. USE BoundsAssumption, WindowAssumption DEF TypeOK, Readings, Stored, clock, thread, history, Points, atomic, Never
<1>1. CASE Tick
  BY <1>1 DEF Tick
<1>2. CASE SetBack
  BY <1>2 DEF SetBack
<1>3. ASSUME NEW t \in Threads, Step(t)
      PROVE  Stored'
  <2>1. CASE Report(t)
    BY <2>1 DEF Report, Call, Goto
  <2>2. CASE Notify(t)
    BY <2>2 DEF Notify, Call, Goto
  <2>3. CASE Dispatch(t)
    BY <2>3 DEF Dispatch, Deliver, Goto, AfterNotice
  <2>4. CASE DispatchThrows(t)
    BY <2>4 DEF DispatchThrows, Deliver, Goto
  <2>5. CASE DispatchEvent(t)
    BY <2>5 DEF DispatchEvent, Deliver, Goto, AfterNotice
  <2>6. CASE ListenerReports(t)
    BY <2>6 DEF ListenerReports, Goto
  <2>7. CASE EventDispatched(t)
    BY <2>7 DEF EventDispatched, Goto, AfterNotice
  <2>8. CASE ReadClock(t)
    BY <2>8 DEF ReadClock, Goto
  <2>9. CASE Drop(t)
    BY <2>9 DEF Drop, Return, Goto, AfterNotice
  <2>10. CASE Pass(t)
    BY <2>10, KeyOfType DEF Pass, Admit, Return, Goto, AfterNotice
  <2>11. CASE Look(t)
    BY <2>11 DEF Look, Goto
  <2>12. CASE Store(t)
    BY <2>12, KeyOfType DEF Store, Admit, Return, Goto, AfterNotice
  <2>. QED
    BY <1>3, <2>1, <2>2, <2>3, <2>4, <2>5, <2>6, <2>7, <2>8, <2>9, <2>10, <2>11, <2>12 DEF Step
<1>4. CASE SetForward
  BY <1>4 DEF SetForward
<1>5. CASE UNCHANGED vars
  BY <1>5 DEF vars
<1>. QED
  BY <1>1, <1>2, <1>3, <1>4, <1>5 DEF Next

\* A capture of the key that is admitted is a window before the reading, by a
\* clock that is never set back.
LEMMA PassFar ==
  ASSUME TypeOK, Readings, Stored, Behind, NEW t \in Threads, Pass(t),
         NEW x \in captured, x[1] = KeyOf(t)
  PROVE  Steady(now[t]) - Steady(x) >= Window
<1>1. pc[t] = "check" /\ atomic /\ ~InWindow(KeyOf(t), now[t][1])
  BY DEF Pass
<1>2. KeyOf(t) \in AllKeys
  BY KeyOfType
<1>3. now[t][1] \in Int /\ Steady(now[t]) \in Nat /\ lastSent[KeyOf(t)] \in Int /\ Steady(x) \in Nat
  BY <1>2 DEF TypeOK, Stored, Steady
<1>4. now[t][1] - lastSent[KeyOf(t)] >= Window
  BY <1>1, <1>3, WindowAssumption DEF InWindow, Stored
<1>5. Steady(x) - lastSent[KeyOf(t)] <= Steady(now[t]) - now[t][1]
  BY <1>1 DEF Behind
<1>. QED
  BY <1>3, <1>4, <1>5, WindowAssumption

\* What Admit does to the two records, the types of what it writes included.
LEMMA AdmitEffect ==
  ASSUME TypeOK, Readings, NEW t \in Threads, Admit(t), pc[t] \in {"check", "store"}
  PROVE  /\ KeyOf(t) \in AllKeys
         /\ now[t][1] \in Int /\ now[t][2] \in Nat /\ now[t][3] \in Nat
         /\ Steady(now[t]) \in Nat /\ Steady(now[t]) - now[t][1] \in 0..lag
         /\ lastSent' = [lastSent EXCEPT ![KeyOf(t)] = now[t][1]]
         /\ \A x \in captured' : \/ x \in captured
                                 \/ /\ x[1] = KeyOf(t) /\ x[2] = now[t][2] /\ x[3] = now[t][3]
                                    /\ Steady(x) = Steady(now[t])
         /\ \E x \in captured' : x[1] = KeyOf(t) /\ Steady(x) = Steady(now[t])
         /\ captured \subseteq captured'
<1> DEFINE new == <<KeyOf(t), now[t][2], now[t][3], t, made[t], nested[t]>>
<1>1. KeyOf(t) \in AllKeys /\ now[t] \in Int \X Nat \X Nat
  BY KeyOfType DEF TypeOK
<1>2. Steady(now[t]) - now[t][1] \in 0..lag
  BY DEF Readings
<1>3. captured' = captured \cup {new} /\ lastSent' = [lastSent EXCEPT ![KeyOf(t)] = now[t][1]]
  BY DEF Admit
<1>4. new[1] = KeyOf(t) /\ new[2] = now[t][2] /\ new[3] = now[t][3]
  OBVIOUS
<1>5. Steady(new) = Steady(now[t]) /\ Steady(now[t]) \in Nat
  BY <1>1 DEF Steady
<1>. HIDE DEF new
<1>. QED
  BY <1>1, <1>2, <1>3, <1>4, <1>5

\* After a report a thread is not about to look.
LEMMA ReturnsElsewhere ==
  ASSUME TypeOK, NEW t \in Threads, Return(t), NEW u \in Threads, pc'[u] = "check"
  PROVE  u # t /\ pc[u] = "check"
BY DEF Return, Goto, AfterNotice, TypeOK

\* What is stored keeps up with the captures, and so does whoever is to look.
LEMMA BehindStep ==
  ASSUME TypeOK, OneTurn, Guarded, Readings, Stored, Behind, [Next]_vars
  PROVE  Behind'
<1>. USE DEF TypeOK, OneTurn, Guarded, Readings, Stored, Behind, clock, thread, history, Points,
            atomic
<1>1. CASE Tick
  BY <1>1 DEF Tick
<1>2. CASE SetBack
  BY <1>2 DEF SetBack, Steady
<1>3. ASSUME NEW t \in Threads, Step(t)
      PROVE  Behind'
  <2>1. CASE Report(t)
    BY <2>1 DEF Report, Call, Goto
  <2>2. CASE Notify(t)
    BY <2>2 DEF Notify, Call, Goto
  <2>3. CASE Dispatch(t)
    BY <2>3 DEF Dispatch, Deliver, Goto, AfterNotice
  <2>4. CASE DispatchThrows(t)
    BY <2>4 DEF DispatchThrows, Deliver, Goto, Clock, Reading, Steady
  <2>5. CASE DispatchEvent(t)
    BY <2>5 DEF DispatchEvent, Deliver, Goto, AfterNotice
  <2>6. CASE ListenerReports(t)
    BY <2>6 DEF ListenerReports, Goto
  <2>7. CASE EventDispatched(t)
    BY <2>7 DEF EventDispatched, Goto, AfterNotice
  <2>8. CASE ReadClock(t)
    BY <2>8 DEF ReadClock, Goto, Clock, Reading, Steady
  <2>9. CASE Drop(t)
    BY <2>9 DEF Drop, Return, Goto, AfterNotice
  <2>10. CASE Pass(t)
    <3>1. Admit(t) /\ Return(t) /\ pc[t] = "check"
      BY <2>10 DEF Pass, Admit
    <3>2. UNCHANGED <<runtime, lag, now>>
      BY <2>10 DEF Pass
    <3>3. ASSUME NEW x \in captured'
          PROVE  /\ x[1] \in AllKeys /\ Steady(x) \in Nat /\ lastSent'[x[1]] \in Int
                 /\ Steady(x) - lastSent'[x[1]] <= Steady(now[t]) - now[t][1]
      <4>1. CASE x \in captured /\ x[1] = KeyOf(t)
        BY <2>10, <3>1, <4>1, PassFar, AdmitEffect, WindowAssumption DEF Steady
      <4>2. CASE x \in captured /\ x[1] # KeyOf(t)
        <5>1. lastSent'[x[1]] = lastSent[x[1]]
          BY <3>1, <4>2, AdmitEffect
        <5>. QED
          BY <2>10, <3>1, <4>2, <5>1 DEF Pass, Steady
      <4>3. CASE x[1] = KeyOf(t) /\ Steady(x) = Steady(now[t])
        BY <3>1, <4>3, AdmitEffect
      <4>. QED
        BY <3>1, <4>1, <4>2, <4>3, AdmitEffect
    <3>4. now[t][1] \in Int /\ Steady(now[t]) \in Nat /\ Steady(now[t]) - now[t][1] \in 0..lag
      BY <3>1, AdmitEffect
    <3>5. ASSUME NEW x \in captured'
          PROVE  Steady(x) - lastSent'[x[1]] <= lag'
      BY <3>2, <3>3, <3>4
    <3>6. ASSUME NEW x \in captured', NEW u \in Threads, pc'[u] = "check"
          PROVE  Steady(x) - lastSent'[x[1]] <= Steady(now'[u]) - now'[u][1]
      <4>1. u # t /\ pc[u] = "check"
        BY <3>1, <3>6, ReturnsElsewhere
      <4>2. runtime = "lock" /\ lag = 0
        BY <2>10, <3>1, <4>1 DEF Pass
      <4>3. Steady(now[t]) - now[t][1] = 0 /\ Steady(now[u]) - now[u][1] = 0
        BY <3>1, <4>1, <4>2
      <4>. QED
        BY <3>2, <3>3, <4>3
    <3>. QED
      BY <3>5, <3>6
  <2>11. CASE Look(t)
    BY <2>11 DEF Look, Goto
  <2>12. CASE Store(t)
    BY <2>12 DEF Store, Admit, Return, Goto, AfterNotice
  <2>. QED
    BY <1>3, <2>1, <2>2, <2>3, <2>4, <2>5, <2>6, <2>7, <2>8, <2>9, <2>10, <2>11, <2>12 DEF Step
<1>4. CASE SetForward
  BY <1>4 DEF SetForward
<1>5. CASE UNCHANGED vars
  BY <1>5 DEF vars
<1>. QED
  BY <1>1, <1>2, <1>3, <1>4, <1>5 DEF Next

\* Whoever captures finds every earlier capture of the key a window away.
LEMMA WindowStep ==
  ASSUME TypeOK, Guarded, Readings, Stored, Behind, WindowHeld, [Next]_vars
  PROVE  WindowHeld'
<1>. USE DEF WindowHeld, Guarded, clock, thread, history, atomic
<1>1. CASE Tick
  BY <1>1 DEF Tick
<1>2. CASE SetBack
  BY <1>2 DEF SetBack
<1>3. ASSUME NEW t \in Threads, Step(t)
      PROVE  WindowHeld'
  <2>1. CASE Report(t)
    BY <2>1 DEF Report, Call, Goto
  <2>2. CASE Notify(t)
    BY <2>2 DEF Notify, Call, Goto
  <2>3. CASE Dispatch(t)
    BY <2>3 DEF Dispatch, Deliver, Goto, AfterNotice
  <2>4. CASE DispatchThrows(t)
    BY <2>4 DEF DispatchThrows, Deliver, Goto
  <2>5. CASE DispatchEvent(t)
    BY <2>5 DEF DispatchEvent, Deliver, Goto, AfterNotice
  <2>6. CASE ListenerReports(t)
    BY <2>6 DEF ListenerReports, Goto
  <2>7. CASE EventDispatched(t)
    BY <2>7 DEF EventDispatched, Goto, AfterNotice
  <2>8. CASE ReadClock(t)
    BY <2>8 DEF ReadClock, Goto
  <2>9. CASE Drop(t)
    BY <2>9 DEF Drop, Return, Goto, AfterNotice
  <2>10. CASE Pass(t)
    <3>1. Admit(t) /\ pc[t] = "check" /\ runtime' = runtime
      BY <2>10 DEF Pass
    <3> DEFINE new == <<KeyOf(t), now[t][2], now[t][3], t, made[t], nested[t]>>
    <3>2. captured' = captured \cup {new}
      BY <3>1 DEF Admit
    <3>3. Steady(new) = Steady(now[t]) /\ new[1] = KeyOf(t)
      BY DEF Steady
    <3>. HIDE DEF new
    <3>4. \A x \in captured : x[1] = new[1] => Steady(new) - Steady(x) >= Window
      BY <2>10, <3>3, PassFar
    <3>. QED
      BY <3>1, <3>2, <3>4
  <2>11. CASE Look(t)
    BY <2>11 DEF Look, Goto
  <2>12. CASE Store(t)
    BY <2>12 DEF Store, Admit, Return, Goto, AfterNotice
  <2>. QED
    BY <1>3, <2>1, <2>2, <2>3, <2>4, <2>5, <2>6, <2>7, <2>8, <2>9, <2>10, <2>11, <2>12 DEF Step
<1>4. CASE SetForward
  BY <1>4 DEF SetForward
<1>5. CASE UNCHANGED vars
  BY <1>5 DEF vars
<1>. QED
  BY <1>1, <1>2, <1>3, <1>4, <1>5 DEF Next

\* A capture witnesses its key, and takes no witness away.
LEMMA AdmitWitnessed ==
  ASSUME TypeOK, Readings, Ordered, Witnessed, DropIsCovered, NEW t \in Threads, Admit(t),
         pc[t] \in {"check", "store"}, UNCHANGED <<clock, now, dropped>>
  PROVE  Ordered' /\ Witnessed' /\ DropIsCovered'
<1>1. ASSUME lag = 0, NEW k \in AllKeys, lastSent'[k] # Never
      PROVE  \E x \in captured' : x[1] = k /\ Steady(x) = lastSent'[k]
  <2>1. CASE k = KeyOf(t)
    <3>1. /\ now[t][1] \in Int /\ Steady(now[t]) \in Nat
          /\ Steady(now[t]) - now[t][1] \in 0..lag
      BY AdmitEffect
    <3>2. lastSent'[k] = now[t][1]
      BY <1>1, <2>1, AdmitEffect DEF TypeOK
    <3>3. Steady(now[t]) = now[t][1]
      BY <1>1, <3>1
    <3>. QED
      BY <2>1, <3>2, <3>3, AdmitEffect
  <2>2. CASE k # KeyOf(t)
    <3>1. lastSent'[k] = lastSent[k] /\ captured \subseteq captured'
      BY <1>1, <2>2, AdmitEffect DEF TypeOK
    <3>. QED
      BY <1>1, <3>1 DEF Witnessed
  <2>. QED
    BY <2>1, <2>2
<1>2. Witnessed'
  BY <1>1 DEF Witnessed, Never, clock
<1>3. DropIsCovered'
  BY AdmitEffect DEF DropIsCovered, clock
<1>4. Ordered'
  <2>1. ASSUME NEW u \in Threads, NEW x \in captured'
        PROVE  /\ x[2] \in Nat /\ x[3] \in Nat /\ x[3] <= ahead
               /\ x[3] > now[u][3] => x[2] >= now[u][2]
    <3>1. CASE x \in captured
      BY <3>1 DEF Ordered
    <3>2. CASE x[2] = now[t][2] /\ x[3] = now[t][3]
      BY <3>2, AdmitEffect DEF Ordered
    <3>. QED
      BY <3>1, <3>2, AdmitEffect
  <2>. QED
    BY <2>1 DEF Ordered, clock
<1>. QED
  BY <1>2, <1>3, <1>4

\* Who reads the clock reads no less than anybody before.
LEMMA OrderedReading ==
  ASSUME TypeOK, Ordered, NEW t \in Threads, now' = [now EXCEPT ![t] = Reading],
         UNCHANGED <<clock, captured>>
  PROVE  Ordered'
<1>1. time \in Nat /\ ahead \in Nat /\ now'[t][2] = time /\ now'[t][3] = ahead
  BY DEF TypeOK, Reading
<1>2. \A u \in Threads : u # t => now'[u] = now[u]
  BY DEF TypeOK
<1>3. \A u \in Threads : now[u][2] \in Nat /\ now[u][3] \in Nat
  BY DEF TypeOK
<1>. QED
  BY <1>1, <1>2, <1>3 DEF Ordered, clock

\* With a clock never set back, what is stored is the reading of a capture, and
\* what is dropped is within a window of it.
LEMMA DropStep ==
  ASSUME TypeOK, Readings, Ordered, Witnessed, DropIsCovered, [Next]_vars
  PROVE  Ordered' /\ Witnessed' /\ DropIsCovered'
<1>. USE DEF Ordered, Witnessed, DropIsCovered, Never, clock, thread, history
<1>1. CASE Tick
  BY <1>1 DEF Tick, TypeOK
<1>2. CASE SetBack
  BY <1>2, ClockType DEF SetBack
<1>3. ASSUME NEW t \in Threads, Step(t)
      PROVE  Ordered' /\ Witnessed' /\ DropIsCovered'
  <2>1. CASE Report(t)
    BY <2>1 DEF Report, Call, Goto
  <2>2. CASE Notify(t)
    BY <2>2 DEF Notify, Call, Goto
  <2>3. CASE Dispatch(t)
    BY <2>3 DEF Dispatch, Deliver, Goto, AfterNotice
  <2>4. CASE DispatchThrows(t)
    BY <2>4, OrderedReading DEF DispatchThrows, Deliver
  <2>5. CASE DispatchEvent(t)
    BY <2>5 DEF DispatchEvent, Deliver, Goto, AfterNotice
  <2>6. CASE ListenerReports(t)
    BY <2>6 DEF ListenerReports, Goto
  <2>7. CASE EventDispatched(t)
    BY <2>7 DEF EventDispatched, Goto, AfterNotice
  <2>8. CASE ReadClock(t)
    BY <2>8, OrderedReading DEF ReadClock
  <2>9. CASE Drop(t)
    <3>1. Ordered' /\ Witnessed'
      BY <2>9 DEF Drop
    <3>2. ASSUME lag = 0
          PROVE  \E x \in captured : x[1] = KeyOf(t) /\ x[2] > now[t][2] - Window
      <4>1. InWindow(KeyOf(t), now[t][1]) /\ pc[t] = "check" /\ KeyOf(t) \in AllKeys
        BY <2>9, KeyOfType DEF Drop
      <4>2. PICK x \in captured : x[1] = KeyOf(t) /\ Steady(x) = lastSent[KeyOf(t)]
        BY <3>2, <4>1 DEF InWindow
      <4>3. /\ now[t][1] \in Int /\ now[t][2] \in Nat /\ now[t][3] \in Nat
            /\ x[2] \in Nat /\ x[3] \in Nat
            /\ now[t][1] = now[t][2] + now[t][3]
        <5>1. now[t] \in Int \X Nat \X Nat
          BY DEF TypeOK
        <5>2. Steady(now[t]) - now[t][1] \in 0..lag
          BY <4>1 DEF Readings
        <5>. QED
          BY <3>2, <5>1, <5>2 DEF Steady
      <4>4. (now[t][2] + now[t][3]) - (x[2] + x[3]) < Window
        BY <4>1, <4>2, <4>3 DEF InWindow, Steady
      <4>5. x[3] > now[t][3] => x[2] >= now[t][2]
        OBVIOUS
      <4>6. x[2] > now[t][2] - Window
        BY <4>3, <4>4, <4>5, WindowAssumption
      <4>. QED
        BY <4>2, <4>6
    <3>3. DropIsCovered'
      BY <2>9, <3>2 DEF Drop
    <3>. QED
      BY <3>1, <3>3
  <2>10. CASE Pass(t)
    BY <2>10, AdmitWitnessed DEF Pass
  <2>11. CASE Look(t)
    BY <2>11 DEF Look, Goto
  <2>12. CASE Store(t)
    BY <2>12, AdmitWitnessed DEF Store
  <2>. QED
    BY <1>3, <2>1, <2>2, <2>3, <2>4, <2>5, <2>6, <2>7, <2>8, <2>9, <2>10, <2>11, <2>12 DEF Step
<1>4. CASE SetForward
  BY <1>4 DEF SetForward, TypeOK
<1>5. CASE UNCHANGED vars
  BY <1>5 DEF vars
<1>. QED
  BY <1>1, <1>2, <1>3, <1>4, <1>5 DEF Next

\* Readings are sound, and captures of one key a window apart.
THEOREM WindowInvariant == Spec => []WindowInv
<1>1. Init => WindowInv
  BY DEF Init, WindowInv, Readings, Stored, Behind, WindowHeld
<1>2. TypeOK /\ UserLaneInv /\ WindowInv /\ [Next]_vars => WindowInv'
  BY ReadingsStep, StoredStep, BehindStep, WindowStep DEF UserLaneInv, WindowInv
<1>. QED
  BY <1>1, <1>2, TypeInvariant, UserLaneInvariant, PTL DEF Spec

\* Under a lock, or in one thread, captures of a key are a window apart, less
\* what the clock was put forward between them, however often it is set back.
THEOREM WindowSafe == Spec => []WindowHeld
<1>1. WindowInv => WindowHeld
  BY DEF WindowInv
<1>. QED
  BY <1>1, WindowInvariant, PTL

\* Stored times are times of captures while the clock is right.
THEOREM DropInvariant == Spec => []DropInv
<1>1. Init => DropInv
  BY DEF Init, DropInv, Ordered, Witnessed, DropIsCovered
<1>2. TypeOK /\ WindowInv /\ DropInv /\ [Next]_vars => DropInv'
  BY DropStep DEF WindowInv, DropInv
<1>. QED
  BY <1>1, <1>2, TypeInvariant, WindowInvariant, PTL DEF Spec

\* D005: a report that is dropped has a capture of its key less than a window of
\* real time away, in every runtime, the racing ones included, also when the
\* clock is put forward.
THEOREM DropSafe == Spec => []DropIsCovered
<1>1. DropInv => DropIsCovered
  BY DEF DropInv
<1>. QED
  BY <1>1, DropInvariant, PTL
=============================================================================
