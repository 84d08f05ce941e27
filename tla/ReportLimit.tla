----------------------------- MODULE ReportLimit ----------------------------
(***************************************************************************)
(* The runtime report helpers under concurrency: go/report/report.go,      *)
(* py/tackbox_report, java/report and js/report.js.  A report is logged,   *)
(* handed to the user lane, and captured unless a report with the same     *)
(* key was captured within the rate window.  Python decides under a lock   *)
(* ("lock"); Go and Java look the key up and store it in two steps that    *)
(* other threads come between ("race"); JavaScript has one thread, and     *)
(* what runs in it runs to its end ("turn"), but the listener it hands a   *)
(* notice to may report again, on the same stack.                          *)
(*                                                                         *)
(* Abstractions.  Time is a small number; a wall clock is the real time,   *)
(* plus what the system has put it forward, less what it has set it back,  *)
(* so one that is set back and corrected has moved both ways.  init has    *)
(* been called with a DSN and a notifier is registered; outside JavaScript *)
(* it does not report itself.                                              *)
(* A panic is a report that owes a notice, under a key of its own.         *)
(* Messages and tags are left out.  A capture stands where the key is      *)
(* stored: what follows it to Sentry decides nothing.                      *)
(***************************************************************************)
EXTENDS Naturals, Integers, FiniteSets

CONSTANTS Threads,
          Keys,         \* dedup keys of the application
          NotifierKey,  \* "report.notifier"
          Window,       \* the rate window, in ticks
          Runtimes,     \* among "lock", "race" and "turn"
          Reports,      \* bound: reports each thread makes, and from listeners
          End,          \* bound: the last tick
          MaxLag,       \* bound: how far the clock may be set back, in all
          MaxAhead      \* bound: how far it may be put forward, in all

ASSUME WindowAssumption == Window \in Nat \ {0} /\ NotifierKey \notin Keys
ASSUME RuntimesAssumption == Runtimes \subseteq {"lock", "race", "turn"}
ASSUME BoundsAssumption == /\ Reports \in Nat /\ End \in Nat
                           /\ MaxLag \in Nat /\ MaxAhead \in Nat

VARIABLES runtime,
          time,     \* the real time
          lag,      \* how far the clock that shouldDrop reads was set back,
                    \* all times together
          ahead,    \* how far it was put forward, all times together
          pc,       \* where each thread is in its report
          key,      \* the key of the report
          nested,   \* the key of a report made while it is in the user lane,
                    \* or NoKey
          from,     \* the verb of the report in the user lane
          dispatching, \* JavaScript: a dispatch is on the stack
          now,      \* shouldDrop's reading, the real time of it, and `ahead`
          lastSent, \* lastSent[k]: absent (Never) or the last stored reading
          made,     \* reports the thread made so far
          loud,     \* history: reports from outside a listener that owe a notice
          notices,  \* history: notices delivered
          captured, \* history: <<key, real time, ahead, thread, report, nested>>
                    \* captured
          dropped   \* history: <<key, real time>> dropped

clock == <<time, lag, ahead>>
thread == <<pc, key, nested, from, dispatching, now>>
history == <<loud, notices, captured, dropped>>
vars == <<runtime, clock, thread, lastSent, made, history>>

-----------------------------------------------------------------------------
AllKeys == Keys \cup {NotifierKey}
NoKey == "none"
ASSUME NoKeyAssumption == NoKey \notin AllKeys
atomic == runtime # "race"
Never == -(Window + MaxLag + 1)
Clock == time + ahead - lag
Reading == <<Clock, time, ahead>>

\* What a clock that is put forward alike and never set back showed at a
\* reading.
Steady(x) == x[2] + x[3]

\* Mutant: a reading before the stored one counts as a fresh window.
ForwardOnly(k, reading) ==
  /\ lastSent[k] # Never
  /\ reading >= lastSent[k] /\ reading - lastSent[k] < Window

InWindow(k, reading) ==
  lastSent[k] # Never /\ reading - lastSent[k] < Window

Init ==
  /\ runtime \in Runtimes
  /\ time = 0 /\ lag = 0 /\ ahead = 0
  /\ pc = [t \in Threads |-> "idle"]
  /\ key = [t \in Threads |-> NotifierKey]
  /\ nested = [t \in Threads |-> NoKey]
  /\ from = [t \in Threads |-> "notify"] /\ dispatching = FALSE
  /\ now = [t \in Threads |-> <<0, 0, 0>>]
  /\ lastSent = [k \in AllKeys |-> Never]
  /\ made = [t \in Threads |-> 0]
  /\ loud = [t \in Threads |-> 0]
  /\ notices = [t \in Threads |-> 0]
  /\ captured = {} /\ dropped = {}

Tick == /\ time < End
        /\ time' = time + 1
        /\ UNCHANGED <<runtime, lag, ahead, thread, lastSent, made, history>>

\* The wall clock is set back (Date.now, currentTimeMillis); Python reads
\* time.monotonic, and so does Go, which races as Java does.
SetBack == /\ lag < MaxLag
           /\ runtime # "lock"
           /\ lag' = lag + 1
           /\ UNCHANGED <<runtime, time, ahead, thread, lastSent, made, history>>

\* It is put forward, be it to correct a setback.
SetForward == /\ ahead < MaxAhead
              /\ runtime # "lock"
              /\ ahead' = ahead + 1
              /\ UNCHANGED <<runtime, time, lag, thread, lastSent, made, history>>

Goto(t, p) == pc' = [pc EXCEPT ![t] = p]

\* The verb starts outside any listener.
Call(t) ==
  /\ pc[t] = "idle" /\ made[t] < Reports
  /\ runtime = "turn" => \A u \in Threads : pc[u] = "idle"
  /\ made' = [made EXCEPT ![t] = @ + 1]
  /\ UNCHANGED <<runtime, clock, nested, dispatching, now, lastSent, notices,
                 captured, dropped>>

\* Mutant: the user lane moved behind the rate gate.
GatedNotice(t) ==
  /\ Call(t)
  /\ \E k \in Keys :
        /\ key' = [key EXCEPT ![t] = k]
        /\ Goto(t, IF InWindow(k, Clock) THEN "idle" ELSE "notice")
  /\ from' = [from EXCEPT ![t] = "report"]
  /\ loud' = [loud EXCEPT ![t] = @ + 1]

\* error, warn and panic owe a notice, quiet does not.
Report(t) ==
  /\ Call(t)
  /\ \E k \in Keys : key' = [key EXCEPT ![t] = k]
  /\ from' = [from EXCEPT ![t] = "report"]
  /\ \/ Goto(t, "notice") /\ loud' = [loud EXCEPT ![t] = @ + 1]
     \/ Goto(t, "gate") /\ UNCHANGED loud

\* notify feeds the user lane only.
Notify(t) ==
  /\ Call(t)
  /\ from' = [from EXCEPT ![t] = "notify"]
  /\ loud' = [loud EXCEPT ![t] = @ + 1]
  /\ Goto(t, "notice")
  /\ UNCHANGED key

AfterNotice(t) == IF from[t] = "report" THEN "gate" ELSE "idle"
Deliver(t) == notices' = [notices EXCEPT ![t] = @ + 1]

\* dispatchNotice, before any gate.  A notifier that throws is reported by a
\* nested quiet, which sends no notice of its own.
Dispatch(t) ==
  /\ runtime # "turn" /\ pc[t] = "notice"
  /\ Deliver(t)
  /\ Goto(t, AfterNotice(t))
  /\ UNCHANGED <<runtime, clock, key, nested, from, dispatching, now, lastSent,
                 made, loud, captured, dropped>>

DispatchThrows(t) ==
  /\ runtime # "turn" /\ pc[t] = "notice"
  /\ Deliver(t)
  /\ nested' = [nested EXCEPT ![t] = NotifierKey]
  /\ now' = [now EXCEPT ![t] = Reading]
  /\ Goto(t, "check")
  /\ UNCHANGED <<runtime, clock, key, from, dispatching, lastSent, made, loud,
                 captured, dropped>>

\* dispatchEventSafely: a dispatch within a dispatch is skipped.
DispatchEvent(t) ==
  /\ runtime = "turn" /\ pc[t] = "notice"
  /\ IF dispatching
     THEN /\ Goto(t, IF nested[t] # NoKey THEN "gate" ELSE AfterNotice(t))
          /\ UNCHANGED <<dispatching, notices>>
     ELSE /\ dispatching' = TRUE
          /\ Deliver(t)
          /\ Goto(t, "listening")
  /\ UNCHANGED <<runtime, clock, key, nested, from, now, lastSent, made, loud,
                 captured, dropped>>

\* A listener, or window.onerror after a listener threw, reports, loud or
\* quiet; a notify would be nothing but the skipped dispatch.
ListenerReports(t) ==
  /\ pc[t] = "listening" /\ made[t] < 2 * Reports
  /\ made' = [made EXCEPT ![t] = @ + 1]
  /\ \E k \in Keys : nested' = [nested EXCEPT ![t] = k]
  /\ Goto(t, "notice") \/ Goto(t, "gate")
  /\ UNCHANGED <<runtime, clock, key, from, dispatching, now, lastSent, loud,
                 notices, captured, dropped>>

\* Mutant: the guard is not taken down.
GuardStays(t) ==
  /\ pc[t] = "listening"
  /\ Goto(t, AfterNotice(t))
  /\ UNCHANGED <<runtime, clock, key, nested, from, dispatching, now, lastSent,
                 made, loud, notices, captured, dropped>>

EventDispatched(t) ==
  /\ pc[t] = "listening"
  /\ dispatching' = FALSE
  /\ Goto(t, AfterNotice(t))
  /\ UNCHANGED <<runtime, clock, key, nested, from, now, lastSent, made, loud,
                 notices, captured, dropped>>

KeyOf(t) == IF nested[t] # NoKey THEN nested[t] ELSE key[t]

\* After a nested report the thread goes on with the one that caused it.
Return(t) ==
  /\ Goto(t, IF nested[t] = NoKey THEN "idle"
             ELSE IF runtime = "turn" THEN "listening" ELSE AfterNotice(t))
  /\ nested' = [nested EXCEPT ![t] = NoKey]

\* shouldDrop reads the clock.
ReadClock(t) ==
  /\ pc[t] = "gate"
  /\ now' = [now EXCEPT ![t] = Reading]
  /\ Goto(t, "check")
  /\ UNCHANGED <<runtime, clock, key, nested, from, dispatching, lastSent, made, history>>

Admit(t) ==
  /\ lastSent' = [lastSent EXCEPT ![KeyOf(t)] = now[t][1]]
  /\ captured' = captured \cup {<<KeyOf(t), now[t][2], now[t][3], t, made[t], nested[t]>>}
  /\ Return(t)

\* Mutant: a drop starts the window again.
SlidingDrop(t) ==
  /\ pc[t] = "check"
  /\ InWindow(KeyOf(t), now[t][1])
  /\ dropped' = dropped \cup {<<KeyOf(t), now[t][2]>>}
  /\ lastSent' = [lastSent EXCEPT ![KeyOf(t)] = now[t][1]]
  /\ Return(t)
  /\ UNCHANGED <<runtime, clock, key, from, dispatching, now, made, loud, notices, captured>>

Drop(t) ==
  /\ pc[t] = "check"
  /\ InWindow(KeyOf(t), now[t][1])
  /\ dropped' = dropped \cup {<<KeyOf(t), now[t][2]>>}
  /\ Return(t)
  /\ UNCHANGED <<runtime, clock, key, from, dispatching, now, lastSent, made, loud, notices, captured>>

\* Python's lock, JavaScript's turn: looked up and stored at once.
Pass(t) ==
  /\ atomic
  /\ pc[t] = "check"
  /\ ~InWindow(KeyOf(t), now[t][1])
  /\ Admit(t)
  /\ UNCHANGED <<runtime, clock, key, from, dispatching, now, made, loud, notices, dropped>>

\* Go and Java: Load found nothing in the window, Store comes later.
Look(t) ==
  /\ ~atomic
  /\ pc[t] = "check"
  /\ ~InWindow(KeyOf(t), now[t][1])
  /\ Goto(t, "store")
  /\ UNCHANGED <<runtime, clock, key, nested, from, dispatching, now, lastSent, made, history>>

Store(t) ==
  /\ pc[t] = "store"
  /\ Admit(t)
  /\ UNCHANGED <<runtime, clock, key, from, dispatching, now, made, loud, notices, dropped>>

Step(t) == \/ Report(t) \/ Notify(t) \/ Dispatch(t) \/ DispatchThrows(t)
           \/ DispatchEvent(t) \/ ListenerReports(t) \/ EventDispatched(t)
           \/ ReadClock(t) \/ Drop(t) \/ Pass(t) \/ Look(t) \/ Store(t)

Next == Tick \/ SetBack \/ SetForward \/ \E t \in Threads : Step(t)

Spec == Init /\ [][Next]_vars

-----------------------------------------------------------------------------
(* Correctness.                                                            *)

\* D005, "The user lane is never suppressed by the helper", and js/README.md,
\* "Sequential dispatches are unaffected": a thread that is between reports has
\* delivered one notice for every loud report it made outside a listener,
\* whatever was dropped, whichever notifier threw and whatever a listener
\* reported in between; and none for those, which would never end.
UserLaneComplete == \A t \in Threads : pc[t] = "idle" => notices[t] = loud[t]

\* Where the lookup and the store cannot be separated (a lock, or a single
\* thread), two captures of one key are a window apart, less what the clock was
\* put forward between them: a wall clock that jumps, or that is corrected after
\* a setback, opens the window that much early (js/report.js:59-66), and nothing
\* else does, no setback in particular.  Python's clock does neither
\* (time.monotonic), and could not: were the clock that its threads read before
\* they lock set back, one could store an old reading under the other's later
\* one.
WindowHeld ==
  atomic => \A x, y \in captured :
     x # y /\ x[1] = y[1] => \/ Steady(y) - Steady(x) >= Window
                            \/ Steady(x) - Steady(y) >= Window

\* D005: what is dropped "is already recorded from the first capture in the
\* window": a drop has a capture of its key less than a window of real time
\* before it (or after it, when the drop read the clock first), however often the
\* clock was put forward, unless it was set back: then reports are dropped until
\* it has caught up.
DropIsCovered ==
  lag = 0 => \A d \in dropped : \E x \in captured : x[1] = d[1] /\ x[2] > d[2] - Window
=============================================================================
