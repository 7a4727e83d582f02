------------------------------ MODULE SysTimer ------------------------------
(***************************************************************************)
(* The software timers of src/core/dynawa/timer.c and timer_isr.c: one     *)
(* singly linked list of running timers, multiplexed on the alarm of the   *)
(* free-running 1 kHz real-time timer (RTT).  Tasks call Timer_start and   *)
(* Timer_stop; the alarm interrupt runs Timer_isrHandler, which walks the  *)
(* list, calls the handlers of the expired timers and sets the next alarm. *)
(*                                                                         *)
(* The list is modelled at the level of its pointers, because Timer_start  *)
(* writes timer->next before it enters its critical section.  The critical *)
(* sections are atomic steps (interrupts are masked), the handler is a     *)
(* sequence of steps so that the RTT can tick while it runs, and so that a *)
(* timer's callback can start and stop timers in the middle of the walk.   *)
(***************************************************************************)
EXTENDS Integers, FiniteSets

CONSTANTS
  Timers,        \* the Timer structures
  Nil,           \* the NULL pointer
  Delays,        \* the delays, in ticks, that tasks ask for
  MaxTime,       \* bound on the RTT counter
  Lag,           \* the RTT raises its alarm Lag ticks after RTTC_RTAR
  MaxDrift,      \* ticks that may pass inside one interrupt or critical section
  Repeating,     \* timers started with repeat = true
  Restartable,   \* timers whose owner may start them while they are running
  HandlerStarts, \* pairs <<t, u>>: the callback of t may call Timer_start(u)
  HandlerStops   \* pairs <<t, u>>: the callback of t may call Timer_stop(u)

ASSUME TimersAssumption == IsFiniteSet(Timers) /\ Nil \notin Timers
ASSUME DelaysAssumption == Delays \subseteq Nat
ASSUME ClockAssumption  == MaxTime \in Nat
\* The margin the code leaves between a check of RTTC_RTVR and the write of
\* RTTC_RTAR is one tick more than the hardware's own lag.
ASSUME DriftAssumption  == Lag \in Nat /\ MaxDrift \in Nat /\ MaxDrift <= Lag
ASSUME ClientAssumption == /\ Repeating \subseteq Timers
                           /\ Restartable \subseteq Timers
                           /\ HandlerStarts \subseteq Timers \X Timers
                           /\ HandlerStops \subseteq Timers \X Timers

VARIABLES
  now,         \* RTTC_RTVR, the counter
  rtar,        \* RTTC_RTAR, the alarm register
  almien,      \* the ALMIEN bit of RTTC_RTMR
  alms,        \* the alarm status bit: an interrupt when almien is set
  running,     \* timer_manager.running
  servicing,   \* timer_manager.servicing
  first,       \* timer_manager.first
  next,        \* timer->next
  target,      \* timer->target
  initial,     \* timer->timeInitial
  call,        \* the call that the task which owns the timer is in
  saved,       \* Timer_start's local nextEntry
  cur,         \* Timer_isrHandler's local timer
  mnext,       \* timer_manager.next
  mprev,       \* timer_manager.previous
  nextTime,    \* timer_manager.nextTime
  nextTimeSet, \* timer_manager.nextTimeSet
  phase,       \* where in its loop the handler is
  stopArg,     \* the timer that the callback has called Timer_stop for
  drift,       \* ticks so far in this interrupt
  armed,       \* history: started, and neither expired nor stopped since
  clippedAt,   \* history: when Timer_start last met a target already reached
  cut          \* history: the start of a running timer was interrupted

rttVars  == <<now, rtar, almien, alms>>
listVars == <<first, next>>
isrVars  == <<cur, mnext, mprev, nextTime, nextTimeSet, phase, stopArg>>
callVars == <<call, saved>>
vars == <<rttVars, running, servicing, listVars, target, initial, callVars,
          isrVars, drift, armed, clippedAt, cut>>

Link == Timers \cup {Nil}

NoMinDelay == 0 \* faulty variant of the next definition
MIN_DELAY_TICKS == 2

\* The timers met when walking n from x; Cardinality(Timers) steps visit them all.
ListFrom(n, x) ==
  LET walk[i \in 0 .. Cardinality(Timers)] ==
        IF i = 0 THEN x
        ELSE IF walk[i-1] = Nil THEN Nil ELSE n[walk[i-1]]
  IN  { walk[i] : i \in 0 .. Cardinality(Timers) } \ {Nil}

Init ==
  /\ now = 0 /\ rtar = 0 /\ almien = FALSE /\ alms = FALSE
  /\ running = FALSE /\ servicing = FALSE
  /\ first = Nil /\ next = [t \in Timers |-> Nil]
  /\ target = [t \in Timers |-> 0] /\ initial = [t \in Timers |-> 0]
  /\ call = [t \in Timers |-> "idle"] /\ saved = [t \in Timers |-> Nil]
  /\ cur = Nil /\ mnext = Nil /\ mprev = Nil
  /\ nextTime = 0 /\ nextTimeSet = FALSE /\ phase = "visit" /\ drift = 0
  /\ stopArg = Nil /\ armed = [t \in Timers |-> FALSE] /\ clippedAt = 0 /\ cut = FALSE

-----------------------------------------------------------------------------
(* The hardware: the counter ticks and raises the alarm.  An asserted       *)
(* interrupt preempts the tasks and is served before the next tick; the     *)
(* handler, like a critical section, takes at most MaxDrift ticks.          *)

IrqPending == alms /\ almien

AlarmWithin(d) == rtar + Lag \in now + 1 .. now + d

Tick ==
  /\ now < MaxTime
  /\ IF servicing THEN drift < MaxDrift ELSE ~IrqPending
  /\ now' = now + 1
  /\ alms' = (alms \/ AlarmWithin(1))
  /\ drift' = IF servicing THEN drift + 1 ELSE 0
  /\ UNCHANGED <<rtar, almien, running, servicing, listVars, target, initial,
                 callVars, isrVars, armed, clippedAt, cut>>

\* d ticks pass before a register written in the same step takes its value
PassTicks(d) ==
  /\ now + d <= MaxTime
  /\ now' = now + d
  /\ alms' = (alms \/ AlarmWithin(d))

\* The alarm value for a timer: never one that the counter has already reached.
AlarmFor(time) == IF time <= now THEN now + MIN_DELAY_TICKS ELSE time

-----------------------------------------------------------------------------
(* Timer_start called by a task: everything before the critical section.    *)
(* Between the two a running timer has no successor on the list: what was   *)
(* behind it is reached only through nextEntry, until it is linked again.   *)

Restarting(t) == call[t] = "start" /\ armed[t]

Timer_startBegin(t, d) ==
  /\ call[t] = "idle" /\ ~servicing /\ ~IrqPending
  /\ armed[t] => t \in Restartable
  /\ initial' = [initial EXCEPT ![t] = d]
  /\ target' = [target EXCEPT ![t] = now + d]
  /\ saved' = [saved EXCEPT ![t] = next[t]]
  /\ next' = [next EXCEPT ![t] = Nil]
  /\ call' = [call EXCEPT ![t] = "start"]
  /\ cut' = (cut \/ (armed[t] /\ \E u \in Timers : Restarting(u)))
  /\ UNCHANGED <<rttVars, running, servicing, first, isrVars, drift, armed, clippedAt>>

\* ... and the critical section: enable the alarm, put the timer at the head of
\* the list, unlink it from its former place, and bring the alarm forward.

Relinked(t) ==
  LET pushed == [next EXCEPT ![t] = first]
      before == {p \in Timers \cap ListFrom(pushed, t) : pushed[p] = t}
  IN  [p \in Timers |-> IF p \in before THEN saved[t] ELSE pushed[p]]

\* faulty: the alarm is not brought forward
AlarmUnchanged(t) == IF running THEN rtar ELSE AlarmFor(target[t])

AlarmAfterStart(t) ==
  LET alarm == IF running THEN rtar ELSE AlarmFor(target[t])
  IN  IF target[t] < alarm THEN AlarmFor(target[t])
      ELSE IF alarm < now THEN now + MIN_DELAY_TICKS
      ELSE alarm

Timer_startLink(t) ==
  /\ call[t] = "start" /\ ~servicing /\ ~IrqPending
  /\ \E d \in 0 .. MaxDrift : PassTicks(d)
  /\ rtar' = AlarmAfterStart(t)
  /\ almien' = (almien \/ ~running)
  /\ running' = TRUE
  /\ first' = t
  /\ next' = Relinked(t)
  /\ call' = [call EXCEPT ![t] = "idle"]
  /\ armed' = [armed EXCEPT ![t] = TRUE]
  /\ clippedAt' = IF target[t] <= now THEN now' ELSE clippedAt
  /\ UNCHANGED <<servicing, target, initial, saved, isrVars, drift, cut>>

\* Timer_stop: the interrupt may come between the call and its critical section, which
\* unlinks the timer and leaves the alarm as it is.
Timer_stopCall(t) ==
  /\ call[t] = "idle" /\ ~servicing /\ ~IrqPending
  /\ call' = [call EXCEPT ![t] = "stop"]
  /\ UNCHANGED <<rttVars, running, servicing, listVars, target, initial, saved, isrVars,
                 drift, armed, clippedAt, cut>>

Predecessor(t) == {p \in Timers \cap ListFrom(next, first) : next[p] = t}

Unlink(t) ==
  IF t \in ListFrom(next, first)
  THEN /\ first' = IF first = t THEN next[t] ELSE first
       /\ next' = [p \in Timers |->
                     IF first # t /\ p \in Predecessor(t) THEN next[t] ELSE next[p]]
  ELSE UNCHANGED listVars

Timer_stop(t) ==
  /\ call[t] = "stop" /\ ~servicing /\ ~IrqPending
  /\ Unlink(t)
  /\ call' = [call EXCEPT ![t] = "idle"]
  /\ armed' = [armed EXCEPT ![t] = FALSE]
  /\ cut' = (cut \/ (armed[t] /\ t \notin ListFrom(next, first)))
  /\ UNCHANGED <<rttVars, running, servicing, target, initial, saved, isrVars,
                 drift, clippedAt>>

-----------------------------------------------------------------------------
(* Timer_isrHandler, from the alarm interrupt to the next alarm.            *)

IsrEnter ==
  /\ IrqPending /\ ~servicing
  /\ servicing' = TRUE
  /\ alms' = FALSE
  /\ cur' = first /\ mnext' = Nil /\ mprev' = Nil /\ nextTimeSet' = FALSE
  /\ phase' = "visit" /\ drift' = 0
  /\ cut' = (cut \/ \E t \in Timers : Restarting(t) /\ saved[t] # Nil)
  /\ UNCHANGED <<now, rtar, almien, running, listVars, target, initial, callVars,
                 nextTime, stopArg, armed, clippedAt>>

\* The timer stays on the list: its target takes part in the next alarm.
\* faulty: the last timer decides, not the earliest
KeepLast(t) == mprev' = t /\ nextTime' = target[t] /\ nextTimeSet' = TRUE

KeepTimer(t) ==
  /\ mprev' = t
  /\ IF ~nextTimeSet \/ target[t] < nextTime
     THEN nextTime' = target[t] /\ nextTimeSet' = TRUE
     ELSE UNCHANGED <<nextTime, nextTimeSet>>

IsrVisitPending ==
  /\ servicing /\ phase = "visit" /\ cur # Nil /\ target[cur] > now
  /\ mnext' = next[cur]
  /\ cur' = next[cur]
  /\ KeepTimer(cur)
  /\ UNCHANGED <<rttVars, running, servicing, listVars, target, initial, callVars,
                 phase, stopArg, drift, armed, clippedAt, cut>>

NextTarget(t) == target[t] + now + initial[t]

IsrVisitRepeating ==
  /\ servicing /\ phase = "visit" /\ cur # Nil /\ target[cur] <= now
  /\ cur \in Repeating
  /\ mnext' = next[cur]
  /\ target' = [target EXCEPT ![cur] = NextTarget(cur)]
  /\ phase' = "callback"
  /\ UNCHANGED <<rttVars, running, servicing, listVars, initial, callVars, cur, mprev,
                 nextTime, nextTimeSet, stopArg, drift, armed, clippedAt, cut>>

IsrVisitOneShot ==
  /\ servicing /\ phase = "visit" /\ cur # Nil /\ target[cur] <= now
  /\ cur \notin Repeating
  /\ mnext' = next[cur]
  /\ IF mprev = Nil THEN first' = next[cur] /\ UNCHANGED next
                    ELSE next' = [next EXCEPT ![mprev] = next[cur]] /\ UNCHANGED first
  /\ armed' = [armed EXCEPT ![cur] = FALSE]
  /\ phase' = "callback"
  /\ UNCHANGED <<rttVars, running, servicing, target, initial, callVars, cur, mprev,
                 nextTime, nextTimeSet, stopArg, drift, clippedAt, cut>>

\* The callback only posts to a queue, as every handler of the firmware does.
IsrCallback ==
  /\ servicing /\ phase = "callback" /\ stopArg = Nil
  /\ phase' = "after"
  /\ UNCHANGED <<rttVars, running, servicing, listVars, target, initial, callVars, cur,
                 mnext, mprev, nextTime, nextTimeSet, stopArg, drift, armed, clippedAt, cut>>

\* The callback calls Timer_start(u): no critical section, no unlinking.  A new
\* head becomes the walk's previous timer when the walk was still at the head.
PreviousKept(u) == mprev \* faulty variant of the next definition
PreviousAfterStart(u) == IF mprev = Nil THEN u ELSE mprev

IsrCallbackStart(u, d) ==
  /\ servicing /\ phase = "callback" /\ stopArg = Nil /\ <<cur, u>> \in HandlerStarts
  /\ call[u] = "idle" /\ ~armed[u]
  /\ initial' = [initial EXCEPT ![u] = d]
  /\ target' = [target EXCEPT ![u] = now + d]
  /\ first' = u
  /\ next' = [next EXCEPT ![u] = first]
  /\ mprev' = PreviousAfterStart(u)
  /\ nextTime' = IF ~nextTimeSet \/ nextTime > now + d THEN now + d ELSE nextTime
  /\ armed' = [armed EXCEPT ![u] = TRUE]
  /\ phase' = "after"
  /\ UNCHANGED <<rttVars, running, servicing, callVars, cur, mnext, nextTimeSet, stopArg,
                 drift, clippedAt, cut>>

\* The callback calls Timer_stop(u), which also repairs the walk's own pointers.
PreviousAfterStop(u) ==
  IF mprev # u THEN mprev
  ELSE IF Predecessor(u) = {} THEN Nil
  ELSE CHOOSE p \in Predecessor(u) : TRUE

NextKept(u) == mnext \* faulty variant of the next definition
NextAfterStop(u) == IF mnext = u THEN next[u] ELSE mnext

IsrStopCall(u) ==
  /\ servicing /\ phase = "callback" /\ stopArg = Nil /\ <<cur, u>> \in HandlerStops
  /\ stopArg' = u
  /\ UNCHANGED <<rttVars, running, servicing, listVars, target, initial, callVars, cur,
                 mnext, mprev, nextTime, nextTimeSet, phase, drift, armed, clippedAt, cut>>

IsrCallbackStop(u) ==
  /\ servicing /\ phase = "callback" /\ stopArg = u
  /\ Unlink(u)
  /\ IF u \in ListFrom(next, first)
     THEN mprev' = PreviousAfterStop(u) /\ mnext' = NextAfterStop(u)
     ELSE UNCHANGED <<mprev, mnext>>
  /\ armed' = [armed EXCEPT ![u] = FALSE]
  /\ phase' = "after" /\ stopArg' = Nil
  /\ UNCHANGED <<rttVars, running, servicing, target, initial, callVars, cur, nextTime,
                 nextTimeSet, drift, clippedAt, cut>>

\* After the callback the timer counts for the next alarm if it is still listed.
StillListed(t) == \/ mprev = Nil /\ first = t
                  \/ mprev # Nil /\ next[mprev] = t

IsrAfter ==
  /\ servicing /\ phase = "after"
  /\ IF StillListed(cur) THEN KeepTimer(cur)
                         ELSE UNCHANGED <<mprev, nextTime, nextTimeSet>>
  /\ cur' = mnext
  /\ phase' = "visit"
  /\ UNCHANGED <<rttVars, running, servicing, listVars, target, initial, callVars,
                 mnext, stopArg, drift, armed, clippedAt, cut>>

\* The end of the walk: set the next alarm, or disable it when no timer is left.
IsrExit ==
  /\ servicing /\ phase = "visit" /\ cur = Nil
  /\ servicing' = FALSE
  /\ IF first # Nil
     THEN /\ \E d \in 0 .. MaxDrift : d + drift <= MaxDrift /\ PassTicks(d)
          /\ rtar' = AlarmFor(nextTime)
          /\ UNCHANGED <<almien, running>>
     ELSE /\ almien' = FALSE
          /\ running' = FALSE
          /\ UNCHANGED <<now, rtar, alms>>
  /\ drift' = 0
  /\ UNCHANGED <<listVars, target, initial, callVars, isrVars, armed, clippedAt, cut>>

-----------------------------------------------------------------------------
Client(t) ==
  \/ \E d \in Delays : Timer_startBegin(t, d)
  \/ Timer_startLink(t)
  \/ Timer_stopCall(t)
  \/ Timer_stop(t)

Isr ==
  \/ IsrEnter
  \/ IsrVisitPending
  \/ IsrVisitRepeating
  \/ IsrVisitOneShot
  \/ IsrCallback
  \/ \E u \in Timers, d \in Delays : IsrCallbackStart(u, d)
  \/ \E u \in Timers : IsrStopCall(u) \/ IsrCallbackStop(u)
  \/ IsrAfter
  \/ IsrExit

Next == Tick \/ Isr \/ \E t \in Timers : Client(t)

Spec == Init /\ [][Next]_vars

-----------------------------------------------------------------------------
(* Properties.                                                              *)

TypeOK ==
  /\ now \in Nat /\ rtar \in Nat
  /\ almien \in BOOLEAN /\ alms \in BOOLEAN
  /\ running \in BOOLEAN /\ servicing \in BOOLEAN
  /\ first \in Link /\ next \in [Timers -> Link]
  /\ target \in [Timers -> Nat] /\ initial \in [Timers -> Nat]
  /\ call \in [Timers -> {"idle", "start", "stop"}] /\ saved \in [Timers -> Link]
  /\ cur \in Link /\ mnext \in Link /\ mprev \in Link
  /\ nextTime \in Nat /\ nextTimeSet \in BOOLEAN
  /\ phase \in {"visit", "callback", "after"}
  /\ phase # "visit" => cur # Nil
  /\ drift \in 0 .. MaxDrift
  /\ stopArg \in Link /\ armed \in [Timers -> BOOLEAN] /\ clippedAt \in Nat /\ cut \in BOOLEAN

\* The alarm is never lost.  Outside the handler a running manager has its
\* interrupt enabled and its alarm either raised or still ahead of the counter
\* (an alarm written behind the counter would not match for 2^32 ticks), a
\* non-empty list has a running manager, and so the panic of Timer_start at
\* "AT91C_RTTC_ALMIEN" cannot be reached.
AlarmAlive ==
  /\ running = almien
  /\ servicing => running
  /\ ~servicing /\ first # Nil => running
  /\ ~servicing /\ running => alms \/ rtar + Lag > now

\* The list as a task sees it that goes on with Timer_start: behind a running timer
\* that is being started again comes the successor that its task has saved.
Whole == [t \in Timers |-> IF Restarting(t) THEN saved[t] ELSE next[t]]

Exact == \A t \in Timers : armed[t] <=> t \in ListFrom(Whole, first)

\* The list holds exactly the timers that were started and have neither expired
\* nor been stopped, whatever tasks and callbacks do in between: no timer is
\* dropped by another timer's unlinking, and none is served after its stop.  Starting
\* a running timer keeps this as well, until the interrupt walks the list while that
\* timer is cut off from its successor, another task stops a timer behind it, or
\* two such starts overlap.
ListExact == cut \/ Exact

\* Whatever the callbacks do to the list in the middle of the walk, SysTimer
\* implements TimerContract: a timer leaves the list only in the critical section of
\* a stop that was called for it, or in the walk when its target has been reached and
\* its callback is called; a start, a stop or an expiry touches no other timer.
Contract == INSTANCE TimerContract
              WITH running <- ListFrom(Whole, first),
                   calling <- IF phase = "callback" THEN cur ELSE Nil
ContractSpec == Contract!Spec

\* A timer on the list is served at most Slack ticks after its target, or after
\* the last Timer_start whose own target had already been reached (such a start
\* writes a new alarm even if the old one was about to be raised).  The last walk
\* may have passed the timer just before its target, the alarm is then clipped to
\* the minimum delay, and the next walk takes its time as well.
Slack == MIN_DELAY_TICKS + Lag + 2 * MaxDrift

OnTime ==
  cut \/ \A t \in Timers :
           armed[t] /\ call[t] # "start" => \/ now <= target[t] + Slack
                                           \/ now <= clippedAt + Slack

\* The doc comment of Timer_start: "If the timer is already running, this will
\* reset it", which concerns no other timer.  Whenever no call is under way, the
\* list holds exactly the timers that are neither expired nor stopped.
RestartIsSafe ==
  ~servicing /\ (\A t \in Timers : call[t] = "idle") => Exact

\* The comment in Timer_start's servicing branch: "Need to make sure that if this
\* new time is the lowest yet, that the IRQ routine knows that".  The handler
\* leaves with an alarm no later than any timer on the list asks for, or as soon
\* as the minimum delay allows.
AlarmCoversAll ==
  [][IsrExit => cut \/ \A t \in Timers :
        armed[t] => rtar' <= target[t] \/ rtar' <= now + MIN_DELAY_TICKS]_vars
=============================================================================
