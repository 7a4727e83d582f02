---------------------------- MODULE TimerContract ---------------------------
(***************************************************************************)
(* What timer.c promises to the rest of the firmware, and what the modules *)
(* of its clients assume: a timer runs from its start until it is stopped, *)
(* or until the time that was asked for has come, when its callback is     *)
(* called, whatever happens to the other timers meanwhile.  SysTimer       *)
(* implements it: the running timers are those that its list leads to.     *)
(***************************************************************************)
EXTENDS Naturals

CONSTANTS Timers, Nil, Delays, Repeating, HandlerStarts, HandlerStops

VARIABLES
  now,
  call,    \* the call that the task which owns a timer is in
  calling, \* the timer whose callback runs
  stopArg, \* the timer that the callback stops
  running,
  target,
  cut      \* the start of a running timer was interrupted: nothing more is promised

vars == <<now, call, calling, stopArg, running, target, cut>>

Init ==
  /\ now = 0 /\ call = [t \in Timers |-> "idle"]
  /\ calling = Nil /\ stopArg = Nil
  /\ running = {} /\ target = [t \in Timers |-> 0]
  /\ cut = FALSE

Pass == now' >= now /\ UNCHANGED <<call, calling, stopArg, running, target>>

-----------------------------------------------------------------------------
(* The calls of a task.  A timer runs when the second half of its start is  *)
(* done; one that runs already keeps running, with its new target.          *)

Enter(t, what) == call[t] = "idle" /\ call' = [call EXCEPT ![t] = what]
Leave(t, what) == call[t] = what /\ call' = [call EXCEPT ![t] = "idle"]

SetTarget(t) == \E d \in Delays : target' = [target EXCEPT ![t] = now + d]

CallStart(t) == Enter(t, "start") /\ SetTarget(t) /\ UNCHANGED <<now, calling, stopArg, running>>

Start(t) ==
  /\ Leave(t, "start")
  /\ running' = running \cup {t}
  /\ now' >= now
  /\ UNCHANGED <<calling, stopArg, target>>

CallStop(t) == Enter(t, "stop") /\ UNCHANGED <<now, calling, stopArg, running, target>>

Stop(t) ==
  /\ Leave(t, "stop")
  /\ running' = running \ {t}
  /\ UNCHANGED <<now, calling, stopArg, target>>

-----------------------------------------------------------------------------
(* A timer expires when its time has come, and its callback is called; one  *)
(* that repeats gets a later target.  The callback may start a timer that   *)
(* does not run, or stop any.                                               *)

Expire(t) ==
  /\ calling = Nil /\ t \in running /\ target[t] <= now
  /\ calling' = t
  /\ IF t \in Repeating
     THEN /\ UNCHANGED running
          /\ target'[t] >= now
          /\ target' = [target EXCEPT ![t] = target'[t]]
     ELSE running' = running \ {t} /\ UNCHANGED target
  /\ UNCHANGED <<now, call, stopArg>>

Return == calling' = Nil /\ UNCHANGED <<now, call>>

CallbackReturn == stopArg = Nil /\ Return /\ UNCHANGED <<stopArg, running, target>>

CallbackStart(t) ==
  /\ stopArg = Nil /\ <<calling, t>> \in HandlerStarts
  /\ t \notin running /\ call[t] = "idle"
  /\ running' = running \cup {t}
  /\ Return /\ SetTarget(t) /\ UNCHANGED stopArg

CallbackCallStop(t) ==
  /\ stopArg = Nil /\ <<calling, t>> \in HandlerStops
  /\ stopArg' = t
  /\ UNCHANGED <<now, call, calling, running, target>>

CallbackStop(t) ==
  /\ stopArg = t /\ stopArg' = Nil
  /\ running' = running \ {t}
  /\ Return /\ UNCHANGED target

-----------------------------------------------------------------------------
Step ==
  \/ Pass
  \/ \E t \in Timers :
       \/ CallStart(t) \/ Start(t) \/ CallStop(t) \/ Stop(t)
       \/ Expire(t)
       \/ CallbackStart(t) \/ CallbackCallStop(t) \/ CallbackStop(t)
  \/ CallbackReturn

\* Only a client that starts a running timer can void the contract.
Void == cut \/ \E t \in running : call[t] = "start"

Next == \/ UNCHANGED cut /\ Step
        \/ cut' /\ Void

Spec == Init /\ [][Next]_vars
=============================================================================
