---------------------------- MODULE BtScheduler -----------------------------
(***************************************************************************)
(* The scheduler of the Bluetooth task: src/core/dynawa/bt/uSched.c.       *)
(* Other tasks raise a background interrupt (a flag) or queue a command,   *)
(* and then post to the scheduler's wake-up queue, which holds one event:  *)
(* what does not fit is dropped.  The scheduler serves the flags, runs the *)
(* task function when it is asked to, runs the timed events that are due   *)
(* and sleeps on the wake-up queue, with a timer of its own when there is  *)
(* a timed event in the future.                                            *)
(*                                                                         *)
(* SchedulerMutex covers every access to the flags, and the scheduler      *)
(* gives it back before it calls a function: a section under the mutex is  *)
(* one step here.  What the functions do is the business of BtSession.     *)
(***************************************************************************)
EXTENDS Naturals, Sequences

VARIABLES
  pc,         \* where the scheduler is
  then,       \* where serviceBgInts returns to: "task" or "due"
  flags,      \* bgIntFlags: 1 received data, 2 something to send
  wake,       \* the number of events in WakeUpEvent
  run,        \* runTaskFlag
  cmd,        \* what bt_cmd_ptr points to, or "none"
  timers,     \* the timed events
  due,        \* those of them whose time has come
  stimer,     \* TRUE while the scheduler's own timer is running
  terminate,  \* terminationFlag
  command     \* what is in command_queue, or "none"

schedVars == <<pc, then, flags, wake, run, cmd, timers, due, stimer, terminate, command>>

SchedInit ==
  /\ pc = "off" /\ then = "task" /\ flags = {} /\ wake = 0
  /\ run = FALSE /\ cmd = "none" /\ timers = {} /\ due = {} /\ stimer = FALSE
  /\ terminate = FALSE /\ command = "none"

\* A post to the wake-up queue, which drops what does not fit.
WakeUp == wake' = 1

\* bg_int1 and bg_int2 when the scheduler's own task calls them.
Raise(f) == flags' = flags \cup {f} /\ WakeUp

\* serviceBgInts, called at the top of the loop and before each timed event.
Service ==
  /\ pc = "service"
  /\ \/ 1 \in flags /\ flags' = flags \ {1} /\ pc' = "rx"
     \/ 1 \notin flags /\ 2 \in flags /\ flags' = flags \ {2} /\ pc' = "pump"
     \/ flags = {} /\ pc' = then /\ UNCHANGED flags
  /\ UNCHANGED <<then, wake, run, cmd, timers, due, stimer, terminate, command>>

\* faulty: the second flag is not looked at when the first has been served
SecondForgotten == then
AfterFirst == IF 2 \in flags THEN "pump" ELSE then

ServiceSecond ==
  /\ pc = "second"
  /\ pc' = AfterFirst
  /\ flags' = (IF pc' = "pump" THEN flags \ {2} ELSE flags)
  /\ UNCHANGED <<then, wake, run, cmd, timers, due, stimer, terminate, command>>

\* The timed events that are due, each after a look at the flags.
Timed ==
  /\ pc = "timed"
  /\ IF due # {} THEN pc' = "service" /\ then' = "due" ELSE pc' = "wait" /\ UNCHANGED then
  /\ UNCHANGED <<flags, wake, run, cmd, timers, due, stimer, terminate, command>>

\* faulty: the timer is started only when no timed event is there
TimerWhenNone == timers = {}
StartsTimer == timers # {}

\* A task that is to run again does not wait.  A timed event that has become due in
\* the meantime is not waited for.
Wait ==
  /\ pc = "wait"
  /\ \/ run /\ pc' = "again" /\ UNCHANGED stimer
     \/ ~run /\ due # {} /\ pc' = "command" /\ UNCHANGED stimer
     \/ ~run /\ due = {} /\ pc' = "receive" /\ stimer' = StartsTimer
  /\ UNCHANGED <<then, flags, wake, run, cmd, timers, due, terminate, command>>

Receive ==
  /\ pc = "receive" /\ wake = 1
  /\ wake' = 0 /\ pc' = "stop"
  /\ UNCHANGED <<then, flags, run, cmd, timers, due, stimer, terminate, command>>

StopTimer ==
  /\ pc = "stop"
  /\ stimer' = FALSE /\ pc' = "command"
  /\ UNCHANGED <<then, flags, wake, run, cmd, timers, due, terminate, command>>

\* faulty: a command waits for the next reason to run the task
CommandWaits == UNCHANGED run
CommandRuns == run' = TRUE

\* bt_get_command, without waiting.
GetCommand ==
  /\ pc = "command"
  /\ pc' = "again" /\ command' = "none"
  /\ IF command # "none" THEN CommandRuns /\ cmd' = command ELSE UNCHANGED <<run, cmd>>
  /\ UNCHANGED <<then, flags, wake, timers, due, stimer, terminate>>

\* The condition of the loop.
Again ==
  /\ pc = "again"
  /\ pc' = (IF terminate THEN "exit" ELSE "service")
  /\ then' = "task"
  /\ UNCHANGED <<flags, wake, run, cmd, timers, due, stimer, terminate, command>>

\* The scheduler's own part of its loop.
Loop ==
  Service \/ ServiceSecond \/ Timed \/ Wait \/ Receive \/ StopTimer \/ GetCommand \/ Again

\* Time passes.  The period of "bt", a second, ends only while the scheduler
\* sleeps: its work in between is short.
TimeComes ==
  /\ \E t \in timers \ due : (t = "bt" => pc = "receive" /\ wake = 0) /\ due' = due \cup {t}
  /\ UNCHANGED <<pc, then, flags, wake, run, cmd, timers, stimer, terminate, command>>

\* The scheduler's timer is set to the first timed event.
bt_sched_timer_handler ==
  /\ stimer /\ due # {}
  /\ stimer' = FALSE /\ WakeUp
  /\ UNCHANGED <<pc, then, flags, run, cmd, timers, due, terminate, command>>

SchedTypeOK ==
  /\ pc \in {"off", "boot", "service", "rx", "deliver", "second", "pump", "task", "timed", "due",
             "wait", "receive", "stop", "command", "again", "exit", "panic"}
  /\ then \in {"task", "due"} /\ flags \subseteq {1, 2} /\ wake \in 0 .. 1
  /\ run \in BOOLEAN /\ stimer \in BOOLEAN /\ terminate \in BOOLEAN
  /\ timers \subseteq {"restart", "bt"} /\ due \subseteq timers
  /\ cmd \in {"none", "stop", "send", "ask"} /\ command \in {"none", "stop", "send", "ask"}
=============================================================================
