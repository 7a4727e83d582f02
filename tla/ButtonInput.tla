---------------------------- MODULE ButtonInput -----------------------------
(***************************************************************************)
(* The buttons of src/core/dynawa/button.c, built with BUTTON_TASK as      *)
(* images/lua/Makefile does.  The pin interrupt queues DOWN and UP; the    *)
(* task receives them, starts and stops the hold timer of the button and   *)
(* posts the event to Lua; the handler of an expired timer queues HOLD.    *)
(* Both interrupts may run between any two steps of the task.              *)
(*                                                                         *)
(* Timer_start and Timer_stop, SysTimer in detail, are single steps here,  *)
(* and a running timer expires at any time.                                *)
(***************************************************************************)
EXTENDS Naturals, Sequences, SequencesExt

CONSTANTS
  Buttons,      \* the buttons: five on the watch
  QueueLength,  \* length of button_queue: 10 in button_init
  MaxEdges      \* bound on the number of times that a pin changes

ASSUME BoundsAssumption == QueueLength \in Nat \ {0} /\ MaxEdges \in Nat

VARIABLES
  pressed,        \* the level of each pin
  edge,           \* the pins whose change interrupt is pending
  down,           \* button[i].down, as the pin interrupt saw it
  held,           \* button[i].held
  timer_started,  \* button[i].timer_started
  running,        \* the buttons whose timer runs
  button_queue,
  pc,             \* where the task is
  ev,             \* the event that it has received
  told,           \* the last of DOWN and UP that was posted to Lua
  lost,           \* history: an event was dropped because the queue was full
  edges           \* number of changes of the pins

pinVars == <<pressed, edge, edges>>
vars == <<pinVars, down, held, timer_started, running, button_queue, pc, ev, told, lost>>

Event(t, b) == [type |-> t, id |-> b]
NoEvent == [type |-> "none"]

Init ==
  /\ pressed = [b \in Buttons |-> FALSE] /\ edge = {} /\ edges = 0
  /\ down = [b \in Buttons |-> FALSE] /\ held = [b \in Buttons |-> FALSE]
  /\ timer_started = [b \in Buttons |-> FALSE] /\ running = {}
  /\ button_queue = <<>> /\ pc = "receive" /\ ev = NoEvent
  /\ told = [b \in Buttons |-> "UP"] /\ lost = FALSE

Room == Len(button_queue) < QueueLength

\* xQueueSendFromISR, whose result is ignored.
Send(e) ==
  /\ button_queue' = IF Room THEN Append(button_queue, e) ELSE button_queue
  /\ lost' = (lost \/ ~Room)

-----------------------------------------------------------------------------
(* The pins and the interrupts.                                             *)

\* A press, a release or a bounce.
PinChanges(b) ==
  /\ edges < MaxEdges
  /\ pressed' = [pressed EXCEPT ![b] = ~pressed[b]]
  /\ edge' = edge \cup {b}
  /\ edges' = edges + 1
  /\ UNCHANGED <<down, held, timer_started, running, button_queue, pc, ev, told, lost>>

\* faulty: the level that was seen last is not compared
AlwaysChanged(b) == TRUE
Changed(b) == pressed[b] # down[b]

button_io_isr_handler(b) ==
  /\ b \in edge
  /\ edge' = edge \ {b}
  /\ IF Changed(b)
       THEN /\ down' = [down EXCEPT ![b] = pressed[b]]
            /\ Send(Event(IF pressed[b] THEN "DOWN" ELSE "UP", b))
       ELSE UNCHANGED <<down, button_queue, lost>>
  /\ UNCHANGED <<pressed, edges, held, timer_started, running, pc, ev, told>>

\* faulty: HOLD is queued whatever the task has done meanwhile
AlwaysExpected(b) == TRUE
Expected(b) == timer_started[b]

button_timer_handler(b) ==
  /\ b \in running
  /\ running' = running \ {b}
  /\ IF Expected(b)
       THEN /\ held' = [held EXCEPT ![b] = TRUE]
            /\ timer_started' = [timer_started EXCEPT ![b] = FALSE]
            /\ Send(Event("HOLD", b))
       ELSE UNCHANGED <<held, timer_started, button_queue, lost>>
  /\ UNCHANGED <<pinVars, down, pc, ev, told>>

-----------------------------------------------------------------------------
(* button_task.                                                             *)

isrVars == <<pinVars, down, lost>>

Receive ==
  /\ pc = "receive" /\ button_queue # <<>>
  /\ ev' = Head(button_queue)
  /\ button_queue' = Tail(button_queue)
  /\ pc' = CASE ev'.type = "DOWN" -> "start"
             [] ev'.type = "UP"   -> "check"
             [] ev'.type = "HOLD" -> "post"
  /\ UNCHANGED <<isrVars, held, timer_started, running, told>>

StartTimer ==
  /\ pc = "start"
  /\ running' = running \cup {ev.id}
  /\ pc' = "mark"
  /\ UNCHANGED <<isrVars, held, timer_started, button_queue, ev, told>>

Mark ==
  /\ pc = "mark"
  /\ timer_started' = [timer_started EXCEPT ![ev.id] = TRUE]
  /\ pc' = "reset"
  /\ UNCHANGED <<isrVars, held, running, button_queue, ev, told>>

CheckHeld ==
  /\ pc = "check"
  /\ pc' = IF held[ev.id] THEN "reset" ELSE "unmark"
  /\ UNCHANGED <<isrVars, held, timer_started, running, button_queue, ev, told>>

Unmark ==
  /\ pc = "unmark"
  /\ timer_started' = [timer_started EXCEPT ![ev.id] = FALSE]
  /\ pc' = "stop"
  /\ UNCHANGED <<isrVars, held, running, button_queue, ev, told>>

\* faulty: the timer is left running
RunningKept == running
RunningAfterStop == running \ {ev.id}

StopTimer ==
  /\ pc = "stop"
  /\ running' = RunningAfterStop
  /\ pc' = "reset"
  /\ UNCHANGED <<isrVars, held, timer_started, button_queue, ev, told>>

\* faulty: a press that was held marks the next ones as held
HeldKept == held
HeldAfterReset == [held EXCEPT ![ev.id] = FALSE]

Reset ==
  /\ pc = "reset"
  /\ held' = HeldAfterReset
  /\ pc' = "post"
  /\ UNCHANGED <<isrVars, timer_started, running, button_queue, ev, told>>

Post ==
  /\ pc = "post"
  /\ told' = IF ev.type = "HOLD" THEN told ELSE [told EXCEPT ![ev.id] = ev.type]
  /\ pc' = "receive" /\ ev' = NoEvent
  /\ UNCHANGED <<isrVars, held, timer_started, running, button_queue>>

button_task ==
  Receive \/ StartTimer \/ Mark \/ CheckHeld \/ Unmark \/ StopTimer \/ Reset \/ Post

Next ==
  \/ \E b \in Buttons : PinChanges(b) \/ button_io_isr_handler(b) \/ button_timer_handler(b)
  \/ button_task

Spec == Init /\ [][Next]_vars

-----------------------------------------------------------------------------
(* Properties.                                                              *)

Events == [type : {"DOWN", "UP", "HOLD"}, id : Buttons]

TypeOK ==
  /\ pressed \in [Buttons -> BOOLEAN] /\ edge \subseteq Buttons /\ edges \in 0 .. MaxEdges
  /\ down \in [Buttons -> BOOLEAN] /\ held \in [Buttons -> BOOLEAN]
  /\ timer_started \in [Buttons -> BOOLEAN] /\ running \subseteq Buttons
  /\ button_queue \in Seq(Events) /\ Len(button_queue) <= QueueLength
  /\ pc \in {"receive", "start", "mark", "check", "unmark", "stop", "reset", "post"}
  /\ ev \in Events \cup {NoEvent} /\ (pc = "receive" <=> ev = NoEvent)
  /\ told \in [Buttons -> {"DOWN", "UP"}] /\ lost \in BOOLEAN

\* What is on its way to Lua.
Pipeline == (IF ev = NoEvent THEN <<>> ELSE <<ev>>) \o button_queue

\* The places in the pipeline of what Lua will be told of a button; what it was told
\* last has place 0.
Told(b) == {i \in DOMAIN Pipeline : Pipeline[i].id = b /\ Pipeline[i].type # "HOLD"}
Word(b, i) == IF i = 0 THEN told[b] ELSE Pipeline[i].type

\* The words on a button alternate, and the last of them is its level.
Level(b) == IF down[b] THEN "DOWN" ELSE "UP"
StoryOf(b) ==
  \A i \in Told(b) \cup {0} :
    /\ \A j \in Told(b) :
         i < j => Word(b, i) # Word(b, j) \/ \E k \in Told(b) : i < k /\ k < j
    /\ (\A k \in Told(b) : k <= i) => Word(b, i) = Level(b)

\* However the pin bounces, Lua sees DOWN and UP of a button alternate, and the
\* last of them agrees with the pin interrupt, as long as the queue (button.c:163)
\* was never full.
StoryIsTrue == lost \/ \A b \in Buttons : StoryOf(b)

\* Once the task has handled every event, the timer of a button that is up does not
\* run, wherever the two interrupts came between the task's steps.
NoTimerLeft ==
  lost \/ \A b \in Buttons : Pipeline = <<>> /\ ~down[b] => b \notin running /\ ~timer_started[b]

\* The task never starts a timer that is running, which would corrupt the list of
\* timers (SysTimer), unless an UP was dropped.
StartsIdleTimer == [][pc = "start" /\ pc' = "mark" => lost \/ ev.id \notin running]_vars

\* An UP whose timer the task has not begun to stop.
UpAhead(b) ==
  \/ Event("UP", b) \in Range(button_queue)
  \/ ev = Event("UP", b) /\ pc \in {"check", "unmark"}

\* HOLD may be queued after the UP of its press, but never once the task has begun
\* to stop the timer for that UP (button.c:146-149).
HoldIsCurrent ==
  [][\A b \in Buttons :
       b \in running \ running' /\ Len(button_queue') > Len(button_queue)
         => lost \/ down[b] \/ UpAhead(b)]_vars
=============================================================================
