------------------------- MODULE ButtonInput_proofs --------------------------
(***************************************************************************)
(* For any number of buttons, any length of the queue and any bouncing of  *)
(* the pins: until an event is dropped, the task starts no timer that is   *)
(* running, leaves none behind, and Lua is told the story of the pin; and  *)
(* no HOLD comes after the task has begun to stop the timer.               *)
(***************************************************************************)
EXTENDS ButtonInput, SequenceTheorems, TLAPS

IsDown(k, b) == button_queue[k].type = "DOWN" /\ button_queue[k].id = b
IsUp(k, b)   == button_queue[k].type = "UP" /\ button_queue[k].id = b
Places       == 1 .. Len(button_queue)

\* The event that the task is handling.
Serving(t, b) == ev.type = t /\ ev.id = b

\* An UP of the button is waiting, or in the task's hands.
UpComes(b) == Serving("UP", b) \/ \E i \in Places : IsUp(i, b)

\* The press of the button has left something that its UP will have to tidy up.
Busy(b) ==
  b \in running \/ timer_started[b] \/ held[b] \/ Serving("DOWN", b)

\* Between two DOWNs in the queue there is an UP, and behind the last DOWN of a button
\* that is up again.
Alternates ==
  \A b \in Buttons, k \in Places : IsDown(k, b) =>
    /\ \A j \in Places : j < k /\ IsDown(j, b) => \E i \in Places : j < i /\ i < k /\ IsUp(i, b)
    /\ ~down[b] => \E i \in Places : k < i /\ IsUp(i, b)

\* What a press has left is tidied up before the next DOWN is handled, and if the
\* button is up the UP is on its way.
TidiedUp ==
  \A b \in Buttons : Busy(b) =>
    /\ \A k \in Places : IsDown(k, b) =>
         Serving("UP", b) \/ \E i \in Places : i < k /\ IsUp(i, b)
    /\ ~down[b] => UpComes(b)

\* Where the task is, and what is then true of the button that it serves.
AtLabel ==
  /\ pc \in {"start", "mark"} => ev.type = "DOWN"
  /\ pc \in {"check", "unmark", "stop"} => ev.type = "UP"
  /\ pc = "start" => ev.id \notin running
  /\ pc \in {"start", "mark"} => ~timer_started[ev.id] /\ ~held[ev.id]
  /\ pc = "stop" => ~timer_started[ev.id]
  /\ pc \in {"reset", "post"} /\ ev.type = "UP" =>
       ~timer_started[ev.id] /\ ev.id \notin running
  /\ pc = "post" /\ ev.type = "UP" => ~held[ev.id]

\* A press that was held has no timer.
HeldHasNone == \A b \in Buttons : held[b] => b \notin running /\ ~timer_started[b]

Tidy == Alternates /\ TidiedUp /\ AtLabel /\ HeldHasNone
IInv == TypeOK /\ (lost \/ Tidy)

-----------------------------------------------------------------------------
\* What is behind the first entry keeps its order.
LEMMA Grows ==
  ASSUME TypeOK, NEW e \in Events, Send(e), ~lost'
  PROVE  /\ ~lost /\ Len(button_queue) \in Nat
         /\ Len(button_queue') = Len(button_queue) + 1
         /\ button_queue'[Len(button_queue) + 1] = e
         /\ \A k \in Places : button_queue'[k] = button_queue[k]
<1>1. ~lost /\ button_queue' = Append(button_queue, e)
  BY DEF Send
<1> QED
  BY <1>1 DEF TypeOK, Places

LEMMA Shrinks ==
  ASSUME TypeOK, Receive
  PROVE  /\ Len(button_queue) \in Nat /\ 1 \in Places /\ Head(button_queue) = button_queue[1]
         /\ Head(button_queue) \in Events
         /\ button_queue' \in Seq(Events) /\ Len(button_queue') = Len(button_queue) - 1
         /\ \A k \in 1 .. Len(button_queue') :
              button_queue'[k] = button_queue[k + 1] /\ k + 1 \in Places
<1>1. button_queue \in Seq(Events) /\ button_queue # <<>> /\ button_queue' = Tail(button_queue)
  BY DEF TypeOK, Receive
<1>2. Len(button_queue) \in Nat \ {0}
  BY <1>1, EmptySeq
<1> QED
  BY <1>1, <1>2, HeadTailProperties DEF Places

LEMMA InitInv == Init => IInv
<1> SUFFICES ASSUME Init PROVE IInv
  OBVIOUS
<1>1. TypeOK
  <2>1. /\ pressed \in [Buttons -> BOOLEAN] /\ down \in [Buttons -> BOOLEAN]
        /\ held \in [Buttons -> BOOLEAN] /\ timer_started \in [Buttons -> BOOLEAN]
    BY DEF Init
  <2>2. /\ edge \subseteq Buttons /\ edges \in 0 .. MaxEdges /\ running \subseteq Buttons
        /\ button_queue \in Seq(Events) /\ Len(button_queue) <= QueueLength
    BY BoundsAssumption DEF Init
  <2>3. /\ pc = "receive" /\ ev = NoEvent /\ told \in [Buttons -> {"DOWN", "UP"}]
        /\ lost \in BOOLEAN
    BY DEF Init
  <2> QED
    BY <2>1, <2>2, <2>3 DEF TypeOK
<1>2. Tidy
  BY DEF Init, Tidy, Alternates, TidiedUp, AtLabel, HeldHasNone, Places, Busy, Serving, NoEvent
<1> QED
  BY <1>1, <1>2 DEF IInv

-----------------------------------------------------------------------------
\* Types.
LEMMA SendTypes ==
  ASSUME TypeOK, NEW e \in Events, Send(e)
  PROVE  /\ button_queue' \in Seq(Events) /\ Len(button_queue') <= QueueLength
         /\ lost' \in BOOLEAN
<1>1. button_queue' \in Seq(Events) /\ Len(button_queue') <= QueueLength
  BY BoundsAssumption DEF TypeOK, Send, Room
<1>2. lost' \in BOOLEAN
  BY Zenon DEF Send
<1> QED
  BY <1>1, <1>2

\* What the interrupts send are events.
LEMMA EventTypes ==
  ASSUME NEW t \in {"DOWN", "UP", "HOLD"}, NEW b \in Buttons
  PROVE  Event(t, b) \in Events /\ Event(t, b).type = t /\ Event(t, b).id = b
  BY DEF Event, Events

\* Outside its receive the task has an event.
LEMMA ServedIs ==
  ASSUME TypeOK, pc # "receive"
  PROVE  ev \in Events /\ ev.id \in Buttons /\ ev # NoEvent
  BY DEF TypeOK, Events

LEMMA TypeInv == TypeOK /\ [Next]_vars => TypeOK'
<1> SUFFICES ASSUME TypeOK, [Next]_vars PROVE TypeOK'
  OBVIOUS
<1> DEFINE Labels == {"receive", "start", "mark", "check", "unmark", "stop", "reset", "post"}
<1> DEFINE PinTypes ==
      pressed \in [Buttons -> BOOLEAN] /\ edge \subseteq Buttons /\ edges \in 0 .. MaxEdges
<1> DEFINE FlagTypes ==
      /\ down \in [Buttons -> BOOLEAN] /\ held \in [Buttons -> BOOLEAN]
      /\ timer_started \in [Buttons -> BOOLEAN] /\ running \subseteq Buttons
<1> DEFINE QueueTypes ==
      button_queue \in Seq(Events) /\ Len(button_queue) <= QueueLength /\ lost \in BOOLEAN
<1> DEFINE TaskTypes ==
      /\ pc \in Labels /\ ev \in Events \cup {NoEvent} /\ (pc = "receive" <=> ev = NoEvent)
      /\ told \in [Buttons -> {"DOWN", "UP"}]
<1>0. /\ PinTypes /\ FlagTypes /\ QueueTypes /\ TaskTypes
      /\ PinTypes' /\ FlagTypes' /\ QueueTypes' /\ TaskTypes' => TypeOK'
  BY DEF TypeOK
<1>a. /\ UNCHANGED pinVars => PinTypes'
      /\ UNCHANGED <<down, held, timer_started, running>> => FlagTypes'
      /\ UNCHANGED <<button_queue, lost>> => QueueTypes'
      /\ UNCHANGED <<pc, ev, told>> => TaskTypes'
  BY <1>0 DEF pinVars
<1>1. ASSUME NEW b \in Buttons, PinChanges(b) PROVE TypeOK'
  <2>1. PinTypes'
    BY <1>0, <1>1, BoundsAssumption DEF PinChanges
  <2> QED
    BY <1>0, <1>1, <1>a, <2>1 DEF PinChanges
<1>2. ASSUME NEW b \in Buttons, button_io_isr_handler(b) PROVE TypeOK'
  <2>1. PinTypes' /\ FlagTypes'
    BY <1>0, <1>2 DEF button_io_isr_handler
  <2>2. QueueTypes'
    <3>1. CASE Changed(b)
      <4>1. PICK t \in {"DOWN", "UP"} : Send(Event(t, b))
        BY <1>2, <3>1 DEF button_io_isr_handler
      <4> QED
        BY <4>1, SendTypes, EventTypes
    <3>2. CASE ~Changed(b)
      BY <1>2, <1>a, <3>2 DEF button_io_isr_handler
    <3> QED
      BY <3>1, <3>2
  <2> QED
    BY <1>0, <1>2, <1>a, <2>1, <2>2 DEF button_io_isr_handler
<1>3. ASSUME NEW b \in Buttons, button_timer_handler(b) PROVE TypeOK'
  <2>1. FlagTypes'
    BY <1>0, <1>3 DEF button_timer_handler
  <2>2. QueueTypes'
    <3>1. CASE Expected(b)
      BY <1>3, <3>1, SendTypes, EventTypes DEF button_timer_handler
    <3>2. CASE ~Expected(b)
      BY <1>3, <1>a, <3>2 DEF button_timer_handler
    <3> QED
      BY <3>1, <3>2
  <2> QED
    BY <1>0, <1>3, <1>a, <2>1, <2>2 DEF button_timer_handler
<1>4. ASSUME Receive PROVE TypeOK'
  <2>1. QueueTypes'
    <3>1. button_queue' \in Seq(Events) /\ Len(button_queue') <= QueueLength /\ lost' = lost
      BY <1>0, <1>4, Shrinks, BoundsAssumption DEF Receive, isrVars
    <3> QED
      BY <1>0, <3>1
  <2>2. TaskTypes'
    <3>1. ev' \in Events /\ told' = told
      BY <1>4, Shrinks DEF Receive
    <3>2. ev'.type \in {"DOWN", "UP", "HOLD"} /\ ev' # NoEvent
      BY <3>1 DEF Events, NoEvent
    <3>3. pc' \in {"start", "check", "post"}
      BY <1>4, <3>2 DEF Receive
    <3> QED
      BY <1>0, <3>1, <3>2, <3>3
  <2>3. PinTypes' /\ FlagTypes'
    BY <1>a, <1>4 DEF Receive, isrVars
  <2> QED
    BY <1>0, <2>1, <2>2, <2>3
<1>5. ASSUME StartTimer \/ Mark \/ CheckHeld \/ Unmark \/ StopTimer \/ Reset PROVE TypeOK'
  <2>1. /\ pc # "receive" /\ pc' \in Labels \ {"receive"}
        /\ UNCHANGED <<pinVars, down, lost, button_queue, ev, told>>
    BY <1>5 DEF StartTimer, Mark, CheckHeld, Unmark, StopTimer, Reset, isrVars
  <2>2. ev.id \in Buttons
    BY <2>1, ServedIs
  <2>3. FlagTypes'
    BY <1>0, <1>5, <2>1, <2>2 DEF StartTimer, Mark, CheckHeld, Unmark, StopTimer, Reset,
       RunningAfterStop, HeldAfterReset
  <2>4. TaskTypes'
    BY <1>0, <2>1
  <2> QED
    BY <1>0, <1>a, <2>1, <2>3, <2>4
<1>6. ASSUME Post PROVE TypeOK'
  <2>1. ev \in Events /\ pc' = "receive" /\ ev' = NoEvent
    BY <1>6, ServedIs DEF Post
  <2>2. told' \in [Buttons -> {"DOWN", "UP"}]
    BY <1>0, <1>6, <2>1 DEF Post, Events
  <2>3. TaskTypes'
    BY <2>1, <2>2
  <2> QED
    BY <1>0, <1>a, <1>6, <2>3 DEF Post, isrVars
<1>7. CASE UNCHANGED vars
  BY <1>0, <1>a, <1>7 DEF vars
<1> QED
  BY <1>1, <1>2, <1>3, <1>4, <1>5, <1>6, <1>7 DEF Next, button_task

-----------------------------------------------------------------------------
\* A step that leaves the queue alone, and makes no button busy or its UP go away
\* while it is busy.
LEMMA SameQueue ==
  ASSUME Alternates, TidiedUp, UNCHANGED <<button_queue, down>>,
         \A b \in Buttons : Busy(b)' => Busy(b) /\ (Serving("UP", b) => Serving("UP", b)')
  PROVE  Alternates' /\ TidiedUp'
<1>1. Alternates'
  BY DEF Alternates, Places, IsDown, IsUp
<1>2. TidiedUp'
  <2> SUFFICES ASSUME NEW b \in Buttons, Busy(b)'
               PROVE  /\ \A k \in Places : IsDown(k, b) =>
                           Serving("UP", b)' \/ \E i \in Places : i < k /\ IsUp(i, b)
                      /\ ~down[b] => Serving("UP", b)' \/ \E i \in Places : IsUp(i, b)
    BY DEF TidiedUp, UpComes, Places, IsDown, IsUp
  <2> QED
    BY DEF TidiedUp, UpComes
<1> QED
  BY <1>1, <1>2

\* The pin interrupt queues an event that is news: the two alternate.
LEMMA PinStep ==
  ASSUME IInv, ~lost', NEW b \in Buttons, button_io_isr_handler(b)
  PROVE  Tidy'
<1>0. UNCHANGED <<held, timer_started, running, pc, ev>>
  BY DEF button_io_isr_handler
<1>a. \A c \in Buttons : Busy(c)' <=> Busy(c)
  BY <1>0 DEF Busy, Serving
<1>1. CASE ~Changed(b)
  <2>1. UNCHANGED <<button_queue, down, lost>>
    BY <1>1 DEF button_io_isr_handler
  <2>2. Tidy
    BY <2>1 DEF IInv
  <2>3. Alternates' /\ TidiedUp'
    BY <1>0, <1>a, <2>1, <2>2, SameQueue DEF Tidy, Serving
  <2> QED
    BY <1>0, <2>2, <2>3 DEF Tidy, AtLabel, HeldHasNone
<1>2. CASE Changed(b)
  <2>0. PICK n \in Nat : n = Len(button_queue)
    BY DEF IInv, TypeOK
  <2>1. PICK t \in {"DOWN", "UP"} :
          /\ t = "DOWN" => ~down[b] /\ down'[b] = TRUE
          /\ t = "UP" => down[b] /\ down'[b] = FALSE
          /\ \A c \in Buttons : c # b => down'[c] = down[c]
          /\ Send(Event(t, b))
    BY <1>2 DEF button_io_isr_handler, Changed, IInv, TypeOK
  <2>2. Event(t, b) \in Events /\ Event(t, b).type = t /\ Event(t, b).id = b
    BY EventTypes
  <2>3. /\ ~lost /\ Len(button_queue') = n + 1
        /\ button_queue'[n + 1] = Event(t, b)
        /\ \A k \in Places : button_queue'[k] = button_queue[k]
    BY <2>0, <2>1, <2>2, Grows DEF IInv
  <2>4. Tidy
    BY <2>3 DEF IInv
  <2>5. /\ Places = 1 .. n /\ Places' = 1 .. n + 1
        /\ \A k \in 1 .. n, c \in Buttons :
             (IsDown(k, c)' <=> IsDown(k, c)) /\ (IsUp(k, c)' <=> IsUp(k, c))
        /\ \A c \in Buttons : IsDown(n + 1, c)' <=> t = "DOWN" /\ c = b
        /\ \A c \in Buttons : IsUp(n + 1, c)' <=> t = "UP" /\ c = b
    <3>1. Places = 1 .. n /\ Places' = 1 .. n + 1
      BY <2>0, <2>3 DEF Places
    <3> QED
      BY <2>2, <2>3, <3>1 DEF IsDown, IsUp
  <2>6. Alternates'
    <3>1. ASSUME NEW c \in Buttons, NEW k \in 1 .. n + 1, NEW j \in 1 .. n + 1, j < k,
                 IsDown(j, c)', IsDown(k, c)'
          PROVE  \E i \in 1 .. n + 1 : j < i /\ i < k /\ IsUp(i, c)'
      <4>1. j \in 1 .. n /\ IsDown(j, c)
        BY <2>5, <3>1
      <4>2. CASE k = n + 1
        <5>1. c = b /\ ~down[c]
          BY <2>1, <2>5, <3>1, <4>2
        <5>2. PICK i \in 1 .. n : j < i /\ IsUp(i, c)
          BY <2>4, <2>5, <4>1, <5>1 DEF Tidy, Alternates
        <5> QED
          BY <2>5, <4>2, <5>2
      <4>3. CASE k \in 1 .. n
        <5>1. PICK i \in 1 .. n : j < i /\ i < k /\ IsUp(i, c)
          BY <2>4, <2>5, <3>1, <4>1, <4>3 DEF Tidy, Alternates
        <5> QED
          BY <2>5, <5>1
      <4> QED
        BY <4>2, <4>3
    <3>2. ASSUME NEW c \in Buttons, NEW k \in 1 .. n + 1, IsDown(k, c)', ~down'[c]
          PROVE  \E i \in 1 .. n + 1 : k < i /\ IsUp(i, c)'
      <4>1. k \in 1 .. n /\ IsDown(k, c)
        BY <2>1, <2>5, <3>2
      <4>2. CASE c = b
        BY <2>1, <2>5, <3>2, <4>1, <4>2
      <4>3. CASE c # b
        <5>1. PICK i \in 1 .. n : k < i /\ IsUp(i, c)
          BY <2>1, <2>4, <2>5, <3>2, <4>1, <4>3 DEF Tidy, Alternates
        <5> QED
          BY <2>5, <5>1
      <4> QED
        BY <4>2, <4>3
    <3> QED
      BY <2>5, <3>1, <3>2 DEF Alternates
  <2>7. TidiedUp'
    <3>1. ASSUME NEW c \in Buttons, Busy(c), NEW k \in 1 .. n + 1, IsDown(k, c)'
          PROVE  Serving("UP", c)' \/ \E i \in 1 .. n + 1 : i < k /\ IsUp(i, c)'
      <4>1. CASE k \in 1 .. n
        <5>1. Serving("UP", c) \/ \E i \in 1 .. n : i < k /\ IsUp(i, c)
          BY <2>4, <2>5, <3>1, <4>1 DEF Tidy, TidiedUp
        <5> QED
          BY <1>0, <2>5, <5>1 DEF Serving
      <4>2. CASE k = n + 1
        <5>1. c = b /\ ~down[c]
          BY <2>1, <2>5, <3>1, <4>2
        <5>2. Serving("UP", c) \/ \E i \in 1 .. n : IsUp(i, c)
          BY <2>4, <2>5, <3>1, <5>1 DEF Tidy, TidiedUp, UpComes
        <5> QED
          BY <1>0, <2>5, <4>2, <5>2 DEF Serving
      <4> QED
        BY <4>1, <4>2
    <3>2. ASSUME NEW c \in Buttons, Busy(c), ~down'[c]
          PROVE  Serving("UP", c)' \/ \E i \in 1 .. n + 1 : IsUp(i, c)'
      <4>1. CASE c = b
        BY <2>1, <2>5, <3>2, <4>1
      <4>2. CASE c # b
        <5>1. Serving("UP", c) \/ \E i \in 1 .. n : IsUp(i, c)
          BY <2>1, <2>4, <2>5, <3>2, <4>2 DEF Tidy, TidiedUp, UpComes
        <5> QED
          BY <1>0, <2>5, <5>1 DEF Serving
      <4> QED
        BY <4>1, <4>2
    <3> QED
      BY <1>a, <2>5, <3>1, <3>2 DEF TidiedUp, UpComes
  <2> QED
    BY <1>0, <2>4, <2>6, <2>7 DEF Tidy, AtLabel, HeldHasNone
<1> QED
  BY <1>1, <1>2

\* The hold timer expires: its HOLD is neither DOWN nor UP, and the button was busy.
LEMMA HoldStep ==
  ASSUME IInv, ~lost', NEW b \in Buttons, button_timer_handler(b)
  PROVE  Tidy'
<1>0. /\ b \in running /\ running' = running \ {b} /\ UNCHANGED <<down, pc, ev>>
      /\ held \in [Buttons -> BOOLEAN] /\ timer_started \in [Buttons -> BOOLEAN]
  BY DEF button_timer_handler, IInv, TypeOK
<1>1. CASE ~Expected(b)
  <2>1. UNCHANGED <<button_queue, lost, held, timer_started>>
    BY <1>1 DEF button_timer_handler
  <2>2. Tidy
    BY <2>1 DEF IInv
  <2>3. Alternates' /\ TidiedUp'
    BY <1>0, <2>1, <2>2, SameQueue DEF Tidy, Busy, Serving
  <2> QED
    BY <1>0, <2>1, <2>2, <2>3 DEF Tidy, AtLabel, HeldHasNone
<1>2. CASE Expected(b)
  <2>0. PICK n \in Nat : n = Len(button_queue)
    BY DEF IInv, TypeOK
  <2>1. /\ timer_started[b] /\ held' = [held EXCEPT ![b] = TRUE]
        /\ timer_started' = [timer_started EXCEPT ![b] = FALSE]
        /\ Send(Event("HOLD", b))
    BY <1>2 DEF button_timer_handler, Expected
  <2>2. Event("HOLD", b) \in Events /\ Event("HOLD", b).type = "HOLD"
    BY EventTypes
  <2>3. /\ ~lost /\ Len(button_queue') = n + 1
        /\ button_queue'[n + 1] = Event("HOLD", b)
        /\ \A k \in Places : button_queue'[k] = button_queue[k]
    BY <2>0, <2>1, <2>2, Grows DEF IInv
  <2>4. Tidy
    BY <2>3 DEF IInv
  <2>5. /\ Places = 1 .. n /\ Places' = 1 .. n + 1
        /\ \A k \in 1 .. n, c \in Buttons :
             (IsDown(k, c)' <=> IsDown(k, c)) /\ (IsUp(k, c)' <=> IsUp(k, c))
        /\ \A c \in Buttons : ~IsDown(n + 1, c)' /\ ~IsUp(n + 1, c)'
    <3>1. Places = 1 .. n /\ Places' = 1 .. n + 1
      BY <2>0, <2>3 DEF Places
    <3> QED
      BY <2>2, <2>3, <3>1 DEF IsDown, IsUp
  <2>6. \A c \in Buttons : Busy(c)' => Busy(c)
    BY <1>0, <2>1 DEF Busy, Serving
  <2>7. \A k \in 1 .. n + 1 : k = n + 1 \/ k \in 1 .. n
    OBVIOUS
  <2>8. Alternates'
    <3> SUFFICES ASSUME NEW c \in Buttons, NEW k \in 1 .. n, IsDown(k, c)
                 PROVE  /\ \A j \in 1 .. n : j < k /\ IsDown(j, c) =>
                              \E i \in 1 .. n : j < i /\ i < k /\ IsUp(i, c)
                        /\ ~down[c] => \E i \in 1 .. n : k < i /\ IsUp(i, c)
      <4>1. ASSUME NEW c \in Buttons, NEW k \in 1 .. n + 1, IsDown(k, c)',
                   NEW j \in 1 .. n + 1, j < k, IsDown(j, c)'
            PROVE  \E i \in 1 .. n + 1 : j < i /\ i < k /\ IsUp(i, c)'
        BY <2>4, <2>5, <2>7, <4>1 DEF Tidy, Alternates
      <4>2. ASSUME NEW c \in Buttons, NEW k \in 1 .. n + 1, IsDown(k, c)', ~down'[c]
            PROVE  \E i \in 1 .. n + 1 : k < i /\ IsUp(i, c)'
        BY <1>0, <2>4, <2>5, <2>7, <4>2 DEF Tidy, Alternates
      <4> QED
        BY <2>5, <4>1, <4>2 DEF Alternates
    <3> QED
      BY <2>4, <2>5 DEF Tidy, Alternates
  <2>9. TidiedUp'
    <3>1. ASSUME NEW c \in Buttons, Busy(c)', NEW k \in 1 .. n + 1, IsDown(k, c)'
          PROVE  Serving("UP", c)' \/ \E i \in 1 .. n + 1 : i < k /\ IsUp(i, c)'
      <4>1. k \in 1 .. n /\ IsDown(k, c) /\ Busy(c)
        BY <2>5, <2>6, <2>7, <3>1
      <4>2. Serving("UP", c) \/ \E i \in 1 .. n : i < k /\ IsUp(i, c)
        BY <2>4, <2>5, <4>1 DEF Tidy, TidiedUp
      <4> QED
        BY <1>0, <2>5, <4>2 DEF Serving
    <3>2. ASSUME NEW c \in Buttons, Busy(c)', ~down'[c]
          PROVE  Serving("UP", c)' \/ \E i \in 1 .. n + 1 : IsUp(i, c)'
      <4>1. Serving("UP", c) \/ \E i \in 1 .. n : IsUp(i, c)
        BY <1>0, <2>4, <2>5, <2>6, <3>2 DEF Tidy, TidiedUp, UpComes
      <4> QED
        BY <1>0, <2>5, <4>1 DEF Serving
    <3> QED
      BY <2>5, <3>1, <3>2 DEF TidiedUp, UpComes
  <2>10. AtLabel' /\ HeldHasNone'
    BY <1>0, <2>1, <2>4 DEF Tidy, AtLabel, HeldHasNone
  <2> QED
    BY <2>8, <2>9, <2>10 DEF Tidy
<1> QED
  BY <1>1, <1>2

\* The task receives: what was first in the queue is in its hands, and if it is a DOWN
\* nothing is left of an earlier press.
LEMMA ReceiveStep ==
  ASSUME IInv, ~lost', Receive
  PROVE  Tidy'
<1>0. PICK n \in Nat : n = Len(button_queue)
  BY DEF IInv, TypeOK
<1>1. /\ pc = "receive" /\ ev' = button_queue[1] /\ ev' \in Events /\ 1 \in 1 .. n
      /\ Len(button_queue') = n - 1
      /\ \A k \in 1 .. n - 1 : button_queue'[k] = button_queue[k + 1]
      /\ UNCHANGED <<down, held, timer_started, running, lost>>
  BY <1>0, Shrinks DEF Receive, isrVars, IInv, Places
<1>2. Tidy
  BY <1>1 DEF IInv
<1>3. ev.type = "none"
  BY <1>1 DEF IInv, TypeOK, NoEvent
<1>4. /\ Places = 1 .. n /\ Places' = 1 .. n - 1
      /\ \A k \in 1 .. n - 1 : k + 1 \in 1 .. n
      /\ \A k \in 1 .. n : k # 1 => k - 1 \in 1 .. n - 1 /\ (k - 1) + 1 = k
      /\ \A k \in 1 .. n - 1, c \in Buttons :
           (IsDown(k, c)' <=> IsDown(k + 1, c)) /\ (IsUp(k, c)' <=> IsUp(k + 1, c))
      /\ \A c \in Buttons :
           (Serving("DOWN", c)' <=> IsDown(1, c)) /\ (Serving("UP", c)' <=> IsUp(1, c))
  BY <1>0, <1>1 DEF Places, IsDown, IsUp, Serving
<1>5. \A c \in Buttons : Busy(c)' => Busy(c) \/ IsDown(1, c)
  BY <1>1, <1>4 DEF Busy
<1>6. \A c \in Buttons : ~Serving("UP", c)
  BY <1>3 DEF Serving
<1>7. Alternates'
  <2>1. ASSUME NEW c \in Buttons, NEW k \in 1 .. n - 1, NEW j \in 1 .. n - 1, j < k,
               IsDown(j, c)', IsDown(k, c)'
        PROVE  \E i \in 1 .. n - 1 : j < i /\ i < k /\ IsUp(i, c)'
    <3>1. PICK i \in 1 .. n : j + 1 < i /\ i < k + 1 /\ IsUp(i, c)
      BY <1>2, <1>4, <2>1 DEF Tidy, Alternates
    <3>2. i - 1 \in 1 .. n - 1 /\ j < i - 1 /\ i - 1 < k /\ IsUp(i - 1, c)'
      BY <1>4, <3>1
    <3> QED
      BY <3>2
  <2>2. ASSUME NEW c \in Buttons, NEW k \in 1 .. n - 1, IsDown(k, c)', ~down'[c]
        PROVE  \E i \in 1 .. n - 1 : k < i /\ IsUp(i, c)'
    <3>1. PICK i \in 1 .. n : k + 1 < i /\ IsUp(i, c)
      BY <1>1, <1>2, <1>4, <2>2 DEF Tidy, Alternates
    <3>2. i - 1 \in 1 .. n - 1 /\ k < i - 1 /\ IsUp(i - 1, c)'
      BY <1>4, <3>1
    <3> QED
      BY <3>2
  <2> QED
    BY <1>4, <2>1, <2>2 DEF Alternates
<1>8. TidiedUp'
  <2>1. ASSUME NEW c \in Buttons, Busy(c)', NEW k \in 1 .. n - 1, IsDown(k, c)'
        PROVE  Serving("UP", c)' \/ \E i \in 1 .. n - 1 : i < k /\ IsUp(i, c)'
    <3>1. \E i \in 1 .. n : i < k + 1 /\ IsUp(i, c)
      <4>1. k + 1 \in 1 .. n /\ IsDown(k + 1, c) /\ 1 < k + 1
        BY <1>4, <2>1
      <4>2. CASE IsDown(1, c)
        BY <1>1, <1>2, <1>4, <4>1, <4>2 DEF Tidy, Alternates
      <4>3. CASE Busy(c)
        BY <1>2, <1>4, <1>6, <4>1, <4>3 DEF Tidy, TidiedUp
      <4> QED
        BY <1>5, <2>1, <4>2, <4>3
    <3>2. PICK i \in 1 .. n : i < k + 1 /\ IsUp(i, c)
      BY <3>1
    <3>3. CASE i = 1
      BY <1>4, <3>2, <3>3
    <3>4. CASE i # 1
      <4>1. i - 1 \in 1 .. n - 1 /\ i - 1 < k /\ IsUp(i - 1, c)'
        BY <1>4, <3>2, <3>4
      <4> QED
        BY <4>1
    <3> QED
      BY <3>3, <3>4
  <2>2. ASSUME NEW c \in Buttons, Busy(c)', ~down'[c]
        PROVE  Serving("UP", c)' \/ \E i \in 1 .. n - 1 : IsUp(i, c)'
    <3>1. \E i \in 1 .. n : IsUp(i, c)
      <4>1. CASE IsDown(1, c)
        BY <1>1, <1>2, <1>4, <2>2, <4>1 DEF Tidy, Alternates
      <4>2. CASE Busy(c)
        BY <1>1, <1>2, <1>4, <1>6, <2>2, <4>2 DEF Tidy, TidiedUp, UpComes
      <4> QED
        BY <1>5, <2>2, <4>1, <4>2
    <3>2. PICK i \in 1 .. n : IsUp(i, c)
      BY <3>1
    <3>3. CASE i = 1
      BY <1>4, <3>2, <3>3
    <3>4. CASE i # 1
      <4>1. i - 1 \in 1 .. n - 1 /\ IsUp(i - 1, c)'
        BY <1>4, <3>2, <3>4
      <4> QED
        BY <4>1
    <3> QED
      BY <3>3, <3>4
  <2> QED
    BY <1>4, <2>1, <2>2 DEF TidiedUp, UpComes
<1>9. AtLabel' /\ HeldHasNone'
  <2>1. PICK b \in Buttons : b = ev'.id
    BY <1>1 DEF Events
  <2>2. ev'.type = "DOWN" => ~Busy(b)
    <3> SUFFICES ASSUME ev'.type = "DOWN", Busy(b) PROVE FALSE
      OBVIOUS
    <3>1. IsDown(1, b)
      BY <1>4, <2>1 DEF Serving
    <3>2. \E i \in 1 .. n : i < 1 /\ IsUp(i, b)
      BY <1>1, <1>2, <1>4, <1>6, <3>1 DEF Tidy, TidiedUp
    <3> QED
      BY <3>2
  <2>3. /\ ev'.type = "DOWN" => pc' = "start"
        /\ ev'.type = "UP" => pc' = "check"
        /\ ev'.type = "HOLD" => pc' = "post"
        /\ ev'.type \in {"DOWN", "UP", "HOLD"}
    BY <1>1 DEF Receive, Events
  <2>4. AtLabel'
    BY <1>1, <2>1, <2>2, <2>3 DEF AtLabel, Busy
  <2> QED
    BY <1>1, <1>2, <2>4 DEF Tidy, HeldHasNone
<1> QED
  BY <1>7, <1>8, <1>9 DEF Tidy

\* The other steps of the task.
LEMMA TaskStep ==
  ASSUME IInv, ~lost', StartTimer \/ Mark \/ CheckHeld \/ Unmark \/ StopTimer \/ Reset
  PROVE  Tidy'
<1>0. /\ pc # "receive" /\ UNCHANGED <<down, lost, button_queue, ev>>
      /\ held \in [Buttons -> BOOLEAN] /\ timer_started \in [Buttons -> BOOLEAN]
  BY DEF StartTimer, Mark, CheckHeld, Unmark, StopTimer, Reset, isrVars, IInv, TypeOK
<1>1. ev.id \in Buttons /\ Tidy
  BY <1>0, ServedIs DEF IInv
<1>2. \A c \in Buttons : Busy(c)' => Busy(c)
  BY <1>0, <1>1 DEF StartTimer, Mark, CheckHeld, Unmark, StopTimer, Reset,
     RunningAfterStop, HeldAfterReset, Busy, Serving, Tidy, AtLabel
<1>3. Alternates' /\ TidiedUp'
  BY <1>0, <1>1, <1>2, SameQueue DEF Tidy, Serving
<1>4. AtLabel' /\ HeldHasNone'
  <2>1. CASE StartTimer
    BY <1>0, <1>1, <2>1 DEF StartTimer, Tidy, AtLabel, HeldHasNone
  <2>2. CASE Mark
    BY <1>0, <1>1, <2>2 DEF Mark, Tidy, AtLabel, HeldHasNone
  <2>3. CASE CheckHeld
    BY <1>0, <1>1, <2>3 DEF CheckHeld, Tidy, AtLabel, HeldHasNone
  <2>4. CASE Unmark
    BY <1>0, <1>1, <2>4 DEF Unmark, Tidy, AtLabel, HeldHasNone
  <2>5. CASE StopTimer
    BY <1>0, <1>1, <2>5 DEF StopTimer, RunningAfterStop, Tidy, AtLabel, HeldHasNone
  <2>6. CASE Reset
    BY <1>0, <1>1, <2>6 DEF Reset, HeldAfterReset, Tidy, AtLabel, HeldHasNone
  <2> QED
    BY <2>1, <2>2, <2>3, <2>4, <2>5, <2>6
<1> QED
  BY <1>3, <1>4 DEF Tidy

\* Posting to Lua ends the handling of the event, with everything tidied up.
LEMMA PostStep ==
  ASSUME IInv, ~lost', Post
  PROVE  Tidy'
<1>1. /\ pc = "post" /\ pc' = "receive" /\ ev' = NoEvent
      /\ UNCHANGED <<down, lost, button_queue, held, timer_started, running>>
  BY DEF Post, isrVars
<1>2. Tidy
  BY <1>1 DEF IInv
<1>3. ev'.type = "none"
  BY <1>1 DEF NoEvent
<1>4. \A c \in Buttons : Busy(c)' => Busy(c) /\ ~Serving("UP", c)
  BY <1>1, <1>2, <1>3 DEF Busy, Serving, Tidy, AtLabel
<1>5. Alternates' /\ TidiedUp'
  BY <1>1, <1>2, <1>4, SameQueue DEF Tidy
<1> QED
  BY <1>1, <1>2, <1>5 DEF Tidy, AtLabel, HeldHasNone

LEMMA Invariant == Spec => []IInv
<1>1. IInv /\ [Next]_vars => IInv'
  <2> SUFFICES ASSUME IInv, [Next]_vars, ~lost' PROVE Tidy'
    BY TypeInv DEF IInv
  <2>1. ASSUME NEW b \in Buttons, PinChanges(b) PROVE Tidy'
    <3>1. UNCHANGED <<down, held, timer_started, running, button_queue, pc, ev, lost>>
      BY <2>1 DEF PinChanges
    <3>2. Tidy
      BY <3>1 DEF IInv
    <3>3. Alternates' /\ TidiedUp'
      BY <3>1, <3>2, SameQueue DEF Tidy, Busy, Serving
    <3> QED
      BY <3>1, <3>2, <3>3 DEF Tidy, AtLabel, HeldHasNone
  <2>2. CASE UNCHANGED vars
    <3>1. UNCHANGED <<down, held, timer_started, running, button_queue, pc, ev, lost>>
      BY <2>2 DEF vars
    <3>2. Tidy
      BY <3>1 DEF IInv
    <3>3. Alternates' /\ TidiedUp'
      BY <3>1, <3>2, SameQueue DEF Tidy, Busy, Serving
    <3> QED
      BY <3>1, <3>2, <3>3 DEF Tidy, AtLabel, HeldHasNone
  <2> QED
    BY <2>1, <2>2, PinStep, HoldStep, ReceiveStep, TaskStep, PostStep DEF Next, button_task
<1> QED
  BY InitInv, <1>1, PTL DEF Spec

-----------------------------------------------------------------------------
\* Every variable keeps its type.
THEOREM TypeCorrect == Spec => []TypeOK
<1>1. IInv => TypeOK
  BY DEF IInv
<1> QED
  BY <1>1, Invariant, PTL

\* When the task has handled everything, no timer of a button that is up is left,
\* unless an event was dropped.
THEOREM NoTimerIsLeft == Spec => []NoTimerLeft
<1>1. IInv => NoTimerLeft
  <2> SUFFICES ASSUME IInv, ~lost, NEW b \in Buttons, Pipeline = <<>>, ~down[b]
               PROVE  b \notin running /\ ~timer_started[b]
    BY DEF NoTimerLeft
  <2>1. ev = NoEvent /\ button_queue = <<>>
    BY DEF Pipeline, IInv, TypeOK
  <2>2. ~UpComes(b)
    BY <2>1 DEF UpComes, Serving, NoEvent, Places
  <2> QED
    BY <2>2 DEF IInv, Tidy, TidiedUp, Busy
<1> QED
  BY <1>1, Invariant, PTL

\* The task never starts a timer that is running, unless an event was dropped.
THEOREM StartsIdle == Spec => StartsIdleTimer
<1>1. IInv => (pc = "start" /\ pc' = "mark" => lost \/ ev.id \notin running)
  BY DEF IInv, Tidy, AtLabel
<1> QED
  BY <1>1, Invariant, PTL DEF StartsIdleTimer

\* No HOLD is queued once the task has begun to stop the timer, unless an event was
\* dropped.
THEOREM HoldIsAlwaysCurrent == Spec => HoldIsCurrent
<1> DEFINE Current ==
      \A b \in Buttons :
        b \in running \ running' /\ Len(button_queue') > Len(button_queue)
          => lost \/ down[b] \/ UpAhead(b)
<1>1. IInv /\ [Next]_vars => [Current]_vars
  <2> SUFFICES ASSUME IInv, Next, ~lost, NEW b \in Buttons, b \in running \ running',
                      Len(button_queue') > Len(button_queue), ~down[b]
               PROVE  UpAhead(b)
    OBVIOUS
  <2>0. /\ Len(button_queue) \in Nat
        /\ Tail(button_queue) = button_queue' => Len(button_queue') <= Len(button_queue) \/ ~Receive
    BY Shrinks DEF IInv, TypeOK
  <2>1. button_timer_handler(b)
    <3>1. ~button_task
      BY <2>0 DEF button_task, Receive, StartTimer, Mark, CheckHeld, Unmark, StopTimer, Reset, Post
    <3>2. \A c \in Buttons : ~PinChanges(c) /\ ~button_io_isr_handler(c)
      BY DEF PinChanges, button_io_isr_handler
    <3>3. PICK c \in Buttons : button_timer_handler(c)
      BY <3>1, <3>2 DEF Next
    <3> QED
      BY <3>3 DEF button_timer_handler
  <2>2. timer_started[b]
    BY <2>1 DEF button_timer_handler, Expected
  <2>3. UpComes(b)
    BY <2>2 DEF IInv, Tidy, TidiedUp, Busy
  <2>4. CASE Serving("UP", b)
    <3>1. ev = Event("UP", b)
      BY <2>4 DEF Serving, Event, IInv, TypeOK, Events, NoEvent
    <3>2. pc \in {"check", "unmark"}
      BY <2>2, <2>4 DEF Serving, IInv, TypeOK, Tidy, AtLabel, NoEvent
    <3> QED
      BY <3>1, <3>2 DEF UpAhead
  <2>5. CASE \E i \in Places : IsUp(i, b)
    <3>1. PICK i \in Places : IsUp(i, b)
      BY <2>5
    <3>2. button_queue[i] = Event("UP", b)
      <4>1. button_queue[i] \in Events
        BY <3>1 DEF Places, IInv, TypeOK
      <4> QED
        BY <3>1, <4>1 DEF IsUp, Event, Events
    <3> QED
      <4>1. DOMAIN button_queue = Places
        BY DEF Places, IInv, TypeOK
      <4>2. Event("UP", b) \in Range(button_queue)
        BY ONLY <3>1, <3>2, <4>1 DEF Range
      <4> QED
        BY <4>2 DEF UpAhead
  <2> QED
    BY <2>3, <2>4, <2>5 DEF UpComes
<1> QED
  BY <1>1, Invariant, PTL DEF Spec, HoldIsCurrent
-----------------------------------------------------------------------------
(* What Lua is told.  StoryIsTrue is inductive over the types alone: only   *)
(* the pin interrupt adds a word, and Post only makes the next word the     *)
(* last one.                                                                *)

\* The pipeline is the queue, with the event in the task's hands before it.
PipelineFacts ==
  /\ Len(button_queue) \in Nat
  /\ Len(Pipeline) \in Nat /\ DOMAIN Pipeline = 1 .. Len(Pipeline)
  /\ ev = NoEvent => Pipeline = button_queue
  /\ ev # NoEvent =>
       /\ ev \in Events /\ Pipeline[1] = ev
       /\ Len(Pipeline) = Len(button_queue) + 1
       /\ \A k \in Places : Pipeline[k + 1] = button_queue[k]

\* The facts hold of a state, and of the next one.
LEMMA PipelineIs == TypeOK => PipelineFacts
<1> SUFFICES ASSUME TypeOK PROVE PipelineFacts
  OBVIOUS
<1>1. button_queue \in Seq(Events) /\ Len(button_queue) \in Nat
  BY DEF TypeOK
<1>2. CASE ev = NoEvent
  <2>1. Pipeline = button_queue
    BY <1>1, <1>2, ConcatEmptySeq DEF Pipeline
  <2> QED
    BY <1>1, <1>2, <2>1 DEF PipelineFacts
<1>3. CASE ev # NoEvent
  <2>1. ev \in Events /\ Pipeline = <<ev>> \o button_queue
    BY <1>3 DEF Pipeline, TypeOK
  <2>2. <<ev>> \in Seq(Events) /\ Len(<<ev>>) = 1 /\ <<ev>>[1] = ev
    BY <2>1
  <2>3. /\ Pipeline \in Seq(Events) /\ Len(Pipeline) = Len(button_queue) + 1
        /\ Pipeline[1] = ev
        /\ \A k \in Places : Pipeline[k + 1] = button_queue[k]
    BY <1>1, <2>1, <2>2, ConcatProperties DEF Places
  <2>4. Len(Pipeline) \in Nat /\ DOMAIN Pipeline = 1 .. Len(Pipeline)
    BY <2>3
  <2> QED
    BY <1>1, <1>3, <2>1, <2>3, <2>4 DEF PipelineFacts
<1> QED
  BY <1>2, <1>3

LEMMA PipelineWillBe == TypeOK' => PipelineFacts'
BY PipelineIs, PTL

\* An interrupt that finds room puts its event at the end of the pipeline.
LEMMA SendsLast ==
  ASSUME TypeOK, TypeOK', NEW e \in Events, Send(e), ~lost', UNCHANGED ev
  PROVE  /\ ~lost /\ Len(Pipeline') = Len(Pipeline) + 1
         /\ Pipeline'[Len(Pipeline) + 1] = e
         /\ \A k \in 1 .. Len(Pipeline) : Pipeline'[k] = Pipeline[k]
<1>1. /\ ~lost /\ Len(button_queue') = Len(button_queue) + 1
      /\ button_queue'[Len(button_queue) + 1] = e
      /\ \A k \in Places : button_queue'[k] = button_queue[k]
  BY Grows
<1>2. PICK n \in Nat : n = Len(button_queue)
  BY PipelineIs DEF PipelineFacts
<1>3. Places = 1 .. n /\ Places' = 1 .. n + 1
  BY <1>1, <1>2 DEF Places
<1>4. CASE ev = NoEvent
  <2>1. Pipeline = button_queue /\ Pipeline' = button_queue'
    BY <1>4, PipelineIs, PipelineWillBe DEF PipelineFacts
  <2> QED
    BY <1>1, <1>2, <1>3, <2>1
<1>5. CASE ev # NoEvent
  <2>1. /\ Pipeline[1] = ev /\ Len(Pipeline) = n + 1
        /\ \A k \in 1 .. n : Pipeline[k + 1] = button_queue[k]
    BY <1>2, <1>3, <1>5, PipelineIs DEF PipelineFacts
  <2>2. /\ Pipeline'[1] = ev /\ Len(Pipeline') = n + 2
        /\ \A k \in 1 .. n + 1 : Pipeline'[k + 1] = button_queue'[k]
    <3>1. PipelineFacts' /\ ev' = ev
      BY PipelineWillBe
    <3>2. /\ Pipeline'[1] = ev' /\ Len(Pipeline') = Len(button_queue') + 1
          /\ \A k \in Places' : Pipeline'[k + 1] = button_queue'[k]
      BY <1>5, <3>1 DEF PipelineFacts
    <3>3. Len(button_queue') + 1 = n + 2
      BY <1>1, <1>2
    <3> QED
      BY <1>3, <3>1, <3>2, <3>3
  <2>3. Pipeline'[n + 2] = e
    BY <1>1, <1>2, <2>2
  <2>4. ASSUME NEW k \in 1 .. n + 1 PROVE Pipeline'[k] = Pipeline[k]
    <3>1. CASE k = 1
      BY <2>1, <2>2, <3>1
    <3>2. CASE k # 1
      <4>1. k - 1 \in 1 .. n /\ k - 1 \in 1 .. n + 1 /\ (k - 1) + 1 = k
        BY <3>2
      <4> QED
        BY <1>1, <1>3, <2>1, <2>2, <4>1
    <3> QED
      BY <3>1, <3>2
  <2> QED
    BY <1>1, <1>2, <2>1, <2>2, <2>3, <2>4
<1> QED
  BY <1>4, <1>5

\* A step that leaves the words on a button as they are.
LEMMA SameStory ==
  ASSUME NEW b \in Buttons, StoryOf(b), Told(b)' = Told(b), down'[b] = down[b],
         \A i \in Told(b) \cup {0} : Word(b, i)' = Word(b, i)
  PROVE  StoryOf(b)'
<1>1. Level(b)' = Level(b)
  BY DEF Level
<1> QED
  BY <1>1 DEF StoryOf

\* The pin interrupt adds the word that is missing.
LEMMA PinTells ==
  ASSUME TypeOK, TypeOK', ~lost', \A c \in Buttons : StoryOf(c),
         NEW b \in Buttons, button_io_isr_handler(b), Changed(b), NEW c \in Buttons
  PROVE  StoryOf(c)'
<1>1. /\ down' = [down EXCEPT ![b] = pressed[b]] /\ UNCHANGED <<ev, told>>
      /\ Send(Event(IF pressed[b] THEN "DOWN" ELSE "UP", b))
  BY DEF button_io_isr_handler
<1>2. PICK t \in {"DOWN", "UP"} : t = IF pressed[b] THEN "DOWN" ELSE "UP"
  OBVIOUS
<1>3. Event(t, b) \in Events /\ Event(t, b).type = t /\ Event(t, b).id = b
  BY EventTypes
<1>4. PICK n \in Nat : n = Len(Pipeline)
  BY PipelineIs DEF PipelineFacts
<1>5. /\ Len(Pipeline') = n + 1 /\ Pipeline'[n + 1] = Event(t, b)
      /\ \A k \in 1 .. n : Pipeline'[k] = Pipeline[k]
  BY <1>1, <1>2, <1>3, <1>4, SendsLast
<1>6. /\ Told(c) = {k \in 1 .. n : Pipeline[k].id = c /\ Pipeline[k].type # "HOLD"}
      /\ Told(c)' = {k \in 1 .. n + 1 : Pipeline'[k].id = c /\ Pipeline'[k].type # "HOLD"}
  BY <1>4, <1>5, PipelineIs, PipelineWillBe DEF PipelineFacts, Told
<1>7. Told(c)' = IF c = b THEN Told(c) \cup {n + 1} ELSE Told(c)
  <2>1. \A k \in 1 .. n + 1 : k = n + 1 \/ k \in 1 .. n
    OBVIOUS
  <2>2. \A k \in 1 .. n : k \in Told(c)' <=> k \in Told(c)
    BY <1>5, <1>6
  <2>3. n + 1 \in Told(c)' <=> c = b
    BY <1>3, <1>5, <1>6
  <2> QED
    BY <1>6, <2>1, <2>2, <2>3
<1>8. \A i \in Told(c) \cup {0} : Word(c, i)' = Word(c, i)
  BY <1>1, <1>5, <1>6 DEF Word
<1>9. CASE c # b
  <2>1. down'[c] = down[c] /\ Told(c)' = Told(c)
    BY <1>1, <1>7, <1>9 DEF TypeOK
  <2> QED
    BY <1>8, <2>1, SameStory
<1>10. CASE c = b
  <2>1. Word(b, n + 1)' = t /\ Level(b)' = t /\ Level(b) # t
    <3>1. down'[b] = pressed[b] /\ pressed[b] # down[b]
      BY <1>1 DEF Changed, TypeOK
    <3>2. pressed[b] \in BOOLEAN /\ down[b] \in BOOLEAN
      BY DEF TypeOK
    <3>3. Word(b, n + 1)' = Pipeline'[n + 1].type
      BY DEF Word
    <3> QED
      BY <1>2, <1>3, <1>5, <3>1, <3>2, <3>3 DEF Level
  <2>2. Told(b) \subseteq 1 .. n /\ Told(b)' = Told(b) \cup {n + 1}
    BY <1>6, <1>7, <1>10
  <2>3. ASSUME NEW i \in Told(b) \cup {0}, NEW j \in Told(b) \cup {n + 1}, i < j,
               \A k \in Told(b) \cup {n + 1} : ~(i < k /\ k < j)
        PROVE  Word(b, i)' # Word(b, j)'
    <3>1. CASE j \in Told(b)
      BY <1>8, <1>10, <2>3, <3>1 DEF StoryOf
    <3>2. CASE j = n + 1
      <4>1. \A k \in Told(b) : k <= i
        BY <2>2, <2>3, <3>2
      <4>2. Word(b, i) = Level(b)
        BY <4>1 DEF StoryOf
      <4> QED
        BY <1>8, <1>10, <2>1, <3>2, <4>2
    <3> QED
      BY <3>1, <3>2
  <2>4. ASSUME NEW i \in Told(b) \cup {n + 1, 0}, \A k \in Told(b) \cup {n + 1} : k <= i
        PROVE  Word(b, i)' = Level(b)'
    <3>1. i = n + 1
      BY <2>2, <2>4
    <3> QED
      BY <2>1, <3>1
  <2>5. ASSUME NEW j \in Told(b) \cup {n + 1} PROVE ~(n + 1 < j)
    BY <2>2
  <2> QED
    BY <1>10, <2>2, <2>3, <2>4, <2>5 DEF StoryOf
<1> QED
  BY <1>9, <1>10

\* HOLD is no word on the level of a button.
LEMMA HoldTellsNothing ==
  ASSUME TypeOK, TypeOK', ~lost', \A c \in Buttons : StoryOf(c),
         NEW b \in Buttons, button_timer_handler(b), Expected(b), NEW c \in Buttons
  PROVE  StoryOf(c)'
<1>1. UNCHANGED <<ev, told, down>> /\ Send(Event("HOLD", b))
  BY DEF button_timer_handler
<1>2. Event("HOLD", b) \in Events /\ Event("HOLD", b).type = "HOLD"
  BY EventTypes
<1>3. PICK n \in Nat : n = Len(Pipeline)
  BY PipelineIs DEF PipelineFacts
<1>4. /\ Len(Pipeline') = n + 1 /\ Pipeline'[n + 1] = Event("HOLD", b)
      /\ \A k \in 1 .. n : Pipeline'[k] = Pipeline[k]
  BY <1>1, <1>2, <1>3, SendsLast
<1>5. /\ Told(c) = {k \in 1 .. n : Pipeline[k].id = c /\ Pipeline[k].type # "HOLD"}
      /\ Told(c)' = {k \in 1 .. n + 1 : Pipeline'[k].id = c /\ Pipeline'[k].type # "HOLD"}
  BY <1>3, <1>4, PipelineIs, PipelineWillBe DEF PipelineFacts, Told
<1>6. Told(c)' = Told(c)
  <2>1. \A k \in 1 .. n + 1 : k = n + 1 \/ k \in 1 .. n
    OBVIOUS
  <2> QED
    BY <1>2, <1>4, <1>5, <2>1
<1>7. \A i \in Told(c) \cup {0} : Word(c, i)' = Word(c, i)
  BY <1>1, <1>4, <1>5 DEF Word
<1> QED
  BY <1>1, <1>6, <1>7, SameStory

\* The task receives: what was first in the queue is still first in the pipeline.
LEMMA ReceiveKeepsPipeline ==
  ASSUME TypeOK, TypeOK', Receive
  PROVE  Pipeline' = Pipeline
<1>1. /\ ev = NoEvent /\ ev' # NoEvent /\ ev' = Head(button_queue)
      /\ button_queue \in Seq(Events) /\ button_queue # <<>> /\ button_queue' = Tail(button_queue)
  BY DEF Receive, TypeOK, Events, NoEvent
<1>2. Pipeline = button_queue
  BY <1>1, PipelineIs DEF PipelineFacts
<1>3. Pipeline' = <<Head(button_queue)>> \o Tail(button_queue)
  BY <1>1 DEF Pipeline
<1>4. button_queue = <<Head(button_queue)>> \o Tail(button_queue)
  BY <1>1, HeadTailProperties
<1> QED
  BY <1>2, <1>3, <1>4

\* The task tells Lua: the first word of the pipeline is now the last that Lua was told.
LEMMA PostTells ==
  ASSUME TypeOK, TypeOK', \A c \in Buttons : StoryOf(c), Post, NEW c \in Buttons
  PROVE  StoryOf(c)'
<1>1. /\ ev \in Events /\ ev # NoEvent /\ ev' = NoEvent
      /\ told' = IF ev.type = "HOLD" THEN told ELSE [told EXCEPT ![ev.id] = ev.type]
      /\ UNCHANGED <<down, button_queue>>
  BY ServedIs DEF Post, isrVars
<1>2. PICK n \in Nat : n = Len(button_queue)
  BY PipelineIs DEF PipelineFacts
<1>3. /\ Pipeline[1] = ev /\ Len(Pipeline) = n + 1 /\ Len(Pipeline') = n
      /\ \A k \in 1 .. n : Pipeline'[k] = Pipeline[k + 1]
  BY <1>1, <1>2, PipelineIs, PipelineWillBe DEF PipelineFacts, Places
<1>4. /\ Told(c) = {k \in 1 .. n + 1 : Pipeline[k].id = c /\ Pipeline[k].type # "HOLD"}
      /\ Told(c)' = {k \in 1 .. n : Pipeline'[k].id = c /\ Pipeline'[k].type # "HOLD"}
  BY <1>3, PipelineIs, PipelineWillBe DEF PipelineFacts, Told
\* Where a word was before the step.
<1> DEFINE was(i) == IF i # 0 THEN i + 1 ELSE IF 1 \in Told(c) THEN 1 ELSE 0
<1>5. /\ Told(c) \subseteq 1 .. n + 1 /\ Told(c)' \subseteq 1 .. n
      /\ \A k \in 1 .. n : k \in Told(c)' <=> k + 1 \in Told(c)
  BY <1>3, <1>4
<1>6. ASSUME NEW i \in Told(c)' \cup {0}
      PROVE  was(i) \in Told(c) \cup {0} /\ Word(c, i)' = Word(c, was(i))
  <2>1. CASE i # 0
    <3>1. i \in 1 .. n /\ i + 1 \in Told(c) /\ i + 1 # 0
      BY <1>5, <1>6, <2>1
    <3> QED
      BY <1>3, <2>1, <3>1 DEF Word
  <2>2. CASE i = 0 /\ 1 \in Told(c)
    <3>1. ev.id = c /\ ev.type # "HOLD"
      BY <1>3, <1>4, <2>2
    <3>2. told'[c] = ev.type
      BY <1>1, <3>1 DEF TypeOK
    <3> QED
      BY <1>3, <2>2, <3>2 DEF Word
  <2>3. CASE i = 0 /\ 1 \notin Told(c)
    <3>1. ev.id # c \/ ev.type = "HOLD"
      BY <1>3, <1>4, <2>3
    <3>2. told'[c] = told[c]
      BY <1>1, <3>1 DEF TypeOK
    <3> QED
      BY <2>3, <3>2 DEF Word
  <2> QED
    BY <2>1, <2>2, <2>3
<1>7. ASSUME NEW i \in Told(c)' \cup {0}, NEW k \in Told(c), was(i) < k
      PROVE  k - 1 \in Told(c)' /\ i < k - 1
  <2>1. k \in 1 .. n + 1 /\ k # 1
    BY <1>5, <1>7
  <2>2. k - 1 \in 1 .. n /\ (k - 1) + 1 = k
    BY <2>1
  <2> QED
    BY <1>5, <1>7, <2>1, <2>2
<1>8. ASSUME NEW i \in Told(c)' \cup {0}, NEW j \in Told(c)', i < j,
             \A k \in Told(c)' : ~(i < k /\ k < j)
      PROVE  Word(c, i)' # Word(c, j)'
  <2>1. was(i) < was(j) /\ was(j) = j + 1 /\ was(j) \in Told(c) /\ j \in 1 .. n
    BY <1>5, <1>8
  <2>2. \A k \in Told(c) : ~(was(i) < k /\ k < was(j))
    <3> SUFFICES ASSUME NEW k \in Told(c), was(i) < k, k < was(j) PROVE FALSE
      OBVIOUS
    <3>1. k - 1 \in Told(c)' /\ i < k - 1
      BY <1>7
    <3>2. k - 1 < j
      BY <1>5, <2>1
    <3> QED
      BY <1>8, <3>1, <3>2
  <2>3. Word(c, was(i)) # Word(c, was(j))
    <3> HIDE DEF was
    <3> QED
      BY <1>6, <1>8, <2>1, <2>2 DEF StoryOf
  <2> QED
    BY <1>6, <2>3
<1>9. ASSUME NEW i \in Told(c)' \cup {0}, \A k \in Told(c)' : k <= i
      PROVE  Word(c, i)' = Level(c)'
  <2>1. \A k \in Told(c) : k <= was(i)
    <3> SUFFICES ASSUME NEW k \in Told(c), ~(k <= was(i)) PROVE FALSE
      OBVIOUS
    <3>1. was(i) < k
      BY <1>5
    <3>2. k - 1 \in Told(c)' /\ i < k - 1
      BY <1>7, <3>1
    <3> QED
      BY <1>5, <1>9, <3>2
  <2>2. Word(c, was(i)) = Level(c)
    <3> HIDE DEF was
    <3> QED
      BY <1>6, <1>9, <2>1 DEF StoryOf
  <2>3. Level(c)' = Level(c)
    BY <1>1 DEF Level
  <2> QED
    BY <1>6, <1>9, <2>2, <2>3
<1> QED
  BY <1>8, <1>9 DEF StoryOf

\* StoryIsTrue is inductive over the types.
LEMMA NextStory ==
  ASSUME TypeOK, TypeOK', StoryIsTrue, [Next]_vars
  PROVE  StoryIsTrue'
<1> SUFFICES ASSUME ~lost', NEW c \in Buttons PROVE StoryOf(c)'
  BY DEF StoryIsTrue
<1>1. ASSUME Pipeline' = Pipeline, UNCHANGED <<told, down, lost>> PROVE StoryOf(c)'
  <2>1. Told(c)' = Told(c) /\ \A i : Word(c, i)' = Word(c, i)
    BY <1>1 DEF Told, Word
  <2> QED
    BY <1>1, <2>1, SameStory DEF StoryIsTrue
<1>2. ASSUME UNCHANGED <<ev, button_queue, told, down, lost>> PROVE StoryOf(c)'
  BY <1>1, <1>2 DEF Pipeline
<1>3. ASSUME NEW b \in Buttons, button_io_isr_handler(b) PROVE StoryOf(c)'
  <2>1. CASE Changed(b)
    <3>1. ~lost
      BY <1>3, <2>1 DEF button_io_isr_handler, Send
    <3> QED
      BY <1>3, <2>1, <3>1, PinTells DEF StoryIsTrue
  <2>2. CASE ~Changed(b)
    BY <1>2, <1>3, <2>2 DEF button_io_isr_handler
  <2> QED
    BY <2>1, <2>2
<1>4. ASSUME NEW b \in Buttons, button_timer_handler(b) PROVE StoryOf(c)'
  <2>1. CASE Expected(b)
    <3>1. ~lost
      BY <1>4, <2>1 DEF button_timer_handler, Send
    <3> QED
      BY <1>4, <2>1, <3>1, HoldTellsNothing DEF StoryIsTrue
  <2>2. CASE ~Expected(b)
    BY <1>2, <1>4, <2>2 DEF button_timer_handler
  <2> QED
    BY <2>1, <2>2
<1>5. CASE Receive
  BY <1>1, <1>5, ReceiveKeepsPipeline DEF Receive, isrVars
<1>6. CASE StartTimer \/ Mark \/ CheckHeld \/ Unmark \/ StopTimer \/ Reset
  BY <1>2, <1>6 DEF StartTimer, Mark, CheckHeld, Unmark, StopTimer, Reset, isrVars
<1>7. CASE Post
  <2>1. ~lost
    BY <1>7 DEF Post, isrVars
  <2> QED
    BY <1>7, <2>1, PostTells DEF StoryIsTrue
<1>8. ASSUME NEW b \in Buttons, PinChanges(b) PROVE StoryOf(c)'
  BY <1>2, <1>8 DEF PinChanges
<1>9. CASE UNCHANGED vars
  BY <1>2, <1>9 DEF vars
<1> QED
  BY <1>3, <1>4, <1>5, <1>6, <1>7, <1>8, <1>9 DEF Next, button_task

\* However its pin bounces, Lua is told of a button's presses and releases in turn, the
\* last of them as the pin interrupt saw it, unless an event was dropped.
THEOREM StoryIsAlwaysTrue == Spec => []StoryIsTrue
<1>1. Init => StoryIsTrue
  <2> SUFFICES ASSUME Init, NEW b \in Buttons PROVE StoryOf(b)
    BY DEF StoryIsTrue
  <2>1. Pipeline = <<>>
    BY DEF Init, Pipeline
  <2>2. Told(b) = {}
    BY <2>1 DEF Told
  <2>3. Word(b, 0) = "UP" /\ Level(b) = "UP"
    BY DEF Init, Word, Level
  <2> QED
    BY <2>2, <2>3 DEF StoryOf
<1>2. TypeOK /\ TypeOK' /\ StoryIsTrue /\ [Next]_vars => StoryIsTrue'
  BY NextStory
<1> QED
  BY <1>1, <1>2, TypeCorrect, PTL DEF Spec
=============================================================================
