----------------------------- MODULE LuaTimers ------------------------------
(***************************************************************************)
(* The life of a Lua timer.  dynawa.timer.start (lua/lib_dynawa_timer.c)   *)
(* allocates a Timer on the heap and hands its address to Lua as the       *)
(* handle; the class Timers keeps one event per handle.  The timer         *)
(* interrupt posts the handle on the event queue (lua_timer_handler), and  *)
(* the event loop of lua.c frees a one-shot timer and calls the receiver.  *)
(* dynawa.timer.cancel frees a timer that is still running.                *)
(*                                                                         *)
(* Lua runs in one task: a call and the handling of one event are atomic   *)
(* but for the interrupt, which only fires timers.  The list of running    *)
(* timers, SysTimer in detail, is the set of its members here.             *)
(***************************************************************************)
EXTENDS Naturals, Sequences, FiniteSets

CONSTANTS
  Blocks,           \* the heap blocks that a Timer may occupy
  MaxStarts,        \* bound on the number of timed events
  QueueLength,      \* length of the event queue: 100 in main.c
  Repeats,          \* the values of autorepeat that applications ask for
  Deletions         \* bound on the number of receivers that are deleted

ASSUME BoundsAssumption ==
  MaxStarts \in Nat /\ QueueLength \in Nat \ {0} /\ Deletions \in Nat
ASSUME ClientAssumption == Repeats \subseteq BOOLEAN

VARIABLES
  allocated,  \* the blocks that malloc has handed out
  magic,      \* the blocks whose field magic holds TIMER_MAGIC
  repeat,     \* the field repeat of each block
  listed,     \* the timers on timer_manager's list
  queue,      \* the event queue: records of a handle and, for the record, its timed event
  vectors,    \* Timers.timer_vectors: the timed event of a handle, 0 when it has none
  panic,      \* why the system has stopped: "none", "event_post_isr", "magic"
  started,    \* number of timed events so far: they are numbered 1, 2, ...
  block,      \* history: the handle that each timed event got
  repeating,  \* history: the timed events with autorepeat
  fired,      \* history: the timed events whose timer has expired
  delivered,  \* history: the timed events that reached their receiver
  cancelled,  \* history: the timed events that a cancel has reached
  deleted     \* the timed events whose receiver is deleted

heap    == <<allocated, magic, repeat>>
history == <<started, block, repeating>>
outcome == <<fired, delivered, cancelled, deleted>>
vars == <<heap, listed, queue, vectors, panic, history, outcome>>

Ids == 1 .. MaxStarts

Init ==
  /\ allocated = {} /\ magic = {} /\ repeat = [b \in Blocks |-> FALSE]
  /\ listed = {} /\ queue = <<>> /\ vectors = [b \in Blocks |-> 0]
  /\ panic = "none"
  /\ started = 0 /\ block = <<>> /\ repeating = {}
  /\ fired = {} /\ delivered = {} /\ cancelled = {} /\ deleted = {}

\* The timed event that the timer in block b was last started for.
EventOf(b) ==
  LET ids == {i \in 1 .. started : block[i] = b}
  IN  CHOOSE i \in ids : \A j \in ids : j <= i

-----------------------------------------------------------------------------
\* Timers.timed_event and dynawa.timer.start; malloc may return any free block.
l_start(b, r) ==
  /\ panic = "none" /\ started < MaxStarts
  /\ b \notin allocated
  /\ allocated' = allocated \cup {b}
  /\ magic' = magic \cup {b}
  /\ repeat' = [repeat EXCEPT ![b] = r]
  /\ listed' = listed \cup {b}
  /\ started' = started + 1
  /\ block' = Append(block, b)
  /\ repeating' = IF r THEN repeating \cup {started + 1} ELSE repeating
  /\ vectors' = [vectors EXCEPT ![b] = started + 1]
  /\ UNCHANGED <<queue, panic, outcome>>

\* free, guarded by the check of the magic number.
Free(b) ==
  IF b \in magic
  THEN magic' = magic \ {b} /\ allocated' = allocated \ {b} /\ UNCHANGED panic
  ELSE panic' = "magic" /\ UNCHANGED <<magic, allocated>>

\* Timer_stop: a timer on the list is unlinked and freed; any other is left alone.
\* faulty: the block is freed wherever the timer is
FreeAlways(b) == listed' = listed \ {b} /\ Free(b)

\* faulty: the timer is unlinked and never freed
UnlinkOnly(b) == listed' = listed \ {b} /\ UNCHANGED <<magic, allocated, panic>>

Timer_stop(b) ==
  IF b \in listed
  THEN listed' = listed \ {b} /\ Free(b)
  ELSE UNCHANGED <<listed, magic, allocated, panic>>

\* Timers.cancel with the handle that timed event i got, which may have expired
\* and name the timer of a later event by now.  No application cancels a
\* repeating timer.
VectorKept(b) == vectors[b] \* faulty variant of the next definition
VectorAfterCancel(b) == 0

Cancel(i) ==
  /\ panic = "none" /\ i \in 1 .. started
  /\ EventOf(block[i]) \notin repeating
  /\ Timer_stop(block[i])
  /\ vectors' = [vectors EXCEPT ![block[i]] = VectorAfterCancel(block[i])]
  /\ cancelled' = cancelled \cup ({vectors[block[i]]} \ {0})
  /\ UNCHANGED <<repeat, queue, history, fired, delivered, deleted>>

\* The receiver of timed event i is deleted; the event keeps its timer.
Delete(i) ==
  /\ panic = "none" /\ i \in 1 .. started \ deleted
  /\ Cardinality(deleted) < Deletions
  /\ deleted' = deleted \cup {i}
  /\ UNCHANGED <<heap, listed, queue, vectors, panic, history, fired, delivered, cancelled>>

-----------------------------------------------------------------------------
\* The timer interrupt: lua_timer_handler posts the handle, or panics.
\* faulty: an expired one-shot timer stays on the list
ListKept(b) == listed
ListAfterFire(b) == IF repeat[b] THEN listed ELSE listed \ {b}

Room == Len(queue) < QueueLength

Fire(b) ==
  /\ panic = "none" /\ b \in listed
  /\ listed' = ListAfterFire(b)
  /\ fired' = fired \cup {EventOf(b)}
  /\ IF Room
     THEN queue' = Append(queue, [handle |-> b, id |-> EventOf(b)]) /\ UNCHANGED panic
     ELSE panic' = "event_post_isr" /\ UNCHANGED queue
  /\ UNCHANGED <<heap, vectors, history, delivered, cancelled, deleted>>

\* The event loop: a timer that does not repeat is freed ...
\* what a freed block holds is whatever the heap has made of it.
FreeExpired(b) ==
  \E r \in IF b \in allocated THEN {repeat[b]} ELSE BOOLEAN :
    IF r THEN UNCHANGED <<magic, allocated, panic>> ELSE Free(b)

\* ... and Timers.dispatch_timed_event calls the receiver of the handle.
VectorAfterDispatch(b) ==
  IF vectors[b] \in repeating \ deleted THEN vectors[b] ELSE 0

\* faulty: a deleted receiver is called
ReceiverAlways(i) == {i} \ {0}
Receiver(i) == {i} \ (deleted \cup {0})

Dispatch ==
  /\ panic = "none" /\ queue # <<>>
  /\ queue' = Tail(queue)
  /\ LET b == Head(queue).handle
     IN  /\ FreeExpired(b)
         /\ IF panic' = "none"
            THEN /\ vectors' = [vectors EXCEPT ![b] = VectorAfterDispatch(b)]
                 /\ delivered' = delivered \cup Receiver(vectors[b])
            ELSE UNCHANGED <<vectors, delivered>>
  /\ UNCHANGED <<repeat, listed, history, fired, cancelled, deleted>>

Next ==
  \/ \E b \in Blocks, r \in Repeats : l_start(b, r)
  \/ \E i \in Ids : Cancel(i) \/ Delete(i)
  \/ \E b \in Blocks : Fire(b)
  \/ Dispatch

Spec == Init /\ [][Next]_vars

\* A running timer expires, and the Lua task gets to the events in its queue.
FairSpec == Spec /\ WF_vars(Dispatch) /\ \A b \in Blocks : WF_vars(Fire(b))

-----------------------------------------------------------------------------
(* Properties.                                                              *)

Entries == [handle : Blocks, id : Ids]

TypeOK ==
  /\ allocated \subseteq Blocks /\ magic \subseteq Blocks /\ listed \subseteq Blocks
  /\ repeat \in [Blocks -> BOOLEAN]
  /\ queue \in Seq(Entries) /\ Len(queue) <= QueueLength
  /\ vectors \in [Blocks -> Ids \cup {0}]
  /\ panic \in {"none", "event_post_isr", "magic"}
  /\ started \in 0 .. MaxStarts
  /\ block \in Seq(Blocks) /\ Len(block) = started
  /\ repeating \subseteq Ids
  /\ fired \subseteq Ids /\ delivered \subseteq Ids
  /\ cancelled \subseteq Ids /\ deleted \subseteq Ids

\* The interrupt walks live timers only: whatever is started, cancelled and
\* dispatched in between, no block is freed while its timer is on the list.
ListedIsLive == listed \subseteq allocated \cap magic

\* No block is lost: one that is allocated is a running timer, or its expiry is
\* still in the queue and its dispatch will free it.
NoLeak ==
  panic = "none" =>
    \A b \in allocated : b \in listed \/ \E k \in 1 .. Len(queue) : queue[k].handle = b

\* A handle that Lua knows, or that waits in the queue, is not reused: the
\* address of an expired timer names no other timer before its event is handled.
HandleIsUnique ==
  \A k \in 1 .. Len(queue) : EventOf(queue[k].handle) = queue[k].id

\* lua.c panics "EVENT_TIMER_FIRED", and timer.c "Timer_stop 3", when the magic
\* number of a timer that they are about to free is not TIMER_MAGIC: a timer is
\* freed once.
MagicHolds == panic # "magic"

\* Both: a timer is freed once, and not while the interrupt may still walk over it.
FreedOnce == ListedIsLive /\ MagicHolds

\* LuaTimers implements TimerService.
Status(i) ==
  IF i > started THEN "unused"
  ELSE IF i \in delivered THEN "delivered"
  ELSE IF i \in cancelled \cup deleted THEN "cancelled"
  ELSE IF panic = "event_post_isr" THEN "lost"
  ELSE IF i \in fired THEN "due" ELSE "pending"

StatusOf == [i \in Ids |-> Status(i)]

Service == INSTANCE TimerService WITH status <- StatusOf

\* timer.c: "If you have set up a handler with setHandler() then your handler
\* function will get called": a timed event reaches its receiver, not before its
\* timer has expired and never after it was cancelled or its receiver deleted,
\* although handles are addresses that malloc hands out again; only the panic of a
\* full event queue loses it.
ServiceSpec == Service!Spec
=============================================================================
