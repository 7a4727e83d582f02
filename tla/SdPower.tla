------------------------------ MODULE SdPower -------------------------------
(***************************************************************************)
(* Access to the SD card and its power management: src/core/sdcard/        *)
(* sdcard.c over the SPI bus of src/core/peripherals/spi.c.  Every sector  *)
(* access is bracketed by sd_lock, which powers the card on when needed    *)
(* and takes the bus, and sd_unlock, which starts a one-shot timer.  Its   *)
(* expiry is posted to the sd task, which cuts the power.  The bus is      *)
(* shared with the accelerometer task, and sd_mutex orders power on and    *)
(* power off.                                                              *)
(*                                                                         *)
(* The flags sd_pm and sd_ready are read outside sd_mutex, so each read is *)
(* a step of its own.  A sector's content is abstracted to whether the     *)
(* card stayed powered for as long as the transfer took.                   *)
(***************************************************************************)
EXTENDS Naturals

CONSTANTS
  Clients,      \* tasks that read and write sectors: the Lua task, USB mass storage
  LowPriority,  \* clients that run only when the sd task cannot
  PmClients,    \* clients that call sd_set_pm
  Sensors,      \* other tasks on the bus: the accelerometer
  SdTask,       \* the task sd_task
  Nobody,       \* the owner of a free mutex
  InitOutcomes  \* what the card may make of _sd_init: "ok", "error", "idle"

ASSUME TasksAssumption ==
  /\ LowPriority \subseteq Clients /\ PmClients \subseteq Clients
  /\ Clients \cap Sensors = {}
  /\ SdTask \notin Clients \cup Sensors
  /\ Nobody \notin Clients \cup Sensors \cup {SdTask}
ASSUME OutcomesAssumption == InitOutcomes \subseteq {"ok", "error", "idle"}

VARIABLES
  sd_mutex,    \* owner of the power mutex
  spi_mutex,   \* owner of the bus
  sd_ready,    \* the flag: powered on and initialised
  sd_timeout,  \* the flag: the power-down timer is running
  sd_pm,       \* the flag: power management is on
  card,        \* the card itself: "off", "idle" (powered, not initialised), "ready"
  sd_timer,    \* TRUE while the timer is running
  sd_queue,    \* number of expiry events in the queue of the sd task
  sd_task,     \* what the sd task does: "wait", "take", "cut"
  pc,          \* where each client is in sd_readsector or sd_writesector
  op,          \* the access under way, or the last one: "read" or "write"
  result,      \* what the access returned: "none" while it lasts, "ok" or "error"
  intact       \* history: the card has been powered since the access was accepted

flags  == <<sd_ready, sd_timeout, sd_pm>>
access == <<op, result, intact>>
vars == <<sd_mutex, spi_mutex, flags, card, sd_timer, sd_queue, sd_task, pc, access>>

QUEUE_LENGTH == 1

\* sd_init leaves the card switched off and starts the sd task.
Init ==
  /\ sd_mutex = Nobody /\ spi_mutex = Nobody
  /\ sd_ready = FALSE /\ sd_timeout = FALSE /\ sd_pm = TRUE
  /\ card = "off" /\ sd_timer = FALSE /\ sd_queue = 0 /\ sd_task = "wait"
  /\ pc = [c \in Clients |-> "idle"]
  /\ op = [c \in Clients |-> "read"] /\ result = [c \in Clients |-> "none"]
  /\ intact = [c \in Clients |-> TRUE]

\* The scheduler is preemptive with strict priorities.
SdTaskReady ==
  \/ sd_task = "wait" /\ sd_queue > 0
  \/ sd_task = "take" /\ sd_mutex = Nobody
  \/ sd_task = "cut"

At(c, label) == pc[c] = label /\ (c \in LowPriority => ~SdTaskReady)

GoTo(c, label) == pc' = [pc EXCEPT ![c] = label]

\* faulty: the lock that gives up after a second
BusByTimeout == TRUE
BusFree == spi_mutex = Nobody

-----------------------------------------------------------------------------
(* sd_lock.                                                                 *)

Begin(c, o) ==
  /\ At(c, "idle")
  /\ op' = [op EXCEPT ![c] = o]
  /\ result' = [result EXCEPT ![c] = "none"]
  /\ intact' = [intact EXCEPT ![c] = TRUE]
  /\ GoTo(c, "test")
  /\ UNCHANGED <<sd_mutex, spi_mutex, flags, card, sd_timer, sd_queue, sd_task>>

TestPm(c) ==
  /\ At(c, "test")
  /\ GoTo(c, IF sd_pm \/ ~sd_ready THEN "mutex" ELSE "bus")
  /\ UNCHANGED <<sd_mutex, spi_mutex, flags, card, sd_timer, sd_queue, sd_task, access>>

TakeMutex(c) ==
  /\ At(c, "mutex") /\ sd_mutex = Nobody
  /\ sd_mutex' = c
  /\ GoTo(c, "held")
  /\ UNCHANGED <<spi_mutex, flags, card, sd_timer, sd_queue, sd_task, access>>

\* The timer is stopped when the flag says that it runs; a card that is not
\* ready is switched on.
TimerKept == sd_timer \* faulty variant of the next definition
TimerAfterLock == sd_timer /\ ~sd_timeout

LockReady(c) ==
  /\ At(c, "held") /\ sd_ready
  /\ sd_timer' = TimerAfterLock
  /\ sd_timeout' = FALSE
  /\ sd_mutex' = Nobody
  /\ GoTo(c, "bus")
  /\ UNCHANGED <<spi_mutex, sd_ready, sd_pm, card, sd_queue, sd_task, access>>

PowerOn(c) ==
  /\ At(c, "held") /\ ~sd_ready
  /\ sd_timer' = TimerAfterLock
  /\ sd_timeout' = FALSE
  /\ card' = "idle"
  /\ GoTo(c, "initbus")
  /\ UNCHANGED <<sd_mutex, spi_mutex, sd_ready, sd_pm, sd_queue, sd_task, access>>

InitTakeBus(c) ==
  /\ At(c, "initbus") /\ BusFree
  /\ spi_mutex' = c
  /\ GoTo(c, "init")
  /\ UNCHANGED <<sd_mutex, flags, card, sd_timer, sd_queue, sd_task, access>>

\* _sd_init gives the bus back, unless the card never answers CMD0.
\* faulty: no error path gives it back
ReleasedOnSuccess(o) == o = "ok"
ReleasesBus(o) == o # "idle"

InitCard(c, o) ==
  /\ At(c, "init")
  /\ card' = IF o = "ok" THEN "ready" ELSE card
  /\ spi_mutex' = IF ReleasesBus(o) THEN Nobody ELSE spi_mutex
  /\ GoTo(c, "powered")
  /\ UNCHANGED <<sd_mutex, flags, sd_timer, sd_queue, sd_task, access>>

\* sd_lock ignores the error code of _sd_init.
PoweredOn(c) ==
  /\ At(c, "powered")
  /\ sd_ready' = TRUE
  /\ sd_mutex' = Nobody
  /\ GoTo(c, "bus")
  /\ UNCHANGED <<spi_mutex, sd_timeout, sd_pm, card, sd_timer, sd_queue, sd_task, access>>

TakeBus(c) ==
  /\ At(c, "bus") /\ BusFree
  /\ spi_mutex' = c
  /\ GoTo(c, "command")
  /\ UNCHANGED <<sd_mutex, flags, card, sd_timer, sd_queue, sd_task, access>>

-----------------------------------------------------------------------------
(* sd_readsector and sd_writesector, and sd_unlock.                         *)

\* faulty: the timer is started while the bus is still held
ReturnHoldingBus(c, r) ==
  /\ result' = [result EXCEPT ![c] = r]
  /\ GoTo(c, "arm")
  /\ UNCHANGED <<sd_mutex, spi_mutex, flags, card, sd_timer, sd_queue, sd_task, op, intact>>

Return(c, r) ==
  /\ result' = [result EXCEPT ![c] = r]
  /\ spi_mutex' = Nobody
  /\ GoTo(c, "unlock")
  /\ UNCHANGED <<sd_mutex, flags, card, sd_timer, sd_queue, sd_task, op, intact>>

Continue(c, label) ==
  /\ GoTo(c, label)
  /\ UNCHANGED <<sd_mutex, spi_mutex, flags, card, sd_timer, sd_queue, sd_task, access>>

\* The command and its response: a card that is not ready does not accept it.
Command(c) ==
  /\ At(c, "command")
  /\ \/ card = "ready" /\ Continue(c, "data")
     \/ Return(c, "error")

\* The DMA transfer.  What is read is not checked; the card acknowledges what is
\* written.
Data(c) ==
  /\ At(c, "data")
  /\ \/ op[c] = "read" /\ Return(c, "ok")
     \/ op[c] = "write" /\ card = "ready" /\ Continue(c, "busy")
     \/ op[c] = "write" /\ Return(c, "error")

\* The card holds the line low until it has written; the line of a card without
\* power may read high or low.
Busy(c) ==
  /\ At(c, "busy")
  /\ \E r \in {"ok", "error"} : Return(c, r)

UnlockTestPm(c) ==
  /\ At(c, "unlock")
  /\ GoTo(c, IF sd_pm THEN "arm" ELSE "idle")
  /\ UNCHANGED <<sd_mutex, spi_mutex, flags, card, sd_timer, sd_queue, sd_task, access>>

sd_start_timer(c) ==
  /\ At(c, "arm") /\ sd_mutex = Nobody
  /\ sd_timer' = TRUE
  /\ sd_timeout' = TRUE
  /\ GoTo(c, "idle")
  /\ UNCHANGED <<sd_mutex, spi_mutex, sd_ready, sd_pm, card, sd_queue, sd_task, access>>

AfterSetPmIdle(on) == "idle" \* faulty variant of the next definition
AfterSetPm(on) == IF on THEN "arm" ELSE "idle"

sd_set_pm(c) ==
  /\ At(c, "idle") /\ c \in PmClients
  /\ sd_pm' = ~sd_pm
  /\ GoTo(c, AfterSetPm(sd_pm'))
  /\ UNCHANGED <<sd_mutex, spi_mutex, sd_ready, sd_timeout, card, sd_timer, sd_queue,
                 sd_task, access>>

-----------------------------------------------------------------------------
(* The timer's interrupt and the sd task.                                   *)

\* faulty: a queue without a limit
Posted == sd_queue + 1
QueueAfterPost == IF sd_queue < QUEUE_LENGTH THEN sd_queue + 1 ELSE sd_queue

sd_timer_handler ==
  /\ sd_timer
  /\ sd_timer' = FALSE
  /\ sd_queue' = QueueAfterPost
  /\ UNCHANGED <<sd_mutex, spi_mutex, flags, card, sd_task, pc, access>>

SdReceive ==
  /\ sd_task = "wait" /\ sd_queue > 0
  /\ sd_queue' = sd_queue - 1
  /\ sd_task' = "take"
  /\ UNCHANGED <<sd_mutex, spi_mutex, flags, card, sd_timer, pc, access>>

InTransfer(c) == pc[c] \in {"data", "busy"}

SdCut ==
  /\ sd_task = "take" /\ sd_mutex = Nobody
  /\ sd_mutex' = SdTask
  /\ sd_timeout' = FALSE
  /\ card' = IF sd_ready THEN "off" ELSE card
  /\ intact' = [c \in Clients |-> intact[c] /\ ~(InTransfer(c) /\ sd_ready)]
  /\ sd_task' = "cut"
  /\ UNCHANGED <<spi_mutex, sd_ready, sd_pm, sd_timer, sd_queue, pc, op, result>>

ReadyKept == sd_ready \* faulty variant of the next definition
ReadyAfterCut == FALSE

SdDone ==
  /\ sd_task = "cut"
  /\ sd_ready' = ReadyAfterCut
  /\ sd_mutex' = Nobody
  /\ sd_task' = "wait"
  /\ UNCHANGED <<spi_mutex, sd_timeout, sd_pm, card, sd_timer, sd_queue, pc, access>>

-----------------------------------------------------------------------------
(* The accelerometer task reads its registers over the same bus.            *)

SensorTakeBus(s) ==
  /\ BusFree
  /\ spi_mutex' = s
  /\ UNCHANGED <<sd_mutex, flags, card, sd_timer, sd_queue, sd_task, pc, access>>

SensorGiveBus(s) ==
  /\ spi_mutex = s
  /\ spi_mutex' = Nobody
  /\ UNCHANGED <<sd_mutex, flags, card, sd_timer, sd_queue, sd_task, pc, access>>

-----------------------------------------------------------------------------
Lock(c) ==
  \/ TestPm(c) \/ TakeMutex(c) \/ LockReady(c) \/ PowerOn(c)
  \/ InitTakeBus(c) \/ (\E o \in InitOutcomes : InitCard(c, o)) \/ PoweredOn(c)
  \/ TakeBus(c)

Transfer(c) == Command(c) \/ Data(c) \/ Busy(c)

Unlock(c) == UnlockTestPm(c) \/ sd_start_timer(c)

Call(c) == (\E o \in {"read", "write"} : Begin(c, o)) \/ sd_set_pm(c)

SdStep == SdReceive \/ SdCut \/ SdDone

Next ==
  \/ \E c \in Clients : Call(c) \/ Lock(c) \/ Transfer(c) \/ Unlock(c)
  \/ \E s \in Sensors : SensorTakeBus(s) \/ SensorGiveBus(s)
  \/ sd_timer_handler
  \/ SdStep

Spec == Init /\ [][Next]_vars

\* A task that can run is scheduled, and a task that waits for the bus is once
\* scheduled while it is free: the accelerometer holds it for a few bytes per event.
Fairness ==
  /\ WF_vars(SdStep) /\ WF_vars(sd_timer_handler)
  /\ \A s \in Sensors : WF_vars(SensorGiveBus(s))
  /\ \A c \in Clients : /\ SF_vars(Lock(c))
                        /\ WF_vars(Transfer(c))
                        /\ WF_vars(Unlock(c))

FairSpec == Spec /\ Fairness

-----------------------------------------------------------------------------
(* Properties.                                                              *)

Labels == {"idle", "test", "mutex", "held", "initbus", "init", "powered", "bus",
           "command", "data", "busy", "unlock", "arm"}

TypeOK ==
  /\ sd_mutex \in Clients \cup {SdTask, Nobody}
  /\ spi_mutex \in Clients \cup Sensors \cup {Nobody}
  /\ sd_ready \in BOOLEAN /\ sd_timeout \in BOOLEAN /\ sd_pm \in BOOLEAN
  /\ card \in {"off", "idle", "ready"}
  /\ sd_timer \in BOOLEAN /\ sd_queue \in 0 .. QUEUE_LENGTH
  /\ sd_task \in {"wait", "take", "cut"}
  /\ pc \in [Clients -> Labels]
  /\ op \in [Clients -> {"read", "write"}]
  /\ result \in [Clients -> {"none", "ok", "error"}]
  /\ intact \in [Clients -> BOOLEAN]

UsesBus(c) == pc[c] \in {"init", "command", "data", "busy"}

\* A command, its data and its acknowledgement reach the card as one sequence:
\* while a client talks to the card no other client, and no sensor, uses the bus,
\* whichever of the error paths of _sd_init and of the accesses were taken.
BusExclusive == \A c \in Clients : UsesBus(c) => spi_mutex = c

\* The lock order.  sd_mutex is taken before the bus and never while the bus is
\* held, so the tasks of the card and the accelerometer cannot wait for each
\* other in a circle, nor a task for itself.
LockOrder ==
  \A c \in Clients : spi_mutex = c => pc[c] \notin {"mutex", "held", "initbus", "bus", "arm"}

\* What the flag tells a client that reads it without the mutex is true of the
\* card unless a switch is under way: the card is powered exactly when sd_ready is set.
PoweredWhenReady == sd_mutex = Nobody => (sd_ready <=> card # "off")

\* Why PoweredWhenReady holds: the owner of sd_mutex is the task that is in the
\* middle of a switch, and it finds the flag and the card in step.
Switching(c) == pc[c] \in {"initbus", "init", "powered"}

PowerInv ==
  /\ PoweredWhenReady
  /\ sd_task = "cut" => sd_mutex = SdTask /\ card = "off"
  /\ \A c \in Clients :
       /\ pc[c] = "held" \/ Switching(c) => sd_mutex = c
       /\ pc[c] = "held" => (sd_ready <=> card # "off")
       /\ Switching(c) => ~sd_ready /\ card # "off"

\* The card is never left powered for ever: with power management on, a powered
\* card that no client uses has its timer running or an expiry on its way, also
\* after power management was switched off and on again in the middle of an access.
WillPowerDown ==
  sd_pm /\ card # "off" /\ (\A c \in Clients : pc[c] = "idle")
    => sd_timer \/ sd_queue > 0 \/ sd_task # "wait"

\* The doc comments of sd_readsector and sd_writesector: "Read a single 512 byte
\* sector from the SD card ... return 0 on success".  An access that returns 0
\* was not cut from power after the card accepted its command.
OkMeansIntact == \A c \in Clients : result[c] = "ok" => intact[c]

\* The doc comments of the accesses name two outcomes, "0 on success, -1 on error":
\* every access returns, also when the card does not answer.
AccessReturns == \A c \in Clients : (pc[c] = "test") ~> (pc[c] = "idle")
=============================================================================
