--------------------------- MODULE SdPower_proofs ---------------------------
(* Proofs about SdPower, for any number of clients and sensors.  The steps   *)
(* of a client are treated in the order in which an access takes them.       *)
EXTENDS SdPower, TLAPS

\* Every step keeps every variable of the card's power management in its type:
\* the event queue in particular never holds more than it has room for.
LEMMA TypeStep == ASSUME TypeOK, [Next]_vars PROVE TypeOK'
<1> USE TasksAssumption, OutcomesAssumption DEF TypeOK, flags, access, GoTo, At, Labels
<1>1. ASSUME NEW c \in Clients, Call(c) PROVE TypeOK'
  <2>1. ASSUME NEW o \in {"read", "write"}, Begin(c, o) PROVE TypeOK'
    BY <2>1 DEF Begin
  <2>2. CASE sd_set_pm(c)
    BY <2>2 DEF sd_set_pm, AfterSetPm
  <2> QED BY <1>1, <2>1, <2>2 DEF Call
<1>2. ASSUME NEW c \in Clients, Lock(c) PROVE TypeOK'
  <2>1. CASE TestPm(c)        BY <2>1 DEF TestPm
  <2>2. CASE TakeMutex(c)     BY <2>2 DEF TakeMutex
  <2>3. CASE LockReady(c)     BY <2>3 DEF LockReady, TimerAfterLock
  <2>4. CASE PowerOn(c)       BY <2>4 DEF PowerOn, TimerAfterLock
  <2>5. CASE InitTakeBus(c)   BY <2>5 DEF InitTakeBus
  <2>6. ASSUME NEW o \in InitOutcomes, InitCard(c, o) PROVE TypeOK'
    BY <2>6 DEF InitCard
  <2>7. CASE PoweredOn(c)     BY <2>7 DEF PoweredOn
  <2>8. CASE TakeBus(c)       BY <2>8 DEF TakeBus
  <2> QED BY <1>2, <2>1, <2>2, <2>3, <2>4, <2>5, <2>6, <2>7, <2>8 DEF Lock
<1>3. ASSUME NEW c \in Clients, Transfer(c) PROVE TypeOK'
  <2>1. ASSUME NEW r \in {"ok", "error"}, Return(c, r) PROVE TypeOK'
    BY <2>1 DEF Return
  <2>2. ASSUME NEW l \in Labels, Continue(c, l) PROVE TypeOK'
    BY <2>2 DEF Continue
  <2>3. {"data", "busy"} \subseteq Labels
    OBVIOUS
  <2> HIDE DEF TypeOK, Labels
  <2> QED BY <1>3, <2>1, <2>2, <2>3 DEF Transfer, Command, Data, Busy
<1>4. ASSUME NEW c \in Clients, Unlock(c) PROVE TypeOK'
  BY <1>4 DEF Unlock, UnlockTestPm, sd_start_timer
<1>5. ASSUME NEW s \in Sensors, SensorTakeBus(s) \/ SensorGiveBus(s) PROVE TypeOK'
  BY <1>5 DEF SensorTakeBus, SensorGiveBus
<1>6. CASE sd_timer_handler
  <2>1. sd_queue' \in 0 .. QUEUE_LENGTH
    BY <1>6, SMT DEF sd_timer_handler, QueueAfterPost, QUEUE_LENGTH
  <2> QED BY <1>6, <2>1 DEF sd_timer_handler
<1>7. CASE SdStep
  <2>1. CASE SdReceive BY <2>1 DEF SdReceive, QUEUE_LENGTH
  <2>2. CASE SdCut     BY <2>2 DEF SdCut
  <2>3. CASE SdDone    BY <2>3 DEF SdDone, ReadyAfterCut
  <2> QED BY <1>7, <2>1, <2>2, <2>3 DEF SdStep
<1>8. CASE UNCHANGED vars
  BY <1>8 DEF vars
<1> HIDE DEF TypeOK
<1> QED BY <1>1, <1>2, <1>3, <1>4, <1>5, <1>6, <1>7, <1>8 DEF Next

\* TypeOK is an invariant, whatever the tasks, their priorities and the card's answers.
THEOREM TypeCorrect == Spec => []TypeOK
<1>1. Init => TypeOK
  <2>1. 0 \in 0 .. QUEUE_LENGTH
    BY DEF QUEUE_LENGTH
  <2> QED BY <2>1, TasksAssumption DEF Init, TypeOK, Labels
<1>2. TypeOK /\ [Next]_vars => TypeOK'
  BY TypeStep
<1> QED BY <1>1, <1>2, PTL DEF Spec

-----------------------------------------------------------------------------
\* The bus.  One step moves either the bus or the clients that use it, and a
\* client that starts to use the bus has just taken it.
LEMMA BusStep == ASSUME TypeOK, BusExclusive, [Next]_vars PROVE BusExclusive'
<1> USE TasksAssumption DEF TypeOK, BusExclusive, UsesBus, flags, access, GoTo, At, Labels
<1>1. ASSUME NEW c \in Clients, Call(c) PROVE BusExclusive'
  <2>1. ASSUME NEW o \in {"read", "write"}, Begin(c, o) PROVE BusExclusive'
    BY <2>1 DEF Begin
  <2>2. CASE sd_set_pm(c)
    BY <2>2 DEF sd_set_pm, AfterSetPm
  <2> QED BY <1>1, <2>1, <2>2 DEF Call
<1>2. ASSUME NEW c \in Clients, Lock(c) PROVE BusExclusive'
  <2>1. CASE TestPm(c)        BY <2>1 DEF TestPm
  <2>2. CASE TakeMutex(c)     BY <2>2 DEF TakeMutex
  <2>3. CASE LockReady(c)     BY <2>3 DEF LockReady
  <2>4. CASE PowerOn(c)       BY <2>4 DEF PowerOn
  <2>5. CASE InitTakeBus(c)   BY <2>5 DEF InitTakeBus, BusFree
  <2>6. ASSUME NEW o \in InitOutcomes, InitCard(c, o) PROVE BusExclusive'
    BY <2>6 DEF InitCard
  <2>7. CASE PoweredOn(c)     BY <2>7 DEF PoweredOn
  <2>8. CASE TakeBus(c)       BY <2>8 DEF TakeBus, BusFree
  <2> QED BY <1>2, <2>1, <2>2, <2>3, <2>4, <2>5, <2>6, <2>7, <2>8 DEF Lock
<1>3. ASSUME NEW c \in Clients, Transfer(c) PROVE BusExclusive'
  <2>1. ASSUME NEW r \in {"ok", "error"}, Return(c, r), UsesBus(c) PROVE BusExclusive'
    BY <2>1 DEF Return
  <2>2. ASSUME NEW l \in {"data", "busy"}, Continue(c, l), UsesBus(c) PROVE BusExclusive'
    BY <2>2 DEF Continue
  <2> QED BY <1>3, <2>1, <2>2 DEF Transfer, Command, Data, Busy
<1>4. ASSUME NEW c \in Clients, Unlock(c) PROVE BusExclusive'
  BY <1>4 DEF Unlock, UnlockTestPm, sd_start_timer
<1>5. ASSUME NEW s \in Sensors, SensorTakeBus(s) \/ SensorGiveBus(s) PROVE BusExclusive'
  BY <1>5 DEF SensorTakeBus, SensorGiveBus, BusFree
<1>6. CASE sd_timer_handler
  BY <1>6 DEF sd_timer_handler
<1>7. CASE SdStep
  BY <1>7 DEF SdStep, SdReceive, SdCut, SdDone
<1>8. CASE UNCHANGED vars
  BY <1>8 DEF vars
<1> QED BY <1>1, <1>2, <1>3, <1>4, <1>5, <1>6, <1>7, <1>8 DEF Next

\* No two tasks talk on the SPI bus at once, whatever the errors of the card.
THEOREM BusIsExclusive == Spec => []BusExclusive
<1>1. Init => BusExclusive
  BY DEF Init, BusExclusive, UsesBus
<1>2. TypeOK /\ BusExclusive /\ [Next]_vars => BusExclusive'
  BY BusStep
<1> QED BY <1>1, <1>2, TypeCorrect, PTL DEF Spec

-----------------------------------------------------------------------------
\* The lock order.  A client that owns the bus is using it, provided that every
\* path of _sd_init gives the bus back.
HolderUsesBus == \A c \in Clients : spi_mutex = c => UsesBus(c)

LEMMA HolderStep ==
  ASSUME "idle" \notin InitOutcomes, TypeOK, BusExclusive, HolderUsesBus, [Next]_vars
  PROVE  HolderUsesBus'
<1> USE TasksAssumption
    DEF TypeOK, BusExclusive, HolderUsesBus, UsesBus, flags, access, GoTo, At, Labels
<1>1. ASSUME NEW c \in Clients, Call(c) PROVE HolderUsesBus'
  <2>1. ASSUME NEW o \in {"read", "write"}, Begin(c, o) PROVE HolderUsesBus'
    BY <2>1 DEF Begin
  <2>2. CASE sd_set_pm(c)
    BY <2>2 DEF sd_set_pm, AfterSetPm
  <2> QED BY <1>1, <2>1, <2>2 DEF Call
<1>2. ASSUME NEW c \in Clients, Lock(c) PROVE HolderUsesBus'
  <2>1. CASE TestPm(c)        BY <2>1 DEF TestPm
  <2>2. CASE TakeMutex(c)     BY <2>2 DEF TakeMutex
  <2>3. CASE LockReady(c)     BY <2>3 DEF LockReady
  <2>4. CASE PowerOn(c)       BY <2>4 DEF PowerOn
  <2>5. CASE InitTakeBus(c)   BY <2>5 DEF InitTakeBus, BusFree
  <2>6. ASSUME NEW o \in InitOutcomes, InitCard(c, o) PROVE HolderUsesBus'
    BY <2>6 DEF InitCard, ReleasesBus
  <2>7. CASE PoweredOn(c)     BY <2>7 DEF PoweredOn
  <2>8. CASE TakeBus(c)       BY <2>8 DEF TakeBus, BusFree
  <2> QED BY <1>2, <2>1, <2>2, <2>3, <2>4, <2>5, <2>6, <2>7, <2>8 DEF Lock
<1>3. ASSUME NEW c \in Clients, Transfer(c) PROVE HolderUsesBus'
  <2>1. ASSUME NEW r \in {"ok", "error"}, Return(c, r) PROVE HolderUsesBus'
    BY <2>1 DEF Return
  <2>2. ASSUME NEW l \in {"data", "busy"}, Continue(c, l) PROVE HolderUsesBus'
    BY <2>2 DEF Continue
  <2> QED BY <1>3, <2>1, <2>2 DEF Transfer, Command, Data, Busy
<1>4. ASSUME NEW c \in Clients, Unlock(c) PROVE HolderUsesBus'
  BY <1>4 DEF Unlock, UnlockTestPm, sd_start_timer
<1>5. ASSUME NEW s \in Sensors, SensorTakeBus(s) \/ SensorGiveBus(s) PROVE HolderUsesBus'
  BY <1>5 DEF SensorTakeBus, SensorGiveBus, BusFree
<1>6. CASE sd_timer_handler
  BY <1>6 DEF sd_timer_handler
<1>7. CASE SdStep
  BY <1>7 DEF SdStep, SdReceive, SdCut, SdDone
<1>8. CASE UNCHANGED vars
  BY <1>8 DEF vars
<1> HIDE DEF HolderUsesBus
<1> QED BY <1>1, <1>2, <1>3, <1>4, <1>5, <1>6, <1>7, <1>8 DEF Next

\* With a card that answers CMD0, no task waits for sd_mutex, or for the bus,
\* while it owns the bus: the two mutexes are always taken in the same order.
THEOREM LockOrderKept == ASSUME "idle" \notin InitOutcomes PROVE Spec => []LockOrder
<1>1. Init => HolderUsesBus
  BY TasksAssumption DEF Init, HolderUsesBus
<1>2. TypeOK /\ BusExclusive /\ HolderUsesBus /\ [Next]_vars => HolderUsesBus'
  BY HolderStep
<1>3. HolderUsesBus => LockOrder
  BY DEF HolderUsesBus, LockOrder, UsesBus
<1> QED BY <1>1, <1>2, <1>3, TypeCorrect, BusIsExclusive, PTL DEF Spec

-----------------------------------------------------------------------------
\* The power switch, by its invariant PowerInv: the owner of sd_mutex is the one
\* task between a change of the card and the change of the flag.
LEMMA PowerStep == ASSUME TypeOK, PowerInv, [Next]_vars PROVE PowerInv'
<1> USE TasksAssumption, OutcomesAssumption
    DEF TypeOK, PowerInv, PoweredWhenReady, Switching, flags, access, GoTo, At, Labels
<1>1. ASSUME NEW c \in Clients, Call(c) PROVE PowerInv'
  <2>1. ASSUME NEW o \in {"read", "write"}, Begin(c, o) PROVE PowerInv'
    BY <2>1 DEF Begin
  <2>2. CASE sd_set_pm(c)
    BY <2>2 DEF sd_set_pm, AfterSetPm
  <2> QED BY <1>1, <2>1, <2>2 DEF Call
<1>2. ASSUME NEW c \in Clients, Lock(c) PROVE PowerInv'
  <2>1. CASE TestPm(c)        BY <2>1 DEF TestPm
  <2>2. CASE TakeMutex(c)     BY <2>2 DEF TakeMutex
  <2>3. CASE LockReady(c)     BY <2>3 DEF LockReady
  <2>4. CASE PowerOn(c)       BY <2>4 DEF PowerOn
  <2>5. CASE InitTakeBus(c)   BY <2>5 DEF InitTakeBus
  <2>6. ASSUME NEW o \in InitOutcomes, InitCard(c, o) PROVE PowerInv'
    BY <2>6 DEF InitCard
  <2>7. CASE PoweredOn(c)     BY <2>7 DEF PoweredOn
  <2>8. CASE TakeBus(c)       BY <2>8 DEF TakeBus
  <2> QED BY <1>2, <2>1, <2>2, <2>3, <2>4, <2>5, <2>6, <2>7, <2>8 DEF Lock
<1>3. ASSUME NEW c \in Clients, Transfer(c) PROVE PowerInv'
  <2>1. ASSUME NEW r \in {"ok", "error"}, Return(c, r) PROVE PowerInv'
    BY <2>1 DEF Return
  <2>2. ASSUME NEW l \in {"data", "busy"}, Continue(c, l) PROVE PowerInv'
    BY <2>2 DEF Continue
  <2> HIDE DEF PowerInv
  <2> QED BY <1>3, <2>1, <2>2 DEF Transfer, Command, Data, Busy
<1>4. ASSUME NEW c \in Clients, Unlock(c) PROVE PowerInv'
  BY <1>4 DEF Unlock, UnlockTestPm, sd_start_timer
<1>5. ASSUME NEW s \in Sensors, SensorTakeBus(s) \/ SensorGiveBus(s) PROVE PowerInv'
  BY <1>5 DEF SensorTakeBus, SensorGiveBus
<1>6. CASE sd_timer_handler
  BY <1>6 DEF sd_timer_handler
<1>7. CASE SdStep
  <2>1. CASE SdReceive BY <2>1 DEF SdReceive
  <2>2. CASE SdCut     BY <2>2 DEF SdCut
  <2>3. CASE SdDone    BY <2>3 DEF SdDone, ReadyAfterCut
  <2> QED BY <1>7, <2>1, <2>2, <2>3 DEF SdStep
<1>8. CASE UNCHANGED vars
  BY <1>8 DEF vars
<1> HIDE DEF PowerInv
<1> QED BY <1>1, <1>2, <1>3, <1>4, <1>5, <1>6, <1>7, <1>8 DEF Next

\* Whenever sd_mutex is free, sd_ready tells the truth about the card's power.
THEOREM FlagTellsPower == Spec => []PoweredWhenReady
<1>1. Init => PowerInv
  BY DEF Init, PowerInv, PoweredWhenReady, Switching
<1>2. TypeOK /\ PowerInv /\ [Next]_vars => PowerInv'
  BY PowerStep
<1>3. PowerInv => PoweredWhenReady
  BY DEF PowerInv
<1> QED BY <1>1, <1>2, <1>3, TypeCorrect, PTL DEF Spec

-----------------------------------------------------------------------------
\* The power-down.  A powered card has someone who will see to it: its timer, an expiry
\* in the queue, the sd task, or a client, which starts the timer when it is done.
SeenTo ==
  sd_pm /\ card # "off" =>
    sd_timer \/ sd_queue > 0 \/ sd_task # "wait" \/ \E c \in Clients : pc[c] # "idle"

\* A client that goes on without becoming idle sees to it itself.
LEMMA BusyClient ==
  ASSUME TypeOK, NEW c \in Clients, NEW l \in Labels, l # "idle", GoTo(c, l)
  PROVE  SeenTo'
BY DEF TypeOK, GoTo, SeenTo

LEMMA SeenToStep == ASSUME TypeOK, PowerInv, SeenTo, [Next]_vars PROVE SeenTo'
<1> USE TasksAssumption, OutcomesAssumption
<1>1. ASSUME NEW c \in Clients, Call(c) PROVE SeenTo'
  <2>1. ASSUME NEW o \in {"read", "write"}, Begin(c, o) PROVE SeenTo'
    BY <2>1, BusyClient DEF Begin, Labels
  <2>2. CASE sd_set_pm(c) /\ sd_pm'
    BY <2>2, BusyClient DEF sd_set_pm, AfterSetPm, Labels
  <2>3. CASE sd_set_pm(c) /\ ~sd_pm'
    BY <2>3 DEF SeenTo
  <2> QED BY <1>1, <2>1, <2>2, <2>3 DEF Call
<1>2. ASSUME NEW c \in Clients, Lock(c) PROVE SeenTo'
  BY <1>2, BusyClient DEF Lock, TestPm, TakeMutex, LockReady, PowerOn, InitTakeBus, InitCard,
     PoweredOn, TakeBus, Labels
<1>3. ASSUME NEW c \in Clients, Transfer(c) PROVE SeenTo'
  BY <1>3, BusyClient DEF Transfer, Command, Data, Busy, Return, Continue, Labels
<1>4. ASSUME NEW c \in Clients, Unlock(c) PROVE SeenTo'
  <2>1. CASE UnlockTestPm(c) /\ sd_pm
    BY <2>1, BusyClient DEF UnlockTestPm, Labels
  <2>2. CASE UnlockTestPm(c) /\ ~sd_pm
    BY <2>2 DEF UnlockTestPm, SeenTo, flags
  <2>3. CASE sd_start_timer(c)
    BY <2>3 DEF sd_start_timer, SeenTo
  <2> QED BY <1>4, <2>1, <2>2, <2>3 DEF Unlock
<1>5. ASSUME NEW s \in Sensors, SensorTakeBus(s) \/ SensorGiveBus(s) PROVE SeenTo'
  BY <1>5 DEF SensorTakeBus, SensorGiveBus, SeenTo, flags
<1>6. CASE sd_timer_handler
  <2>1. sd_queue' > 0
    BY <1>6, SMT DEF sd_timer_handler, QueueAfterPost, QUEUE_LENGTH, TypeOK
  <2> QED BY <2>1 DEF SeenTo
<1>7. CASE SdStep
  <2>1. CASE SdReceive BY <2>1 DEF SdReceive, SeenTo
  <2>2. CASE SdCut     BY <2>2 DEF SdCut, SeenTo
  <2>3. CASE SdDone    BY <2>3 DEF SdDone, PowerInv, SeenTo
  <2> QED BY <1>7, <2>1, <2>2, <2>3 DEF SdStep
<1>8. CASE UNCHANGED vars
  BY <1>8 DEF vars, flags, SeenTo
<1> QED BY <1>1, <1>2, <1>3, <1>4, <1>5, <1>6, <1>7, <1>8 DEF Next

\* While power management is on, a card that nobody uses is not left powered for ever.
THEOREM PowersDown == Spec => []WillPowerDown
<1>1. Init => PowerInv /\ SeenTo
  BY DEF Init, PowerInv, PoweredWhenReady, Switching, SeenTo
<1>2. TypeOK /\ PowerInv /\ SeenTo /\ [Next]_vars => PowerInv' /\ SeenTo'
  BY PowerStep, SeenToStep
<1>3. SeenTo => WillPowerDown
  BY DEF SeenTo, WillPowerDown
<1> QED BY <1>1, <1>2, <1>3, TypeCorrect, PTL DEF Spec
-----------------------------------------------------------------------------
\* A single client below the sd task, which leaves power management on: the Lua task.
\* The timer does not run while the client is between taking the mutex and giving back
\* the bus, nor while the sd task has an expiry to handle.
LuaAlone(lua) == Clients = {lua} /\ LowPriority = {lua} /\ PmClients = {}

Undisturbed(lua) ==
  /\ sd_pm
  /\ sd_timer => sd_timeout /\ sd_queue = 0 /\ sd_task = "wait"
  /\ sd_timer => pc[lua] \in {"idle", "test", "mutex", "held", "arm"}
  /\ sd_mutex = lua => pc[lua] \in {"held", "initbus", "init", "powered"}
  /\ sd_mutex = SdTask => sd_task = "cut"
  /\ InTransfer(lua) => sd_queue = 0 /\ sd_task = "wait"
  /\ intact[lua]

LEMMA UndisturbedStep ==
  ASSUME NEW lua, LuaAlone(lua), TypeOK, PowerInv, Undisturbed(lua), [Next]_vars
  PROVE  Undisturbed(lua)'
<1> USE TasksAssumption
    DEF TypeOK, LuaAlone, Undisturbed, InTransfer, flags, access, GoTo, At, Labels
<1>1. CASE Call(lua)
  <2>1. ASSUME NEW o \in {"read", "write"}, Begin(lua, o) PROVE Undisturbed(lua)'
    BY <2>1 DEF Begin
  <2> QED BY <1>1, <2>1 DEF Call, sd_set_pm
<1>2. CASE Lock(lua)
  <2>1. CASE TestPm(lua)        BY <2>1 DEF TestPm
  <2>2. CASE TakeMutex(lua)     BY <2>2 DEF TakeMutex
  <2>3. CASE LockReady(lua)     BY <2>3 DEF LockReady, TimerAfterLock
  <2>4. CASE PowerOn(lua)       BY <2>4 DEF PowerOn, TimerAfterLock
  <2>5. CASE InitTakeBus(lua)   BY <2>5 DEF InitTakeBus
  <2>6. ASSUME NEW o \in InitOutcomes, InitCard(lua, o) PROVE Undisturbed(lua)'
    BY <2>6 DEF InitCard
  <2>7. CASE PoweredOn(lua)     BY <2>7 DEF PoweredOn
  <2>8. CASE TakeBus(lua)       BY <2>8 DEF TakeBus
  <2> QED BY <1>2, <2>1, <2>2, <2>3, <2>4, <2>5, <2>6, <2>7, <2>8 DEF Lock
<1>3. CASE Transfer(lua)
  <2>1. ASSUME NEW r \in {"ok", "error"}, Return(lua, r) PROVE Undisturbed(lua)'
    BY <1>3, <2>1 DEF Return, Transfer, Command, Data, Busy
  \* A client that runs has found the sd task blocked, and nobody holds sd_mutex.
  <2>2. CASE At(lua, "command") /\ Continue(lua, "data")
    <3>1. sd_mutex = Nobody /\ ~SdTaskReady
      BY <2>2 DEF SdTaskReady
    <3>2. sd_queue = 0 /\ sd_task = "wait"
      BY <3>1, SMT DEF SdTaskReady, QUEUE_LENGTH
    <3> QED BY <2>2, <3>2 DEF Continue
  <2>3. CASE At(lua, "data") /\ Continue(lua, "busy")
    BY <2>3 DEF Continue
  <2> HIDE DEF Undisturbed
  <2> QED BY <1>3, <2>1, <2>2, <2>3 DEF Transfer, Command, Data, Busy
<1>4. CASE Unlock(lua)
  <2>1. CASE UnlockTestPm(lua)  BY <2>1 DEF UnlockTestPm
  <2>2. CASE sd_start_timer(lua)
    <3>1. sd_queue = 0 /\ sd_task = "wait"
      BY <2>2, SMT DEF sd_start_timer, SdTaskReady, QUEUE_LENGTH
    <3> QED BY <2>2, <3>1 DEF sd_start_timer
  <2> QED BY <1>4, <2>1, <2>2 DEF Unlock
<1>5. ASSUME NEW s \in Sensors, SensorTakeBus(s) \/ SensorGiveBus(s) PROVE Undisturbed(lua)'
  <2>1. UNCHANGED <<sd_mutex, sd_pm, sd_timeout, sd_timer, sd_queue, sd_task, pc, intact>>
    BY <1>5 DEF SensorTakeBus, SensorGiveBus
  <2> QED BY <2>1
<1>6. CASE sd_timer_handler
  BY <1>6 DEF sd_timer_handler
<1>7. CASE SdStep
  <2>1. CASE SdReceive BY <2>1, SMT DEF SdReceive
  <2>2. CASE SdCut     BY <2>2 DEF SdCut
  <2>3. CASE SdDone    BY <2>3 DEF SdDone
  <2> QED BY <1>7, <2>1, <2>2, <2>3 DEF SdStep
<1>8. CASE UNCHANGED vars
  BY <1>8 DEF vars
<1> HIDE DEF Undisturbed
<1> QED BY <1>1, <1>2, <1>3, <1>4, <1>5, <1>6, <1>7, <1>8 DEF Next

\* An access of the Lua task that returns 0 was not cut from power after the card had
\* accepted its command, whatever the sensors do and whatever the card answers.
THEOREM LuaIsIntact ==
  ASSUME NEW lua, LuaAlone(lua) PROVE Spec => []OkMeansIntact
<1>1. Init => PowerInv /\ Undisturbed(lua)
  BY TasksAssumption DEF Init, PowerInv, PoweredWhenReady, Switching, LuaAlone, Undisturbed, InTransfer
<1>2. TypeOK /\ PowerInv /\ Undisturbed(lua) /\ [Next]_vars => PowerInv' /\ Undisturbed(lua)'
  BY PowerStep, UndisturbedStep
<1>3. Undisturbed(lua) => OkMeansIntact
  BY DEF Undisturbed, OkMeansIntact, LuaAlone
<1> QED BY <1>1, <1>2, <1>3, TypeCorrect, PTL DEF Spec
=============================================================================
