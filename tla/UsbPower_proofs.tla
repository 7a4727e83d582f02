-------------------------- MODULE UsbPower_proofs ---------------------------
(***************************************************************************)
(* The usb task's share of the power-management lock is 1 while it takes   *)
(* the cable for in and 0 otherwise, however often the cable is moved and  *)
(* whatever the host, Lua and the battery task do, as long as no edge of   *)
(* the pin was lost.  From this it follows that at rest the mode and the   *)
(* mass storage flag agree with the cable, and that mass storage leaves    *)
(* the serial port alone, unless the cable moved in the middle of usb_msd. *)
(* And the battery task never starts a running timer.                      *)
(***************************************************************************)
EXTENDS UsbPower, SequenceTheorems, TLAPS

\* What the usb task takes the cable for, once it has finished its handler ...
Now == connected /\ usb_pc # "release"
\* ... and once it has served its queue.
Told == IF usb_queue = <<>> THEN Now ELSE usb_queue = <<"connected">>

\* The cable is as the usb task has been told, or exactly one interrupt is pending; no
\* event repeats what the task knows; and the lock is held once while connected.
Followed ==
  ~glitch =>
    /\ irq <=> cable # Told
    /\ usb_queue # <<>> => Told # Now
    /\ usb_pc \in {"open", "release"} => connected
    /\ lock = (IF connected THEN 1 ELSE 0)

TimerIdle == battery_pc \in {"poll", "start"} => ~battery_timer

-----------------------------------------------------------------------------
\* The battery's own steps.
LEMMA BatteryTypes == BatteryTypeOK /\ (BatteryTask \/ battery_timer_handler) => BatteryTypeOK'
<1> SUFFICES ASSUME BatteryTypeOK, BatteryTask \/ battery_timer_handler
             PROVE  BatteryTypeOK'
  OBVIOUS
<1> USE DEF BatteryTypeOK
<1>1. CASE GaugeFails
  BY <1>1 DEF GaugeFails
<1>2. ASSUME NEW state \in GaugeStates, NEW low \in BOOLEAN, Poll(state, low)
      PROVE  BatteryTypeOK'
  BY <1>2 DEF Poll
<1>3. CASE BatteryStartsTimer
  BY <1>3 DEF BatteryStartsTimer, BatteryTimerAfterStart
<1>4. CASE BatteryReceives
  BY <1>4 DEF BatteryReceives, BatteryQueues
<1>5. CASE BatteryStopsTimer
  BY <1>5 DEF BatteryStopsTimer, BatteryTimerAfterStop
<1>6. CASE battery_timer_handler
  BY <1>6 DEF battery_timer_handler, BatteryNotify, BatteryQueues
<1> QED
  BY <1>1, <1>2, <1>3, <1>4, <1>5, <1>6 DEF BatteryTask

\* Each group of variables keeps its type, whatever the others do.
LEMMA CableTypes == CableTypeOK /\ [Next]_vars => CableTypeOK'
<1> SUFFICES ASSUME CableTypeOK, [Next]_vars
             PROVE  CableTypeOK'
  OBVIOUS
<1>1. CASE CableMoves
  <2>1. moves' \in 0 .. MaxMoves
    BY <1>1, MovesAssumption DEF CableMoves, CableTypeOK
  <2> QED
    BY <1>1, <2>1 DEF CableMoves, CableTypeOK
<1>2. CASE usb_io_isr_handler
  BY <1>2 DEF usb_io_isr_handler, CableTypeOK
<1>3. CASE Host \/ UsbTask \/ MsdTask \/ Lua \/ Battery \/ UNCHANGED vars
  <2>1. UNCHANGED cableVars
    BY <1>3 DEF vars, usbVars, Host, HostConfigures, HostUnconfigures, HostCommands,
       UsbTask, usb_connected, OpenSerial, usb_disconnected, Release, MsdTask, MsdInitialize,
       MsdConfigured, MsdServe, MsdEnd, Lua, LuaEvent, CloseSerial, CreateMsd, SetMode, Battery
  <2> QED
    BY <2>1 DEF cableVars, CableTypeOK
<1> QED
  BY <1>1, <1>2, <1>3 DEF Next

LEMMA QueueTypes == QueueTypeOK /\ [Next]_vars => QueueTypeOK'
  BY DEF QueueTypeOK, UsbQueues, EventOfPin, Next, vars, usbVars, taskVars,
     CableMoves, Host, HostConfigures, HostUnconfigures, HostCommands, usb_io_isr_handler,
     UsbTask, usb_connected, OpenSerial, usb_disconnected, Release, MsdTask, MsdInitialize,
     MsdConfigured, MsdServe, MsdEnd, Lua, LuaEvent, CloseSerial, CreateMsd, SetMode, Battery

LEMMA StateTypes == StateTypeOK /\ [Next]_vars => StateTypeOK'
<1> SUFFICES ASSUME StateTypeOK, [Next]_vars
             PROVE  StateTypeOK'
  OBVIOUS
<1>1. CASE usb_connected
  BY <1>1 DEF usb_connected, StateTypeOK
<1>2. CASE Release
  <2>1. lock' \in Int
    BY <1>2 DEF Release, LockAfterUnplug, StateTypeOK
  <2>2. events' \in Seq({"connected", "disconnected"})
    BY <1>2 DEF Release, StateTypeOK
  <2>3. connected' \in BOOLEAN
    BY <1>2 DEF Release
  <2> QED
    BY <2>1, <2>2, <2>3 DEF StateTypeOK
<1>3. ASSUME NEW enabled \in BOOLEAN, LuaEvent(enabled)
      PROVE  StateTypeOK'
  BY <1>3 DEF LuaEvent, StateTypeOK
<1>4. CASE CableMoves \/ Host \/ usb_io_isr_handler \/ OpenSerial \/ usb_disconnected
           \/ MsdTask \/ CloseSerial \/ CreateMsd \/ SetMode \/ Battery \/ UNCHANGED vars
  <2>1. UNCHANGED stateVars
    BY <1>4 DEF vars, usbVars, CableMoves, Host, HostConfigures, HostUnconfigures,
       HostCommands, usb_io_isr_handler, OpenSerial, usb_disconnected, MsdTask, MsdInitialize,
       MsdConfigured, MsdServe, MsdEnd, CloseSerial, CreateMsd, SetMode, Battery
  <2> QED
    BY <2>1 DEF stateVars, StateTypeOK
<1> QED
  BY <1>1, <1>2, <1>3, <1>4 DEF Next, UsbTask, Lua

LEMMA ModeTypes == ModeTypeOK /\ [Next]_vars => ModeTypeOK'
  BY DEF ModeTypeOK, RunningAfterUnplug, Next, vars, usbVars, modeVars,
     CableMoves, Host, HostConfigures, HostUnconfigures, HostCommands, usb_io_isr_handler,
     UsbTask, usb_connected, OpenSerial, usb_disconnected, Release, MsdTask, MsdInitialize,
     MsdConfigured, MsdServe, MsdEnd, Lua, LuaEvent, CloseSerial, CreateMsd, SetMode, Battery

LEMMA DeviceTypes == DeviceTypeOK /\ [Next]_vars => DeviceTypeOK'
  BY DEF DeviceTypeOK, USBD_Open, USBD_Disconnect, Next, vars, usbVars, deviceVars,
     CableMoves, Host, HostConfigures, HostUnconfigures, HostCommands, usb_io_isr_handler,
     UsbTask, usb_connected, OpenSerial, usb_disconnected, Release, MsdTask, MsdInitialize,
     MsdConfigured, MsdServe, MsdEnd, Lua, LuaEvent, CloseSerial, CreateMsd, SetMode, Battery

LEMMA TaskTypes == TaskTypeOK /\ [Next]_vars => TaskTypeOK'
  BY DEF TaskTypeOK, Next, vars, usbVars, taskVars,
     CableMoves, Host, HostConfigures, HostUnconfigures, HostCommands, usb_io_isr_handler,
     UsbTask, usb_connected, OpenSerial, usb_disconnected, Release, MsdTask, MsdInitialize,
     MsdConfigured, MsdServe, MsdEnd, Lua, LuaEvent, CloseSerial, CreateMsd, SetMode, Battery

LEMMA HistoryTypes == HistoryTypeOK /\ [Next]_vars => HistoryTypeOK'
  BY DEF HistoryTypeOK, Next, vars, usbVars, history,
     CableMoves, Host, HostConfigures, HostUnconfigures, HostCommands, usb_io_isr_handler,
     UsbTask, usb_connected, OpenSerial, usb_disconnected, Release, MsdTask, MsdInitialize,
     MsdConfigured, MsdServe, MsdEnd, Lua, LuaEvent, CloseSerial, CreateMsd, SetMode, Battery

\* The usb task only sends to the battery task's queue.
LEMMA BatteryTyped == BatteryTypeOK /\ [Next]_vars => BatteryTypeOK'
<1> SUFFICES ASSUME BatteryTypeOK, [Next]_vars
             PROVE  BatteryTypeOK'
  OBVIOUS
<1>1. CASE Battery
  BY <1>1, BatteryTypes DEF Battery
<1>2. CASE usb_connected
  BY <1>2 DEF usb_connected, BatteryNotify, BatteryTypeOK, BatteryQueues
<1>3. CASE Release
  BY <1>3 DEF Release, BatteryNotify, BatteryTypeOK, BatteryQueues
<1>4. CASE UNCHANGED batteryVars
  BY <1>4 DEF batteryVars, BatteryTypeOK
<1>5. CASE CableMoves \/ Host \/ usb_io_isr_handler \/ MsdTask \/ Lua \/ UNCHANGED vars
  BY <1>4, <1>5 DEF CableMoves, Host, HostConfigures, HostUnconfigures, HostCommands,
     usb_io_isr_handler, MsdTask, MsdInitialize, MsdConfigured, MsdServe, MsdEnd,
     Lua, LuaEvent, CloseSerial, CreateMsd, SetMode, vars
<1> QED
  BY <1>1, <1>2, <1>3, <1>4, <1>5 DEF Next, UsbTask, OpenSerial, usb_disconnected

\* TypeOK: the types of the whole composition.
THEOREM TypeCorrect == Spec => []TypeOK
<1>1. Init => TypeOK
  <2> SUFFICES ASSUME Init
               PROVE  TypeOK
    OBVIOUS
  <2> USE DEF Init
  <2>1. BatteryTypeOK
    BY DEF BatteryInit, BatteryTypeOK, BatteryQueues
  <2>2. CableTypeOK /\ QueueTypeOK
    <3>1. moves \in 0 .. MaxMoves
      BY MovesAssumption
    <3>2. cable \in BOOLEAN /\ irq \in BOOLEAN
      OBVIOUS
    <3>3. QueueTypeOK
      BY DEF QueueTypeOK, UsbQueues
    <3> QED
      BY <3>1, <3>2, <3>3 DEF CableTypeOK
  <2>3. StateTypeOK
    <3>1. events = <<"connected">> \/ events = <<>>
      OBVIOUS
    <3>2. <<"connected">> \in Seq({"connected", "disconnected"})
      OBVIOUS
    <3>3. <<>> \in Seq({"connected", "disconnected"})
      OBVIOUS
    <3>4. connected \in BOOLEAN /\ lock \in Int
      OBVIOUS
    <3> QED
      BY <3>1, <3>2, <3>3, <3>4 DEF StateTypeOK
  <2>4. ModeTypeOK
    BY DEF ModeTypeOK
  <2>5. DeviceTypeOK
    BY DEF DeviceTypeOK
  <2>6. TaskTypeOK
    BY DEF TaskTypeOK
  <2>7. HistoryTypeOK
    BY DEF HistoryTypeOK
  <2> QED
    BY <2>1, <2>2, <2>3, <2>4, <2>5, <2>6, <2>7 DEF TypeOK
<1>2. TypeOK /\ [Next]_vars => TypeOK'
  BY BatteryTyped, CableTypes, QueueTypes, StateTypes, ModeTypes, DeviceTypes, TaskTypes,
     HistoryTypes DEF TypeOK
<1> QED
  BY <1>1, <1>2, PTL DEF Spec

-----------------------------------------------------------------------------
\* The interrupt handler posts what the usb task does not know yet, or loses the edge.
LEMMA IsrFollows == CableTypeOK /\ QueueTypeOK /\ Followed /\ usb_io_isr_handler => Followed'
<1> SUFFICES ASSUME CableTypeOK, QueueTypeOK, Followed, usb_io_isr_handler, ~glitch'
             PROVE  Followed'
  BY DEF Followed
<1>1. /\ irq /\ ~irq' /\ usb_queue = <<>> /\ usb_queue' = <<EventOfPin>>
      /\ UNCHANGED <<cable, connected, lock, usb_pc>>
  BY DEF usb_io_isr_handler, stateVars, taskVars
<1>2. ~glitch
  BY DEF usb_io_isr_handler
<1>3. Told' = cable /\ usb_queue' # <<>>
  BY <1>1 DEF Told, EventOfPin, CableTypeOK
<1>4. Now' = Now /\ Told = Now /\ cable # Now
  BY <1>1, <1>2 DEF Followed, Told, Now
<1> QED
  BY <1>1, <1>2, <1>3, <1>4 DEF Followed

\* The four steps of the usb task.
LEMMA UsbTaskFollows == CableTypeOK /\ QueueTypeOK /\ Followed /\ UsbTask => Followed'
<1> SUFFICES ASSUME CableTypeOK, QueueTypeOK, Followed, UsbTask
             PROVE  Followed'
  OBVIOUS
<1> USE DEF CableTypeOK, QueueTypeOK, UsbQueues, Followed, Told, Now, cableVars, stateVars, history
<1>1. CASE usb_connected
  BY <1>1 DEF usb_connected
<1>2. CASE OpenSerial
  BY <1>2 DEF OpenSerial
<1>3. CASE usb_disconnected
  BY <1>3 DEF usb_disconnected
<1>4. CASE Release
  BY <1>4 DEF Release, LockAfterUnplug
<1> QED
  BY <1>1, <1>2, <1>3, <1>4 DEF UsbTask

\* Followed is preserved by every step: only the cable, the interrupt and the usb task
\* change what it speaks of.
LEMMA FollowedAlways == Spec => []Followed
<1>1. Init => Followed
  BY DEF Init, Followed, Told, Now
<1>2. CableTypeOK /\ QueueTypeOK /\ Followed /\ [Next]_vars => Followed'
  <2> SUFFICES ASSUME CableTypeOK, QueueTypeOK, Followed, [Next]_vars
               PROVE  Followed'
    OBVIOUS
  <2>1. CASE CableMoves
    BY <2>1 DEF CableMoves, CableTypeOK, QueueTypeOK, UsbQueues, Followed, Told, Now, stateVars, taskVars
  <2>2. CASE usb_io_isr_handler
    BY <2>2, IsrFollows
  <2>3. CASE UsbTask
    BY <2>3, UsbTaskFollows
  <2>4. CASE Host \/ MsdTask \/ Lua \/ Battery \/ UNCHANGED vars
    <3>1. UNCHANGED <<cable, irq, usb_queue, usb_pc, connected, lock, glitch>>
      BY <2>4 DEF Host, HostConfigures, HostUnconfigures, HostCommands, MsdTask, MsdInitialize,
         MsdConfigured, MsdServe, MsdEnd, Lua, LuaEvent, CloseSerial, CreateMsd, SetMode,
         Battery, vars, usbVars, cableVars, stateVars, taskVars, history
    <3> QED
      BY <3>1 DEF Followed, Told, Now
  <2> QED
    BY <2>1, <2>2, <2>3, <2>4 DEF Next
<1>3. TypeOK => CableTypeOK /\ QueueTypeOK
  BY DEF TypeOK
<1> QED
  BY <1>1, <1>2, <1>3, TypeCorrect, PTL DEF Spec

\* LockFollows: pm_unlock of the usb task never finds a count that it has not taken,
\* and no lock is left behind, unless an edge was lost.
THEOREM LockIsExact == Spec => []LockFollows
<1>1. Followed => LockFollows
  BY DEF Followed, LockFollows
<1> QED
  BY <1>1, FollowedAlways, PTL

\* BatteryStartsIdleTimer: the timer is idle from the time when it has been stopped.
THEOREM StartsIdleTimer == Spec => []BatteryStartsIdleTimer
<1>1. Init => TimerIdle
  BY DEF Init, BatteryInit, TimerIdle
<1>2. TimerIdle /\ [Next]_vars => TimerIdle'
  <2> SUFFICES ASSUME TimerIdle, [Next]_vars
               PROVE  TimerIdle'
    OBVIOUS
  <2>1. CASE Battery
    BY <2>1 DEF Battery, BatteryTask, GaugeFails, Poll, BatteryStartsTimer, BatteryReceives,
       BatteryStopsTimer, BatteryTimerAfterStop, battery_timer_handler, TimerIdle
  <2>2. CASE CableMoves \/ Host \/ usb_io_isr_handler \/ UsbTask \/ MsdTask \/ Lua
             \/ UNCHANGED vars
    <3>1. UNCHANGED <<battery_pc, battery_timer>>
      BY <2>2 DEF CableMoves, Host, HostConfigures, HostUnconfigures, HostCommands,
         usb_io_isr_handler, UsbTask, usb_connected, OpenSerial, usb_disconnected, Release,
         MsdTask, MsdInitialize, MsdConfigured, MsdServe, MsdEnd, Lua, LuaEvent, CloseSerial,
         CreateMsd, SetMode, vars, batteryVars
    <3> QED
      BY <3>1 DEF TimerIdle
  <2> QED
    BY <2>1, <2>2 DEF Next
<1>3. TimerIdle => BatteryStartsIdleTimer
  BY DEF TimerIdle, BatteryStartsIdleTimer
<1> QED
  BY <1>1, <1>2, <1>3, PTL DEF Spec

-----------------------------------------------------------------------------
(* The mode.                                                                *)

\* At each place of the usb task and of usb_msd: what is open, and whether mass storage
\* has been told to run.
ModeAt ==
  /\ usb_pc = "receive" /\ lua_pc = "idle" =>
       (msd_running <=> usb_mode = "msd") /\ (connected <=> usb_mode # "none")
  /\ usb_pc = "open" => lua_pc = "idle" /\ usb_mode = "none" /\ ~msd_running
  /\ usb_pc = "release" => lua_pc = "idle" /\ ~msd_running
  /\ lua_pc = "close" => usb_mode = "cdc" /\ ~msd_running
  /\ lua_pc \in {"create", "mode"} => usb_mode = "none"
  /\ lua_pc = "create" => ~msd_running
  /\ lua_pc = "mode" => msd_running
  /\ lua_pc # "idle" => connected /\ usb_pc = "receive"

\* In the mode of the serial port nothing of mass storage is in flight, and a mass
\* storage task that has not ended is known to be a leftover.
SerialAlone ==
  usb_mode = "cdc" =>
    /\ endpoint # "receiving"
    /\ msd_pc \in {"init", "wait", "serve"} => leftover

\* Mass storage is entered once.
EnteredOnce == usb_mode = "msd" => msd_state

ModeInv == EnteredOnce /\ (~glitch /\ ~halfway => ModeAt /\ SerialAlone)

\* The usb task: it finds the mode as the last event has left it, since no event repeats
\* what it knows.
LEMMA UsbTaskMode ==
  ASSUME TypeOK, Followed, ModeInv, UsbTask
  PROVE  ModeInv'
<1> USE DEF ModeInv, EnteredOnce, ModeAt, SerialAlone
<1>1. EnteredOnce'
  BY DEF UsbTask, usb_connected, OpenSerial, usb_disconnected, Release, modeVars
<1>2. ASSUME ~glitch', ~halfway'
      PROVE  ModeAt' /\ SerialAlone'
  <2>1. CASE usb_connected
    <3>1. ~glitch /\ ~halfway /\ lua_pc = "idle" /\ usb_pc = "receive"
      BY <1>2, <2>1 DEF usb_connected
    <3>2. ~connected
      BY <2>1, <3>1 DEF usb_connected, Followed, Told, Now
    <3>3. usb_mode = "none" /\ ~msd_running
      BY <3>1, <3>2
    <3> QED
      BY <2>1, <3>1, <3>3 DEF usb_connected, modeVars, deviceVars
  <2>2. CASE OpenSerial
    <3>1. ~glitch /\ ~halfway /\ usb_pc = "open"
      BY <1>2, <2>2 DEF OpenSerial
    <3>2. connected /\ connected' = connected
      BY <2>2, <3>1 DEF OpenSerial, Followed, stateVars
    <3> QED
      BY <2>2, <3>1, <3>2 DEF OpenSerial, USBD_Open
  <2>3. CASE usb_disconnected
    <3>1. ~glitch /\ ~halfway /\ lua_pc = "idle" /\ usb_pc = "receive"
      BY <1>2, <2>3 DEF usb_disconnected
    <3>2. /\ ~msd_running' /\ usb_pc' = "release"
          /\ UNCHANGED <<usb_mode, lua_pc, msd_pc, leftover, endpoint>>
      BY <2>3, <3>1 DEF usb_disconnected, RunningAfterUnplug, USBD_Disconnect, deviceVars
    <3> QED
      BY <3>1, <3>2
  <2>4. CASE Release
    <3>1. /\ ~glitch /\ ~halfway /\ lua_pc = "idle" /\ lua_pc' = "idle"
          /\ ~msd_running /\ msd_running' = msd_running
      BY <1>2, <2>4 DEF Release, history
    <3>2. ~connected' /\ usb_mode' = "none" /\ usb_pc' = "receive"
      BY <2>4 DEF Release
    <3> QED
      BY <3>1, <3>2
  <2> QED
    BY <2>1, <2>2, <2>3, <2>4 DEF UsbTask
<1> QED
  BY <1>1, <1>2

\* usb_msd of Lua, with all other tasks blocked at each of its steps.
LEMMA LuaMode ==
  ASSUME TypeOK, ModeInv, Lua
  PROVE  ModeInv'
<1> USE DEF ModeInv, EnteredOnce, ModeAt, SerialAlone, history
<1>1. ASSUME NEW enabled \in BOOLEAN, LuaEvent(enabled)
      PROVE  ModeInv'
  BY <1>1 DEF LuaEvent, LuaRuns, StartsMsd, modeVars, deviceVars, TypeOK, ModeTypeOK
<1>2. CASE CloseSerial
  BY <1>2 DEF CloseSerial, LuaRuns, USBD_Disconnect, stateVars, deviceVars
<1>3. CASE CreateMsd
  BY <1>3 DEF CreateMsd, LuaRuns, stateVars, deviceVars
<1>4. CASE SetMode
  BY <1>4 DEF SetMode, LuaRuns, stateVars, deviceVars
<1> QED
  BY <1>1, <1>2, <1>3, <1>4 DEF Lua

\* The cable, the host, the interrupt, the mass storage task and the battery task.
LEMMA OthersMode ==
  ASSUME TypeOK, ModeInv,
         CableMoves \/ Host \/ usb_io_isr_handler \/ MsdTask \/ Battery \/ UNCHANGED vars
  PROVE  ModeInv'
<1> USE DEF ModeInv, EnteredOnce, ModeAt, SerialAlone, stateVars, modeVars, deviceVars, taskVars,
            history
<1>1. CASE CableMoves
  BY <1>1 DEF CableMoves
<1>2. CASE HostConfigures
  BY <1>2 DEF HostConfigures
<1>3. CASE HostUnconfigures
  BY <1>3 DEF HostUnconfigures
<1>4. CASE HostCommands
  BY <1>4 DEF HostCommands
<1>5. CASE usb_io_isr_handler
  BY <1>5 DEF usb_io_isr_handler
<1>6. CASE MsdInitialize
  BY <1>6 DEF MsdInitialize, USBD_Open
<1>7. CASE MsdConfigured
  BY <1>7 DEF MsdConfigured
<1>8. CASE MsdServe
  BY <1>8 DEF MsdServe, TypeOK, TaskTypeOK, QueueTypeOK
<1>9. CASE MsdEnd
  BY <1>9 DEF MsdEnd, USBD_Disconnect
<1>10. CASE Battery \/ UNCHANGED vars
  BY <1>10 DEF Battery, vars, usbVars
<1> QED
  BY <1>1, <1>2, <1>3, <1>4, <1>5, <1>6, <1>7, <1>8, <1>9, <1>10 DEF Host, MsdTask

\* Together they are an invariant.
LEMMA ModeKnown == Spec => [](TypeOK /\ Followed /\ ModeInv)
<1>1. Init => ModeInv
  BY DEF Init, ModeInv, EnteredOnce, ModeAt, SerialAlone
<1>2. TypeOK /\ Followed /\ ModeInv /\ [Next]_vars => ModeInv'
  BY UsbTaskMode, LuaMode, OthersMode DEF Next
<1> QED
  BY <1>1, <1>2, TypeCorrect, FollowedAlways, PTL DEF Spec

\* ModeFollows: at rest the mode is that of the cable, and mass storage is told to run
\* exactly in its mode.
THEOREM ModeIsExact == Spec => []ModeFollows
<1>1. TypeOK /\ Followed /\ ModeInv => ModeFollows
  BY DEF TypeOK, CableTypeOK, StateTypeOK, Followed, Told, Now, ModeInv, ModeAt, ModeFollows,
         Rest
<1> QED
  BY <1>1, ModeKnown, PTL

\* SerialIsLeftAlone: no step of mass storage disturbs the serial port, but for a task
\* that was left over from an earlier connection.
THEOREM SerialIsSafe == Spec => SerialIsLeftAlone
<1>1. ModeInv /\ usb_mode = "cdc" /\ ~glitch /\ ~halfway => ~HostCommands /\ (MsdEnd => leftover)
  BY DEF ModeInv, SerialAlone, HostCommands, MsdEnd
<1> QED
  BY <1>1, ModeKnown, PTL DEF SerialIsLeftAlone
=============================================================================
