------------------------------ MODULE UsbPower ------------------------------
(***************************************************************************)
(* USB: src/core/dynawa/usb.c with the serial port, the mass storage task  *)
(* and the battery task that it talks to.  The interrupt of the cable's    *)
(* pin sends an event to the usb task, through a queue of one.  The usb    *)
(* task takes the power-management lock while the cable is in, tells the   *)
(* battery task and Lua, and opens the serial port.  Lua may then replace  *)
(* the serial port by mass storage, which a task of its own serves.        *)
(*                                                                         *)
(* The usb, battery and mass storage tasks have one priority and interleave*)
(* at any point.  Lua has a lower one: it runs while they are all blocked. *)
(***************************************************************************)
EXTENDS BatteryMonitor, Integers

CONSTANTS MaxMoves  \* bound: how often the cable is moved

ASSUME MovesAssumption == MaxMoves \in Nat

VARIABLES
  cable,        \* TRUE when the cable is in: the pin is low
  irq,          \* the interrupt of the pin is pending
  usb_queue,
  usb_pc,       \* the usb task: "receive", or in the rest of a handler
  connected,    \* usb_state_connected
  lock,         \* the usb task's share of pm_lock's count
  usb_mode,     \* "none", "cdc", "msd"
  msd_state,    \* usb_msd_state
  msd_running,  \* usb_task_msd_running
  msd_pc,       \* the mass storage task: "none", "init", "wait", "serve", "command", "ended"
  pullup,       \* the device is visible to the host
  configured,   \* the host has configured the device
  endpoint,     \* of mass storage: "disabled", "idle", "receiving"
  lua_pc,       \* Lua: "idle", or in usb_msd: "close", "create", "mode"
  events,       \* USB events in the queue of Lua
  moves,        \* how often the cable was moved
  glitch,       \* history: an edge of the pin was not told to the usb task
  halfway,      \* history: the usb task acted in the middle of usb_msd, or it failed
  leftover      \* history: the cable came back while mass storage was on its way out

cableVars  == <<cable, irq, moves>>
stateVars  == <<connected, lock, events>>
modeVars   == <<usb_mode, msd_state, msd_running>>
deviceVars == <<pullup, configured, endpoint>>
taskVars   == <<usb_pc, msd_pc, lua_pc>>
history    == <<glitch, halfway, leftover>>
usbVars == <<cableVars, usb_queue, stateVars, modeVars, deviceVars, taskVars, history>>
vars == <<usbVars, batteryVars>>

\* usb_init: usb_connected is called before the interrupt is enabled, and what the
\* cable does in between is not seen.
Init ==
  /\ BatteryInit
  /\ connected \in BOOLEAN /\ cable \in BOOLEAN
  /\ glitch = (cable # connected)
  /\ lock = (IF connected THEN 1 ELSE 0)
  /\ usb_mode = (IF connected THEN "cdc" ELSE "none")
  /\ pullup = connected /\ configured = FALSE /\ endpoint = "disabled"
  /\ events = (IF connected THEN <<"connected">> ELSE <<>>)
  /\ irq = FALSE /\ usb_queue = <<>> /\ moves = 0
  /\ usb_pc = "receive" /\ lua_pc = "idle" /\ msd_pc = "none"
  /\ msd_state = FALSE /\ msd_running = FALSE
  /\ halfway = FALSE /\ leftover = FALSE

\* The driver is initialised, which forgets every transfer, and made visible.
USBD_Open == pullup' = TRUE /\ configured' = FALSE /\ endpoint' = "disabled"
USBD_Disconnect == pullup' = FALSE /\ configured' = FALSE /\ UNCHANGED endpoint

-----------------------------------------------------------------------------
(* The cable and the host.                                                  *)

\* A second edge before the interrupt is served is seen as one, or as none.
CableMoves ==
  /\ moves < MaxMoves
  /\ moves' = moves + 1
  /\ cable' = ~cable /\ irq' = TRUE
  /\ configured' = (configured /\ cable')
  /\ glitch' = (glitch \/ irq)
  /\ UNCHANGED <<usb_queue, stateVars, modeVars, pullup, endpoint, taskVars, halfway, leftover,
                 batteryVars>>

\* The request handler answers only in a mode.  The bus reset that precedes forgets
\* the transfers: their callbacks are cleared before the endpoints are disabled.
HostConfigures ==
  /\ cable /\ pullup /\ ~configured /\ usb_mode # "none"
  /\ configured' = TRUE /\ endpoint' = "idle"
  /\ UNCHANGED <<cableVars, usb_queue, stateVars, modeVars, pullup, taskVars, history,
                 batteryVars>>

\* A configuration of zero aborts the transfer, which wakes its task.
HostUnconfigures ==
  /\ configured
  /\ configured' = FALSE /\ endpoint' = "disabled"
  /\ msd_pc' = (IF msd_pc = "command" /\ endpoint = "receiving" THEN "serve" ELSE msd_pc)
  /\ UNCHANGED <<cableVars, usb_queue, stateVars, modeVars, pullup, usb_pc, lua_pc, history,
                 batteryVars>>

HostCommands ==
  /\ configured /\ msd_pc = "command" /\ endpoint = "receiving"
  /\ endpoint' = "idle" /\ msd_pc' = "serve"
  /\ UNCHANGED <<cableVars, usb_queue, stateVars, modeVars, pullup, configured, usb_pc, lua_pc,
                 history, batteryVars>>

-----------------------------------------------------------------------------
(* The interrupt and the usb task.                                          *)

EventOfPin == IF cable THEN "connected" ELSE "disconnected"

usb_io_isr_handler ==
  /\ irq
  /\ irq' = FALSE
  /\ usb_queue' = IF usb_queue = <<>> THEN <<EventOfPin>> ELSE usb_queue
  /\ glitch' = (glitch \/ usb_queue # <<>>)
  /\ UNCHANGED <<cable, moves, stateVars, modeVars, deviceVars, taskVars, halfway, leftover,
                 batteryVars>>

usb_connected ==
  /\ usb_pc = "receive" /\ usb_queue = <<"connected">>
  /\ usb_queue' = <<>> /\ usb_pc' = "open"
  /\ connected' = TRUE /\ lock' = lock + 1
  /\ BatteryNotify("connected")
  /\ events' = Append(events, "connected")
  /\ halfway' = (halfway \/ lua_pc # "idle")
  /\ UNCHANGED <<cableVars, modeVars, deviceVars, msd_pc, lua_pc, glitch, leftover,
                 battery_timer, battery_pc, charge>>

\* UsbSerial_open: the serial port is always enabled.
OpenSerial ==
  /\ usb_pc = "open"
  /\ usb_pc' = "receive" /\ usb_mode' = "cdc"
  /\ USBD_Open
  /\ leftover' = (leftover \/ msd_pc \in {"init", "wait", "serve"})
  /\ UNCHANGED <<cableVars, usb_queue, stateVars, msd_state, msd_running, msd_pc, lua_pc,
                 glitch, halfway, batteryVars>>

\* faulty: the mass storage task is not told
RunningKept == msd_running
RunningAfterUnplug == msd_running /\ usb_mode # "msd"

usb_disconnected ==
  /\ usb_pc = "receive" /\ usb_queue = <<"disconnected">>
  /\ usb_queue' = <<>> /\ usb_pc' = "release"
  /\ msd_running' = RunningAfterUnplug
  /\ IF usb_mode = "cdc" THEN USBD_Disconnect ELSE UNCHANGED deviceVars
  /\ halfway' = (halfway \/ lua_pc # "idle")
  /\ UNCHANGED <<cableVars, stateVars, usb_mode, msd_state, msd_pc, lua_pc, glitch, leftover,
                 batteryVars>>

\* faulty: the lock of a connection that ends as mass storage is kept
UnlocksSerial == IF usb_mode = "msd" THEN lock ELSE lock - 1
LockAfterUnplug == lock - 1

Release ==
  /\ usb_pc = "release"
  /\ usb_pc' = "receive"
  /\ lock' = LockAfterUnplug
  /\ connected' = FALSE /\ usb_mode' = "none"
  /\ BatteryNotify("disconnected")
  /\ events' = Append(events, "disconnected")
  /\ UNCHANGED <<cableVars, usb_queue, msd_state, msd_running, deviceVars, msd_pc, lua_pc,
                 history, battery_timer, battery_pc, charge>>

-----------------------------------------------------------------------------
(* The mass storage task, usb_task_msd.                                     *)

MsdInitialize ==
  /\ msd_pc = "init"
  /\ msd_pc' = "wait"
  /\ USBD_Open
  /\ UNCHANGED <<cableVars, usb_queue, stateVars, modeVars, usb_pc, lua_pc, history, batteryVars>>

\* The task sleeps until the device is configured, whatever msd_running says.
MsdConfigured ==
  /\ msd_pc = "wait" /\ configured
  /\ msd_pc' = "serve"
  /\ UNCHANGED <<cableVars, usb_queue, stateVars, modeVars, deviceVars, usb_pc, lua_pc, history,
                 batteryVars>>

\* MSDDriver_StateMachine reads a command and waits for it without a limit.  As long
\* as the endpoint is not idle it calls the driver again at once, and keeps the CPU.
MsdServe ==
  /\ msd_pc = "serve" /\ msd_running /\ endpoint = "idle"
  /\ endpoint' = "receiving" /\ msd_pc' = "command"
  /\ UNCHANGED <<cableVars, usb_queue, stateVars, modeVars, pullup, configured, usb_pc, lua_pc,
                 history, batteryVars>>

MsdEnd ==
  /\ msd_pc = "serve" /\ ~msd_running
  /\ msd_pc' = "ended"
  /\ USBD_Disconnect
  /\ UNCHANGED <<cableVars, usb_queue, stateVars, modeVars, usb_pc, lua_pc, history, batteryVars>>

-----------------------------------------------------------------------------
(* Lua: an EVENT_USB, and usb_msd(true) when the application enables it.    *)

\* The other tasks are blocked: mass storage may wait for the card when it starts and
\* when it serves a command, the battery task for the gauge.
LuaRuns ==
  /\ usb_pc = "receive" /\ usb_queue = <<>>
  /\ msd_pc = "serve" => endpoint = "idle"
  /\ battery_pc = "poll" \/ (battery_pc = "receive" /\ battery_queue = <<>>)

\* faulty: usb_msd does not ask whether the cable is still in
StartsMsdAnyway(enabled) == enabled /\ Head(events) = "connected" /\ ~msd_state
StartsMsd(enabled) ==
  enabled /\ Head(events) = "connected" /\ ~msd_state /\ connected

LuaEvent(enabled) ==
  /\ lua_pc = "idle" /\ events # <<>> /\ LuaRuns
  /\ events' = Tail(events)
  /\ lua_pc' = (IF StartsMsd(enabled) THEN "close" ELSE "idle")
  /\ UNCHANGED <<cableVars, usb_queue, connected, lock, modeVars, deviceVars, usb_pc, msd_pc,
                 history, batteryVars>>

CloseSerial ==
  /\ lua_pc = "close" /\ LuaRuns
  /\ lua_pc' = "create"
  /\ IF usb_mode = "cdc"
       THEN USBD_Disconnect /\ usb_mode' = "none"
       ELSE UNCHANGED <<deviceVars, usb_mode>>
  /\ UNCHANGED <<cableVars, usb_queue, stateVars, msd_state, msd_running, usb_pc, msd_pc,
                 history, batteryVars>>

\* The new task runs at once; or there is no memory for it, and usb_msd returns.
CreateMsd ==
  /\ lua_pc = "create" /\ LuaRuns
  /\ msd_running' = TRUE
  /\ \/ lua_pc' = "mode" /\ msd_pc' = "init" /\ UNCHANGED halfway
     \/ lua_pc' = "idle" /\ halfway' = TRUE /\ UNCHANGED msd_pc
  /\ UNCHANGED <<cableVars, usb_queue, stateVars, usb_mode, msd_state, deviceVars, usb_pc,
                 glitch, leftover, batteryVars>>

SetMode ==
  /\ lua_pc = "mode" /\ LuaRuns
  /\ lua_pc' = "idle" /\ usb_mode' = "msd" /\ msd_state' = TRUE
  /\ UNCHANGED <<cableVars, usb_queue, stateVars, msd_running, deviceVars, usb_pc, msd_pc,
                 history, batteryVars>>

-----------------------------------------------------------------------------
Host == HostConfigures \/ HostUnconfigures \/ HostCommands
UsbTask == usb_connected \/ OpenSerial \/ usb_disconnected \/ Release
MsdTask == MsdInitialize \/ MsdConfigured \/ MsdServe \/ MsdEnd
Lua == (\E enabled \in BOOLEAN : LuaEvent(enabled)) \/ CloseSerial \/ CreateMsd \/ SetMode
Battery == (BatteryTask \/ battery_timer_handler) /\ UNCHANGED usbVars

Next == CableMoves \/ Host \/ usb_io_isr_handler \/ UsbTask \/ MsdTask \/ Lua \/ Battery

Spec == Init /\ [][Next]_vars

\* The battery task, of the priority of its neighbours, runs; its timer expires.
Fairness ==
  /\ WF_vars(BatteryTask /\ UNCHANGED usbVars)
  /\ WF_vars(battery_timer_handler /\ UNCHANGED usbVars)

FairSpec == Spec /\ Fairness

-----------------------------------------------------------------------------
(* Properties.                                                              *)

UsbQueues == {<<>>, <<"connected">>, <<"disconnected">>}

CableTypeOK == cable \in BOOLEAN /\ irq \in BOOLEAN /\ moves \in 0 .. MaxMoves
QueueTypeOK == usb_queue \in UsbQueues /\ usb_pc \in {"receive", "open", "release"}
StateTypeOK ==
  connected \in BOOLEAN /\ lock \in Int /\ events \in Seq({"connected", "disconnected"})
ModeTypeOK ==
  usb_mode \in {"none", "cdc", "msd"} /\ msd_state \in BOOLEAN /\ msd_running \in BOOLEAN
DeviceTypeOK ==
  pullup \in BOOLEAN /\ configured \in BOOLEAN /\ endpoint \in {"disabled", "idle", "receiving"}
TaskTypeOK ==
  /\ msd_pc \in {"none", "init", "wait", "serve", "command", "ended"}
  /\ lua_pc \in {"idle", "close", "create", "mode"}
HistoryTypeOK == glitch \in BOOLEAN /\ halfway \in BOOLEAN /\ leftover \in BOOLEAN

TypeOK ==
  /\ BatteryTypeOK /\ CableTypeOK /\ QueueTypeOK /\ StateTypeOK
  /\ ModeTypeOK /\ DeviceTypeOK /\ TaskTypeOK /\ HistoryTypeOK

\* The usb task holds the power-management lock once while it takes the cable for in,
\* and not otherwise: pm_unlock panics, or the CPU never sleeps again, only after an
\* edge of the pin was lost.
LockFollows == ~glitch => lock = (IF connected THEN 1 ELSE 0)

\* When the usb task and Lua are at rest the mass storage task is told to run exactly
\* in its mode, and there is a mode exactly when the cable is in.  Three
\* things break it: a lost edge, a cable that moves while Lua is in the middle of usb_msd,
\* and a mass storage task that cannot be created.
Rest == usb_pc = "receive" /\ usb_queue = <<>> /\ ~irq /\ lua_pc = "idle"
ModeFollows ==
  Rest /\ ~glitch /\ ~halfway =>
    /\ msd_running <=> usb_mode = "msd"
    /\ cable <=> usb_mode # "none"

\* In the serial port's mode mass storage leaves the host alone: it takes no command,
\* and it does not end, which would cut the connection, unless the cable came back
\* while the task was on its way.  Unplugged before it was configured it is released
\* by the configuration of the serial port.
SerialIsLeftAlone ==
  [][usb_mode = "cdc" /\ ~glitch /\ ~halfway =>
       /\ ~HostCommands
       /\ MsdEnd => leftover]_vars

\* Timer_start of a running timer corrupts the list of timers: the battery task never
\* does it, although the USB task may end its wait at any time.
BatteryStartsIdleTimer == battery_pc = "start" => ~battery_timer

\* The battery task reads the gauge again and again, although the timer's event may
\* find the queue full.
KeepsPolling == []<>(battery_pc \in {"poll", "panic"})
=============================================================================
