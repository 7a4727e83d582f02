----------------------------- MODULE BtSession ------------------------------
(***************************************************************************)
(* A life of the Bluetooth stack: bt.c, the receiving side of SerialCom.c  *)
(* and abcsp_support_functions.c in src/core/dynawa/bt, with the scheduler *)
(* of BtScheduler and the Bluetooth manager of                             *)
(* src/images/lua/sd_card/_sys/apps/bluetooth_manager/bt_manager_app.lua.  *)
(*                                                                         *)
(* bt_open starts the task.  It boots the chip, sends it the settings one  *)
(* request at a time, restarts it and starts the applications.  Lua sends  *)
(* commands through a queue of one, and waits for the result of some.      *)
(* bt_close sends the command STOP, and the task deletes its queues.       *)
(*                                                                         *)
(* The Bluetooth tasks have a higher priority than Lua, which runs only    *)
(* while they are blocked.                                                 *)
(***************************************************************************)
EXTENDS BtScheduler

CONSTANTS
  Settings,     \* number of setting requests that the chip is sent
  Bursts,       \* what the chip sends of its own accord, at once
  MaxOpens,     \* bound: how often Bluetooth is switched on
  MaxFrames,    \* bound: how often it does
  MaxCommands   \* bound: commands of applications

ASSUME SettingsAssumption == Settings \in Nat \ {0}

\* A status, a link key request, a found service.
Spontaneous == {"status", "key", "found"}

ASSUME BurstsAssumption == Bursts \subseteq Seq(Spontaneous)
ASSUME BoundsAssumption == MaxOpens \in Nat /\ MaxFrames \in Nat /\ MaxCommands \in Nat

VARIABLES
  bc_state,    \* "STOPPED", "STARTING", "STARTED", "PS_SET", "RESTARTING", "READY", "STOPPING"
  hci,         \* NumberOfHciCommands
  settings,    \* setting requests still to be sent
  out,         \* what the pump has to send to the chip; "say": what commands and layers say
  asked,       \* what the chip has been sent and has not answered
  dma,         \* frames in the receive buffer that the rx thread has not seen
  rxbuf,       \* frames that it has handed over and the scheduler not delivered
  rx,          \* the rx thread: "off", "poll", "flag", "post"
  alive,       \* the queues and the scheduler's mutex exist
  result,      \* a result is in command_result_queue
  open_count,  \* bt_open_count
  hw,          \* hw_status of the manager: "off", "opening", "on", "closing"
  lua,         \* Lua: "idle", "send", "wake", "result"
  lua_cmd,     \* the command that Lua sends
  events,      \* Bluetooth events in the queue of Lua
  opens, frames, commands,  \* counters for the bounds
  refused,     \* history: bt_open has refused to start
  stray        \* history: hw when Lua used a queue that did not exist

chipVars == <<out, asked, dma, frames>>
linkVars == <<rxbuf, rx>>
bcVars   == <<bc_state, hci, settings>>
luaVars  == <<hw, lua, lua_cmd, opens, commands, refused, stray>>
lifeVars == <<alive, result, open_count>>
sessVars == <<chipVars, linkVars, bcVars, luaVars, lifeVars, events>>
vars == <<schedVars, sessVars>>

Init ==
  /\ SchedInit
  /\ bc_state = "STOPPED" /\ hci = 0 /\ settings = 0
  /\ out = {} /\ asked = {} /\ dma = <<>> /\ rxbuf = <<>> /\ rx = "off"
  /\ alive = FALSE /\ result = FALSE /\ open_count = 0
  /\ hw = "off" /\ lua = "idle" /\ lua_cmd = "none" /\ events = <<>>
  /\ opens = 0 /\ frames = 0 /\ commands = 0 /\ refused = FALSE /\ stray = "never"

-----------------------------------------------------------------------------
(* The chip and the rx thread.                                              *)

\* A command complete event (also the first sign of life), the answer to a setting,
\* the end of the applications' start, what the chip sends of its own accord.
Answers == [ps |-> "response", hci |-> "ready"]
Frames == {"nop", "response", "ready"} \cup Spontaneous

ChipAnswers ==
  /\ \E q \in asked \cap DOMAIN Answers :
       asked' = asked \ {q} /\ dma' = Append(dma, Answers[q])
  /\ UNCHANGED <<schedVars, linkVars, bcVars, luaVars, lifeVars, events, out, frames>>

\* Once it has been restarted the chip sends frames of its own accord, which includes
\* its answers to what is said to it.
ChipSends(b) ==
  /\ frames < MaxFrames /\ bc_state \in {"READY", "STOPPING"}
  /\ frames' = frames + 1 /\ dma' = dma \o b
  /\ UNCHANGED <<schedVars, linkVars, bcVars, luaVars, lifeVars, events, out, asked>>

\* The thread polls the receive buffer; handleRxData hands everything over ...
RxPoll ==
  /\ rx = "poll" /\ dma # <<>>
  /\ rx' = "flag" /\ rxbuf' = rxbuf \o dma /\ dma' = <<>>
  /\ UNCHANGED <<schedVars, bcVars, luaVars, lifeVars, events, out, asked, frames>>

\* ... and calls bg_int1: the flag first ...
RxFlag ==
  /\ rx = "flag"
  /\ rx' = "post" /\ flags' = flags \cup {1}
  /\ UNCHANGED <<pc, then, wake, run, cmd, timers, due, stimer, terminate, command,
                 rxbuf, chipVars, bcVars, luaVars, lifeVars, events>>

\* faulty: an event is posted only when the scheduler seems to be at work
PostsIfBusy == wake' = (IF pc = "receive" THEN wake ELSE 1)
RxPosts == WakeUp

\* ... the wake-up event afterwards.
RxPost ==
  /\ rx = "post"
  /\ rx' = "poll" /\ RxPosts
  /\ UNCHANGED <<pc, then, flags, run, cmd, timers, due, stimer, terminate, command,
                 rxbuf, chipVars, bcVars, luaVars, lifeVars, events>>

-----------------------------------------------------------------------------
(* The functions that the scheduler calls.                                  *)

\* bt_task.  When the serial port does not start the task ends, without
\* CloseMicroSched: the queues stay.
Boot ==
  /\ pc = "boot"
  /\ \/ /\ pc' = "again" /\ bc_state' = "STARTED" /\ settings' = Settings /\ hci' = 0
        /\ rx' = "poll" /\ dma' = <<"nop">> /\ UNCHANGED <<terminate, events>>
     \/ /\ pc' = "off" /\ bc_state' = "STOPPED" /\ events' = Append(events, "stopped")
        /\ terminate' = TRUE /\ UNCHANGED <<settings, hci, rx, dma>>
  /\ UNCHANGED <<then, flags, wake, run, cmd, timers, due, stimer, command,
                 out, asked, frames, rxbuf, luaVars, lifeVars>>

\* UartDrv_Rx takes what is there, or a part when the ring buffer ends.
Rx ==
  /\ pc = "rx"
  /\ pc' = (IF rxbuf = <<>> THEN "second" ELSE "deliver")
  /\ UNCHANGED <<then, flags, wake, run, cmd, timers, due, stimer, terminate, command, sessVars>>

\* faulty: one request more than there are settings
PsSetLate == settings < 0
IsPsSet == settings = 0

Response ==
  /\ bc_state' = (IF IsPsSet THEN "PS_SET" ELSE bc_state)
  /\ hci' = 1 /\ run' = TRUE
  /\ UNCHANGED <<events, out>>

\* hci_event_input: Lua is told of what concerns it, and the layers may have an answer.
LwBtEvent(f) ==
  /\ events' = CASE f = "ready" -> Append(events, "started")
                 [] f = "key"   -> Append(events, "key")
                 [] f = "found" -> Append(events, "found")
                 [] OTHER -> events
  /\ out' \in {out, out \cup {"say"}}
  /\ UNCHANGED <<bc_state, hci, run>>

EarlyEvent(f) ==
  /\ hci' = (IF f \in {"nop", "ready", "status"} THEN 1 ELSE hci)
  /\ run' = (run \/ hci' > 0)
  /\ UNCHANGED <<bc_state, events, out>>

\* abcsp_delivermsg, bg_int2 for the acknowledgement, and at the end bg_int1 when data has
\* come in the meantime.
Deliver ==
  /\ pc = "deliver"
  /\ LET f == Head(rxbuf) IN
       CASE f = "response" -> Response
         [] f # "response" /\ bc_state = "READY" -> LwBtEvent(f)
         [] OTHER -> EarlyEvent(f)
  /\ rxbuf' = Tail(rxbuf)
  /\ WakeUp
  /\ \/ rxbuf' # <<>> /\ pc' = "deliver" /\ flags' = flags \cup {2}
     \/ rxbuf' # <<>> /\ pc' = "second" /\ flags' = flags \cup {1, 2}
     \/ rxbuf' = <<>> /\ pc' = "second" /\ flags' = flags \cup {2}
  /\ UNCHANGED <<then, cmd, timers, due, stimer, terminate, command, settings, rx,
                 asked, dma, frames, luaVars, lifeVars>>

\* BgIntPump: what there is goes to the tx thread and to the chip.  abcsp_sendmsg refuses
\* messages while too many wait for their acknowledgement; the rest of what is said then
\* stays in transmitQueue until the next time.
Pump ==
  /\ pc = "pump"
  /\ pc' = then
  /\ out' \in SUBSET (out \cap {"say"}) /\ asked' = asked \cup (out \ {"say"})
  /\ UNCHANGED <<then, flags, wake, run, cmd, timers, due, stimer, terminate, command,
                 dma, frames, linkVars, bcVars, luaVars, lifeVars, events>>

\* queueMessage
Queue(q) == out' = out \cup {q} /\ Raise(2)
NothingToSend == UNCHANGED <<out, flags, wake>>
MaySay == Queue("say") \/ NothingToSend

\* faulty: the credit for one command is not used up
OneKept == hci
OneLess == hci - 1

\* The second half of u_bt_task: the next step of the chip's configuration, or what the
\* command has said before.  In any other state the task panics, except in READY, where
\* it asks for the chip's address.
Unexpected == hci > 0 /\ bc_state \notin {"STARTED", "PS_SET", "READY"}

NextStep ==
  \/ /\ hci = 0
     /\ IF cmd \in {"send", "ask"} THEN MaySay ELSE NothingToSend
     /\ UNCHANGED <<bcVars, timers>>
  \/ /\ hci > 0 /\ bc_state = "STARTED"
     /\ hci' = OneLess /\ settings' = settings - 1 /\ Queue("ps")
     /\ UNCHANGED <<bc_state, timers>>
  \/ /\ hci > 0 /\ bc_state = "PS_SET"
     /\ hci' = OneLess /\ bc_state' = "RESTARTING" /\ Queue("reset")
     /\ timers' = timers \cup {"restart"}
     /\ UNCHANGED settings
  \/ /\ hci > 0 /\ bc_state = "READY"
     /\ hci' = OneLess /\ Queue("say")
     /\ UNCHANGED <<bc_state, settings, timers>>
  \/ /\ Unexpected
     /\ hci' = OneLess
     /\ NothingToSend /\ UNCHANGED <<bc_state, settings, timers>>

\* faulty: the command is left for the next run
CommandKept == cmd
CommandAfterRun == "none"

\* u_bt_task, when it is to run.
Task ==
  /\ pc = "task"
  /\ pc' = (IF run /\ Unexpected THEN "panic" ELSE "timed")
  /\ IF run
       THEN /\ run' = FALSE /\ cmd' = CommandAfterRun
            /\ terminate' = (terminate \/ cmd = "stop")
            /\ result' = (result \/ cmd = "ask")
            /\ NextStep
       ELSE /\ NothingToSend
            /\ UNCHANGED <<run, cmd, terminate, result, bcVars, timers>>
  /\ UNCHANGED <<then, due, stimer, command, asked, dma, frames, linkVars, luaVars,
                 alive, open_count, events>>

\* restartHandler starts the applications; btHandler runs the timers of the layers and
\* starts the next period.
Due ==
  /\ pc = "due"
  /\ pc' = "timed"
  /\ \/ /\ "restart" \in due
        /\ bc_state' = "READY"
        /\ timers' = (timers \ {"restart"}) \cup {"bt"} /\ due' = due \ {"restart"}
        /\ Queue("hci")
     \/ /\ "bt" \in due
        /\ due' = due \ {"bt"}
        /\ MaySay /\ UNCHANGED <<timers, bc_state>>
  /\ UNCHANGED <<then, run, cmd, stimer, terminate, command, hci, settings, asked, dma, frames,
                 linkVars, luaVars, lifeVars, events>>

\* The end of MicroSched and of bt_task: the threads and the queues are deleted, but not
\* what is in transmitQueue.
Exit ==
  /\ pc = "exit"
  /\ pc' = "off" /\ timers' = {} /\ due' = {} /\ stimer' = FALSE
  /\ rx' = "off" /\ rxbuf' = <<>> /\ dma' = <<>> /\ asked' = {}
  /\ out' \in SUBSET (out \cap {"say"})
  /\ alive' = FALSE /\ wake' = 0 /\ command' = "none" /\ result' = FALSE
  /\ bc_state' = "STOPPED" /\ events' = Append(events, "stopped")
  /\ UNCHANGED <<then, flags, run, cmd, terminate, hci, settings, frames, luaVars, open_count>>

-----------------------------------------------------------------------------
(* Lua.                                                                     *)

LuaRuns ==
  /\ pc \in {"off", "boot"} \/ (pc = "receive" /\ wake = 0)
  /\ rx \in {"off", "poll"}

\* menu_action_bt_on and bt_open.  Bound: a session that begins with what the last one
\* has left in transmitQueue is not modelled.
LuaOpens ==
  /\ lua = "idle" /\ hw = "off" /\ opens < MaxOpens /\ LuaRuns
  /\ open_count = 0 => out = {}
  /\ opens' = opens + 1 /\ hw' = "opening"
  /\ open_count' = open_count + 1
  /\ IF open_count = 0
       THEN /\ bc_state' = "STARTING" /\ alive' = TRUE /\ pc' = "boot" /\ terminate' = FALSE
            /\ wake' = 0 /\ command' = "none" /\ result' = FALSE /\ cmd' = "none"
            /\ UNCHANGED refused
       ELSE /\ refused' = TRUE
            /\ UNCHANGED <<bc_state, alive, pc, terminate, wake, command, result, cmd>>
  /\ UNCHANGED <<then, flags, run, timers, due, stimer, hci, settings, chipVars, linkVars,
                 lua, lua_cmd, commands, stray, events>>

\* faulty: Bluetooth is switched off before it has come up
CanCloseEarly == hw \in {"opening", "on"}
CanClose == hw = "on"

\* menu_action_bt_off and bt_close: the state first, the command afterwards.
LuaCloses ==
  /\ lua = "idle" /\ CanClose /\ LuaRuns
  /\ hw' = "closing"
  /\ open_count' = open_count - 1
  /\ IF open_count = 1
       THEN bc_state' = "STOPPING" /\ lua' = "send" /\ lua_cmd' = "stop"
       ELSE UNCHANGED <<bc_state, lua, lua_cmd>>
  /\ UNCHANGED <<schedVars, chipVars, linkVars, hci, settings, opens, commands, refused, stray,
                 alive, result, events>>

\* An application's command: "ask" has a result.
LuaCommands(c) ==
  /\ lua = "idle" /\ hw = "on" /\ commands < MaxCommands /\ LuaRuns
  /\ commands' = commands + 1 /\ lua' = "send" /\ lua_cmd' = c
  /\ UNCHANGED <<schedVars, chipVars, linkVars, bcVars, hw, opens, refused, stray, lifeVars,
                 events>>

\* A link key request is answered, a found service is connected to, whatever hw is.
LuaEvent ==
  /\ lua = "idle" /\ events # <<>> /\ LuaRuns
  /\ LET e == Head(events) IN
       /\ hw' = CASE e = "started" -> "on" [] e = "stopped" -> "off" [] OTHER -> hw
       /\ lua' = (IF e \in {"key", "found"} THEN "send" ELSE "idle")
       /\ lua_cmd' = CASE e = "key" -> "send" [] e = "found" -> "ask" [] OTHER -> lua_cmd
  /\ events' = Tail(events)
  /\ UNCHANGED <<schedVars, chipVars, linkVars, bcVars, opens, commands, refused, stray,
                 lifeVars>>

\* What follows the use of a deleted queue is not modelled: the command is gone.
LuaStrays ==
  /\ lua \in {"send", "wake"} /\ ~alive /\ LuaRuns
  /\ stray' = hw /\ lua' = "idle"
  /\ UNCHANGED <<schedVars, chipVars, linkVars, bcVars, hw, lua_cmd, opens, commands, refused,
                 lifeVars, events>>

LuaSends ==
  /\ lua = "send" /\ alive /\ command = "none" /\ LuaRuns
  /\ command' = lua_cmd /\ lua' = "wake"
  /\ UNCHANGED <<pc, then, flags, wake, run, cmd, timers, due, stimer, terminate,
                 chipVars, linkVars, bcVars, hw, lua_cmd, opens, commands, refused, stray,
                 lifeVars, events>>

LuaWakes ==
  /\ lua = "wake" /\ alive /\ LuaRuns
  /\ WakeUp
  /\ lua' = (IF lua_cmd = "ask" THEN "result" ELSE "idle")
  /\ UNCHANGED <<pc, then, flags, run, cmd, timers, due, stimer, terminate, command,
                 chipVars, linkVars, bcVars, hw, lua_cmd, opens, commands, refused, stray,
                 lifeVars, events>>

LuaResult ==
  /\ lua = "result" /\ result /\ LuaRuns
  /\ lua' = "idle" /\ result' = FALSE
  /\ UNCHANGED <<schedVars, chipVars, linkVars, bcVars, hw, lua_cmd, opens, commands, refused,
                 stray, alive, open_count, events>>

-----------------------------------------------------------------------------
Main == (Loop /\ UNCHANGED sessVars) \/ Boot \/ Rx \/ Deliver \/ Pump \/ Task \/ Due \/ Exit
RxThread == RxPoll \/ RxFlag \/ RxPost
Clock == (TimeComes \/ bt_sched_timer_handler) /\ UNCHANGED sessVars
Chip == ChipAnswers \/ \E b \in Bursts : ChipSends(b)
LuaGoesOn == LuaEvent \/ LuaStrays \/ LuaSends \/ LuaWakes \/ LuaResult
Lua == LuaOpens \/ LuaCloses \/ (\E c \in {"send", "ask"} : LuaCommands(c)) \/ LuaGoesOn

Next == Main \/ RxThread \/ Clock \/ Chip \/ Lua

Spec == Init /\ [][Next]_vars

\* The tasks run, the lowest, Lua, in the pauses of the others; the chip answers and
\* time passes.
Fairness ==
  /\ WF_vars(Main) /\ WF_vars(RxThread) /\ WF_vars(ChipAnswers)
  /\ WF_vars(TimeComes /\ UNCHANGED sessVars)
  /\ WF_vars(bt_sched_timer_handler /\ UNCHANGED sessVars)
  /\ SF_vars(LuaGoesOn)

FairSpec == Spec /\ Fairness

-----------------------------------------------------------------------------
(* Properties.                                                              *)

TypeOK ==
  /\ SchedTypeOK
  /\ bc_state \in {"STOPPED", "STARTING", "STARTED", "PS_SET", "RESTARTING", "READY", "STOPPING"}
  /\ hci \in 0 .. 1 /\ settings \in 0 .. Settings
  /\ out \subseteq {"ps", "reset", "hci", "say"} /\ asked \subseteq {"ps", "reset", "hci"}
  /\ dma \in Seq(Frames) /\ rxbuf \in Seq(Frames) /\ rx \in {"off", "poll", "flag", "post"}
  /\ alive \in BOOLEAN /\ result \in BOOLEAN /\ open_count \in Nat 
  /\ hw \in {"off", "opening", "on", "closing"} /\ lua \in {"idle", "send", "wake", "result"}
  /\ lua_cmd \in {"none", "stop", "send", "ask"}
  /\ events \in Seq({"started", "stopped", "key", "found"})
  /\ opens \in 0 .. MaxOpens /\ frames \in 0 .. MaxFrames /\ commands \in 0 .. MaxCommands
  /\ refused \in BOOLEAN /\ stray \in {"never", "off", "opening", "on", "closing"}

\* The scheduler never sleeps over work: when it waits and no event is there, received
\* data has its poster on the way to the post, so has a queued command, nothing is left
\* to send, and a timed event has the timer.  The queue of one event loses posts, and
\* the flags are cleared while others are raised.
NoLostWakeup ==
  pc = "receive" /\ wake = 0 =>
    /\ 1 \in flags => rx = "post"
    /\ 2 \notin flags
    /\ command # "none" => lua = "wake"
    /\ timers # {} => stimer

\* u_bt_task panics when it may send a command in a state that has none.  That happens
\* only while Bluetooth is being closed and the chip has sent more than the answers to its
\* configuration: bt_close sets the state before the scheduler has the command, and a
\* status of the chip then finds no branch.
PanicOnlyWhileClosing == pc = "panic" => hw = "closing" /\ bc_state = "STOPPING" /\ frames > 0

\* Lua uses the scheduler's queues only while they exist, except when it answers an
\* event that was in its queue when it closed Bluetooth.
QueuesExist ==
  /\ stray \in {"never", "closing"}
  /\ lua \in {"send", "wake", "result"} /\ ~alive => hw = "closing"

\* Switched on, Bluetooth comes up or reports that it has stopped, unless bt_open has
\* refused: after a serial port that did not start, its count is never reset.
Opens == hw = "opening" ~> (hw \in {"on", "off"} \/ refused)

\* Switched off, it reports that it has stopped, unless u_bt_task panics or Lua waits
\* for the result of a command that it has sent after STOP.
Closes == hw = "closing" ~> (hw = "off" \/ pc = "panic" \/ (lua = "result" /\ ~alive))

\* A result in the queue is the one that Lua waits for, or will wait for: nothing is left
\* there to be taken for the result of the next command.
ResultIsAwaited == result => lua \in {"wake", "result"} /\ lua_cmd = "ask"

\* Lua gets its result, unless the queue is deleted while it waits, or u_bt_task panics.
Answered == lua = "result" ~> (lua # "result" \/ ~alive \/ pc = "panic")
=============================================================================
