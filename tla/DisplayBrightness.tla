------------------------- MODULE DisplayBrightness --------------------------
(***************************************************************************)
(* The display's brightness: src/core/dynawa/display.c with the profiles   *)
(* of src/core/peripherals/oled/oled.c.  Lua sets a level and switches the *)
(* display on and off under the lock of the screen (scrLock).  Level 0     *)
(* means automatic: Lua posts START and STOP to the brightness task, which *)
(* measures the light once a second and sets the profile.  The queue holds *)
(* one event, a second one is dropped, and display_brightness reads the    *)
(* task's flag without asking whether it has handled what is queued.       *)
(*                                                                         *)
(* The task has a higher priority than Lua, so Lua runs only while it      *)
(* waits: for an event, for the A/D converter or for the screen.           *)
(***************************************************************************)
EXTENDS Naturals, Sequences

CONSTANTS
  Levels,      \* levels that Lua asks for: 0 is automatic, the others are profiles
  QueueLength  \* length of display_queue: 1 in display_init

ASSUME LevelsAssumption == Levels \subseteq Nat
ASSUME QueueAssumption == QueueLength \in Nat \ {0}

VARIABLES
  power_state,    \* display_power_state
  level,          \* display_brightness_level
  task_run,       \* display_brightness_task_run
  display_queue,
  timer,          \* TRUE while the task's timer is running
  timer_running,  \* the task's own idea of it
  pc,             \* where the task is: "receive", "stop", "adc", "screen", "start"
  lua,            \* where Lua is: "idle", or "apply" between the post and the rest
  call,           \* the call under way, or the last one
  screen,         \* the screen's lock: "lua" or "free"; the task has it within one step
  profile,        \* the profile that the OLED controller has
  relit,          \* history: power on has set the profile since Lua or the task did
  refused,        \* history: the last event was posted for a level without a profile
  late,           \* history: the timer expired after the task had received an event
  overlapped      \* history: Lua acted on the flag before the task had handled its event

luaVars  == <<lua, call, power_state, level>>
taskVars == <<pc, task_run, timer_running>>
history  == <<relit, refused, late, overlapped>>
vars == <<luaVars, taskVars, display_queue, timer, screen, profile,
                 history>>

POWER_ON_PROFILE == 2
oled_profiles == 0 .. 3  \* the indices of the profiles

Brightness(l) == [op |-> "brightness", level |-> l]
PowerOn  == [op |-> "on"]
PowerOff == [op |-> "off"]
Calls == {Brightness(l) : l \in Levels} \cup {PowerOn, PowerOff}

\* display_init and the call of display_power(1) that follows it in image.c.
Init ==
  /\ power_state = TRUE /\ level = 2
  /\ task_run = FALSE /\ display_queue = <<>>
  /\ timer = FALSE /\ timer_running = FALSE
  /\ pc = "receive" /\ lua = "idle" /\ call = PowerOn /\ screen = "free"
  /\ profile = POWER_ON_PROFILE /\ relit = TRUE
  /\ refused = FALSE /\ late = FALSE /\ overlapped = FALSE

Room == Len(display_queue) < QueueLength

Post(e) == display_queue' = IF Room THEN Append(display_queue, e) ELSE display_queue

-----------------------------------------------------------------------------
(* Lua.                                                                     *)

TaskBlocked ==
  \/ pc = "receive" /\ display_queue = <<>>
  \/ pc = "adc"
  \/ pc = "screen" /\ screen # "free"

\* The event that display_brightness posts for a level.
EventFor(l) ==
  IF l # 0
    THEN IF level = 0 /\ task_run THEN "STOP" ELSE "none"
    ELSE IF level # 0 \/ ~power_state THEN "START" ELSE "none"

\* faulty: power on does not restore the automatic mode
NoEventOnPower == "none"
EventOfPowerOn == EventFor(level)

EventOf(c) ==
  CASE c.op = "brightness" -> EventFor(c.level)
    [] c.op = "on"  -> EventOfPowerOn
    [] c.op = "off" -> IF level = 0 /\ task_run THEN "STOP" ELSE "none"

\* faulty: both conditions are asked for
SetsIfBoth(l) == l # 0 /\ level # l /\ ~power_state
SetsProfile(l) == l # 0 /\ (level # l \/ ~power_state)

\* oledSetProfile has no such profile: display_brightness returns at once, but may have
\* posted STOP.
Refuses(c) ==
  c.op = "brightness" /\ SetsProfile(c.level) /\ c.level \notin oled_profiles

\* The task handles the event at once, unless it is in the middle of another.
Settled == pc = "receive" /\ display_queue = <<>>

LuaCalls(c) ==
  /\ lua = "idle" /\ TaskBlocked /\ screen = "free"
  /\ c.op \in {"on", "off"} => power_state # (c.op = "on")
  /\ screen' = "lua" /\ lua' = "apply" /\ call' = c
  /\ IF EventOf(c) = "none" THEN UNCHANGED display_queue ELSE Post(EventOf(c))
  /\ overlapped' = (overlapped \/ ~Settled)
  /\ refused' = IF EventOf(c) = "none" THEN refused ELSE Refuses(c)
  /\ UNCHANGED <<taskVars, power_state, level, timer, profile, relit, late>>

\* The rest of display_brightness: the level becomes the profile.
ApplyBrightness ==
  /\ call.op = "brightness" /\ ~Refuses(call)
  /\ level' = call.level
  /\ IF SetsProfile(call.level)
       THEN profile' = call.level /\ relit' = FALSE
       ELSE UNCHANGED <<profile, relit>>
  /\ UNCHANGED power_state

RefuseBrightness == Refuses(call) /\ UNCHANGED <<level, power_state, profile, relit>>

\* Switching the OLED on sets its profile after display_brightness has.
ApplyPower ==
  /\ call.op \in {"on", "off"}
  /\ power_state' = (call.op = "on")
  /\ IF call.op = "on"
       THEN profile' = POWER_ON_PROFILE /\ relit' = TRUE
       ELSE UNCHANGED <<profile, relit>>
  /\ UNCHANGED level

LuaApplies ==
  /\ lua = "apply" /\ TaskBlocked
  /\ ApplyBrightness \/ RefuseBrightness \/ ApplyPower
  /\ lua' = "idle" /\ screen' = "free"
  /\ UNCHANGED <<taskVars, call, display_queue, timer, refused, late, overlapped>>

-----------------------------------------------------------------------------
(* display_brightness_task and its timer.                                   *)

Receive ==
  /\ pc = "receive" /\ display_queue # <<>>
  /\ LET e == Head(display_queue) IN
       /\ timer_running' = (timer_running /\ e # "TIMED")
       /\ task_run' = CASE e = "START" -> TRUE [] e = "STOP" -> FALSE [] OTHER -> task_run
  /\ display_queue' = Tail(display_queue)
  /\ pc' = "stop"
  /\ UNCHANGED <<luaVars, timer, screen, profile, history>>

\* faulty: a timer that runs is left alone
TimerKept == timer
TimerAfterStop == timer /\ ~timer_running

StopTimer ==
  /\ pc = "stop"
  /\ timer' = TimerAfterStop
  /\ pc' = IF task_run THEN "adc" ELSE "receive"
  /\ UNCHANGED <<luaVars, task_run, timer_running, display_queue, screen, profile, history>>

\* The task sleeps until the A/D converter's interrupt, or for a second without one.
Measure ==
  /\ pc = "adc"
  /\ pc' = "screen"
  /\ UNCHANGED <<luaVars, task_run, timer_running, display_queue, timer, screen, profile,
                 history>>

SetProfile ==
  /\ pc = "screen" /\ screen = "free"
  /\ profile' \in 1 .. 3 /\ relit' = FALSE
  /\ pc' = "start"
  /\ UNCHANGED <<luaVars, task_run, timer_running, display_queue, timer, screen, refused, late,
                 overlapped>>

\* faulty: only the first measurement starts the timer
StartOnce == timer \/ ~timer_running
TimerAfterStart == TRUE

StartTimer ==
  /\ pc = "start"
  /\ timer' = TimerAfterStart /\ timer_running' = TRUE
  /\ pc' = "receive"
  /\ UNCHANGED <<luaVars, task_run, display_queue, screen, profile, history>>

display_timer_handler ==
  /\ timer
  /\ timer' = FALSE
  /\ Post("TIMED")
  /\ late' = (late \/ pc = "stop")
  /\ UNCHANGED <<luaVars, taskVars, screen, profile, relit, refused, overlapped>>

-----------------------------------------------------------------------------
Task == Receive \/ StopTimer \/ Measure \/ SetProfile \/ StartTimer

Next == (\E c \in Calls : LuaCalls(c)) \/ LuaApplies \/ Task \/ display_timer_handler

Spec == Init /\ [][Next]_vars

\* The task has priority over Lua, whose calls end; a running timer expires.
Fairness == WF_vars(Task) /\ SF_vars(LuaApplies) /\ WF_vars(display_timer_handler)

FairSpec == Spec /\ Fairness

-----------------------------------------------------------------------------
(* Properties.                                                              *)

Events == {"START", "STOP", "TIMED"}

TypeOK ==
  /\ power_state \in BOOLEAN /\ level \in oled_profiles
  /\ task_run \in BOOLEAN /\ timer \in BOOLEAN /\ timer_running \in BOOLEAN
  /\ display_queue \in Seq(Events) /\ Len(display_queue) <= QueueLength
  /\ pc \in {"receive", "stop", "adc", "screen", "start"}
  /\ lua \in {"idle", "apply"} /\ call \in Calls /\ screen \in {"free", "lua"}
  /\ profile \in oled_profiles \ {0}
  /\ relit \in BOOLEAN /\ refused \in BOOLEAN /\ late \in BOOLEAN /\ overlapped \in BOOLEAN

Quiet == Settled /\ lua = "idle"

\* The task is in the mode that Lua asked for: it measures when the display is on and
\* the level is 0, and has stopped when the level is not 0.  Lua's test of the task's
\* flag misleads it only when it acts while the task is still busy with an event.  Only
\* a level that the OLED has no profile for stops the task and leaves the level at 0.
ModeFollows ==
  Quiet /\ ~overlapped =>
    /\ power_state /\ level = 0 => task_run \/ refused
    /\ level # 0 => ~task_run

\* The screen shows the level that was set, or what the power-on sequence has set
\* after it: display_power sets the level before it switches the OLED on.
ProfileIsLevel ==
  Quiet /\ ~overlapped /\ power_state /\ level # 0 /\ ~relit => profile = level

\* Timer_start of a running timer corrupts the list of timers.  The task does so only
\* when the timer has expired between the receive of another event and Timer_stop:
\* the TIMED that is left in the queue is then taken for the end of the next period.
StartsIdleTimer == pc = "start" /\ timer => late

\* Automatic brightness never dies: as long as the task's flag is set it measures
\* again and again, although events of its timer may find the queue full.
KeepsMeasuring == task_run ~> (pc = "adc" \/ ~task_run)
=============================================================================
