---------------------- MODULE DisplayBrightness_proofs ----------------------
(***************************************************************************)
(* The brightness task ends up in the mode that Lua asked for, although    *)
(* Lua decides by a flag that the task changes later: one event at a time  *)
(* is on its way, and Ahead is what the task's flag will be.  The screen   *)
(* then shows the level, since a task that measures is not about to be     *)
(* stopped.  And with the queue of one of display_init the task never      *)
(* starts a running timer, unless the timer expired after the task had     *)
(* received another event.                                                 *)
(***************************************************************************)
EXTENDS DisplayBrightness, SequenceTheorems, TLAPS

\* What the task's flag will be once it has handled the event at the head.
Ahead ==
  IF display_queue # <<>> /\ Head(display_queue) = "START" THEN TRUE
  ELSE IF display_queue # <<>> /\ Head(display_queue) = "STOP" THEN FALSE
  ELSE task_run

OnlyTimed(q) == \A k \in 1 .. Len(q) : q[k] = "TIMED"

\* Lua posts to a queue that is empty, so what follows the head are expiries only.
OneAhead == display_queue # <<>> => OnlyTimed(Tail(display_queue))

\* The level and the power that will be in force when Lua's call is done.
NextLevel ==
  IF lua = "apply" /\ call.op = "brightness" /\ ~Refuses(call) THEN call.level ELSE level
NextPower ==
  IF lua = "apply" /\ call.op = "on" THEN TRUE
  ELSE IF lua = "apply" /\ call.op = "off" THEN FALSE
  ELSE power_state

Follows ==
  ~overlapped =>
    /\ OneAhead
    /\ NextPower /\ NextLevel = 0 => Ahead \/ refused
    /\ NextLevel # 0 => ~Ahead

\* With a queue of one: an expiry in the queue means that the timer has stopped, and a
\* running timer is known to the task, which has not begun to measure.
TimerKnown ==
  /\ Len(display_queue) <= 1
  /\ ~late =>
       /\ timer => timer_running /\ pc \in {"receive", "stop"}
       /\ display_queue = <<"TIMED">> => pc = "receive" /\ ~timer

-----------------------------------------------------------------------------
\* What Lua's calls may be.
LEMMA CallIs ==
  ASSUME NEW c \in Calls
  PROVE  \/ c.op = "brightness" /\ c.level \in Levels
         \/ c.op = "on" \/ c.op = "off"
  BY DEF Calls, Brightness, PowerOn, PowerOff

LEMMA EventIs ==
  ASSUME NEW c \in Calls PROVE EventOf(c) \in {"START", "STOP", "none"}
  BY CallIs DEF EventOf, EventFor, EventOfPowerOn

\* Queues of at most one event.
LEMMA ShortQueue ==
  ASSUME display_queue \in Seq(Events), Len(display_queue) <= 1
  PROVE  /\ Len(display_queue) < 1 => display_queue = <<>>
         /\ display_queue # <<>> =>
              display_queue = <<Head(display_queue)>> /\ Tail(display_queue) = <<>>
<1>1. Len(display_queue) < 1 => display_queue = <<>>
  BY EmptySeq
<1>2. ASSUME display_queue # <<>>
      PROVE  display_queue = <<Head(display_queue)>> /\ Tail(display_queue) = <<>>
  <2>1. Head(display_queue) \in Events
    BY <1>2, HeadTailProperties
  <2>2. Len(display_queue) = 1
    <3> DEFINE n == Len(display_queue)
    <3>1. n \in Nat \ {0} /\ n <= 1
      BY <1>2, EmptySeq
    <3> HIDE DEF n
    <3>2. n = 1
      BY <3>1
    <3> QED
      BY <3>2 DEF n
  <2>3. display_queue = <<Head(display_queue)>>
    BY <2>1, <2>2, SeqEqual
  <2>4. Tail(display_queue) \in Seq(Events) /\ Len(Tail(display_queue)) = 0
    BY <1>2, <2>2, HeadTailProperties
  <2>5. Tail(display_queue) = <<>>
    BY <2>4, EmptySeq
  <2> QED
    BY <2>3, <2>5
<1> QED
  BY <1>1, <1>2

\* A post keeps the queue within its length.
LEMMA PostKeepsType ==
  ASSUME TypeOK, NEW e \in Events, Post(e)
  PROVE  display_queue' \in Seq(Events) /\ Len(display_queue') <= QueueLength
<1> USE DEF TypeOK
<1>1. CASE Room
  <2>1. Len(display_queue') = Len(display_queue) + 1
    BY <1>1 DEF Post
  <2> QED
    BY <1>1, <2>1, QueueAssumption DEF Post, Room
<1>2. CASE ~Room
  BY <1>2 DEF Post
<1> QED
  BY <1>1, <1>2

\* Every variable keeps its type.
THEOREM TypeCorrect == Spec => []TypeOK
<1>1. Init => TypeOK
  <2>1. PowerOn \in Calls
    BY DEF Calls
  <2>2. <<>> \in Seq(Events) /\ Len(<<>>) <= QueueLength
    BY QueueAssumption
  <2>3. Init => display_queue \in Seq(Events) /\ Len(display_queue) <= QueueLength
    BY <2>2 DEF Init
  <2>4. Init => call \in Calls
    BY <2>1 DEF Init
  <2>5. Init => profile \in oled_profiles \ {0} /\ level \in oled_profiles
    BY DEF Init, POWER_ON_PROFILE, oled_profiles
  <2>6. Init => /\ power_state \in BOOLEAN /\ task_run \in BOOLEAN
                /\ timer \in BOOLEAN /\ timer_running \in BOOLEAN
                /\ relit \in BOOLEAN /\ refused \in BOOLEAN
                /\ late \in BOOLEAN /\ overlapped \in BOOLEAN
    BY DEF Init
  <2>7. Init => pc = "receive" /\ lua = "idle" /\ screen = "free"
    BY DEF Init
  <2> QED
    BY <2>3, <2>4, <2>5, <2>6, <2>7 DEF TypeOK
<1>2. TypeOK /\ [Next]_vars => TypeOK'
  <2> SUFFICES ASSUME TypeOK, [Next]_vars PROVE TypeOK'
    OBVIOUS
  <2> USE DEF TypeOK
  <2>1. ASSUME NEW c \in Calls, LuaCalls(c) PROVE TypeOK'
    <3>1. display_queue' \in Seq(Events) /\ Len(display_queue') <= QueueLength
      <4>1. CASE EventOf(c) = "none"
        BY <2>1, <4>1 DEF LuaCalls
      <4>2. CASE EventOf(c) # "none"
        <5>1. EventOf(c) \in Events
          BY <4>2, EventIs DEF Events
        <5> QED
          BY <2>1, <4>2, <5>1, PostKeepsType DEF LuaCalls
      <4> QED
        BY <4>1, <4>2
    <3>2. overlapped' \in BOOLEAN /\ refused' \in BOOLEAN
      BY <2>1 DEF LuaCalls, Refuses
    <3> QED
      BY <2>1, <3>1, <3>2 DEF LuaCalls, taskVars
  <2>2. CASE LuaApplies
    <3>1. CASE ApplyBrightness
      <4>1. call.level \in Nat /\ (SetsProfile(call.level) => call.level \in oled_profiles \ {0})
        BY <3>1, CallIs, LevelsAssumption DEF ApplyBrightness, Refuses, SetsProfile
      <4>2. call.level \in oled_profiles
        BY <3>1, <4>1 DEF SetsProfile, oled_profiles
      <4> QED
        BY <2>2, <3>1, <4>1, <4>2 DEF LuaApplies, ApplyBrightness, taskVars
    <3>2. CASE RefuseBrightness
      BY <2>2, <3>2 DEF LuaApplies, RefuseBrightness, taskVars
    <3>3. CASE ApplyPower
      <4>1. power_state' \in BOOLEAN /\ relit' \in BOOLEAN
        BY <3>3 DEF ApplyPower
      <4>2. profile' \in oled_profiles \ {0} /\ level' = level
        BY <3>3 DEF ApplyPower, POWER_ON_PROFILE, oled_profiles
      <4> QED
        BY <2>2, <4>1, <4>2 DEF LuaApplies, taskVars
    <3> QED
      BY <2>2, <3>1, <3>2, <3>3 DEF LuaApplies
  <2>3. CASE Receive
    <3>1. task_run' \in BOOLEAN
      BY <2>3 DEF Receive
    <3>2. display_queue' \in Seq(Events) /\ Len(display_queue') = Len(display_queue) - 1
      BY <2>3, HeadTailProperties DEF Receive
    <3>3. Len(display_queue') <= QueueLength
      BY <3>2, QueueAssumption
    <3>4. timer_running' \in BOOLEAN
      BY <2>3 DEF Receive
    <3> QED
      BY <2>3, <3>1, <3>2, <3>3, <3>4 DEF Receive, luaVars, history
  <2>4. CASE StopTimer
    BY <2>4 DEF StopTimer, TimerAfterStop, luaVars, history
  <2>5. CASE Measure
    BY <2>5 DEF Measure, luaVars, history
  <2>6. CASE SetProfile
    <3>1. profile' \in oled_profiles \ {0}
      BY <2>6 DEF SetProfile, oled_profiles
    <3> QED
      BY <2>6, <3>1 DEF SetProfile, luaVars
  <2>7. CASE StartTimer
    BY <2>7 DEF StartTimer, TimerAfterStart, luaVars, history
  <2>8. CASE display_timer_handler
    <3>1. display_queue' \in Seq(Events) /\ Len(display_queue') <= QueueLength
      BY <2>8, PostKeepsType DEF display_timer_handler, Events
    <3>2. late' \in BOOLEAN
      BY <2>8 DEF display_timer_handler
    <3> QED
      BY <2>8, <3>1, <3>2 DEF display_timer_handler, luaVars, taskVars
  <2>9. CASE UNCHANGED vars
    BY <2>9 DEF vars, history, luaVars, taskVars
  <2> QED
    BY <2>1, <2>2, <2>3, <2>4, <2>5, <2>6, <2>7, <2>8, <2>9 DEF Next, Task
<1> QED
  BY <1>1, <1>2, PTL DEF Spec

-----------------------------------------------------------------------------
\* The brightness task's steps leave the future of its flag as it is.
LEMMA TaskKeepsAhead ==
  ASSUME TypeOK, ~overlapped => OneAhead, Task
  PROVE  ~overlapped => OneAhead' /\ Ahead' = Ahead
<1> USE DEF TypeOK
<1>1. CASE Receive
  <2> SUFFICES ASSUME ~overlapped
               PROVE  OneAhead' /\ Ahead' = Ahead
    OBVIOUS
  <2>1. display_queue # <<>> /\ display_queue' = Tail(display_queue)
    BY <1>1 DEF Receive
  <2>2. display_queue' \in Seq(Events) /\ OnlyTimed(display_queue')
    BY <2>1 DEF OneAhead
  <2>3. display_queue' # <<>> => Head(display_queue') = "TIMED"
    BY <2>2 DEF OnlyTimed
  <2>4. OneAhead'
    BY <2>2 DEF OneAhead, OnlyTimed
  <2>5. Head(display_queue) \in Events
    BY <2>1
  <2>6. Ahead' = task_run'
    BY <2>3 DEF Ahead
  <2>7. Ahead = task_run'
    BY <1>1, <2>1, <2>5 DEF Receive, Ahead, Events
  <2> QED
    BY <2>4, <2>6, <2>7
<1>2. CASE StopTimer \/ Measure \/ SetProfile \/ StartTimer
  <2>1. UNCHANGED <<display_queue, task_run>>
    BY <1>2 DEF StopTimer, Measure, SetProfile, StartTimer
  <2> QED
    BY <2>1 DEF OneAhead, Ahead, OnlyTimed
<1> QED
  BY <1>1, <1>2 DEF Task

\* So does the timer's handler, which posts behind the event at the head.
LEMMA TimerKeepsAhead ==
  ASSUME TypeOK, ~overlapped => OneAhead, display_timer_handler
  PROVE  ~overlapped => OneAhead' /\ Ahead' = Ahead
<1> SUFFICES ASSUME ~overlapped
             PROVE  OneAhead' /\ Ahead' = Ahead
  OBVIOUS
<1> USE DEF TypeOK
<1>1. task_run' = task_run
  BY DEF display_timer_handler, taskVars
<1>2. CASE display_queue' = display_queue
  BY <1>1, <1>2 DEF OneAhead, OnlyTimed, Ahead
<1>3. CASE display_queue' = Append(display_queue, "TIMED")
  <2>1. CASE display_queue = <<>>
    <3>1. display_queue' = <<"TIMED">>
      BY <1>3, <2>1
    <3> QED
      BY <1>1, <2>1, <3>1 DEF OneAhead, OnlyTimed, Ahead
  <2>2. CASE display_queue # <<>>
    <3>1. Head(display_queue') = Head(display_queue) /\ display_queue' # <<>>
      BY <1>3, <2>2
    <3>2. Tail(display_queue') = Append(Tail(display_queue), "TIMED")
      BY <1>3, <2>2
    <3> DEFINE rest == Tail(display_queue)
    <3>3. rest \in Seq(Events) /\ \A k \in 1 .. Len(rest) : rest[k] = "TIMED"
      BY <2>2 DEF OneAhead, OnlyTimed
    <3>4. \A k \in 1 .. Len(Append(rest, "TIMED")) : Append(rest, "TIMED")[k] = "TIMED"
      <4> HIDE DEF rest
      <4> QED
        BY <3>3 DEF Events
    <3>5. OnlyTimed(Tail(display_queue'))
      BY <3>2, <3>4 DEF OnlyTimed
    <3> QED
      BY <1>1, <2>2, <3>1, <3>5 DEF OneAhead, Ahead
  <2> QED
    BY <2>1, <2>2
<1> QED
  BY <1>2, <1>3 DEF display_timer_handler, Post

\* A call of Lua that finds the task at rest posts what the new mode needs.
LEMMA CallFollows ==
  ASSUME TypeOK, Follows, NEW c \in Calls, LuaCalls(c)
  PROVE  Follows'
<1> SUFFICES ASSUME ~overlapped'
             PROVE  Follows'
  BY DEF Follows
<1> USE DEF TypeOK
<1>1. /\ Settled /\ ~overlapped /\ lua = "idle" /\ lua' = "apply" /\ call' = c
      /\ UNCHANGED <<task_run, power_state, level>>
  BY DEF LuaCalls, taskVars
<1>2. display_queue = <<>>
  BY <1>1 DEF Settled
<1>3. (power_state /\ level = 0 => task_run \/ refused) /\ (level # 0 => ~task_run)
  BY <1>1, <1>2 DEF Follows, Ahead, NextPower, NextLevel
<1>4. display_queue' = IF EventOf(c) = "none" THEN <<>> ELSE <<EventOf(c)>>
  BY <1>2, QueueAssumption DEF LuaCalls, Post, Room
<1>5. OneAhead'
  BY <1>4, EventIs DEF OneAhead, OnlyTimed
<1>6. /\ EventOf(c) = "START" => Ahead'
      /\ EventOf(c) = "STOP" => ~Ahead'
      /\ EventOf(c) = "none" => (Ahead' <=> task_run)
  <2>1. CASE EventOf(c) = "none"
    BY <1>1, <1>4, <2>1 DEF Ahead
  <2>2. CASE EventOf(c) \in {"START", "STOP"}
    <3>1. display_queue' # <<>> /\ Head(display_queue') = EventOf(c)
      BY <1>4, <2>2
    <3> QED
      BY <2>2, <3>1 DEF Ahead
  <2> QED
    BY <2>1, <2>2, EventIs
<1>7. CASE Refuses(c)
  <2>1. c.op = "brightness" /\ c.level # 0 /\ (Refuses(call))'
    BY <1>1, <1>7 DEF Refuses, SetsProfile
  <2>2. NextLevel' = level /\ NextPower' = power_state
    BY <1>1, <2>1 DEF NextLevel, NextPower
  <2>3. EventOf(c) = IF level = 0 /\ task_run THEN "STOP" ELSE "none"
    BY <2>1 DEF EventOf, EventFor
  <2>4. refused' = IF EventOf(c) = "none" THEN refused ELSE TRUE
    BY <1>7 DEF LuaCalls
  <2> QED
    BY <1>3, <1>5, <1>6, <2>2, <2>3, <2>4 DEF Follows
<1>8. CASE ~Refuses(c)
  <2>1. ~(Refuses(call))'
    BY <1>1, <1>8 DEF Refuses, SetsProfile
  <2>2. NextLevel' = IF c.op = "brightness" THEN c.level ELSE level
    BY <1>1, <2>1 DEF NextLevel
  <2>3. NextPower' = IF c.op = "on" THEN TRUE ELSE IF c.op = "off" THEN FALSE ELSE power_state
    BY <1>1 DEF NextPower
  <2>4. EventOf(c) = "none" => refused' = refused
    BY DEF LuaCalls
  <2>5. (NextPower' /\ NextLevel' = 0 => Ahead' \/ refused') /\ (NextLevel' # 0 => ~Ahead')
    BY <1>3, <1>6, <2>2, <2>3, <2>4, CallIs DEF EventOf, EventFor, EventOfPowerOn
  <2> QED
    BY <1>5, <2>5 DEF Follows
<1> QED
  BY <1>7, <1>8

\* The rest of the call brings the level and the power in line.
LEMMA ApplyFollows ==
  ASSUME TypeOK, Follows, LuaApplies
  PROVE  Follows'
<1> USE DEF TypeOK
<1>1. /\ UNCHANGED <<task_run, display_queue, refused, overlapped>>
      /\ lua = "apply" /\ lua' = "idle"
  BY DEF LuaApplies, taskVars
<1>2. NextLevel' = NextLevel /\ NextPower' = NextPower
  BY <1>1, CallIs DEF LuaApplies, ApplyBrightness, RefuseBrightness, Refuses,
     ApplyPower, NextLevel, NextPower
<1> QED
  BY <1>1, <1>2 DEF Follows, OneAhead, OnlyTimed, Ahead

\* However Lua's calls, the timer and the task interleave, what is ahead of the task
\* leads to the mode that Lua wants.
LEMMA FollowsAlways == Spec => []Follows
<1>1. Init => Follows
  BY DEF Init, Follows, OneAhead, Ahead, NextPower, NextLevel
<1>2. TypeOK /\ Follows /\ [Next]_vars => Follows'
  <2> SUFFICES ASSUME TypeOK, Follows, [Next]_vars PROVE Follows'
    OBVIOUS
  <2>1. ASSUME NEW c \in Calls, LuaCalls(c) PROVE Follows'
    BY <2>1, CallFollows
  <2>2. CASE LuaApplies
    BY <2>2, ApplyFollows
  <2>3. CASE Task \/ display_timer_handler
    <3>1. UNCHANGED <<lua, call, power_state, level, refused, overlapped>>
      <4>1. CASE Task
        BY <4>1 DEF Task, Receive, StopTimer, Measure, SetProfile, StartTimer, luaVars, history
      <4>2. CASE display_timer_handler
        BY <4>2 DEF display_timer_handler, luaVars
      <4> QED
        BY <2>3, <4>1, <4>2
    <3>2. ~overlapped => OneAhead' /\ Ahead' = Ahead
      BY <2>3, TaskKeepsAhead, TimerKeepsAhead DEF Follows
    <3> QED
      BY <3>1, <3>2 DEF Follows, NextPower, NextLevel, Refuses, SetsProfile
  <2>4. CASE UNCHANGED vars
    BY <2>4 DEF vars, history, luaVars, taskVars, Follows, OneAhead, OnlyTimed, Ahead, NextPower,
       NextLevel, Refuses, SetsProfile
  <2> QED
    BY <2>1, <2>2, <2>3, <2>4 DEF Next
<1> QED
  BY <1>1, <1>2, TypeCorrect, PTL DEF Spec

\* The task is in the mode that Lua asked for, unless Lua acted while the task was busy
\* with an event.
THEOREM ReachesMode == Spec => []ModeFollows
<1>1. Follows => ModeFollows
  BY DEF Follows, ModeFollows, Quiet, Settled, Ahead, NextPower, NextLevel
<1> QED
  BY <1>1, FollowsAlways, PTL

-----------------------------------------------------------------------------
\* With a queue of one the task starts a running timer only when the timer expired
\* after the task had received another event.
THEOREM StartsIdle == QueueLength = 1 => (Spec => []StartsIdleTimer)
<1> SUFFICES ASSUME QueueLength = 1 PROVE Spec => []StartsIdleTimer
  OBVIOUS
<1>1. Init => TimerKnown
  BY DEF Init, TimerKnown
<1>2. TypeOK /\ TimerKnown /\ [Next]_vars => TimerKnown'
  <2> SUFFICES ASSUME TypeOK, TimerKnown, [Next]_vars PROVE TimerKnown'
    OBVIOUS
  <2> USE DEF TypeOK, TimerKnown
  <2>0. ASSUME NEW e, Post(e)
        PROVE  display_queue' = display_queue
               \/ (display_queue = <<>> /\ display_queue' = <<e>>)
    <3>1. Room => display_queue = <<>>
      BY ShortQueue DEF Room
    <3>2. Append(<<>>, e) = <<e>>
      OBVIOUS
    <3> QED
      BY <2>0, <3>1, <3>2 DEF Post
  <2>1. ASSUME NEW c \in Calls, LuaCalls(c) PROVE TimerKnown'
    <3>1. UNCHANGED <<pc, timer, timer_running, late>>
      BY <2>1 DEF LuaCalls, taskVars
    <3>2. \/ display_queue' = display_queue
          \/ display_queue = <<>> /\ display_queue' = <<EventOf(c)>>
      BY <2>0, <2>1 DEF LuaCalls
    <3>3. CASE display_queue' = display_queue
      BY <3>1, <3>3
    <3>4. CASE display_queue' = <<EventOf(c)>>
      <4>1. EventOf(c) # "TIMED"
        BY EventIs
      <4>2. Len(display_queue') = 1 /\ display_queue' # <<"TIMED">>
        BY <3>4, <4>1
      <4> QED
        BY <3>1, <4>2
    <3> QED
      BY <3>2, <3>3, <3>4
  <2>2. CASE LuaApplies
    BY <2>2 DEF LuaApplies, taskVars
  <2>3. CASE Receive
    <3>1. display_queue' = <<>> /\ display_queue = <<Head(display_queue)>>
      BY <2>3, ShortQueue DEF Receive
    <3>2. /\ timer' = timer /\ late' = late /\ pc' = "stop" /\ pc = "receive"
          /\ timer_running' = (timer_running /\ Head(display_queue) # "TIMED")
      BY <2>3 DEF Receive, history
    <3>3. ~late' /\ timer' => timer_running'
      BY <3>1, <3>2
    <3> QED
      BY <3>1, <3>2, <3>3
  <2>4. CASE StopTimer
    BY <2>4 DEF StopTimer, TimerAfterStop, history
  <2>5. CASE Measure
    BY <2>5 DEF Measure, history
  <2>6. CASE SetProfile
    BY <2>6 DEF SetProfile, history
  <2>7. CASE StartTimer
    BY <2>7 DEF StartTimer, TimerAfterStart, history
  <2>8. CASE display_timer_handler
    <3>1. \/ display_queue' = display_queue
          \/ display_queue = <<>> /\ display_queue' = <<"TIMED">>
      BY <2>0, <2>8 DEF display_timer_handler
    <3>2. Len(display_queue') <= 1
      <4>1. CASE display_queue' = display_queue
        <5>1. Len(display_queue') = Len(display_queue)
          BY <4>1
        <5> QED
          BY <5>1
      <4>2. CASE display_queue' = <<"TIMED">>
        BY <4>2
      <4> QED
        BY <3>1, <4>1, <4>2
    <3>3. timer' = FALSE /\ timer /\ pc' = pc /\ (~late' => ~late /\ pc # "stop")
      BY <2>8 DEF display_timer_handler, taskVars
    <3> QED
      BY <3>2, <3>3
  <2>9. CASE UNCHANGED vars
    BY <2>9 DEF vars, history, taskVars
  <2> QED
    BY <2>1, <2>2, <2>3, <2>4, <2>5, <2>6, <2>7, <2>8, <2>9 DEF Next, Task
<1>3. TimerKnown => StartsIdleTimer
  BY DEF TimerKnown, StartsIdleTimer
<1> QED
  BY <1>1, <1>2, <1>3, TypeCorrect, PTL DEF Spec
-----------------------------------------------------------------------------
\* The task has the OLED only while Lua does not, it measures only in the automatic mode,
\* a STOP finds it waiting, and the level that is set has become the profile.
ProfileKnown ==
  /\ screen = "free" => lua = "idle"
  /\ pc \in {"adc", "screen", "start"} => task_run
  /\ ~overlapped =>
       /\ display_queue # <<>> /\ Head(display_queue) = "STOP" => pc = "receive"
       /\ power_state /\ level # 0 /\ ~relit => profile = level

LEMMA ProfileStep ==
  ASSUME TypeOK, Follows, ProfileKnown, [Next]_vars
  PROVE  ProfileKnown'
<1> USE DEF TypeOK, ProfileKnown
<1>1. ASSUME NEW c \in Calls, LuaCalls(c) PROVE ProfileKnown'
  <2>1. ~overlapped' => pc' = "receive" /\ ~overlapped
    BY <1>1 DEF LuaCalls, Settled, taskVars
  <2>2. UNCHANGED <<pc, task_run, power_state, level, relit, profile>> /\ screen' = "lua"
    BY <1>1 DEF LuaCalls, taskVars
  <2> QED
    BY <2>1, <2>2
<1>2. CASE LuaApplies
  <2>1. UNCHANGED <<pc, task_run, display_queue, overlapped>> /\ lua' = "idle"
    BY <1>2 DEF LuaApplies, taskVars
  <2>2. ~overlapped /\ power_state' /\ level' # 0 /\ ~relit' => profile' = level'
    <3>1. CASE ApplyBrightness
      BY <3>1 DEF ApplyBrightness, SetsProfile
    <3>2. CASE ApplyPower
      BY <3>2 DEF ApplyPower
    <3>3. CASE RefuseBrightness
      BY <3>3 DEF RefuseBrightness
    <3> QED
      BY <1>2, <3>1, <3>2, <3>3 DEF LuaApplies
  <2> QED
    BY <2>1, <2>2
<1>3. CASE Receive
  <2>1. display_queue # <<>> /\ display_queue' = Tail(display_queue) /\ pc' = "stop"
    BY <1>3 DEF Receive
  <2>2. ~overlapped /\ display_queue' # <<>> => Head(display_queue') = "TIMED"
    BY <2>1 DEF Follows, OneAhead, OnlyTimed
  <2>3. UNCHANGED <<screen, lua, overlapped, power_state, level, relit, profile>>
    BY <1>3 DEF Receive, luaVars, history
  <2> QED
    BY <2>1, <2>2, <2>3
<1>4. CASE StopTimer
  <2>1. /\ UNCHANGED <<display_queue, task_run, screen, lua, overlapped>>
        /\ UNCHANGED <<power_state, level, relit, profile>>
        /\ pc = "stop" /\ pc' = IF task_run THEN "adc" ELSE "receive"
    BY <1>4 DEF StopTimer, luaVars, history
  <2> QED
    BY <2>1
<1>5. CASE Measure
  BY <1>5 DEF Measure, luaVars, history
\* A task that measures is not about to be stopped, so the level is 0.
<1>6. CASE SetProfile
  <2>1. /\ pc = "screen" /\ lua = "idle" /\ pc' = "start"
        /\ UNCHANGED <<display_queue, task_run, screen, lua, overlapped, level>>
    BY <1>6 DEF SetProfile, luaVars, history
  <2>2. ~overlapped => Ahead
    BY <2>1 DEF Ahead
  <2>3. ~overlapped => level = 0
    BY <2>1, <2>2 DEF Follows, NextLevel
  <2> QED
    BY <2>1, <2>3
<1>7. CASE StartTimer
  BY <1>7 DEF StartTimer, luaVars, history
<1>8. CASE display_timer_handler
  <2>1. UNCHANGED <<pc, task_run, screen, lua, overlapped, power_state, level, relit, profile>>
    BY <1>8 DEF display_timer_handler, luaVars, taskVars
  <2>2. display_queue' # <<>> /\ Head(display_queue') = "STOP"
          => display_queue # <<>> /\ Head(display_queue) = "STOP"
    <3>1. CASE display_queue' = display_queue
      BY <3>1
    <3>2. CASE display_queue' = Append(display_queue, "TIMED")
      <4>1. CASE display_queue = <<>>
        <5>1. Head(display_queue') = "TIMED"
          BY <3>2, <4>1
        <5> QED
          BY <5>1
      <4>2. CASE display_queue # <<>>
        <5>1. Head(display_queue') = Head(display_queue)
          BY <3>2, <4>2
        <5> QED
          BY <4>2, <5>1
      <4> QED
        BY <4>1, <4>2
    <3> QED
      BY <1>8, <3>1, <3>2 DEF display_timer_handler, Post
  <2> QED
    BY <2>1, <2>2
<1>9. CASE UNCHANGED vars
  BY <1>9 DEF vars, history, luaVars, taskVars
<1> QED
  BY <1>1, <1>2, <1>3, <1>4, <1>5, <1>6, <1>7, <1>8, <1>9 DEF Next, Task

\* Once the task is at rest the screen shows the level that Lua has set, unless the power-on
\* sequence set a profile after it or Lua acted while the task was busy.
THEOREM ShowsLevel == Spec => []ProfileIsLevel
<1>1. Init => ProfileKnown
  BY DEF Init, ProfileKnown
<1>2. TypeOK /\ Follows /\ ProfileKnown /\ [Next]_vars => ProfileKnown'
  BY ProfileStep
<1>3. ProfileKnown => ProfileIsLevel
  BY DEF ProfileKnown, ProfileIsLevel, Quiet
<1> QED
  BY <1>1, <1>2, <1>3, TypeCorrect, FollowsAlways, PTL DEF Spec
=============================================================================
