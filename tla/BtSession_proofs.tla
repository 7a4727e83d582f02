-------------------------- MODULE BtSession_proofs --------------------------
(***************************************************************************)
(* Two invariants of a Bluetooth session, for every number of settings,    *)
(* sessions, frames and commands.                                          *)
(*                                                                         *)
(* The scheduler never sleeps over work.  The wake-up queue holds one      *)
(* event and drops the rest, so that an event cannot be counted on to      *)
(* stand for a certain piece of work.  What is preserved is weaker: as     *)
(* long as there is work and nobody is on the way to post for it, an event *)
(* is in the queue or the scheduler is at a point of its loop from which   *)
(* it looks for that work before it sleeps.                                *)
(*                                                                         *)
(* Bluetooth panics, and uses or leaves what it should not, only while it  *)
(* is being closed.  The invariant follows the one thing that is on its    *)
(* way in each phase: the credit for the next setting while the chip is    *)
(* configured, the start of the applications, STOP, the result of a        *)
(* command.                                                                *)
(***************************************************************************)
EXTENDS BtSession, SequenceTheorems, TLAPS

\* The scheduler looks at the flags before it sleeps, or is not there at all.
LooksAtFlags == {"stop", "command", "again", "service", "off", "boot", "exit", "panic"}

Received == 1 \in flags /\ rx # "post" => wake = 1 \/ pc \in LooksAtFlags

ToSend == 2 \in flags => wake = 1 \/ pc \in LooksAtFlags \cup {"rx", "deliver", "second"}

Commanded ==
  command # "none" /\ lua # "wake" => wake = 1 \/ pc \in {"stop", "command", "off", "exit", "panic"}

InTime == pc = "receive" /\ timers # {} => stimer \/ wake = 1

\* A command is queued only while the queue exists.
CommandQueued == ~alive => command = "none"

Returns == then \in {"task", "due"}

IInv == Returns /\ Received /\ ToSend /\ Commanded /\ InTime /\ CommandQueued

-----------------------------------------------------------------------------
\* The scheduler's own steps preserve the invariant.
LEMMA LoopSteps == IInv /\ Loop /\ UNCHANGED sessVars => IInv'
<1> SUFFICES ASSUME IInv, Loop, UNCHANGED sessVars
             PROVE  IInv'
  OBVIOUS
<1> USE DEF IInv, Returns, Received, ToSend, Commanded, InTime, CommandQueued, LooksAtFlags,
            sessVars, linkVars, luaVars, lifeVars
<1>1. CASE Service
  BY <1>1 DEF Service
<1>2. CASE ServiceSecond
  BY <1>2 DEF ServiceSecond, AfterFirst
<1>3. CASE Timed
  BY <1>3 DEF Timed
<1>4. CASE Wait
  BY <1>4 DEF Wait, StartsTimer
<1>5. CASE Receive
  BY <1>5 DEF Receive
<1>6. CASE StopTimer
  BY <1>6 DEF StopTimer
<1>7. CASE GetCommand
  BY <1>7 DEF GetCommand
<1>8. CASE Again
  BY <1>8 DEF Again
<1> QED
  BY <1>1, <1>2, <1>3, <1>4, <1>5, <1>6, <1>7, <1>8 DEF Loop

\* So do the functions that it calls.
LEMMA TaskSteps == IInv /\ (Boot \/ Rx \/ Deliver \/ Pump \/ Task \/ Due \/ Exit) => IInv'
<1> SUFFICES ASSUME IInv, Boot \/ Rx \/ Deliver \/ Pump \/ Task \/ Due \/ Exit
             PROVE  IInv'
  OBVIOUS
<1> USE DEF IInv, Returns, Received, ToSend, Commanded, InTime, CommandQueued, LooksAtFlags,
            linkVars, luaVars, lifeVars
<1>1. CASE Boot
  BY <1>1 DEF Boot
<1>2. CASE Rx
  BY <1>2 DEF Rx, sessVars
<1>3. CASE Deliver
  BY <1>3 DEF Deliver, WakeUp
<1>4. CASE Pump
  BY <1>4 DEF Pump
<1>5. CASE Task
  <2>1. /\ pc' \in {"panic", "timed"} /\ UNCHANGED <<then, command, stimer, rx, lua, alive>>
        /\ NothingToSend \/ \E q \in {"ps", "reset", "say"} : Queue(q)
    BY <1>5 DEF Task, NextStep, MaySay
  <2>2. (flags' = flags /\ wake' = wake) \/ wake' = 1
    BY <2>1 DEF NothingToSend, Queue, Raise, WakeUp
  <2>3. pc = "task"
    BY <1>5 DEF Task
  <2> QED
    BY <2>1, <2>2, <2>3
<1>6. CASE Due
  BY <1>6 DEF Due, MaySay, NothingToSend, Queue, Raise, WakeUp
<1>7. CASE Exit
  BY <1>7 DEF Exit
<1> QED
  BY <1>1, <1>2, <1>3, <1>4, <1>5, <1>6, <1>7

\* The other thread, the timer, time and the chip.
LEMMA OtherSteps == IInv /\ (RxThread \/ Clock \/ Chip) => IInv'
<1> SUFFICES ASSUME IInv, RxThread \/ Clock \/ Chip
             PROVE  IInv'
  OBVIOUS
<1> USE DEF IInv, Returns, Received, ToSend, Commanded, InTime, CommandQueued, LooksAtFlags,
            linkVars, luaVars, lifeVars, schedVars
<1>1. CASE RxPoll
  BY <1>1 DEF RxPoll
<1>2. CASE RxFlag
  BY <1>2 DEF RxFlag
<1>3. CASE RxPost
  BY <1>3 DEF RxPost, RxPosts, WakeUp
<1>4. CASE TimeComes /\ UNCHANGED sessVars
  BY <1>4 DEF TimeComes, sessVars
<1>5. CASE bt_sched_timer_handler /\ UNCHANGED sessVars
  BY <1>5 DEF bt_sched_timer_handler, WakeUp, sessVars
<1>6. CASE ChipAnswers
  BY <1>6 DEF ChipAnswers
<1>7. ASSUME NEW b \in Bursts, ChipSends(b)
      PROVE  IInv'
  BY <1>7 DEF ChipSends
<1> QED
  BY <1>1, <1>2, <1>3, <1>4, <1>5, <1>6, <1>7 DEF RxThread, Clock, Chip

\* Lua, which queues the command first and posts the event afterwards.
LEMMA LuaSteps == IInv /\ Lua => IInv'
<1> SUFFICES ASSUME IInv, Lua
             PROVE  IInv'
  OBVIOUS
<1> USE DEF IInv, Returns, Received, ToSend, Commanded, InTime, CommandQueued, LooksAtFlags,
            linkVars, luaVars, lifeVars, schedVars
<1>1. CASE LuaOpens
  BY <1>1 DEF LuaOpens
<1>2. CASE LuaCloses
  BY <1>2 DEF LuaCloses
<1>3. ASSUME NEW c \in {"send", "ask"}, LuaCommands(c)
      PROVE  IInv'
  BY <1>3 DEF LuaCommands
<1>4. CASE LuaEvent
  BY <1>4 DEF LuaEvent
<1>5. CASE LuaStrays
  BY <1>5 DEF LuaStrays
<1>6. CASE LuaSends
  BY <1>6 DEF LuaSends
<1>7. CASE LuaWakes
  BY <1>7 DEF LuaWakes, WakeUp
<1>8. CASE LuaResult
  BY <1>8 DEF LuaResult
<1> QED
  BY <1>1, <1>2, <1>3, <1>4, <1>5, <1>6, <1>7, <1>8 DEF Lua, LuaGoesOn

-----------------------------------------------------------------------------
\* NoLostWakeup holds in every state: at receive without an event none of the places
\* where the scheduler would look for the work is left.
THEOREM Awake == Spec => []NoLostWakeup
<1>1. Init => IInv
  BY DEF Init, SchedInit, IInv, Returns, Received, ToSend, Commanded, InTime, CommandQueued,
         LooksAtFlags
<1>2. IInv /\ [Next]_vars => IInv'
  <2> SUFFICES ASSUME IInv, [Next]_vars
               PROVE  IInv'
    OBVIOUS
  <2>1. CASE Main
    BY <2>1, LoopSteps, TaskSteps DEF Main
  <2>2. CASE RxThread \/ Clock \/ Chip
    BY <2>2, OtherSteps
  <2>3. CASE Lua
    BY <2>3, LuaSteps
  <2>4. CASE UNCHANGED vars
    BY <2>4 DEF vars, schedVars, sessVars, linkVars, luaVars, lifeVars, IInv, Returns,
                Received, ToSend, Commanded, InTime, CommandQueued
  <2> QED
    BY <2>1, <2>2, <2>3, <2>4 DEF Next
<1>3. IInv => NoLostWakeup
  BY DEF IInv, Received, ToSend, Commanded, InTime, LooksAtFlags, NoLostWakeup
<1> QED
  BY <1>1, <1>2, <1>3, PTL DEF Spec

-----------------------------------------------------------------------------
(* The second invariant.                                                    *)

\* What is said of the contents of a buffer or of Lua's queue.
Has(s, f) == \E i \in 1 .. Len(s) : s[i] = f
Once(s, f) == \A i, j \in 1 .. Len(s) : s[i] = f /\ s[j] = f => i = j
OnlyLast(s, f) == \A i \in 1 .. Len(s) : s[i] = f => i = Len(s)

Quiet == dma = <<>> /\ rxbuf = <<>>

\* TypeOK but for the scheduler's part.
SessTypeOK ==
  /\ bc_state \in {"STOPPED", "STARTING", "STARTED", "PS_SET", "RESTARTING", "READY", "STOPPING"}
  /\ hci \in 0 .. 1 /\ settings \in 0 .. Settings
  /\ out \subseteq {"ps", "reset", "hci", "say"} /\ asked \subseteq {"ps", "reset", "hci"}
  /\ dma \in Seq(Frames) /\ rxbuf \in Seq(Frames) /\ rx \in {"off", "poll", "flag", "post"}
  /\ alive \in BOOLEAN /\ result \in BOOLEAN /\ open_count \in Nat
  /\ hw \in {"off", "opening", "on", "closing"} /\ lua \in {"idle", "send", "wake", "result"}
  /\ lua_cmd \in {"none", "stop", "send", "ask"}
  /\ events \in Seq({"started", "stopped", "key", "found"})
  /\ opens \in 0 .. MaxOpens /\ frames \in 0 .. MaxFrames /\ commands \in 0 .. MaxCommands
  /\ refused \in BOOLEAN /\ stray \in {"never", "off", "opening", "on", "closing"}

\* The scheduler, the state of the chip's configuration and the queues live together.
Life ==
  /\ pc # "off" => alive /\ hw # "off"
  /\ pc \in {"off", "boot"} =>
       Quiet /\ out \subseteq {"say"} /\ asked = {} /\ rx = "off" /\ timers = {} /\ due = {}
  /\ pc = "boot" => out = {}
  /\ pc = "deliver" => rxbuf # <<>>
  /\ pc = "off" <=> bc_state = "STOPPED"
  /\ pc = "boot" <=> bc_state = "STARTING"

\* The Bluetooth manager's view of it, with the count of bt_open.
View ==
  /\ hw = "off" => pc = "off" /\ lua = "idle" /\ events = <<>>
  /\ hw = "on" => bc_state = "READY"
  /\ hw = "closing" => bc_state \in {"STOPPING", "STOPPED"} /\ open_count = 0
  /\ hw = "closing" /\ pc = "off" => ~alive
  /\ bc_state = "STOPPING" => hw = "closing"
  /\ pc # "off" /\ hw # "closing" => open_count = 1
  /\ ~alive => hw \in {"off", "closing"} /\ open_count = 0 /\ command = "none" /\ ~result
  /\ Has(events, "stopped") => pc = "off"
  /\ OnlyLast(events, "stopped")

\* STOP is on its way, or has been run, only while Bluetooth is being closed.
Stopping ==
  /\ command = "stop" \/ cmd = "stop" \/ terminate => bc_state = "STOPPING" \/ pc = "off"
  /\ lua_cmd = "stop" /\ lua # "idle" => hw = "closing"
  /\ pc = "exit" => terminate

\* While it is configured there is one credit: for the scheduler, in a request, in its
\* answer or in the first sign of life.
InOut == out = {"ps"} /\ asked = {} /\ Quiet /\ hci = 0
InAsked == out = {} /\ asked = {"ps"} /\ Quiet /\ hci = 0
Sign(s, n) ==
  /\ Len(s) = 1 /\ s[1] \in {"nop", "response"}
  /\ s[1] = "nop" => n > 0
InDma == out = {} /\ asked = {} /\ rxbuf = <<>> /\ hci = 0 /\ Sign(dma, settings)
InRxbuf == out = {} /\ asked = {} /\ dma = <<>> /\ hci = 0 /\ Sign(rxbuf, settings)
Credit == out = {} /\ asked = {} /\ Quiet /\ hci = 1

Configured ==
  /\ bc_state = "STARTED" => InOut \/ InAsked \/ InDma \/ InRxbuf \/ (Credit /\ settings > 0)
  /\ bc_state = "PS_SET" => Credit
  /\ bc_state = "RESTARTING" => Quiet /\ hci = 0 /\ out \cup asked \subseteq {"reset"}
  /\ "restart" \in timers => bc_state = "RESTARTING"

\* From then on the chip sends what it has been asked for, once, or something of its own
\* accord, and has a credit only when that comes while Bluetooth is being closed.
Later == {"ready"} \cup Spontaneous
Up == bc_state \in {"READY", "STOPPING"}
Known(s, n) ==
  /\ \A i \in 1 .. Len(s) : s[i] \in Later
  /\ \A i \in 1 .. Len(s) : s[i] # "ready" => n > 0
  /\ Once(s, "ready")
Working ==
  /\ Up => Known(dma, frames) /\ Known(rxbuf, frames) /\ "ps" \notin out \cup asked
  /\ bc_state = "READY" => hci = 0
  /\ bc_state = "STOPPING" /\ hci > 0 => frames > 0

\* Until then nobody has anything to say: no command and no event that is answered by one
\* is about, and the timer of the layers is not running.
Busy ==
  \/ cmd # "none" \/ command # "none" \/ lua # "idle" \/ "bt" \in timers
  \/ Has(events, "key") \/ Has(events, "found")
Spoken == Busy => Up \/ pc = "off"

\* The places of the applications' start: it is in one of them at most.
StartsOnce ==
  /\ "hci" \in out => "hci" \notin asked
  /\ "hci" \in out \cup asked =>
       ~Has(dma, "ready") /\ ~Has(rxbuf, "ready") /\ ~Has(events, "started")
  /\ Has(dma, "ready") => ~Has(rxbuf, "ready") /\ ~Has(events, "started")
  /\ Has(rxbuf, "ready") => ~Has(events, "started")
  /\ hw = "on" \/ bc_state = "STOPPING" =>
       /\ "hci" \notin out \cup asked
       /\ ~Has(dma, "ready") /\ ~Has(rxbuf, "ready") /\ ~Has(events, "started")
  /\ Has(events, "started") => bc_state = "READY"
  /\ Once(events, "started")

\* A command with a result: the result is on its way once, and Lua waits for it.
Awaited == lua \in {"wake", "result"} /\ lua_cmd = "ask"
Result ==
  /\ command = "ask" => Awaited /\ cmd # "ask" /\ ~result
  /\ cmd = "ask" /\ alive => Awaited /\ ~result
  /\ result => Awaited

Panic == PanicOnlyWhileClosing

Core ==
  /\ Life /\ View /\ Stopping /\ Configured /\ Working /\ Spoken /\ StartsOnce /\ Result /\ Panic
  /\ QueuesExist

SInv == SchedTypeOK /\ SessTypeOK /\ Core

-----------------------------------------------------------------------------
(* Buffers.                                                                 *)

\* Nothing is in an empty buffer.
LEMMA Empty ==
  ASSUME NEW f, NEW n
  PROVE  ~Has(<<>>, f) /\ Once(<<>>, f) /\ OnlyLast(<<>>, f) /\ Known(<<>>, n)
BY DEF Has, Once, OnlyLast, Known

\* What is in a buffer behind which something has been put ...
LEMMA Appended ==
  ASSUME NEW S, NEW s \in Seq(S), NEW x \in S, NEW f, NEW n
  PROVE  /\ Append(s, x) \in Seq(S)
         /\ Has(Append(s, x), f) <=> Has(s, f) \/ x = f
         /\ ~Has(s, f) => Once(Append(s, x), f) /\ OnlyLast(Append(s, x), f)
         /\ Once(s, f) /\ x # f => Once(Append(s, x), f)
         /\ Known(s, n) /\ ~Has(s, "ready") /\ x = "ready" => Known(Append(s, x), n)
<1> DEFINE t == Append(s, x)
<1>1. /\ t \in Seq(S) /\ Len(t) = Len(s) + 1 /\ Len(s) \in Nat
      /\ \A i \in 1 .. Len(s) : t[i] = s[i]
      /\ t[Len(s) + 1] = x
  BY AppendProperties
<1> HIDE DEF t
<1>2. Has(t, f) <=> Has(s, f) \/ x = f
  BY <1>1 DEF Has
<1>3. ~Has(s, f) => Once(t, f) /\ OnlyLast(t, f)
  BY <1>1 DEF Has, Once, OnlyLast
<1>4. Once(s, f) /\ x # f => Once(t, f)
  BY <1>1 DEF Once
<1>5. Known(s, n) /\ ~Has(s, "ready") /\ x = "ready" => Known(t, n)
  BY <1>1 DEF Known, Once, Has, Later
<1> QED
  BY <1>1, <1>2, <1>3, <1>4, <1>5 DEF t

\* ... or whose first entry has been taken out ...
LEMMA Shortened ==
  ASSUME NEW S, NEW s \in Seq(S), s # <<>>, NEW f, NEW n
  PROVE  /\ Head(s) \in S /\ Tail(s) \in Seq(S)
         /\ Has(Tail(s), f) => Has(s, f)
         /\ Head(s) = f => Has(s, f)
         /\ Once(s, f) => Once(Tail(s), f) /\ (Head(s) = f => ~Has(Tail(s), f))
         /\ OnlyLast(s, f) => OnlyLast(Tail(s), f) /\ (Head(s) = f => Tail(s) = <<>>)
         /\ Known(s, n) => /\ Known(Tail(s), n) /\ Head(s) \in Later
                           /\ Head(s) # "ready" => n > 0
<1> DEFINE t == Tail(s)
<1>1. /\ t \in Seq(S) /\ Len(t) = Len(s) - 1 /\ Len(s) \in Nat /\ Len(s) > 0
      /\ \A i \in 1 .. Len(t) : t[i] = s[i + 1]
      /\ Head(s) = s[1] /\ Head(s) \in S
      /\ Len(t) = 0 => t = <<>>
  <2>1. /\ t \in Seq(S) /\ Len(t) = Len(s) - 1 /\ Head(s) \in S
        /\ \A i \in 1 .. Len(t) : t[i] = s[i + 1]
    BY HeadTailProperties
  <2>2. Len(s) \in Nat /\ Len(s) > 0
    BY EmptySeq
  <2>3. Len(t) = 0 => t = <<>>
    BY <2>1, EmptySeq
  <2>4. Head(s) = s[1]
    OBVIOUS
  <2> QED
    BY <2>1, <2>2, <2>3, <2>4
<1> HIDE DEF t
<1>2. /\ Has(t, f) => Has(s, f)
      /\ Head(s) = f => Has(s, f)
  BY <1>1 DEF Has
<1>3. Once(s, f) => Once(t, f) /\ (Head(s) = f => ~Has(t, f))
  BY <1>1 DEF Has, Once
<1>4. OnlyLast(s, f) => OnlyLast(t, f) /\ (Head(s) = f => t = <<>>)
  <2> SUFFICES ASSUME OnlyLast(s, f)
               PROVE  OnlyLast(t, f) /\ (Head(s) = f => t = <<>>)
    OBVIOUS
  <2>1. OnlyLast(t, f)
    BY <1>1 DEF OnlyLast
  <2>2. Head(s) = f => t = <<>>
    BY <1>1 DEF OnlyLast
  <2> QED
    BY <2>1, <2>2
<1>5. Known(s, n) => Known(t, n) /\ Head(s) \in Later /\ (Head(s) # "ready" => n > 0)
  <2> SUFFICES ASSUME Known(s, n)
               PROVE  Known(t, n) /\ Head(s) \in Later /\ (Head(s) # "ready" => n > 0)
    OBVIOUS
  <2>1. /\ \A i \in 1 .. Len(t) : t[i] \in Later
        /\ \A i \in 1 .. Len(t) : t[i] # "ready" => n > 0
        /\ Head(s) \in Later /\ (Head(s) # "ready" => n > 0)
    BY <1>1 DEF Known
  <2>2. Once(t, "ready")
    BY <1>1 DEF Known, Once
  <2> QED
    BY <2>1, <2>2 DEF Known
<1> QED
  BY <1>1, <1>2, <1>3, <1>4, <1>5 DEF t

\* ... or behind which another has been put.
LEMMA Joined ==
  ASSUME NEW S, NEW s \in Seq(S), NEW t \in Seq(S), NEW f, NEW n
  PROVE  /\ s \o t \in Seq(S)
         /\ Has(s \o t, f) <=> Has(s, f) \/ Has(t, f)
         /\ Known(s, n) /\ Known(t, n) /\ ~(Has(s, "ready") /\ Has(t, "ready")) => Known(s \o t, n)
         /\ s = <<>> => s \o t = t
<1> DEFINE u == s \o t
<1>1. /\ u \in Seq(S) /\ Len(u) = Len(s) + Len(t) /\ Len(s) \in Nat /\ Len(t) \in Nat
      /\ \A i \in 1 .. Len(s) : u[i] = s[i]
      /\ \A i \in 1 .. Len(t) : u[Len(s) + i] = t[i]
      /\ \A i \in 1 .. Len(u) : i > Len(s) => i - Len(s) \in 1 .. Len(t) /\ u[i] = t[i - Len(s)]
      /\ s = <<>> => u = t
  <2>1. /\ u \in Seq(S) /\ Len(u) = Len(s) + Len(t) /\ Len(s) \in Nat /\ Len(t) \in Nat
    OBVIOUS
  <2>2. \A i \in 1 .. Len(u) : u[i] = IF i <= Len(s) THEN s[i] ELSE t[i - Len(s)]
    BY ConcatProperties
  <2>3. s = <<>> => u = t
    BY ConcatEmptySeq
  <2> QED
    BY <2>1, <2>2, <2>3
<1> HIDE DEF u
<1>2. Has(u, f) <=> Has(s, f) \/ Has(t, f)
  <2>1. ASSUME NEW i \in 1 .. Len(t)
        PROVE  Len(s) + i \in 1 .. Len(u) /\ u[Len(s) + i] = t[i]
    BY <1>1
  <2>2. ASSUME NEW i \in 1 .. Len(s)
        PROVE  i \in 1 .. Len(u) /\ u[i] = s[i]
    BY <1>1
  <2>3. ASSUME NEW i \in 1 .. Len(u)
        PROVE  i \in 1 .. Len(s) \/ (i - Len(s) \in 1 .. Len(t) /\ u[i] = t[i - Len(s)])
    BY <1>1
  <2>4. ASSUME NEW i \in 1 .. Len(u), u[i] = f
        PROVE  Has(s, f) \/ Has(t, f)
    <3>1. CASE i \in 1 .. Len(s)
      BY <1>1, <2>4, <3>1 DEF Has
    <3>2. CASE i - Len(s) \in 1 .. Len(t) /\ u[i] = t[i - Len(s)]
      <4> DEFINE j == i - Len(s)
      <4>1. j \in 1 .. Len(t) /\ t[j] = f
        BY <2>4, <3>2
      <4> HIDE DEF j
      <4> QED
        BY <4>1 DEF Has
    <3> QED
      BY <2>3, <3>1, <3>2
  <2>5. Has(s, f) => Has(u, f)
    BY <2>2 DEF Has
  <2>6. Has(t, f) => Has(u, f)
    BY <2>1 DEF Has
  <2>7. Has(u, f) => Has(s, f) \/ Has(t, f)
    BY <2>4 DEF Has
  <2> QED
    BY <2>5, <2>6, <2>7
<1>3. ASSUME Known(s, n), Known(t, n), ~(Has(s, "ready") /\ Has(t, "ready"))
      PROVE  Known(u, n)
  <2>1. /\ \A i \in 1 .. Len(u) : u[i] \in Later
        /\ \A i \in 1 .. Len(u) : u[i] # "ready" => n > 0
    <3> SUFFICES ASSUME NEW i \in 1 .. Len(u)
                 PROVE  u[i] \in Later /\ (u[i] # "ready" => n > 0)
      OBVIOUS
    <3>1. CASE i \in 1 .. Len(s)
      BY <1>1, <1>3, <3>1 DEF Known
    <3>2. CASE i - Len(s) \in 1 .. Len(t) /\ u[i] = t[i - Len(s)]
      <4> DEFINE j == i - Len(s)
      <4>1. j \in 1 .. Len(t) /\ u[i] = t[j]
        BY <3>2
      <4> HIDE DEF j
      <4> QED
        BY <1>3, <4>1 DEF Known
    <3> QED
      BY <1>1, <3>1, <3>2
  <2>2. Once(u, "ready")
    <3> SUFFICES ASSUME NEW i \in 1 .. Len(u), NEW j \in 1 .. Len(u),
                        u[i] = "ready", u[j] = "ready"
                 PROVE  i = j
      BY DEF Once
    <3>1. i > Len(s) => Has(t, "ready")
      BY <1>1 DEF Has
    <3>2. j > Len(s) => Has(t, "ready")
      BY <1>1 DEF Has
    <3>3. i <= Len(s) => Has(s, "ready")
      BY <1>1 DEF Has
    <3>4. j <= Len(s) => Has(s, "ready")
      BY <1>1 DEF Has
    <3>5. CASE i <= Len(s) /\ j <= Len(s)
      BY <1>1, <1>3, <3>5 DEF Known, Once
    <3>6. CASE i > Len(s) /\ j > Len(s)
      <4>1. i - Len(s) = j - Len(s)
        BY <1>1, <1>3, <3>6 DEF Known, Once
      <4> QED
        BY <1>1, <4>1
    <3> QED
      BY <1>1, <1>3, <3>1, <3>2, <3>3, <3>4, <3>5, <3>6
  <2> QED
    BY <2>1, <2>2 DEF Known
<1> QED
  BY <1>1, <1>2, <1>3 DEF u

\* What the chip sends of its own accord, however much it is, has no "ready" in it.
LEMMA BurstIs ==
  ASSUME NEW b \in Bursts
  PROVE  /\ b \in Seq(Frames) /\ ~Has(b, "ready")
         /\ \A n \in Nat : Known(b, n + 1)
<1>1. b \in Seq(Spontaneous)
  BY BurstsAssumption
<1>2. Len(b) \in Nat /\ b \in [1 .. Len(b) -> Spontaneous]
  BY <1>1
<1>3. \A i \in 1 .. Len(b) : b[i] \in Spontaneous
  BY <1>2
<1>4. b \in [1 .. Len(b) -> Frames]
  BY <1>2 DEF Frames
<1>5. b \in Seq(Frames)
  BY <1>2, <1>4
<1>6. \A f \in Spontaneous : f \in Later /\ f # "ready"
  BY DEF Spontaneous, Later
<1>7. ~Has(b, "ready")
  BY <1>3, <1>6 DEF Has
<1>8. \A n \in Nat : Known(b, n + 1)
  BY <1>3, <1>6 DEF Known, Once
<1> QED
  BY <1>5, <1>7, <1>8

-----------------------------------------------------------------------------
\* The scheduler's variables keep their types.
LEMMA LoopTypes == ASSUME SchedTypeOK, Loop PROVE SchedTypeOK'
<1> USE DEF SchedTypeOK
<1>1. CASE Service
  BY <1>1 DEF Service
<1>2. CASE ServiceSecond
  BY <1>2 DEF ServiceSecond, AfterFirst
<1>3. CASE Timed
  BY <1>3 DEF Timed
<1>4. CASE Wait
  BY <1>4 DEF Wait, StartsTimer
<1>5. CASE Receive
  BY <1>5 DEF Receive
<1>6. CASE StopTimer
  BY <1>6 DEF StopTimer
<1>7. CASE GetCommand
  BY <1>7 DEF GetCommand, CommandRuns
<1>8. CASE Again
  BY <1>8 DEF Again
<1> QED
  BY <1>1, <1>2, <1>3, <1>4, <1>5, <1>6, <1>7, <1>8 DEF Loop

\* The functions that the scheduler calls keep them as well ...
LEMMA TaskTypes ==
  ASSUME SchedTypeOK, Boot \/ Rx \/ Deliver \/ Pump \/ Task \/ Due \/ Exit
  PROVE  SchedTypeOK'
<1>1. CASE Boot
  BY <1>1 DEF SchedTypeOK, Boot
<1>2. CASE Rx
  BY <1>2 DEF SchedTypeOK, Rx
<1>3. CASE Deliver
  <2>1. /\ pc' \in {"deliver", "second"}
        /\ UNCHANGED <<then, cmd, timers, due, stimer, terminate, command>>
    BY <1>3 DEF Deliver
  <2>2. flags' \in {flags \cup {2}, flags \cup {1, 2}} /\ wake' = 1
    BY <1>3 DEF Deliver, WakeUp
  <2>3. run' \in BOOLEAN
    BY <1>3 DEF Deliver, Response, LwBtEvent, EarlyEvent, SchedTypeOK
  <2> QED
    BY <2>1, <2>2, <2>3 DEF SchedTypeOK
<1>4. CASE Pump
  BY <1>4 DEF SchedTypeOK, Pump
<1>5. CASE Task
  <2>1. /\ pc' \in {"panic", "timed"} /\ run' \in BOOLEAN /\ cmd' \in {cmd, "none"}
        /\ UNCHANGED <<then, due, stimer, command>>
    BY <1>5 DEF Task, CommandAfterRun, SchedTypeOK
  <2>2. terminate' \in BOOLEAN
    BY <1>5 DEF Task, SchedTypeOK
  <2>3. timers' \in {timers, timers \cup {"restart"}}
    BY <1>5 DEF Task, NextStep
  <2>4. flags' \in {flags, flags \cup {2}} /\ wake' \in {wake, 1}
    BY <1>5 DEF Task, NextStep, MaySay, Queue, Raise, WakeUp, NothingToSend
  <2> QED
    BY <2>1, <2>2, <2>3, <2>4 DEF SchedTypeOK
<1>6. CASE Due
  <2>1. pc' = "timed" /\ UNCHANGED <<then, run, cmd, stimer, terminate, command>>
    BY <1>6 DEF Due
  <2>2. due' \subseteq timers' /\ timers' \subseteq {"restart", "bt"}
    BY <1>6 DEF Due, SchedTypeOK
  <2>3. flags' \in {flags, flags \cup {2}} /\ wake' \in {wake, 1}
    BY <1>6 DEF Due, MaySay, Queue, Raise, WakeUp, NothingToSend
  <2> QED
    BY <2>1, <2>2, <2>3 DEF SchedTypeOK
<1>7. CASE Exit
  <2>1. /\ pc' = "off" /\ wake' = 0 /\ command' = "none"
        /\ UNCHANGED <<then, flags, run, cmd, terminate>>
    BY <1>7 DEF Exit
  <2>2. stimer' \in BOOLEAN
    BY <1>7 DEF Exit
  <2>3. due' \subseteq timers' /\ timers' \subseteq {"restart", "bt"}
    BY <1>7 DEF Exit
  <2> QED
    BY <2>1, <2>2, <2>3 DEF SchedTypeOK
<1> QED
  BY <1>1, <1>2, <1>3, <1>4, <1>5, <1>6, <1>7

\* ... and so does everyone else.
LEMMA OtherTypes ==
  ASSUME SchedTypeOK, SessTypeOK,
         RxThread \/ Chip \/ TimeComes \/ bt_sched_timer_handler \/ Lua
  PROVE  SchedTypeOK'
<1> USE DEF SchedTypeOK
<1>1. CASE RxPoll
  BY <1>1 DEF RxPoll, schedVars
<1>2. CASE RxFlag
  BY <1>2 DEF RxFlag
<1>3. CASE RxPost
  BY <1>3 DEF RxPost, RxPosts, WakeUp
<1>4. CASE ChipAnswers
  BY <1>4 DEF ChipAnswers, schedVars
<1>5. ASSUME NEW b \in Bursts, ChipSends(b)
      PROVE  SchedTypeOK'
  BY <1>5 DEF ChipSends, schedVars
<1>6. CASE TimeComes
  BY <1>6 DEF TimeComes
<1>7. CASE bt_sched_timer_handler
  <2>1. stimer' \in BOOLEAN /\ wake' = 1
    BY <1>7 DEF bt_sched_timer_handler, WakeUp
  <2>2. UNCHANGED <<pc, then, flags, run, cmd, timers, due, terminate, command>>
    BY <1>7 DEF bt_sched_timer_handler
  <2> QED
    BY <2>1, <2>2
<1>8. CASE LuaOpens
  <2>1. terminate' \in BOOLEAN
    BY <1>8 DEF LuaOpens
  <2>2. /\ pc' \in {pc, "boot"} /\ wake' \in {wake, 0} /\ command' \in {command, "none"}
        /\ cmd' \in {cmd, "none"}
        /\ UNCHANGED <<then, flags, run, timers, due, stimer>>
    BY <1>8 DEF LuaOpens
  <2> QED
    BY <2>1, <2>2
<1>9. CASE LuaCloses
  BY <1>9 DEF LuaCloses, schedVars
<1>10. ASSUME NEW c \in {"send", "ask"}, LuaCommands(c)
       PROVE  SchedTypeOK'
  BY <1>10 DEF LuaCommands, schedVars
<1>11. CASE LuaEvent
  BY <1>11 DEF LuaEvent, schedVars
<1>12. CASE LuaStrays
  BY <1>12 DEF LuaStrays, schedVars
<1>13. CASE LuaSends
  BY <1>13 DEF LuaSends, SessTypeOK
<1>14. CASE LuaWakes
  BY <1>14 DEF LuaWakes, WakeUp
<1>15. CASE LuaResult
  BY <1>15 DEF LuaResult, schedVars
<1> QED
  BY <1>1, <1>2, <1>3, <1>4, <1>5, <1>6, <1>7, <1>8, <1>9, <1>10, <1>11, <1>12, <1>13, <1>14,
     <1>15 DEF RxThread, Chip, Lua, LuaGoesOn

\* So do those of the session, of the chip and of Lua.
LEMMA SessionTaskTypes ==
  ASSUME SInv, Boot \/ Rx \/ Deliver \/ Pump \/ Task \/ Due \/ Exit
  PROVE  SessTypeOK'
<1> USE DEF SInv, Core, SessTypeOK, linkVars, luaVars, lifeVars
<1>1. CASE Boot
  <2>1. dma' \in {dma, <<"nop">>} /\ events' \in {events, Append(events, "stopped")}
    BY <1>1 DEF Boot
  <2>2. <<"nop">> \in Seq(Frames)
    BY DEF Frames
  <2>3. Append(events, "stopped") \in Seq({"started", "stopped", "key", "found"})
    BY Appended
  <2>4. dma' \in Seq(Frames) /\ events' \in Seq({"started", "stopped", "key", "found"})
    BY <2>1, <2>2, <2>3
  <2>5. /\ hci' \in {hci, 0} /\ settings' \in {settings, Settings}
        /\ bc_state' \in {"STARTED", "STOPPED"} /\ rx' \in {rx, "poll"}
        /\ UNCHANGED <<out, asked, frames, rxbuf, luaVars, lifeVars>>
    BY <1>1 DEF Boot
  <2>6. settings' \in 0 .. Settings
    BY <2>5, SettingsAssumption
  <2> QED
    BY <2>4, <2>5, <2>6
<1>2. CASE Rx
  BY <1>2 DEF Rx, sessVars, chipVars, bcVars
<1>3. CASE Deliver
  <2>1. rxbuf \in Seq(Frames) /\ rxbuf # <<>>
    BY <1>3 DEF Deliver, Life
  <2>2. rxbuf' = Tail(rxbuf)
    BY <1>3 DEF Deliver
  <2>3. rxbuf' \in Seq(Frames)
    BY <2>1, <2>2, Shortened
  <2>4. hci' \in 0 .. 1 /\ bc_state' \in {bc_state, "PS_SET"}
    BY <1>3 DEF Deliver, Response, LwBtEvent, EarlyEvent
  <2>5. \A e \in {"started", "key", "found"} :
          Append(events, e) \in Seq({"started", "stopped", "key", "found"})
    BY Appended
  <2>6. events' = events \/ \E e \in {"started", "key", "found"} : events' = Append(events, e)
    BY <1>3 DEF Deliver, Response, LwBtEvent, EarlyEvent
  <2>7. events' \in Seq({"started", "stopped", "key", "found"})
    BY <2>5, <2>6
  <2>8. UNCHANGED <<settings, rx, asked, dma, frames, luaVars, lifeVars>>
    BY <1>3 DEF Deliver
  <2>9. out' \in {out, out \cup {"say"}}
    BY <1>3 DEF Deliver, Response, LwBtEvent, EarlyEvent
  <2> QED
    BY <2>3, <2>4, <2>7, <2>8, <2>9
<1>4. CASE Pump
  BY <1>4 DEF Pump, bcVars
<1>5. CASE Task
  <2>1. UNCHANGED <<asked, dma, frames, linkVars, luaVars, alive, open_count, events>>
    BY <1>5 DEF Task
  <2>2. result' \in BOOLEAN
    BY <1>5 DEF Task
  <2>3. out' \in {out, out \cup {"ps"}, out \cup {"reset"}, out \cup {"say"}}
    BY <1>5 DEF Task, NextStep, MaySay, Queue, NothingToSend
  <2>4. /\ hci' \in {hci, hci - 1} /\ (hci' # hci => hci > 0)
        /\ bc_state' \in {bc_state, "RESTARTING"}
    BY <1>5 DEF Task, NextStep, Unexpected, OneLess, bcVars
  <2>5. settings' = settings \/ (settings' = settings - 1 /\ hci > 0 /\ bc_state = "STARTED")
    BY <1>5 DEF Task, NextStep, bcVars
  <2>6. settings' \in 0 .. Settings
    BY <2>5, SettingsAssumption DEF Configured, InOut, InAsked, InDma, InRxbuf
  <2> QED
    BY <2>1, <2>2, <2>3, <2>4, <2>6
<1>6. CASE Due
  <2>1. out' \in {out, out \cup {"hci"}, out \cup {"say"}}
    BY <1>6 DEF Due, MaySay, Queue, NothingToSend
  <2>2. /\ bc_state' \in {bc_state, "READY"}
        /\ UNCHANGED <<hci, settings, asked, dma, frames, linkVars, luaVars, lifeVars, events>>
    BY <1>6 DEF Due
  <2> QED
    BY <2>1, <2>2
<1>7. CASE Exit
  <2>1. /\ rx' = "off" /\ rxbuf' = <<>> /\ dma' = <<>> /\ out' \subseteq {"say"} /\ asked' = {}
        /\ bc_state' = "STOPPED" /\ events' = Append(events, "stopped")
        /\ UNCHANGED <<hci, settings, frames, luaVars, open_count>>
    BY <1>7 DEF Exit
  <2>2. alive' \in BOOLEAN /\ result' \in BOOLEAN
    BY <1>7 DEF Exit
  <2>3. events' \in Seq({"started", "stopped", "key", "found"})
    BY <2>1, Appended
  <2>4. rxbuf' \in Seq(Frames) /\ dma' \in Seq(Frames)
    BY <2>1, EmptySeq
  <2> QED
    BY <2>1, <2>2, <2>3, <2>4
<1> QED
  BY <1>1, <1>2, <1>3, <1>4, <1>5, <1>6, <1>7

\* What the receiving thread, the chip and Lua do to them.
LEMMA SessionOtherTypes ==
  ASSUME SInv, RxThread \/ Chip \/ Lua
  PROVE  SessTypeOK'
<1> USE DEF SInv, Core, SessTypeOK, chipVars, linkVars, bcVars, luaVars, lifeVars
<1>1. CASE RxPoll
  BY <1>1, Joined DEF RxPoll
<1>2. CASE RxFlag
  BY <1>2 DEF RxFlag
<1>3. CASE RxPost
  BY <1>3 DEF RxPost
<1>4. CASE ChipAnswers
  <2>1. PICK q \in {"ps", "hci"} : asked' = asked \ {q} /\ dma' = Append(dma, Answers[q])
    BY <1>4 DEF ChipAnswers, Answers
  <2>2. Answers[q] \in Frames
    BY DEF Answers, Frames
  <2>3. dma' \in Seq(Frames)
    BY <2>1, <2>2, Appended
  <2>4. UNCHANGED <<linkVars, bcVars, luaVars, lifeVars, events, out, frames>>
    BY <1>4 DEF ChipAnswers
  <2> QED
    BY <2>1, <2>3, <2>4
<1>5. ASSUME NEW b \in Bursts, ChipSends(b)
      PROVE  SessTypeOK'
  <2>1. b \in Seq(Frames)
    BY BurstIs
  <2>2. frames' \in 0 .. MaxFrames
    BY <1>5, BoundsAssumption DEF ChipSends
  <2>3. dma' = dma \o b /\ UNCHANGED <<linkVars, bcVars, luaVars, lifeVars, events, out, asked>>
    BY <1>5 DEF ChipSends
  <2>4. dma' \in Seq(Frames)
    BY <2>1, <2>3, Joined
  <2> QED
    BY <2>2, <2>3, <2>4
<1>6. CASE LuaOpens
  <2>1. /\ opens' = opens + 1 /\ opens < MaxOpens /\ hw' = "opening"
        /\ open_count' = open_count + 1 /\ bc_state' \in {bc_state, "STARTING"}
        /\ UNCHANGED <<hci, settings, chipVars, linkVars, lua, lua_cmd, commands, stray, events>>
    BY <1>6 DEF LuaOpens
  <2>2. alive' \in BOOLEAN /\ result' \in BOOLEAN /\ refused' \in BOOLEAN
    BY <1>6 DEF LuaOpens
  <2>3. opens' \in 0 .. MaxOpens /\ open_count' \in Nat
    BY <2>1, BoundsAssumption
  <2> QED
    BY <2>1, <2>2, <2>3
<1>7. CASE LuaCloses
  <2>1. open_count = 1
    BY <1>7 DEF LuaCloses, CanClose, Life, View
  <2>2. /\ hw' = "closing" /\ open_count' = 0 /\ bc_state' = "STOPPING" /\ lua' = "send"
        /\ lua_cmd' = "stop"
        /\ UNCHANGED <<chipVars, linkVars, hci, settings, opens, commands, refused, stray, alive,
                       result, events>>
    BY <1>7, <2>1 DEF LuaCloses
  <2> QED
    BY <2>2
<1>8. ASSUME NEW c \in {"send", "ask"}, LuaCommands(c)
      PROVE  SessTypeOK'
  BY <1>8, BoundsAssumption DEF LuaCommands
<1>9. CASE LuaEvent
  BY <1>9, Shortened DEF LuaEvent
<1>10. CASE LuaStrays
  BY <1>10 DEF LuaStrays
<1>11. CASE LuaSends
  BY <1>11 DEF LuaSends
<1>12. CASE LuaWakes
  BY <1>12 DEF LuaWakes
<1>13. CASE LuaResult
  <2>1. lua' = "idle" /\ result' \in BOOLEAN
    BY <1>13 DEF LuaResult
  <2>2. UNCHANGED <<chipVars, linkVars, bcVars, hw, lua_cmd, opens, commands, refused, stray,
                    alive, open_count, events>>
    BY <1>13 DEF LuaResult
  <2> QED
    BY <2>1, <2>2
<1> QED
  BY <1>1, <1>2, <1>3, <1>4, <1>5, <1>6, <1>7, <1>8, <1>9, <1>10, <1>11, <1>12, <1>13
  DEF RxThread, Chip, Lua, LuaGoesOn

-----------------------------------------------------------------------------
(* The rest of the invariant, action by action.                             *)

\* The scheduler's own steps.
LEMMA LoopKeeps == SInv /\ (Loop /\ UNCHANGED sessVars) => Core'
<1> SUFFICES ASSUME SInv, Loop /\ UNCHANGED sessVars
             PROVE  Core'
  OBVIOUS
<1> USE DEF SchedTypeOK, Loop, Service, ServiceSecond, AfterFirst, Timed, Wait, StartsTimer,
            Receive, StopTimer, GetCommand, CommandRuns, Again, SInv, SessTypeOK, Core,
            Life, View, Stopping, Configured, InOut, InAsked, InDma, InRxbuf, Credit, Quiet,
            Working, Up, Busy, Spoken, StartsOnce, Awaited, Result, Panic,
            PanicOnlyWhileClosing, QueuesExist, schedVars, sessVars, chipVars, linkVars,
            bcVars, luaVars, lifeVars
<1>10. Life' OBVIOUS
<1>11. View' OBVIOUS
<1>12. Stopping' OBVIOUS
<1>13. Configured' OBVIOUS
<1>14. Working' OBVIOUS
<1>19. Spoken' OBVIOUS
<1>15. StartsOnce' OBVIOUS
<1>16. Result' OBVIOUS
<1>17. Panic' OBVIOUS
<1>18. QueuesExist' OBVIOUS
<1> QED
  BY <1>10, <1>11, <1>12, <1>13, <1>14, <1>15, <1>16, <1>17, <1>18, <1>19

\* What only moves data, flags and time.
LEMMA WiresKeep == SInv /\ (Rx \/ Pump \/ RxFlag \/ RxPost \/ Clock) => Core'
<1> SUFFICES ASSUME SInv, Rx \/ Pump \/ RxFlag \/ RxPost \/ Clock
             PROVE  Core'
  OBVIOUS
<1> USE DEF SchedTypeOK, Rx, Pump, RxFlag, RxPost, RxPosts, WakeUp, Clock, TimeComes,
            bt_sched_timer_handler, SInv, SessTypeOK, Core, Life, View, Stopping,
            Configured, InOut, InAsked, InDma, InRxbuf, Credit, Quiet, Working, Up, Busy,
            Spoken, StartsOnce, Awaited, Result, Panic, PanicOnlyWhileClosing, QueuesExist,
            schedVars, sessVars, chipVars, linkVars, bcVars, luaVars, lifeVars
<1>10. Life' OBVIOUS
<1>11. View' OBVIOUS
<1>12. Stopping' OBVIOUS
<1>13. Configured' OBVIOUS
<1>14. Working' OBVIOUS
<1>19. Spoken' OBVIOUS
<1>15. StartsOnce' OBVIOUS
<1>16. Result' OBVIOUS
<1>17. Panic' OBVIOUS
<1>18. QueuesExist' OBVIOUS
<1> QED
  BY <1>10, <1>11, <1>12, <1>13, <1>14, <1>15, <1>16, <1>17, <1>18, <1>19

\* The steps of a command of Lua.
LEMMA LuaCommandsKeep ==
  /\ SInv
  /\ \/ LuaStrays \/ LuaSends \/ LuaWakes \/ LuaResult
     \/ \E c \in {"send", "ask"} : LuaCommands(c)
  => Core'
<1> SUFFICES ASSUME SInv,
                    \/ LuaStrays \/ LuaSends \/ LuaWakes \/ LuaResult
                    \/ \E c \in {"send", "ask"} : LuaCommands(c)
             PROVE  Core'
  OBVIOUS
<1> USE DEF LuaRuns, LuaStrays, LuaSends, LuaWakes, WakeUp, LuaResult, LuaCommands, SInv,
            SessTypeOK, Core, Life, View, Stopping, Configured, InOut, InAsked, InDma,
            InRxbuf, Credit, Quiet, Working, Up, Busy, Spoken, StartsOnce, Awaited, Result,
            Panic, PanicOnlyWhileClosing, QueuesExist, schedVars, sessVars, chipVars,
            linkVars, bcVars, luaVars, lifeVars
<1>10. Life' OBVIOUS
<1>11. View' OBVIOUS
<1>12. Stopping' OBVIOUS
<1>13. Configured' OBVIOUS
<1>14. Working' OBVIOUS
<1>19. Spoken' OBVIOUS
<1>15. StartsOnce' OBVIOUS
<1>16. Result' OBVIOUS
<1>17. Panic' OBVIOUS
<1>18. QueuesExist' OBVIOUS
<1> QED
  BY <1>10, <1>11, <1>12, <1>13, <1>14, <1>15, <1>16, <1>17, <1>18, <1>19

\* bt_close.
LEMMA LuaClosesKeeps == SInv /\ LuaCloses => Core'
<1> SUFFICES ASSUME SInv, LuaCloses
             PROVE  Core'
  OBVIOUS
<1> USE DEF LuaCloses, CanClose, LuaRuns, SInv, SessTypeOK, Core, Life, View, Stopping,
            Configured, InOut, InAsked, InDma, InRxbuf, Credit, Quiet, Working, Up, Busy,
            Spoken, StartsOnce, Awaited, Result, Panic, PanicOnlyWhileClosing, QueuesExist,
            schedVars, sessVars, chipVars, linkVars, bcVars, luaVars, lifeVars
<1>10. Life' OBVIOUS
<1>11. View' OBVIOUS
<1>12. Stopping' OBVIOUS
<1>13. Configured' OBVIOUS
<1>14. Working' OBVIOUS
<1>19. Spoken' OBVIOUS
<1>15. StartsOnce' OBVIOUS
<1>16. Result' OBVIOUS
<1>17. Panic' OBVIOUS
<1>18. QueuesExist' OBVIOUS
<1> QED
  BY <1>10, <1>11, <1>12, <1>13, <1>14, <1>15, <1>16, <1>17, <1>18, <1>19

\* bt_open.
LEMMA LuaOpensKeeps == SInv /\ LuaOpens => Core'
<1> SUFFICES ASSUME SInv, LuaOpens
             PROVE  Core'
  OBVIOUS
<1>1. /\ ~Has(<<>>, "stopped") /\ ~Has(<<>>, "started")
      /\ ~Has(<<>>, "key") /\ ~Has(<<>>, "found")
  BY Empty
<1> USE <1>1 DEF LuaOpens, LuaRuns, SInv, SessTypeOK, Core, Life, View, Stopping,
                 Configured, InOut, InAsked, InDma, InRxbuf, Credit, Quiet, Working, Up,
                 Busy, Spoken, StartsOnce, Awaited, Result, Panic, PanicOnlyWhileClosing,
                 QueuesExist, schedVars, sessVars, chipVars, linkVars, bcVars, luaVars,
                 lifeVars
<1>10. Life' OBVIOUS
<1>11. View' OBVIOUS
<1>12. Stopping' OBVIOUS
<1>13. Configured' OBVIOUS
<1>14. Working' OBVIOUS
<1>19. Spoken' OBVIOUS
<1>15. StartsOnce' OBVIOUS
<1>16. Result' OBVIOUS
<1>17. Panic' OBVIOUS
<1>18. QueuesExist' OBVIOUS
<1> QED
  BY <1>10, <1>11, <1>12, <1>13, <1>14, <1>15, <1>16, <1>17, <1>18, <1>19

\* The chip sends something of its own accord: "ready" is not among it.
LEMMA ChipSendsKeeps == SInv /\ (\E b \in Bursts : ChipSends(b)) => Core'
<1> SUFFICES ASSUME SInv, \E b \in Bursts : ChipSends(b)
             PROVE  Core'
  OBVIOUS
<1>1. PICK b \in Bursts : ChipSends(b)
  OBVIOUS
<1>2. /\ Has(dma \o b, "ready") <=> Has(dma, "ready")
      /\ Known(dma, frames) => Known(dma \o b, frames + 1)
      /\ Known(rxbuf, frames) => Known(rxbuf, frames + 1)
      /\ frames + 1 > 0
  <2>1. Known(b, frames + 1) /\ b \in Seq(Frames) /\ ~Has(b, "ready")
    BY BurstIs DEF SInv, Core, SessTypeOK
  <2>2. /\ Known(dma, frames) => Known(dma, frames + 1)
        /\ Known(rxbuf, frames) => Known(rxbuf, frames + 1)
    BY DEF SInv, Core, SessTypeOK, Known
  <2> QED
    BY <2>1, <2>2, Joined DEF SInv, Core, SessTypeOK
<1> USE <1>1, <1>2 DEF ChipSends, SInv, SessTypeOK, Core, Life, View, Stopping, Configured,
                       InOut, InAsked, InDma, InRxbuf, Credit, Quiet, Working, Up, Busy,
                       Spoken, StartsOnce, Awaited, Result, Panic, PanicOnlyWhileClosing,
                       QueuesExist, schedVars, sessVars, chipVars, linkVars, bcVars,
                       luaVars, lifeVars
<1>10. Life' OBVIOUS
<1>11. View' OBVIOUS
<1>12. Stopping' OBVIOUS
<1>13. Configured' OBVIOUS
<1>14. Working' OBVIOUS
<1>19. Spoken' OBVIOUS
<1>15. StartsOnce' OBVIOUS
<1>16. Result' OBVIOUS
<1>17. Panic' OBVIOUS
<1>18. QueuesExist' OBVIOUS
<1> QED
  BY <1>10, <1>11, <1>12, <1>13, <1>14, <1>15, <1>16, <1>17, <1>18, <1>19

\* The receiving thread hands over what has come: one of the two buffers was empty of
\* "ready", and while Bluetooth is being configured one of them was empty.
LEMMA RxPollKeeps == SInv /\ RxPoll => Core'
<1> SUFFICES ASSUME SInv, RxPoll
             PROVE  Core'
  OBVIOUS
<1>1. /\ dma \in Seq(Frames) /\ rxbuf \in Seq(Frames) /\ dma # <<>>
      /\ rxbuf' = rxbuf \o dma /\ dma' = <<>> /\ rx' = "flag" /\ rx = "poll"
      /\ UNCHANGED <<schedVars, bcVars, luaVars, lifeVars, events, out, asked, frames>>
  BY DEF RxPoll, SInv, Core, SessTypeOK
<1>2. /\ Has(rxbuf \o dma, "ready") <=> Has(rxbuf, "ready") \/ Has(dma, "ready")
      /\ Known(rxbuf, frames) /\ Known(dma, frames) /\ ~(Has(rxbuf, "ready") /\ Has(dma, "ready"))
           => Known(rxbuf \o dma, frames)
      /\ rxbuf = <<>> => rxbuf \o dma = dma
  BY <1>1, Joined
<1>3. rxbuf \o dma # <<>>
  BY <1>1, ConcatEqualIffEmpty
<1>4. ~Has(<<>>, "ready") /\ Known(<<>>, frames)
  BY Empty
<1>5. Sign(rxbuf, settings) => rxbuf # <<>>
  BY DEF Sign
<1> USE <1>1, <1>2, <1>3, <1>4, <1>5
DEF SInv, SessTypeOK, Core, Life, View, Stopping, Configured, InOut, InAsked, InDma,
    InRxbuf, Credit, Quiet, Working, Up, Busy, Spoken, StartsOnce, Awaited, Result, Panic,
    PanicOnlyWhileClosing, QueuesExist, schedVars, sessVars, chipVars, linkVars, bcVars,
    luaVars, lifeVars
<1>10. Life' OBVIOUS
<1>11. View' OBVIOUS
<1>12. Stopping' OBVIOUS
<1>13. Configured' OBVIOUS
<1>14. Working' OBVIOUS
<1>19. Spoken' OBVIOUS
<1>15. StartsOnce' OBVIOUS
<1>16. Result' OBVIOUS
<1>17. Panic' OBVIOUS
<1>18. QueuesExist' OBVIOUS
<1> QED
  BY <1>10, <1>11, <1>12, <1>13, <1>14, <1>15, <1>16, <1>17, <1>18, <1>19

\* A frame is taken from the buffer: the first sign of life and the answers give the credit
\* back, "ready" is passed on to Lua, and in STOPPING only a frame of the chip's own accord
\* gives a credit.
LEMMA DeliverKeeps == SInv /\ Deliver => Core'
<1> SUFFICES ASSUME SInv, Deliver
             PROVE  Core'
  OBVIOUS
<1> DEFINE f == Head(rxbuf)
<1>1. /\ rxbuf \in Seq(Frames) /\ rxbuf # <<>> /\ rxbuf' = Tail(rxbuf)
      /\ pc' \in {"deliver", "second"} /\ (pc' = "deliver" => rxbuf' # <<>>)
      /\ UNCHANGED <<then, cmd, timers, due, stimer, terminate, command, settings, rx, asked, dma,
                     frames, luaVars, lifeVars>>
      /\ out' \in {out, out \cup {"say"}}
  <2>1. out' \in {out, out \cup {"say"}}
    BY DEF Deliver, Response, LwBtEvent, EarlyEvent
  <2>2. rxbuf \in Seq(Frames) /\ rxbuf # <<>> /\ rxbuf' = Tail(rxbuf)
    BY DEF Deliver, SInv, Core, SessTypeOK, Life
  <2>3. pc' \in {"deliver", "second"} /\ (pc' = "deliver" => rxbuf' # <<>>)
    BY DEF Deliver
  <2>4. UNCHANGED <<then, cmd, timers, due, stimer, terminate, command, settings, rx, asked, dma,
                    frames, luaVars, lifeVars>>
    BY DEF Deliver
  <2> QED
    BY <2>1, <2>2, <2>3, <2>4
<1>2. /\ events \in Seq({"started", "stopped", "key", "found"})
      /\ ~Has(events, "stopped") /\ pc = "deliver"
  BY DEF Deliver, SInv, Core, SessTypeOK, View
<1>3. CASE bc_state = "STARTED"
  <2>1. InRxbuf
    BY <1>1, <1>3 DEF SInv, Core, Configured, InOut, InAsked, InDma, Credit, Quiet
  <2>2. f \in {"nop", "response"} /\ (f = "nop" => settings > 0) /\ rxbuf' = <<>>
    BY <1>1, <2>1 DEF InRxbuf, Sign
  <2>3. /\ hci' = 1 /\ UNCHANGED <<events, out>>
        /\ bc_state' = (IF f = "response" /\ settings = 0 THEN "PS_SET" ELSE "STARTED")
    BY <1>3, <2>2 DEF Deliver, Response, EarlyEvent, IsPsSet
  <2>4. Credit' /\ (bc_state' = "STARTED" => settings' > 0)
    BY <1>1, <2>1, <2>2, <2>3 DEF InRxbuf, Credit, Quiet, chipVars, SInv, Core, SessTypeOK
  <2>5. ~Has(<<>>, "ready")
    BY Empty
  <2>6. hw # "on"
    BY <1>3 DEF SInv, Core, View
  <2> QED
    BY <1>1, <1>2, <1>3, <2>2, <2>3, <2>4, <2>5, <2>6
    DEF SInv, SessTypeOK, Core, Life, View, Stopping, Configured, InOut, InAsked, InDma,
        InRxbuf, Credit, Quiet, Working, Up, Busy, Spoken, StartsOnce, Awaited, Result,
        Panic, PanicOnlyWhileClosing, QueuesExist, schedVars, sessVars, chipVars, linkVars,
        bcVars, luaVars, lifeVars
<1>4. CASE bc_state \in {"READY", "STOPPING"}
  <2>1. Known(rxbuf, frames) /\ Once(rxbuf, "ready")
    BY <1>4 DEF SInv, Core, Working, Up, Busy, Spoken, Known
  <2>2. /\ Known(rxbuf', frames) /\ f \in Later /\ (f # "ready" => frames > 0)
        /\ Has(rxbuf', "ready") => Has(rxbuf, "ready")
        /\ f = "ready" => Has(rxbuf, "ready") /\ ~Has(rxbuf', "ready")
    BY <1>1, <2>1, Shortened
  <2>3. CASE bc_state = "STOPPING"
    <3>1. f # "ready"
      BY <2>2, <2>3 DEF SInv, Core, StartsOnce
    <3>2. UNCHANGED <<bc_state, events>> /\ hci' \in {hci, 1} /\ frames > 0
      BY <2>2, <2>3, <3>1 DEF Deliver, EarlyEvent, Later, Spontaneous
    <3> QED
      BY <1>1, <1>2, <2>2, <2>3, <3>1, <3>2
      DEF SInv, SessTypeOK, Core, Life, View, Stopping, Configured, InOut, InAsked, InDma,
          InRxbuf, Credit, Quiet, Working, Up, Busy, Spoken, StartsOnce, Awaited, Result,
          Panic, PanicOnlyWhileClosing, QueuesExist, schedVars, sessVars, chipVars,
          linkVars, bcVars, luaVars, lifeVars
  <2>4. CASE bc_state = "READY" /\ f # "ready"
    <3>1. /\ UNCHANGED <<bc_state, hci>>
          /\ events' = events \/ \E e \in {"key", "found"} : events' = Append(events, e)
      BY <2>2, <2>4 DEF Deliver, LwBtEvent, Later, Spontaneous
    <3>2. /\ Has(events', "started") <=> Has(events, "started")
          /\ Once(events', "started")
          /\ ~Has(events', "stopped") /\ OnlyLast(events', "stopped")
      <4>1. Once(events, "started") /\ OnlyLast(events, "stopped")
        BY DEF SInv, Core, View, StartsOnce
      <4>2. ASSUME NEW e \in {"key", "found"}, events' = Append(events, e)
            PROVE  /\ Has(events', "started") <=> Has(events, "started")
                   /\ Once(events', "started") /\ ~Has(events', "stopped")
        <5> DEFINE T == {"started", "stopped", "key", "found"}
        <5>1. e \in T /\ e # "started" /\ e # "stopped" /\ events \in Seq(T)
          BY <1>2
        <5> HIDE DEF T
        <5>2. /\ Has(Append(events, e), "started") <=> Has(events, "started")
              /\ Once(Append(events, e), "started") /\ ~Has(Append(events, e), "stopped")
          BY <5>1, <4>1, <1>2, Appended
        <5> QED
          BY <4>2, <5>2
      <4>3. ~Has(events', "stopped") => OnlyLast(events', "stopped")
        BY DEF Has, OnlyLast
      <4> QED
        BY <1>2, <3>1, <4>1, <4>2, <4>3
    <3> QED
      BY <1>1, <1>2, <2>2, <2>4, <3>1, <3>2
      DEF SInv, SessTypeOK, Core, Life, View, Stopping, Configured, InOut, InAsked, InDma,
          InRxbuf, Credit, Quiet, Working, Up, Busy, Spoken, StartsOnce, Awaited, Result,
          Panic, PanicOnlyWhileClosing, QueuesExist, schedVars, sessVars, chipVars,
          linkVars, bcVars, luaVars, lifeVars
  <2>5. CASE bc_state = "READY" /\ f = "ready"
    <3>1. UNCHANGED <<bc_state, hci>> /\ events' = Append(events, "started")
      BY <2>5 DEF Deliver, LwBtEvent
    <3>2. ~Has(events, "started") /\ hw = "opening" /\ Has(rxbuf, "ready")
      BY <2>2, <2>5, <1>2 DEF SInv, Core, SessTypeOK, Life, View, StartsOnce
    <3>3. Has(events', "started") /\ Once(events', "started") /\ ~Has(events', "stopped")
      <4> DEFINE T == {"started", "stopped", "key", "found"}
      <4>1. "started" \in T /\ events \in Seq(T)
        BY <1>2
      <4> HIDE DEF T
      <4>2. /\ Has(Append(events, "started"), "started") /\ Once(Append(events, "started"), "started")
            /\ ~Has(Append(events, "started"), "stopped")
        BY <4>1, <3>2, <1>2, Appended
      <4> QED
        BY <3>1, <4>2
    <3>4. OnlyLast(events', "stopped")
      BY <3>3 DEF Has, OnlyLast
    <3> QED
      BY <1>1, <1>2, <2>2, <2>5, <3>1, <3>2, <3>3, <3>4
      DEF SInv, SessTypeOK, Core, Life, View, Stopping, Configured, InOut, InAsked, InDma,
          InRxbuf, Credit, Quiet, Working, Up, Busy, Spoken, StartsOnce, Awaited, Result,
          Panic, PanicOnlyWhileClosing, QueuesExist, schedVars, sessVars, chipVars,
          linkVars, bcVars, luaVars, lifeVars
  <2> QED
    BY <1>4, <2>3, <2>4, <2>5
<1> QED
  <2>1. bc_state \in {"STARTED", "READY", "STOPPING"}
    BY <1>1, <1>2 DEF SInv, Core, SessTypeOK, Life, Configured, Credit, Quiet
  <2> QED
    BY <1>3, <1>4, <2>1

\* u_bt_task uses the credit up; it panics with one in STOPPING only.
LEMMA TaskKeeps == SInv /\ Task => Core'
<1> SUFFICES ASSUME SInv, Task
             PROVE  Core'
  OBVIOUS
<1>1. /\ UNCHANGED <<due, command, asked, dma, frames, linkVars, luaVars, alive, open_count, events>>
      /\ pc = "task" /\ pc' \in {"panic", "timed"}
  BY DEF Task
<1>2. /\ cmd' \in {cmd, "none"} /\ (terminate' => terminate \/ cmd = "stop")
      /\ result' => result \/ (cmd = "ask" /\ cmd' = "none")
  BY DEF Task, CommandAfterRun
<1>3. CASE UNCHANGED <<out, bcVars, timers>> /\ pc' = "timed"
  BY <1>1, <1>2, <1>3 DEF SInv, SessTypeOK, Core, Life, View, Stopping, Configured, InOut,
                          InAsked, InDma, InRxbuf, Credit, Quiet, Working, Up, Busy, Spoken,
                          StartsOnce, Awaited, Result, Panic, PanicOnlyWhileClosing,
                          QueuesExist, schedVars, sessVars, chipVars, linkVars, bcVars,
                          luaVars, lifeVars
<1>4. CASE hci > 0 /\ bc_state = "STARTED" /\ hci' = hci - 1 /\ settings' = settings - 1
           /\ out' = out \cup {"ps"} /\ pc' = "timed" /\ UNCHANGED <<bc_state, timers>>
  <2>1. Credit
    BY <1>4 DEF SInv, Core, Configured, InOut, InAsked, InDma, InRxbuf
  <2>2. InOut'
    BY <1>1, <1>4, <2>1 DEF Credit, InOut, Quiet, linkVars, SInv, Core, SessTypeOK
  <2>3. hw # "on"
    BY <1>4 DEF SInv, Core, View
  <2> QED
    BY <1>1, <1>2, <1>4, <2>1, <2>2, <2>3
    DEF SInv, SessTypeOK, Core, Life, View, Stopping, Configured, InOut, InAsked, InDma,
        InRxbuf, Credit, Quiet, Working, Up, Busy, Spoken, StartsOnce, Awaited, Result,
        Panic, PanicOnlyWhileClosing, QueuesExist, schedVars, sessVars, chipVars, linkVars,
        bcVars, luaVars, lifeVars
<1>5. CASE hci > 0 /\ bc_state = "PS_SET" /\ hci' = hci - 1 /\ bc_state' = "RESTARTING"
           /\ out' = out \cup {"reset"} /\ timers' = timers \cup {"restart"} /\ settings' = settings
           /\ pc' = "timed"
  <2>1. Credit
    BY <1>5 DEF SInv, Core, Configured
  <2>2. out' = {"reset"} /\ asked' = {} /\ hci' = 0 /\ dma' = <<>> /\ rxbuf' = <<>>
    BY <1>1, <1>5, <2>1 DEF Credit, Quiet, linkVars
  <2> QED
    BY <1>1, <1>2, <1>5, <2>1, <2>2 DEF SInv, SessTypeOK, Core, Life, View, Stopping,
                                        Configured, InOut, InAsked, InDma, InRxbuf, Credit,
                                        Quiet, Working, Up, Busy, Spoken, StartsOnce,
                                        Awaited, Result, Panic, PanicOnlyWhileClosing,
                                        QueuesExist, schedVars, sessVars, chipVars,
                                        linkVars, bcVars, luaVars, lifeVars
<1>6. CASE hci > 0 /\ bc_state \notin {"STARTED", "PS_SET"} /\ hci' = hci - 1 /\ pc' = "panic"
           /\ UNCHANGED <<out, bc_state, settings, timers>>
  <2>1. bc_state = "STOPPING" /\ frames > 0
    BY <1>1, <1>6 DEF SInv, Core, SessTypeOK, Life, Configured, Working
  <2>2. hw = "closing"
    BY <2>1 DEF SInv, Core, View
  <2> QED
    BY <1>1, <1>2, <1>6, <2>1, <2>2 DEF SInv, SessTypeOK, Core, Life, View, Stopping,
                                        Configured, InOut, InAsked, InDma, InRxbuf, Credit,
                                        Quiet, Working, Up, Busy, Spoken, StartsOnce,
                                        Awaited, Result, Panic, PanicOnlyWhileClosing,
                                        QueuesExist, schedVars, sessVars, chipVars,
                                        linkVars, bcVars, luaVars, lifeVars
<1>7. CASE Up /\ out' = out \cup {"say"} /\ UNCHANGED <<bcVars, timers>> /\ pc' = "timed"
  BY <1>1, <1>2, <1>7 DEF SInv, SessTypeOK, Core, Life, View, Stopping, Configured, InOut,
                          InAsked, InDma, InRxbuf, Credit, Quiet, Working, Up, Busy, Spoken,
                          StartsOnce, Awaited, Result, Panic, PanicOnlyWhileClosing,
                          QueuesExist, schedVars, sessVars, chipVars, linkVars, bcVars,
                          luaVars, lifeVars
<1> QED
  <2>1. CASE run /\ hci = 0
    <3>1. cmd \in {"send", "ask"} => Up
      BY <1>1 DEF SInv, Core, Busy, Spoken
    <3>2. UNCHANGED <<bcVars, timers>> /\ pc' = "timed"
      BY <2>1 DEF Task, NextStep, Unexpected
    <3>3. out' = out \/ (cmd \in {"send", "ask"} /\ out' = out \cup {"say"})
      BY <2>1 DEF Task, NextStep, Unexpected, MaySay, Queue, NothingToSend
    <3> QED
      BY <1>3, <1>7, <3>1, <3>2, <3>3
  <2>2. CASE run /\ hci > 0
    <3>1. bc_state # "READY"
      BY <2>2 DEF SInv, Core, Working
    <3> QED
      BY <2>2, <3>1, <1>4, <1>5, <1>6 DEF Task, NextStep, Unexpected, NothingToSend, Queue,
                                          OneLess
  <2>3. CASE ~run
    BY <2>3, <1>3 DEF Task, NothingToSend
  <2> QED
    BY <2>1, <2>2, <2>3 DEF SInv, Core, SessTypeOK

\* The chip answers a request: the request is gone and its answer takes its place.
LEMMA ChipAnswersKeeps == SInv /\ ChipAnswers => Core'
<1> SUFFICES ASSUME SInv, ChipAnswers
             PROVE  Core'
  OBVIOUS
<1>1. PICK q \in {"ps", "hci"} : q \in asked /\ asked' = asked \ {q} /\ dma' = Append(dma, Answers[q])
  BY DEF ChipAnswers, Answers
<1>2. /\ dma \in Seq(Frames)
      /\ UNCHANGED <<schedVars, linkVars, bcVars, luaVars, lifeVars, events, out, frames>>
  BY DEF ChipAnswers, SInv, Core, SessTypeOK
<1>3. CASE q = "ps"
  <2>1. dma' = Append(dma, "response") /\ "response" \in Frames
    BY <1>1, <1>3 DEF Answers, Frames
  <2>2. bc_state = "STARTED" /\ InAsked
    BY <1>1, <1>3 DEF SInv, Core, SessTypeOK, Life, Configured, InOut, InAsked, InDma,
                      InRxbuf, Credit, Working, Up
  <2>3. Sign(dma', settings) /\ ~Has(dma', "ready") /\ dma' # <<>>
    BY <2>1, <2>2 DEF InAsked, Quiet, Sign, Has
  <2> QED
    BY <1>1, <1>2, <1>3, <2>2, <2>3 DEF SInv, SessTypeOK, Core, Life, View, Stopping,
                                        Configured, InOut, InAsked, InDma, InRxbuf, Credit,
                                        Quiet, Working, Up, Busy, Spoken, StartsOnce,
                                        Awaited, Result, Panic, PanicOnlyWhileClosing,
                                        QueuesExist, schedVars, sessVars, chipVars,
                                        linkVars, bcVars, luaVars, lifeVars
<1>4. CASE q = "hci"
  <2>1. dma' = Append(dma, "ready") /\ "ready" \in Frames
    BY <1>1, <1>4 DEF Answers, Frames
  <2>2. bc_state = "READY" /\ ~Has(dma, "ready") /\ hw # "on" /\ Known(dma, frames)
    BY <1>1, <1>4 DEF SInv, Core, SessTypeOK, Life, Configured, InOut, InAsked, InDma,
                      InRxbuf, Credit, Working, Up, Busy, Spoken, StartsOnce
  <2>3. Has(dma', "ready") /\ Known(dma', frames)
    BY <1>2, <2>1, <2>2, Appended
  <2> QED
    BY <1>1, <1>2, <1>4, <2>2, <2>3 DEF SInv, SessTypeOK, Core, Life, View, Stopping,
                                        Configured, InOut, InAsked, InDma, InRxbuf, Credit,
                                        Quiet, Working, Up, Busy, Spoken, StartsOnce,
                                        Awaited, Result, Panic, PanicOnlyWhileClosing,
                                        QueuesExist, schedVars, sessVars, chipVars,
                                        linkVars, bcVars, luaVars, lifeVars
<1> QED
  BY <1>3, <1>4

\* bt_task begins, or fails, which Lua is told.
LEMMA BootKeeps == SInv /\ Boot => Core'
<1> SUFFICES ASSUME SInv, Boot
             PROVE  Core'
  OBVIOUS
<1>1. /\ bc_state = "STARTING" /\ hw = "opening" /\ Quiet /\ out = {} /\ asked = {}
      /\ events \in Seq({"started", "stopped", "key", "found"})
  <2>1. bc_state = "STARTING" /\ pc = "boot" /\ hw # "off" /\ Quiet /\ out = {} /\ asked = {}
    BY DEF Boot, SInv, Core, Life
  <2>2. hw # "on" /\ hw # "closing"
    BY <2>1 DEF SInv, Core, View
  <2> QED
    BY <2>1, <2>2 DEF SInv, Core, SessTypeOK
<1>2. ~Has(events, "stopped") /\ ~Has(events, "started")
  BY <1>1 DEF Boot, SInv, Core, Life, View, StartsOnce
<1>3. /\ OnlyLast(Append(events, "stopped"), "stopped")
      /\ ~Has(Append(events, "stopped"), "started") /\ Once(Append(events, "stopped"), "started")
  BY <1>1, <1>2, Appended
<1>4. ~Has(<<>>, "ready")
  BY Empty
<1>5. Settings > 0 /\ Sign(<<"nop">>, Settings) /\ ~Has(<<"nop">>, "ready")
  BY SettingsAssumption DEF Sign, Has
<1>6. Once(events, "started") /\ OnlyLast(events, "stopped")
  BY DEF SInv, Core, StartsOnce, View
<1> USE <1>1, <1>2, <1>3, <1>4, <1>5, <1>6
DEF Boot, SInv, SessTypeOK, Core, Life, View, Stopping, Configured, InOut, InAsked, InDma,
    InRxbuf, Credit, Quiet, Working, Up, Busy, Spoken, StartsOnce, Awaited, Result, Panic,
    PanicOnlyWhileClosing, QueuesExist, schedVars, sessVars, chipVars, linkVars, bcVars,
    luaVars, lifeVars
<1>10. Life' OBVIOUS
<1>11. View' OBVIOUS
<1>12. Stopping' OBVIOUS
<1>13. Configured' OBVIOUS
<1>14. Working' OBVIOUS
<1>19. Spoken' OBVIOUS
<1>15. StartsOnce' OBVIOUS
<1>16. Result' OBVIOUS
<1>17. Panic' OBVIOUS
<1>18. QueuesExist' OBVIOUS
<1> QED
  BY <1>10, <1>11, <1>12, <1>13, <1>14, <1>15, <1>16, <1>17, <1>18, <1>19

\* The reset is over: the applications are started.
LEMMA DueKeeps == SInv /\ Due => Core'
<1> SUFFICES ASSUME SInv, Due
             PROVE  Core'
  OBVIOUS
<1> USE DEF MaySay, Queue, Raise, WakeUp, NothingToSend
<1>1. CASE bc_state' = "READY" /\ "restart" \in due
  <2>1. "restart" \in timers
    BY <1>1 DEF SInv, SchedTypeOK
  <2>2. /\ bc_state = "RESTARTING" /\ Quiet /\ hci = 0
        /\ out \cup asked \subseteq {"reset"} /\ frames' = frames /\ pc' = "timed"
    BY <2>1 DEF Due, SInv, Core, Configured
  <2>3. hw # "on" /\ hw # "closing" /\ hw # "off" /\ alive
    BY <2>2 DEF Due, SInv, Core, View, Life
  <2>4. out' \subseteq {"reset", "hci"} /\ asked' \subseteq {"reset"} /\ "restart" \notin timers'
    BY <1>1, <2>2 DEF Due
  <2>5. UNCHANGED <<cmd, terminate, command, hci, settings, asked, dma, linkVars, luaVars, lifeVars,
                    events>>
    BY DEF Due
  <2>6. ~Has(<<>>, "ready") /\ Known(<<>>, frames)
    BY Empty
  <2> USE <1>1, <2>2, <2>3, <2>4, <2>5, <2>6
  DEF SInv, SessTypeOK, Core, Life, View, Stopping, Configured, InOut, InAsked, InDma,
      InRxbuf, Credit, Quiet, Working, Up, Busy, Spoken, StartsOnce, Awaited, Result, Panic,
      PanicOnlyWhileClosing, QueuesExist, schedVars, sessVars, chipVars, linkVars, bcVars,
      luaVars, lifeVars
  <2>10. Life' OBVIOUS
  <2>11. View' OBVIOUS
  <2>12. Stopping' OBVIOUS
  <2>13. Configured' OBVIOUS
  <2>14. Working' OBVIOUS
  <2>19. Spoken' OBVIOUS
  <2>15. StartsOnce' OBVIOUS
  <2>16. Result' OBVIOUS
  <2>17. Panic' OBVIOUS
  <2>18. QueuesExist' OBVIOUS
  <2> QED
    BY <2>10, <2>11, <2>12, <2>13, <2>14, <2>15, <2>16, <2>17, <2>18, <2>19
<1>3. CASE "bt" \in due /\ UNCHANGED <<timers, bc_state>> /\ out' \in {out, out \cup {"say"}}
  <2>1. /\ UNCHANGED <<cmd, terminate, command, hci, settings, asked, dma, frames, linkVars,
                       luaVars, lifeVars, events>>
        /\ pc = "due" /\ pc' = "timed"
    BY DEF Due
  <2>2. Up
    BY <1>3 DEF Due, SInv, SchedTypeOK, Core, Busy, Spoken
  <2> USE <1>3, <2>1, <2>2 DEF SInv, SessTypeOK, Core, Life, View, Stopping, Configured,
                               InOut, InAsked, InDma, InRxbuf, Credit, Quiet, Working, Up,
                               Busy, Spoken, StartsOnce, Awaited, Result, Panic,
                               PanicOnlyWhileClosing, QueuesExist, schedVars, sessVars,
                               chipVars, linkVars, bcVars, luaVars, lifeVars
  <2>10. Life' OBVIOUS
  <2>11. View' OBVIOUS
  <2>12. Stopping' OBVIOUS
  <2>13. Configured' OBVIOUS
  <2>14. Working' OBVIOUS
  <2>19. Spoken' OBVIOUS
  <2>15. StartsOnce' OBVIOUS
  <2>16. Result' OBVIOUS
  <2>17. Panic' OBVIOUS
  <2>18. QueuesExist' OBVIOUS
  <2> QED
    BY <2>10, <2>11, <2>12, <2>13, <2>14, <2>15, <2>16, <2>17, <2>18, <2>19
<1> QED
  BY <1>1, <1>3 DEF Due

\* The scheduler ends, which Lua is told, only after STOP.
LEMMA ExitKeeps == SInv /\ Exit => Core'
<1> SUFFICES ASSUME SInv, Exit
             PROVE  Core'
  OBVIOUS
<1>1. /\ hw = "closing" /\ bc_state = "STOPPING"
      /\ events \in Seq({"started", "stopped", "key", "found"})
  <2>1. bc_state = "STOPPING"
    BY DEF Exit, SInv, Core, Stopping
  <2> QED
    BY <2>1 DEF SInv, Core, SessTypeOK, View
<1>2. ~Has(events, "stopped") /\ ~Has(events, "started")
  BY <1>1 DEF SInv, Core, Life, View, StartsOnce
<1>3. /\ OnlyLast(Append(events, "stopped"), "stopped")
      /\ ~Has(Append(events, "stopped"), "started") /\ Once(Append(events, "stopped"), "started")
  BY <1>1, <1>2, Appended
<1>4. ~Has(<<>>, "ready")
  BY Empty
<1> USE <1>1, <1>3, <1>4 DEF Exit, SInv, SessTypeOK, Core, Life, View, Stopping, Configured,
                             InOut, InAsked, InDma, InRxbuf, Credit, Quiet, Working, Up,
                             Busy, Spoken, StartsOnce, Awaited, Result, Panic,
                             PanicOnlyWhileClosing, QueuesExist, schedVars, sessVars,
                             chipVars, linkVars, bcVars, luaVars, lifeVars
<1>10. Life' OBVIOUS
<1>11. View' OBVIOUS
<1>12. Stopping' OBVIOUS
<1>13. Configured' OBVIOUS
<1>14. Working' OBVIOUS
<1>19. Spoken' OBVIOUS
<1>15. StartsOnce' OBVIOUS
<1>16. Result' OBVIOUS
<1>17. Panic' OBVIOUS
<1>18. QueuesExist' OBVIOUS
<1> QED
  BY <1>10, <1>11, <1>12, <1>13, <1>14, <1>15, <1>16, <1>17, <1>18, <1>19

\* Lua handles an event: "started" and "stopped" are no longer on their way.
LEMMA LuaEventKeeps == SInv /\ LuaEvent => Core'
<1> SUFFICES ASSUME SInv, LuaEvent
             PROVE  Core'
  OBVIOUS
<1> DEFINE T == {"started", "stopped", "key", "found"}
<1>1. events \in Seq(T) /\ events # <<>>
  BY DEF LuaEvent, SInv, Core, SessTypeOK
<1>2. ASSUME NEW f \in T
      PROVE  /\ Has(Tail(events), f) => Has(events, f)
             /\ Head(events) = f => Has(events, f)
  BY <1>1, Shortened
<1>3. /\ Once(Tail(events), "started") /\ (Head(events) = "started" => ~Has(Tail(events), "started"))
      /\ OnlyLast(Tail(events), "stopped") /\ (Head(events) = "stopped" => Tail(events) = <<>>)
  <2>1. Once(events, "started") /\ OnlyLast(events, "stopped")
    BY DEF SInv, Core, StartsOnce, View
  <2> QED
    BY <1>1, <2>1, Shortened
<1>4. /\ Head(events) \in T /\ events' = Tail(events) /\ lua = "idle" /\ hw # "off"
      /\ UNCHANGED <<schedVars, chipVars, linkVars, bcVars, opens, commands, refused, stray, lifeVars>>
  BY <1>1 DEF LuaEvent, SInv, Core, View
<1>5. CASE Head(events) = "started"
  <2>1. hw' = "on" /\ lua' = "idle" /\ lua_cmd' = lua_cmd
    BY <1>5 DEF LuaEvent
  <2>2. Has(events, "started") /\ ~Has(Tail(events), "started")
    BY <1>2, <1>3, <1>5
  <2> QED
    BY <1>2, <1>3, <1>4, <2>1, <2>2 DEF SInv, SessTypeOK, Core, Life, View, Stopping,
                                        Configured, InOut, InAsked, InDma, InRxbuf, Credit,
                                        Quiet, Working, Up, Busy, Spoken, StartsOnce,
                                        Awaited, Result, Panic, PanicOnlyWhileClosing,
                                        QueuesExist, schedVars, sessVars, chipVars,
                                        linkVars, bcVars, luaVars, lifeVars
<1>6. CASE Head(events) = "stopped"
  <2>1. hw' = "off" /\ lua' = "idle" /\ lua_cmd' = lua_cmd
    BY <1>6 DEF LuaEvent
  <2>2. Has(events, "stopped") /\ events' = <<>>
    BY <1>2, <1>3, <1>4, <1>6
  <2>3. /\ ~Has(<<>>, "started") /\ ~Has(<<>>, "stopped")
        /\ Once(<<>>, "started") /\ OnlyLast(<<>>, "stopped")
    BY Empty
  <2> QED
    BY <1>4, <2>1, <2>2, <2>3 DEF SInv, SessTypeOK, Core, Life, View, Stopping, Configured,
                                  InOut, InAsked, InDma, InRxbuf, Credit, Quiet, Working,
                                  Up, Busy, Spoken, StartsOnce, Awaited, Result, Panic,
                                  PanicOnlyWhileClosing, QueuesExist, schedVars, sessVars,
                                  chipVars, linkVars, bcVars, luaVars, lifeVars
<1>7. CASE Head(events) \in {"key", "found"}
  <2>1. hw' = hw /\ lua' = "send" /\ lua_cmd' \in {"send", "ask"}
    BY <1>7 DEF LuaEvent
  <2> QED
    BY <1>2, <1>3, <1>4, <2>1 DEF SInv, SessTypeOK, Core, Life, View, Stopping, Configured,
                                  InOut, InAsked, InDma, InRxbuf, Credit, Quiet, Working,
                                  Up, Busy, Spoken, StartsOnce, Awaited, Result, Panic,
                                  PanicOnlyWhileClosing, QueuesExist, schedVars, sessVars,
                                  chipVars, linkVars, bcVars, luaVars, lifeVars
<1> QED
  BY <1>4, <1>5, <1>6, <1>7

-----------------------------------------------------------------------------
\* The invariant holds before Bluetooth is switched on ...
LEMMA Initially == Init => SInv
<1> SUFFICES ASSUME Init
             PROVE  SInv
  OBVIOUS
<1>1. SchedTypeOK
  <2>1. run \in BOOLEAN /\ stimer \in BOOLEAN /\ terminate \in BOOLEAN
    BY Zenon DEF Init, SchedInit
  <2>2. /\ pc = "off" /\ then = "task" /\ flags = {} /\ wake = 0 /\ cmd = "none" /\ timers = {}
        /\ due = {} /\ command = "none"
    BY DEF Init, SchedInit
  <2> QED
    BY <2>1, <2>2 DEF SchedTypeOK
<1>2. SessTypeOK
  <2>1. alive \in BOOLEAN /\ result \in BOOLEAN /\ refused \in BOOLEAN
    BY Zenon DEF Init
  <2>2. /\ bc_state = "STOPPED" /\ hci = 0 /\ settings = 0 /\ out = {} /\ asked = {} /\ dma = <<>>
        /\ rxbuf = <<>> /\ rx = "off" /\ open_count = 0 /\ hw = "off" /\ lua = "idle"
        /\ lua_cmd = "none" /\ events = <<>> /\ opens = 0 /\ frames = 0 /\ commands = 0
        /\ stray = "never"
    BY DEF Init
  <2> QED
    BY <2>1, <2>2, BoundsAssumption, SettingsAssumption, EmptySeq DEF SessTypeOK
<1>3. \A f : ~Has(<<>>, f) /\ Once(<<>>, f) /\ OnlyLast(<<>>, f)
  BY Empty
<1>4. Core
  BY <1>3 DEF Init, SchedInit, Core, Life, View, Stopping, Configured, Quiet, Working, Up,
              Busy, Spoken, StartsOnce, Awaited, Result, Panic, PanicOnlyWhileClosing,
              QueuesExist
<1> QED
  BY <1>1, <1>2, <1>4 DEF SInv

\* ... after every step ...
LEMMA Preserved == SInv /\ [Next]_vars => SInv'
<1> SUFFICES ASSUME SInv, [Next]_vars
             PROVE  SInv'
  OBVIOUS
<1>1. CASE Loop /\ UNCHANGED sessVars
  <2>1. SchedTypeOK'
    BY <1>1, LoopTypes DEF SInv
  <2>2. SessTypeOK'
    BY <1>1 DEF SInv, SessTypeOK, sessVars, chipVars, linkVars, bcVars, luaVars, lifeVars
  <2> QED
    BY <1>1, <2>1, <2>2, LoopKeeps DEF SInv
<1>2. CASE Boot \/ Rx \/ Deliver \/ Pump \/ Task \/ Due \/ Exit
  <2>1. Core'
    BY <1>2, BootKeeps, WiresKeep, DeliverKeeps, TaskKeeps, DueKeeps, ExitKeeps
  <2> QED
    BY <1>2, <2>1, TaskTypes, SessionTaskTypes DEF SInv
<1>3. CASE Clock
  <2>1. SchedTypeOK'
    BY <1>3, OtherTypes DEF SInv, Clock
  <2>2. SessTypeOK'
    BY <1>3 DEF Clock, SInv, SessTypeOK, sessVars, chipVars, linkVars, bcVars, luaVars,
                lifeVars
  <2> QED
    BY <1>3, <2>1, <2>2, WiresKeep DEF SInv
<1>4. CASE RxThread \/ Chip \/ Lua
  <2>1. RxThread => Core'
    BY RxPollKeeps, WiresKeep DEF RxThread
  <2>2. Chip => Core'
    BY ChipAnswersKeeps, ChipSendsKeeps DEF Chip
  <2>3. Lua => Core'
    BY LuaOpensKeeps, LuaClosesKeeps, LuaCommandsKeep, LuaEventKeeps DEF Lua, LuaGoesOn
  <2> QED
    BY <1>4, <2>1, <2>2, <2>3, OtherTypes, SessionOtherTypes DEF SInv
<1>5. CASE UNCHANGED vars
  <2>1. SchedTypeOK' /\ SessTypeOK'
    BY <1>5 DEF vars, SInv, SchedTypeOK, SessTypeOK, schedVars, sessVars, chipVars,
                linkVars, bcVars,
                luaVars, lifeVars
  <2>2. Core'
    BY <1>5 DEF vars, SInv, SchedTypeOK, SessTypeOK, Core, Life, View, Stopping, Configured,
                InOut, InAsked, InDma, InRxbuf, Credit, Quiet, Working, Up, Busy, Spoken,
                StartsOnce, Awaited, Result, Panic, PanicOnlyWhileClosing, QueuesExist,
                schedVars, sessVars, chipVars, linkVars, bcVars, luaVars, lifeVars
  <2> QED
    BY <2>1, <2>2 DEF SInv
<1> QED
  BY <1>1, <1>2, <1>3, <1>4, <1>5 DEF Next, Main

\* ... and so in every state.
LEMMA Invariant == Spec => []SInv
BY Initially, Preserved, PTL DEF Spec

\* Every variable stays in its set.  That the countdown of the settings does not pass zero,
\* and that the credit is one at most, follows from what is on its way in each phase.
THEOREM TypeCorrect == Spec => []TypeOK
<1>1. SInv => TypeOK
  BY DEF SInv, SessTypeOK, TypeOK
<1> QED
  BY <1>1, Invariant, PTL

\* u_bt_task panics only between bt_close and the end of the task, and only when the chip has
\* sent something of its own accord.
THEOREM PanicsOnlyWhileClosing == Spec => []PanicOnlyWhileClosing
<1>1. SInv => PanicOnlyWhileClosing
  BY DEF SInv, Core, Panic
<1> QED
  BY <1>1, Invariant, PTL

\* Lua uses a deleted queue only while it is closing Bluetooth.
THEOREM QueuesAlwaysExist == Spec => []QueuesExist
<1>1. SInv => QueuesExist
  BY DEF SInv, Core
<1> QED
  BY <1>1, Invariant, PTL

\* No result is left over for the next command.
THEOREM ResultIsAlwaysAwaited == Spec => []ResultIsAwaited
<1>1. SInv => ResultIsAwaited
  BY DEF SInv, Core, Result, Awaited, ResultIsAwaited
<1> QED
  BY <1>1, Invariant, PTL
=============================================================================
