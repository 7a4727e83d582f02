------------------------------ MODULE PmAudio -------------------------------
(***************************************************************************)
(* The power-management lock of src/core/dynawa/pm.c and two of its users: *)
(* the DMA transfers of peripherals/spi.c, and the audio player of audio.c *)
(* and audio_isr.c.  While the lock count is positive the idle hook keeps  *)
(* the CPU out of deep sleep, in which the clocks of the peripherals stop. *)
(* Tasks change the count under pm_mutex by a load and a store; the audio  *)
(* interrupt changes it without the mutex, possibly between the two.       *)
(***************************************************************************)
EXTENDS Integers, FiniteSets

CONSTANTS
  Tasks,     \* tasks that transfer sectors over the SPI bus
  Players,   \* tasks that also play audio: the Lua task
  Nobody,    \* the owner of a free mutex
  Lengths,   \* lengths of a sample, in DMA buffers
  MaxPlays   \* bound on the number of samples played

ASSUME TasksAssumption == IsFiniteSet(Tasks) /\ Players \subseteq Tasks /\ Nobody \notin Tasks
ASSUME OnePlayer == \A s, t \in Players : s = t
ASSUME AudioAssumption == Lengths \subseteq Nat \ {0} /\ MaxPlays \in Nat

VARIABLES
  lock,       \* _pm_lock
  pm_mutex,   \* owner of the mutex
  pc,         \* where each task is
  use,        \* what it is there for: "spi", "play" or "stop"
  loaded,     \* the value of _pm_lock that it has loaded
  bus,        \* owner of the SPI bus
  dma,        \* an SPI transfer is under way
  sample,     \* audio_current_sample # NULL
  loop,       \* audio_current_sample_loop
  length,     \* the length of the sample
  remaining,  \* audio_current_sample_remaining
  buffers,    \* DMA buffers handed to the SSC and not yet played
  irq,        \* the SSC's interrupts are enabled
  mode,       \* the CPU: "awake", "light" or "deep" sleep
  panic,      \* pm_unlock or pm_unlock_isr has found a negative count
  plays,      \* number of samples played
  raced       \* history: a sample ended by itself while audio_stop was stopping it

taskVars  == <<pm_mutex, pc, use, loaded>>
spiVars   == <<bus, dma>>
audioVars == <<sample, loop, length, remaining, buffers, irq, plays>>
vars == <<lock, taskVars, spiVars, audioVars, mode, panic, raced>>

Init ==
  /\ lock = 0 /\ pm_mutex = Nobody
  /\ pc = [t \in Tasks |-> "idle"] /\ use = [t \in Tasks |-> "spi"]
  /\ loaded = [t \in Tasks |-> 0]
  /\ bus = Nobody /\ dma = FALSE
  /\ sample = FALSE /\ loop = FALSE /\ length = 0 /\ remaining = 0 /\ buffers = 0
  /\ irq = FALSE /\ mode = "awake" /\ panic = FALSE /\ plays = 0 /\ raced = FALSE

At(t, label) == ~panic /\ mode = "awake" /\ pc[t] = label

Enter(t, u, label) ==
  pc' = [pc EXCEPT ![t] = label] /\ use' = [use EXCEPT ![t] = u]

GoTo(t, label) == pc' = [pc EXCEPT ![t] = label]

-----------------------------------------------------------------------------
(* pm_lock and pm_unlock called by a task.                                  *)

\* faulty: the count is changed without the mutex
NoMutex == TRUE
MutexFree == pm_mutex = Nobody

PmLoad(t) ==
  /\ At(t, "lock") \/ At(t, "unlock")
  /\ MutexFree
  /\ pm_mutex' = t
  /\ loaded' = [loaded EXCEPT ![t] = lock]
  /\ GoTo(t, IF pc[t] = "lock" THEN "inc" ELSE "dec")
  /\ UNCHANGED <<lock, use, spiVars, audioVars, mode, panic, raced>>

pm_lock(t) ==
  /\ At(t, "inc")
  /\ lock' = loaded[t] + 1
  /\ pm_mutex' = Nobody
  /\ GoTo(t, IF use[t] = "spi" THEN "wait" ELSE "enable")
  /\ UNCHANGED <<use, loaded, spiVars, audioVars, mode, panic, raced>>

pm_unlock(t) ==
  /\ At(t, "dec")
  /\ lock' = loaded[t] - 1
  /\ panic' = (lock' < 0)
  /\ pm_mutex' = Nobody
  /\ GoTo(t, IF use[t] = "spi" THEN "idle" ELSE "halt")
  /\ bus' = IF use[t] = "spi" THEN Nobody ELSE bus
  /\ UNCHANGED <<use, loaded, dma, audioVars, mode, raced>>

-----------------------------------------------------------------------------
(* spi_rw_bytes: the transfer is started before the lock is taken.          *)

SpiStart(t) ==
  /\ At(t, "idle") /\ bus = Nobody
  /\ bus' = t
  /\ dma' = TRUE
  /\ Enter(t, "spi", "lock")
  /\ UNCHANGED <<lock, pm_mutex, loaded, audioVars, mode, panic, raced>>

SpiWoken(t) ==
  /\ At(t, "wait") /\ ~dma
  /\ GoTo(t, "unlock")
  /\ UNCHANGED <<lock, pm_mutex, use, loaded, spiVars, audioVars, mode, panic, raced>>

SPIIsr_Handler ==
  /\ dma /\ ~panic
  /\ dma' = FALSE
  /\ mode' = "awake"
  /\ UNCHANGED <<lock, taskVars, bus, audioVars, panic, raced>>

-----------------------------------------------------------------------------
(* audio_play and audio_stop called by a task.  Both first stop the sample  *)
(* that is playing: pm_unlock, then _audio_stop.                            *)

PlayCalled(t) ==
  /\ At(t, "idle") /\ t \in Players /\ plays < MaxPlays
  /\ Enter(t, "play", IF sample THEN "unlock" ELSE "lock")
  /\ UNCHANGED <<lock, pm_mutex, loaded, spiVars, audioVars, mode, panic, raced>>

StopCalled(t) ==
  /\ At(t, "idle") /\ t \in Players /\ sample
  /\ Enter(t, "stop", "unlock")
  /\ UNCHANGED <<lock, pm_mutex, loaded, spiVars, audioVars, mode, panic, raced>>

_audio_stop(t) ==
  /\ At(t, "halt")
  /\ irq' = FALSE /\ sample' = FALSE /\ buffers' = 0
  /\ GoTo(t, IF use[t] = "play" THEN "lock" ELSE "idle")
  /\ UNCHANGED <<lock, pm_mutex, use, loaded, spiVars, loop, length, remaining, plays,
                 mode, panic, raced>>

\* Up to two buffers are handed over at once.  Lua's play passes loop = 0 and the
\* first buffers are counted by that argument, not by the sample's own loop flag.
audio_play(t, n, l) ==
  /\ At(t, "enable")
  /\ sample' = TRUE /\ loop' = l /\ length' = n
  /\ buffers' = IF n = 1 THEN 1 ELSE 2
  /\ remaining' = n - buffers'
  /\ irq' = TRUE
  /\ plays' = plays + 1
  /\ GoTo(t, "idle")
  /\ UNCHANGED <<lock, pm_mutex, use, loaded, spiVars, mode, panic, raced>>

-----------------------------------------------------------------------------
(* audio_isr: a buffer has been played.                                     *)

Rewound == IF remaining = 0 /\ loop THEN length ELSE remaining

Refill ==
  IF Rewound > 0 THEN remaining' = Rewound - 1 /\ buffers' = buffers
                 ELSE remaining' = Rewound /\ buffers' = buffers - 1

AudioIsrRefill ==
  /\ irq /\ ~panic /\ buffers > 1
  /\ Refill
  /\ mode' = "awake"
  /\ UNCHANGED <<lock, taskVars, spiVars, sample, loop, length, irq, plays, panic, raced>>

\* audio_stop has found a sample and has not stopped it; its decrement is still to
\* come, or has been made.
Stopping(t) == use[t] # "spi" /\ pc[t] \in {"unlock", "halt"} /\ sample

\* The last buffer: audio_stop_isr.
audio_stop_isr ==
  /\ irq /\ ~panic /\ buffers = 1
  /\ lock' = lock - 1
  /\ panic' = (lock' < 0)
  /\ raced' = (raced \/ \E t \in Tasks : Stopping(t))
  /\ irq' = FALSE /\ sample' = FALSE /\ buffers' = 0
  /\ mode' = "awake"
  /\ UNCHANGED <<taskVars, spiVars, loop, length, remaining, plays>>

-----------------------------------------------------------------------------
(* The idle hook runs when every task is blocked.                           *)

Blocked(t) == pc[t] = "idle" \/ (pc[t] = "wait" /\ dma)

\* faulty: the lock is not looked at
DeepByAlarm(near) == ~near
DeepSleep(near) == lock = 0 /\ ~near

\* near: the next timer alarm is less than 100 ticks away
vApplicationIdleHook ==
  /\ ~panic /\ mode = "awake"
  /\ \A t \in Tasks : Blocked(t)
  /\ \E near \in BOOLEAN : mode' = IF DeepSleep(near) THEN "deep" ELSE "light"
  /\ UNCHANGED <<lock, taskVars, spiVars, audioVars, panic, raced>>

\* Any other interrupt wakes the CPU.
Wake ==
  /\ ~panic /\ mode # "awake"
  /\ mode' = "awake"
  /\ UNCHANGED <<lock, taskVars, spiVars, audioVars, panic, raced>>

-----------------------------------------------------------------------------
Task(t) ==
  \/ SpiStart(t) \/ SpiWoken(t)
  \/ PlayCalled(t) \/ StopCalled(t) \/ _audio_stop(t)
  \/ \E n \in Lengths, l \in BOOLEAN : audio_play(t, n, l)
  \/ PmLoad(t) \/ pm_lock(t) \/ pm_unlock(t)

Interrupt == SPIIsr_Handler \/ AudioIsrRefill \/ audio_stop_isr \/ Wake

Next == (\E t \in Tasks : Task(t)) \/ Interrupt \/ vApplicationIdleHook

Spec == Init /\ [][Next]_vars

-----------------------------------------------------------------------------
(* Properties.                                                              *)

Labels == {"idle", "lock", "inc", "wait", "enable", "unlock", "dec", "halt"}

TaskTypes ==
  /\ pm_mutex \in Tasks \cup {Nobody}
  /\ pc \in [Tasks -> Labels] /\ use \in [Tasks -> {"spi", "play", "stop"}]
  /\ loaded \in [Tasks -> Int]

AudioTypes ==
  /\ sample \in BOOLEAN /\ loop \in BOOLEAN /\ irq \in BOOLEAN
  /\ length \in Nat /\ remaining \in Nat /\ buffers \in 0 .. 2
  /\ plays \in 0 .. MaxPlays

TypeOK ==
  /\ lock \in Int /\ TaskTypes /\ AudioTypes
  /\ bus \in Tasks \cup {Nobody} /\ dma \in BOOLEAN
  /\ mode \in {"awake", "light", "deep"} /\ panic \in BOOLEAN /\ raced \in BOOLEAN

\* The tasks whose transfer, and the sample whose player, holds the lock.
SpiHolders == {t \in Tasks : use[t] = "spi" /\ pc[t] \in {"wait", "unlock", "dec"}}
Giving == \E t \in Tasks : pc[t] = "halt"  \* audio_stop has given the lock back
AudioHolders ==
  IF (sample /\ ~Giving) \/ \E t \in Tasks : pc[t] = "enable" THEN 1 ELSE 0
Holders == Cardinality(SpiHolders) + AudioHolders

\* The count never forgets a holder, so that pm_unlock and pm_unlock_isr never find it
\* negative and panic; and as long as no sample has been played it is exact, however the
\* tasks interleave.  With samples it may become too large, when the interrupt's decrement
\* falls between the load and the store of a task, but too small only when a sample ends
\* in the middle of audio_stop.
CountCovers ==
  ~raced =>
    /\ lock >= Holders /\ ~panic
    /\ plays = 0 => lock = Holders

\* The CPU never enters deep sleep while a DMA transfer or a sample is under way,
\* although spi_rw_bytes starts the transfer before it takes the lock, unless a
\* sample ended in the middle of audio_stop.
DeepSleepIsSafe ==
  [][mode' = "deep" /\ mode # "deep" => raced \/ (~dma /\ ~irq)]_vars
=============================================================================
