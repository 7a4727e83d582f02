# Dynawa firmware: TLA+ models, model checking and proofs

Dynawa TCH1 is a Bluetooth wrist watch. `src/core` is its firmware for an AT91SAM7SE
(ARM7, FreeRTOS): drivers, timers, power management, an SD card, a Bluetooth stack and
an event queue that feeds a Lua interpreter. `src/images/lua` is the watch image: the
start-up code and the Lua classes and applications.

This directory models the parts of the firmware in which tasks and interrupts meet.
TLC checks small instances; TLAPS proves the central invariants, and two refinements, for every
value of the constants.

    tlasany M.tla                          parse
    tlc -workers 2 -config X.cfg MCM.tla   model-check (the runs are listed below)
    tlapm SysTimer_proofs.tla              check the proofs

`PROJECT.json` maps every definition to the lines it models, and lists the runs, the
hazards of the code with the properties aimed at them, the findings and the theorems.

## 1. The system

### Scheduling

* Tasks run under FreeRTOS with preemption and strict priorities (`task_param.h`). The
  Lua task is the lowest of the application's tasks; USB mass storage and the sd task share
  a higher priority and a time slice.
* An interrupt may come between any two instructions of a task that is not in a
  critical section. One interrupt does not preempt another: a handler is atomic with
  respect to other handlers, but hardware counters go on while it runs.
* Interrupts talk to tasks through FreeRTOS queues (posted without waiting, so that
  a full queue drops the event or panics) and through plain variables.
* Lua code runs in one task. Everything it reacts to arrives through one event
  queue (`event.c`, 100 entries); a call from Lua to C is synchronous.
* `panic()` stops the system.

### Inventory

| Component | State | Operations | What is hard |
|---|---|---|---|
| system timer (`timer.c`, `timer_isr.c`) | list of running timers, walk pointers of the interrupt, RTT counter and alarm | `Timer_start`, `Timer_stop`, `Timer_isrHandler` | the list is edited by tasks, by the interrupt and by callbacks in the middle of the walk; an alarm written behind the counter is lost for 49 days |
| SD card (`sdcard.c`) | `sd_ready`, `sd_timeout`, `sd_pm`, `sd_mutex`, card power, power-down timer, queue of the sd task | `sd_readsector`, `sd_writesector`, `sd_set_pm`, `sd_task` | power is cut by another task; flags are read outside the mutex; two mutexes; error paths |
| SPI bus (`spi.c`) | bus mutex, DMA state | `spi_lock`, `spi_unlock`, `spi_rw_bytes` | a transfer must not be split; it must not run into deep sleep |
| power management (`pm.c`) | `_pm_lock`, `pm_mutex`, clock mode | `pm_lock`, `pm_unlock`, `pm_unlock_isr`, idle hook | load and store of the count, the interrupt in between |
| audio (`audio.c`, `audio_isr.c`) | current sample, loop, remaining length, DMA buffers | `audio_play`, `audio_stop`, `audio_isr` | the sample ends in the interrupt while a task stops it |
| buttons (`button.c`) | `down`, `held`, `timer_started` per button, queue of ten | pin interrupt, hold timer, `button_task` | two interrupts between any two steps of the task, bouncing pins, full queue |
| Lua timers (`lib_dynawa_timer.c`, `Timers.lua`, `lua.c`) | heap blocks, handles, `timer_vectors`, queued expiries | start, cancel, `lua_timer_handler`, `EVENT_TIMER` | a handle is an address: it is freed, reused, and still waits in the queue |
| event queue (`event.c`) | the queue | `event_post`, `event_post_isr`, `event_get` | full queue |
| USB (`usb.c`, `usbserial.c`) | connected or not, mode (serial port, mass storage), queue of one event | pin interrupt, `usb_task`, `usb_msd`, `usb_task_msd` | a dropped event unbalances `pm_lock`; the mode is changed by Lua while the cable moves; a task that waits for a host that has gone |
| battery (`battery.c`) | charger state, timer, queue of one event | `battery_task` | a stale timer event; the USB task ends its wait at any time |
| display brightness (`display.c`, `oled.c`) | level, power, the task's flag and timer, queue of one event | `display_brightness`, `display_power`, the brightness task | the flag that guards STOP lags behind the queue; events are dropped |
| Bluetooth scheduler (`uSched.c`) | background interrupts, timed events, wake-up queue of one | `StartTimer`, `StopTimer`, `bg_int`, the loop | posts that are dropped; flags raised while others are served |
| Bluetooth commands (`bt.c`, `SerialCom.c`) | state of the chip's configuration, command and result queues, receive buffer | `bt_open`, `bt_close`, `bt_*`, the receiving thread | commands of Lua and events of the chip in flight together; queues that are deleted while Lua uses them |
| Lua layer (`wristos.lua`, `Buttons.lua`, `Menu.lua`, ...) | applications, windows, menus | event handlers | single-threaded; depends on the order of events |

The rest is not concurrent, not part of the watch image, or not this project's code: bitmap
and PNG drawing, the OSC and web servers inherited from the MakeController firmware, and
the vendored FreeRTOS, lwIP, lwBT, yabcsp, Lua, FatFs, zlib, libpng and Atmel USB and
boot code.

### Interactions

    pins -> button.c --(timer.c)--> button_task --.
    RTT alarm -> timer.c -> lua_timer_handler -----+-> event queue -> lua.c -> Lua classes
    Lua, mass storage -> FatFs -> sdcard.c -> spi.c -> DMA interrupt
                                   |  `-(timer.c)-> sd_task      `-> pm.c <- audio.c, usb.c
    accel.c -----------------------'-> spi.c                          `-> idle hook
    cable -> usb.c --> battery.c, serial port, mass storage task; Lua --> usb_msd
    Lua --> display.c --(queue of one)--> brightness task --> A/D converter, OLED
    Lua --(command)--> uSched.c / bt.c <--(flags, wake-up)-- rx thread <- UART <- chip

What makes each part correct:

* timers: the list holds exactly the timers that run; an alarm is always on its way while
  there are any; each is served on time;
* SD card: transfers do not mix; no circular wait; power is on while a transfer runs and
  goes off some time after the last one; every access returns;
* power lock: the count covers the holders; deep sleep never comes under a transfer;
* buttons: Lua sees DOWN and UP alternate; no hold timer survives its press;
* Lua timers: a timed event reaches its receiver, unless it is cancelled; memory is freed
  exactly once;
* USB: the power lock and the mode follow the cable; the battery task goes on whatever the
  cable does;
* display: the brightness task is in the mode that Lua asked for; automatic brightness goes on;
* Bluetooth: the scheduler never sleeps over work; switched on, the stack comes up, switched off,
  it goes down; a command gets its own result.

## 2. The modules

| Module | Models | Abstractions |
|---|---|---|
| `SysTimer` | `timer.c`, `timer_isr.c` | pointers and registers as they are; tick counting and jitter statistics left out |
| `TimerContract` | what `timer.c` promises to its clients | abstract: who runs, until when; no list, no registers, no walk |
| `SdPower` | `sdcard.c` and the bus mutex of `spi.c` | a sector is "intact" or not; the SD protocol is its outcomes; timers expire at any time |
| `PmAudio` | `pm.c`, `audio.c`, `audio_isr.c`, the DMA part of `spi.c` | samples are numbers of buffers; any other wake-up is `Wake` |
| `ButtonInput` | `button.c` with `BUTTON_TASK` (as `images/lua/Makefile` builds it) | pins are levels and pending edges; timers expire at any time |
| `TimerService` | what the class `Timers` promises | abstract: per event, unused, pending, due, delivered, cancelled, lost |
| `LuaTimers` | `lib_dynawa_timer.c`, `Timers.lua`, `lua_timer_handler` and `EVENT_TIMER` of `lua.c`, `event_post_isr` | a handle is a heap block; the list of `SysTimer` is the set of its members |
| `DisplayBrightness` | `display.c`, the profiles of `oled.c`, the lock of the screen | measured light is any profile; timers expire at any time |
| `BatteryMonitor` | `battery.c` | gauge readings are nondeterministic; timers expire at any time |
| `UsbPower` | `usb.c`, `usbserial.c`, the mass storage task, what Lua does with `usb_msd`, the host; extends `BatteryMonitor` | USB is: visible, configured, and the state of one endpoint |
| `BtScheduler` | `uSched.c` | the flags are a set, the timed events the two that `bt.c` starts |
| `BtSession` | `bt.c`, the receiving side of `SerialCom.c`, the Bluetooth manager in Lua, the chip; extends `BtScheduler` | a frame is its kind; requests to the chip are a set; time only tells whether an event is due |
| `MC*` | | definitions for TLC: symmetry, pairs of timers, the view |
| `*_proofs` | | theorems about the module of that name |

Three compositions: `UsbPower` is the USB task together with the battery task, whose queue it
posts to, the mass storage task and Lua. `BtSession` is the scheduler together with the
functions that it calls, the receiving thread, Lua and the chip. `SdPower` is the clients of the
card with the sd task and the accelerometer on one bus.

The modules other than `SysTimer` use the system timer by its contract, which is stated as a module of its own:
in `TimerContract` a started timer runs until its owner or a callback has called for its stop, or until its time has come and
its callback is called, whatever happens to other timers. `SysTimer` implements it (`ContractSpec`, theorem `ImplementsContract`),
with the timers that its list leads to as the ones that run, and a timer does expire (`AlarmAlive`, `OnTime`).

The contract does not survive every use. A task that starts a timer which is running takes it off its successor
for a moment (finding 1), and three users of the timer do so: `sd_start_timer` after a late expiry has cleared `sd_timeout`
(`sdcard.c:872-879`), the brightness task (`late` in `DisplayBrightness`) and the button task after a dropped event (`lost` in
`ButtonInput`); the battery task does not (`BatteryStartsIdleTimer`). `SysTimer` therefore lets any owner start a running
timer. That does no harm unless, in that moment, the interrupt walks the list, another task stops a timer behind the cut, or a
second such start begins. Then the history variable `cut` is set, and `ListExact`, `ContractSpec`, `OnTime` and `AlarmCoversAll` say
nothing any more; `AlarmAlive` holds even so. The modules of the users take the contract as it is, without `cut`. That no timer is
freed while it is on the list is `FreedOnce` of `LuaTimers`.

### Correspondence with the code

Variables carry the names of the code where it has them (`sd_ready`, `timer_started`,
`nextTimeSet`, `usb_mode`, ...), and so do actions that are a whole function (`sd_start_timer`,
`audio_stop_isr`, `l_start`, `usb_connected`). A function that can be interrupted at a place that matters is
several actions, and a variable (`pc`, `call`, `phase`) says where its task is:

* **SysTimer.** `Timer_start` is `Timer_startBegin` (before the critical section: it saves
  and clears `timer->next`) and `Timer_startLink` (the critical section). `Timer_stop` is `Timer_stopCall`, after which the
  interrupt may still come, and `Timer_stop`, its critical section; so the contract can tie the removal of a timer to the call that asked
  for it (`IsrStopCall` and `IsrCallbackStop` in a callback). The handler is `IsrEnter`, then per timer one of `IsrVisitPending`,
  `IsrVisitRepeating`, `IsrVisitOneShot`, a callback (which may start or stop one timer, in
  the `servicing` branches of the code) and `IsrAfter`; `IsrExit` sets the next alarm. `Tick`
  is the hardware, also during the handler.
* **SdPower.** `sd_lock` is `TestPm`, `TakeMutex`, then `LockReady`, or `PowerOn`,
  `InitTakeBus`, `InitCard`, `PoweredOn`; then `TakeBus`. A transfer is `Command`, `Data`, `Busy`.
  `sd_unlock` is `UnlockTestPm` and `sd_start_timer`. The sd task is `SdReceive`, `SdCut`,
  `SdDone`. `At` states the strict priority: a client of `LowPriority` does not run while
  the sd task can.
* **PmAudio.** `pm_lock` and `pm_unlock` are `PmLoad` (with the mutex) and the store;
  `pm_unlock_isr`, part of `audio_stop_isr`, is one step, since interrupts do not nest, and may
  come between the two.
* **ButtonInput.** `button_task` is one action per access to what the interrupts share.
* **LuaTimers.** A call from Lua, and the handling of one event, is one action: the interrupt
  only fires timers, and it does not touch what they touch in between. `Delete` marks a
  receiver as deleted (`__deleted`); its event keeps the timer.
* **DisplayBrightness.** A call of `display_brightness` or `display_power` is `LuaCalls` (the tests and the
  post, which may wake the task in the middle of the call) and `LuaApplies` (`ApplyBrightness`, or `RefuseBrightness` for a level
  that the OLED has no profile for, or `ApplyPower`). The task is one
  action per point at which the timer's interrupt can make a difference: `Receive`, `StopTimer`, `Measure`,
  `SetProfile`, `StartTimer`.
* **UsbPower.** `usb_connected` and `usb_disconnected` are each cut in two, since the other tasks of their
  priority can run in between; `usb_msd(true)` is `LuaEvent`, `CloseSerial`, `CreateMsd`, `SetMode`, cut
  where a higher task can preempt it; the creation of the mass storage task may fail (`CreateMsd`). `LuaRuns` says that every higher task is blocked.
  The battery task's loop is `Poll`, `BatteryStartsTimer`, `BatteryReceives`, `BatteryStopsTimer`.
* **BtSession.** `MicroSched`'s loop is `Service`, `Task`, `Timed` and `Due`, `Wait`, `Receive`, `StopTimer`,
  `GetCommand`, `Again`; a section under `SchedulerMutex` is one step. `bg_int1` of the receiving thread
  is `RxFlag` (the flag) and `RxPost` (the wake-up). `bt_close` and the commands of applications are `LuaCloses`
  or `LuaCommands` (what they do before), `LuaSends` (the command queue), `LuaWakes` (the wake-up queue)
  and `LuaResult` (the wait for the result). What commands, events and the timer of the layers have to say to the chip is the item "say" in
  `out` (`MaySay`); `Pump` may leave it there, as `abcsp_sendmsg` refuses messages while too many are not acknowledged, and so may `Exit`.

History variables record what happened, for the properties, and no guard depends on them but for
bounds. (`armed` in `Timer_startBegin` selects which timers their owners may start; the
numbers of the events in `LuaTimers` bound the run and choose handles that an application still remembers.)
The ones that stand for exceptions are needed because the code does not hold the property without them: the hazard behind each is real, and
the property shows that nothing else does the harm, not that the code is safe from it. Each is as narrow as TLC lets it be:

| Variable | What has happened | Property that then need not hold |
|---|---|---|
| `cut` (`SysTimer`) | a running timer was being started again, and in the middle of it the interrupt walked the list, another task stopped a timer behind it, or another such start began | `ListExact`, `ContractSpec`, `OnTime`, `AlarmCoversAll` |
| `raced` (`PmAudio`) | a sample ended in the interrupt after `audio_stop` had found it playing | `CountCovers`, `DeepSleepIsSafe` |
| `lost` (`ButtonInput`) | the queue of buttons was full | all four |
| `late` (`DisplayBrightness`) | the timer expired between the receive of another event and `Timer_stop` | `StartsIdleTimer` |
| `refused` (`DisplayBrightness`) | the last event was posted for a level without a profile: STOP is sent, the level stays | the half of `ModeFollows` about automatic brightness |
| `overlapped` (`DisplayBrightness`) | Lua tested the task's flag while the task was busy with an event | `ModeFollows`, `ProfileIsLevel` |
| `relit` (`DisplayBrightness`) | switching the display on has set a profile after the level | `ProfileIsLevel` |
| `glitch` (`UsbPower`) | an edge of the pin was lost: two edges before one interrupt, a full queue, or a move during `usb_init` | `LockFollows`, `ModeFollows`, `SerialIsLeftAlone` |
| `halfway` (`UsbPower`) | the usb task acted while Lua was in the middle of `usb_msd`, or the mass storage task could not be created | `ModeFollows`, `SerialIsLeftAlone` |
| `leftover` (`UsbPower`) | the serial port was opened while the mass storage task had not ended | the half of `SerialIsLeftAlone` about `MsdEnd` |
| `refused` (`BtSession`) | `bt_open` found its count above zero and started nothing | `Opens` |
| `stray` (`BtSession`) | the state of the manager when Lua used a deleted queue | (`QueuesExist` bounds it) |

## 3. The runs

Every run finishes in about two minutes or less on two workers. The largest are `timer_on_time` with 2.5 million distinct states,
`timer_starts`, `bt` and `usb` with about half a million each.

| Run | Properties | What it shows |
|---|---|---|
| `timer_starts` | `AlarmAlive` `ListExact` `ContractSpec` | three one-shot timers; callbacks start and stop any timer in the middle of the walk (also its next or previous one), tasks start and stop any, also a running one: none is dropped until the list is cut, the alarm is never lost, and the clients see what `TimerContract` promises |
| `timer_on_time` | `OnTime` `AlarmCoversAll` | a repeating and a one-shot timer, tasks start them while they run, callbacks stop either: each is served within `Slack` ticks, and the handler leaves with the earliest alarm |
| `timer_restart` | violates `RestartIsSafe` | starting a running timer (finding 1): with nobody in a call, the list is not that of the timers that run |
| `sd_shared` | `TypeOK` `BusExclusive` `LockOrder` `PoweredWhenReady` `WillPowerDown` | Lua, mass storage and the accelerometer, with power management switched on and off |
| `sd_lua` | `OkMeansIntact` `AccessReturns` | the Lua task: a successful access was never without power, and each access ends |
| `sd_no_answer` | violates `AccessReturns` | the card that does not answer CMD0 (finding 2) |
| `lua_timers` | `FreedOnce` `NoLeak` `HandleIsUnique` `ServiceSpec` | two blocks that the heap reuses for four events, one-shot and repeating, stale cancels, a deleted receiver, a queue that overflows: `LuaTimers` implements `TimerService`, safety and liveness, and memory is freed once |
| `pm_audio` | `CountCovers` `DeepSleepIsSafe` | three tasks and the audio interrupt: the count covers its holders, and no transfer runs into deep sleep, but for one race |
| `button_presses` | `StoryIsTrue` `NoTimerLeft` `StartsIdleTimer` `HoldIsCurrent` | two buttons with bouncing pins |
| `display` | `ModeFollows` `ProfileIsLevel` `StartsIdleTimer` `KeepsMeasuring` | any calls of Lua at any time, also with a level that has no profile, dropped events, late expiries: the task follows, the screen shows the level, and automatic brightness goes on |
| `usb` | `TypeOK` `LockFollows` `ModeFollows` `SerialIsLeftAlone` `BatteryStartsIdleTimer` `KeepsPolling` | three moves of the cable at any time, a host that configures and unconfigures, Lua enabling mass storage or not, a mass storage task that is not created |
| `bt` | `TypeOK` `NoLostWakeup` `PanicOnlyWhileClosing` `QueuesExist` `ResultIsAwaited` `Opens` `Closes` `Answered` | two sessions, frames of the chip and a command at any time, output of the layers that has to wait, a serial port that may fail |

The modules without a type invariant in their run (`SysTimer`, `LuaTimers`, `PmAudio`, `ButtonInput`,
`DisplayBrightness`) have it proved for all constants instead.

### Bounds, and why they are enough

* `SysTimer`: three timers make a walk with a first, a middle and a last entry, so that a
  callback can act on the one before, on the current one, on the next one and on one behind. A delay of 0
  is a target that is already reached when the critical section begins, a delay of 2 is one that may or may not be; `MaxTime` of 4 lets a timer expire and be
  started again. Every owner may start its timer while it runs (`Restartable` is `Timers`), and `Uncut` ends a behaviour whose list has been
  cut: three of the properties hold trivially from there on, and `AlarmAlive` is proved for those states too. `timer_on_time` has two timers and a `MaxTime` of 10, twice `Slack`, so that a late timer would be seen to be late. `Lag` is the tick by which the RTT raises its alarm after the alarm value;
  `MaxDrift` is how many ticks may pass in one handler or critical section. The proof of
  `AlarmNeverLost` shows what they must satisfy: `MaxDrift <= Lag`. `LiveView` identifies states that differ only in values that no step
  reads before it overwrites them (fields of timers that are not in use, the walk's locals between
  two interrupts), and all properties of those runs depend on what the view keeps. The
  symmetry of `timer_starts` is sound since its timers are interchangeable and no property is
  a liveness property.
* `SdPower`: no bound on time or on the number of accesses; the state space is finite. Two clients suffice for every
  pairwise interleaving of accesses, and the sd task and a sensor are there as well. The theorems cover any number.
* `LuaTimers`: four timed events in two blocks, so that each block is reused, and a queue of
  three, which overflows. One deletion of a receiver: receivers do not interact. The theorems cover any number of each.
* `PmAudio`: three tasks contend for the mutex and the bus; samples of one buffer (the special
  case of `audio_play`) and three buffers (refills); two samples, so that one is
  played over another. One task plays samples (`OnePlayer`): only the Lua task calls `audio_play`.
* `ButtonInput`: six changes of the pins give three presses, which a queue of 4 (the code
  has 10) can hold or lose; only the two buttons' sharing of one queue relates them.
* `DisplayBrightness`: no bound; all four levels and one without a profile, and the queue of one event that the code has.
* `UsbPower`: three moves of the cable are in, out and in again (or out, in, out): enough for a task of
  the first connection to meet the second. The queue of Lua is bounded by the moves.
* `BtSession`: two settings (one that is not the last, and the last), two sessions (a second one after a clean end
  and after a failed one), one burst of the chip (each kind of frame alone, and each with another behind it; the theorems cover bursts of
  any length), one command. A session that would begin with messages that the last one has left in `transmitQueue` is not begun (`LuaOpens`).

`CHECK_DEADLOCK FALSE` stands where the bounds make the system stop: time, starts, moves of pins and of the
cable, sessions, the list that was cut, or a panic, which halts the program. The runs `sd_shared`, `sd_lua` and `display` check for deadlock.

### Fairness

* `SdPower!FairSpec`: weak fairness of each step that a task can do once it runs (a task that is
  ready and the only one of its priority is scheduled), of the power-down timer
  (`SysTimer` serves it) and of the release of the bus by the accelerometer, which holds it for
  a few bytes. Strong fairness of `Lock`: a FreeRTOS mutex wakes its waiter
  when it is given back, and the accelerometer gives it back and blocks until its next event.
* `LuaTimers!FairSpec`: weak fairness of `Dispatch`, the event loop, and of `Fire`, a running timer.
* `DisplayBrightness!FairSpec`: weak fairness of the task, which is above Lua, and of its timer; strong
  fairness of `LuaApplies`, the second half of a call, which runs in the pauses of the task.
* `UsbPower!FairSpec`: weak fairness of the battery task and of its timer, and of nothing else:
  `KeepsPolling` does not depend on what the cable, the host or Lua do.
* `BtSession!FairSpec`: weak fairness of the scheduler's task, of the receiving thread, of the
  chip's answers and of time; strong fairness of `LuaGoesOn`, since Lua runs in the pauses of
  the Bluetooth tasks. The period of the Bluetooth timer, one second, ends only while the scheduler
  sleeps: its work between two sleeps is much shorter. Without that the scheduler could be kept busy by its own timer.
* No fairness is assumed of the applications or the user: nobody has to call anything, and a
  cable need not move.
* `SysTimer`, `PmAudio` and `ButtonInput` are checked for safety only.

## 4. What is proved

The theorems hold for every value of the constants that satisfies the modules' named assumptions.

**`SysTimer_proofs`**

* `TypeCorrect`: `Spec => []TypeOK`.
* `AlarmNeverLost`: `Spec => []AlarmAlive`. `TypeOK /\ AlarmAlive` is inductive; what it needs is that
  an alarm value written at counter value `now` is ahead of the counter when it
  takes effect. `AlarmFor` gives a value of at least `now + 1` (lemma `AlarmForAhead`), at
  most `MaxDrift` ticks pass, and the hardware's lag forgives `Lag` of them
  (`AheadSurvivesDrift`, `PassTicksAlarm`). `AlarmAfterStartAhead` is the same for the
  three cases of `Timer_start`. Hence the assumption `MaxDrift <= Lag`: a
  critical section, and a walk of the interrupt, shorter than a tick. A consequence is that the panic
  "AT91C_RTTC_ALMIEN" of `Timer_start` cannot be reached.

* `ListIsExact`: `Spec => []ListExact`, whoever starts a running timer. `Linked` is the invariant until `cut`: the list is that of
  the running timers when it is read as the task reads it that goes on with its start (`Whole`: behind a timer that is being started again comes
  its `nextEntry`), at most one timer is being started again (`OneRestart`), its own pointer is null (`Severed`), and the handler runs only when
  that loses nothing (`NothingSaved`). Reachability along the pointers is handled without induction over data: `ListFrom(n, x)` is
  the least set that is closed under `n` and contains `x` (`ListFromLeast`, `ListFromClosed`; the one induction is over the length of a walk, by the least
  counterexample, `LeastNat`), so that a claim about the whole list is a claim about some closed set. With it `PushList` and
  `RemoveFromList` say what one change of a pointer does to the list, provided that no two entries have the same
  successor and none leads back to the head (`Proper`). `ListExact` alone is not inductive, since a callback changes the list under the
  walk: `WalkInv` says where the walk is, by the three cases `AtCur`, `InCur`, `PastCur`: `previous` (or the head) points to the timer
  visited, or to the one it goes on with. There is one lemma per step of the handler for it (`WalkEnter` to `WalkAfter`).
* `ImplementsContract`: `Spec => ContractSpec`, without an assumption: `StepContract` maps each
  step to a step of `TimerContract` or to a stutter, by one lemma per operation (`BeginCallsStart`, `LinkStarts`, `StopCalls`, `UnlinkStops`,
  `VisitExpires`, `CallbackStarts`, `CallbackStops`, `TimePasses`, `Stutters`). The contract lets a timer leave only by a stop that was called
  for or when its target has been reached; `CutIsVoid` shows that only the start of a running timer can void it.
* `AlarmCoversEveryTimer`: `Spec => AlarmCoversAll`, if `HandlerStarts = {}`: no callback starts a timer (section 5 says why that
  matters; none of the firmware does). `Covered` keeps the timers that the walk has passed: they lead from the head to where
  the walk stands, and `nextTime` is no later than any of their targets; at the end of the list they are the whole list (`AllKept`).
* `TimersAreOnTime`: `Spec => []OnTime`, if `HandlerStarts = {}` and `Lag <= 1`. Neither this theorem nor the three before it restricts
  `Restartable`; each holds until `cut`. `Punctual` is the invariant: the counter
  has not passed the alarm, and the alarm is at most `Margin` after the target of each running timer (or after the last clipped
  start); in the handler the present is. `Lag <= 1` is what the RTT does, and is needed: with `Lag = 2` TLC finds a
  sequence of starts each of which finds the alarm overdue but not yet raised and puts it off again (`alarm < now` in
  `AlarmAfterStart`); `MIN_DELAY_TICKS` allows for no more.

**`SdPower_proofs`**

* `TypeCorrect`: `Spec => []TypeOK`.
* `BusIsExclusive`: `Spec => []BusExclusive`, for any number of clients and sensors. Together with
  `TypeOK` it is inductive: the bus is taken when free, and given back by its owner.
* `LockOrderKept`: `Spec => []LockOrder` if `"idle" \notin InitOutcomes`, i.e. the card always answers CMD0;
  the run `sd_no_answer` shows that without this assumption it fails. The strengthening is
  `HolderUsesBus`: the owner of the bus is at a label between taking it and giving it back.
* `FlagTellsPower`: `Spec => []PoweredWhenReady`. The flag and the card are switched in
  separate steps, so the inductive invariant `PowerInv` says who is in between: the
  owner of `sd_mutex` is the task that is switching, and no other task changes the two.
* `PowersDown`: `Spec => []WillPowerDown`. By `SeenTo` a powered card has its timer running, an expiry in the queue, the sd
  task at work, or a client that is not idle and will start the timer; with `PowerInv`, the sd task leaves the card switched off.
* `LuaIsIntact`: `Spec => []OkMeansIntact` for one client below the sd task that leaves power management on (`LuaAlone`), the
  instance of `sd_lua` with any sensors and any answers of the card. By `Undisturbed` the timer does not run
  from the mutex to the release of the bus; and the client that sends a command runs, so the sd task is blocked, and on its
  queue, since nobody holds `sd_mutex`. Both assumptions are needed (section 5).

**`LuaTimers_proofs`** (any number of blocks, events and deletions, any length of the queue)

* `TypeCorrect`, `FreedOnceAlways`, `NothingLeaks`, `HandlesAreUnique`: the type invariant,
  `FreedOnce`, `NoLeak` and `HandleIsUnique`. One invariant carries all of them. `Heap`: a block has its magic number exactly
  while it is allocated, every listed timer is allocated, and the repeat flag of a block is that of its event. `Queued`: an entry in the queue
  names the last event of its block, and a one-shot timer is in the queue once, and not on the list at the
  same time. `Vectors`: the
  vector of a handle is the last event of its block, and it was not cancelled, or nothing. `Numbered`, `Past` and `Expired` tie the
  history to the events that have been started and the queued ones to those that have fired. It is what makes an address a safe handle: malloc cannot return a block before the event loop
  has freed it, and by then the queue has no entry for it.
* `Implements`: `Spec => Service!Init /\ [][Service!Next]_StatusOf`. The safety half of the refinement
  `ServiceSpec`: under the invariant every step of `LuaTimers` is one step of `TimerService` or changes nothing
  there. One lemma per operation (`StartStep`, `CancelStep`, `DeleteStep`, `FireStep`, `DispatchStep`).

**`PmAudio_proofs`** (any number of tasks, samples and lengths; one task plays)

* `CountAlwaysCovers`: `Spec => []CountCovers`, and `DeepSleepAlwaysSafe`: `Spec => DeepSleepIsSafe`, besides
  `TypeCorrect`. The invariant: `Uses` (which labels belong to which call), `Owners` (the
  mutexes are held exactly between two labels), `Peripherals` (a transfer has a task that waits for it; a sample
  that plays has its interrupt enabled), `Count` (the count covers the holders, and the value that a task has loaded and not yet
  stored covers those that hold besides it) and `First` (before the first sample nothing of
  the player is in use and the count is exact). `Count` is what the interrupt threatens: its decrement between a load and a store
  is lost, which leaves the count too large, never too small.

**`ButtonInput_proofs`** (any number of buttons, any queue)

* `TypeCorrect`, `NoTimerIsLeft`, `StartsIdle`, `HoldIsAlwaysCurrent`. The invariant of the last three is
  stated under `~lost`: `Alternates` (between two DOWNs of a button in the queue there is an UP, and one behind the last DOWN of a
  button that is up), `TidiedUp` (what a press has left is tidied up before the button's next DOWN is handled, and the UP is on its
  way if the button is up), `AtLabel` (what is known at each step of the task) and
  `HeldHasNone` (a press that was held has no timer left).
* `StoryIsAlwaysTrue`: `Spec => []StoryIsTrue`. Stated by places in the pipeline it is inductive over the types: an event of
  the pin is sent last, and differs from the last word (`SendsLast`, `PinTells`); a HOLD is no word (`HoldTellsNothing`); and what the task
  posts leaves the head of the pipeline and becomes the word before all others (`PostTells`).

**`DisplayBrightness_proofs`**

* `TypeCorrect`; `ReachesMode`: `Spec => []ModeFollows`, for any length of the queue. While Lua does not overlap with the task
  the queue holds at most one START or STOP, followed only by TIMED (`OneAhead`), and applying what is ahead
  gives the mode that Lua wants (`Follows`).
* `StartsIdle`: `Spec => []StartsIdleTimer`, if `QueueLength = 1`. With a longer queue a second stale TIMED could be
  ahead, and the assumption is needed: `TimerKnown` says that a timer that runs is known to the task unless its TIMED is queued.
* `ShowsLevel`: `Spec => []ProfileIsLevel`. `ProfileKnown` says that a task that measures is in the automatic mode and that a
  STOP finds it waiting; with `Follows` it sets no profile while the level is not 0.

**`UsbPower_proofs`** (any number of moves)

* `TypeCorrect`; `LockIsExact`: `Spec => []LockFollows`. The invariant `Followed` says that without a lost edge the
  queue, the task's place in its handler and the flag together tell the cable as the last interrupt saw it.
* `ModeIsExact`: `Spec => []ModeFollows`, and `SerialIsSafe`: `Spec => SerialIsLeftAlone`. `ModeInv` rests on `Followed`: it gives the mode and what
  is open at each place of the usb task and of `usb_msd` (`ModeAt`), and which of the mass storage task's steps the
  serial port's mode leaves (`SerialAlone`).
* `StartsIdleTimer`: `Spec => []BatteryStartsIdleTimer`, whoever ended the battery task's wait.

**`BtSession_proofs`** (any number of settings, sessions, frames and commands)

* `Awake`: `Spec => []NoLostWakeup`. The wake-up queue drops posts, so the invariant says: as long as there is work
  and nobody is on the way to post for it, an event is in the queue or the scheduler is at a point of its loop from
  which it looks for that work (`Received`, `ToSend`, `Commanded`, `InTime`).
* `TypeCorrect`, `PanicsOnlyWhileClosing`, `QueuesAlwaysExist`, `ResultIsAlwaysAwaited`: the type invariant, `PanicOnlyWhileClosing`,
  `QueuesExist` and `ResultIsAwaited`. They share a second invariant, `SInv`, which follows the one thing that is on its way in
  each phase of a session. While the chip is being configured that is the credit for one command: it is with the
  scheduler, or in a request, its answer or the first sign of life (`Configured`), so that u_bt_task never has a credit that its state does not use.
  Nobody has anything else to say until the chip has been restarted (`Spoken`).
  Then it is the start of the applications, in the request, in "ready" or in "started" (`StartsOnce`), so that
  Lua takes Bluetooth for up once, and after that no credit is given until it closes (`Working`). `Stopping`: the scheduler ends only after
  STOP, which only `bt_close` sends. `View` ties what Lua knows to it, `Result` a result to the command that is waited for.
  One lemma per action, and lemmas about buffers of any length.

**Only model-checked:** liveness (`AccessReturns`, the fairness of `ServiceSpec`, `KeepsMeasuring`, `KeepsPolling`,
`Opens`, `Closes`, `Answered`), which is beyond the prover. Every safety property of a passing run is a theorem, with the
assumptions named above.

## 5. Findings

1. **A running timer that is started again cuts the list** (`timer_restart`). The doc
   comment of `Timer_start` (`timer.c:90-91`) says that this resets the timer. But it writes `timer->next = NULL`
   (`timer.c:115`) before its critical section (`:121`). An alarm in between walks a list that ends at
   this timer, and if the walk unlinks an entry, the tail is gone. A `Timer_stop` of another task in between does not find a timer behind the
   cut, which is back on the list afterwards; this is the shorter of the two, and the one that the run shows.
2. **A card that does not answer blocks its task for ever** (`sd_no_answer`). `_sd_init` returns
   `SD_E_IDLE` (`sdcard.c:262`) with the bus mutex taken; `sd_lock` ignores the result and takes
   the bus again, and the mutex is not recursive. The doc comment knows two outcomes, 0 and -1.

Other behaviour that the models show, or that was met while reading; no document of the repository says otherwise, so no run is
about it.

Timers and Lua:

* A callback that starts a timer can leave the handler with a late alarm: `Timer_start` sets `nextTime` but not
  `nextTimeSet` (`timer.c:214-216`), so that the walk takes the target of the next timer that it keeps instead, however late. `AlarmCoversAll` fails in `timer_on_time` with `HandlerStarts <- AnyPair`; `AlarmAlive` still holds. No callback of the firmware
  starts a timer.
* The target of a repeating timer grows: `target += cv + timeInitial` (`timer_isr.c:88`)
  adds two absolute times, so the second interval is longer than the first by the time since start (`NextTarget`). No
  application of the repository uses `autorepeat`.
* `Timer_start` with a target that is already reached writes a new alarm two ticks ahead, although the
  old one may be about to be raised, and so postpones the timers that are due (`timer.c:182-190`); hence `clippedAt` in `OnTime`.
* At the end of the list `Timer_stop` compares `te` with `te->next` although `te` is null (`timer.c:304`): a read of address 0, harmless there.
* Handles are addresses: `sandman_app.lua:41` cancels its last handle without having cleared it when its timer expired, and if
  malloc has handed out the address again, another application's event is cancelled. `TimerService` lets a stale
  cancel do so; what it excludes is a timer that is stopped and whose event is not cancelled.
* A repeating timer cancelled while its expiry is queued would be read and freed again by the event loop (`lua.c:155`);
  no application cancels a repeating timer, which is the guard of `Cancel`.
* A repeating event whose receiver is deleted loses its vector, but its timer runs for ever (`Timers.lua:41`).
* `event_post_isr` passes an uninitialised flag (`event.c:19`): at worst a needless context switch.

SD card, audio, buttons:

* `sd_pm` off while the power-down timer runs: the next access does not take `sd_mutex`
  and does not stop the timer (`sdcard.c:848`), and the power is cut under it. `OkMeansIntact` fails in `sd_lua` with
  `PmClients = {lua}`.
* For mass storage, which has the sd task's priority, the same can happen by
  a time slice between `sd_lock` and the transfer; `OkMeansIntact` is stated for the Lua task alone.
* `audio_stop` tests `audio_current_sample`, then calls `pm_unlock` (`audio.c:85`). If the sample ends in the interrupt in between,
  both give the lock back; the count becomes negative and `pm_unlock` panics. This is `raced` in `PmAudio`.
* The first buffers are counted by the argument `loop` of `audio_play`, not by the sample's own flag, so that a
  one-buffer sample with a loop flag of its own plays once (`audio.c:54`).
* `HOLD` can be queued after the `UP` of its own press, and `Menu.lua:255` then starts to scroll with no button
  pressed. `HoldIsCurrent` bounds it: never once the task has begun to stop the timer for that UP.
* The hold timer may expire before `button_task` has set `timer_started` (`button.c:139`): the HOLD of that press is lost.

USB, battery, display:

* A dropped DISCONNECTED leaves the power lock taken twice, so that the watch never enters deep sleep again; a dropped
  CONNECTED gives it back once too often, and `pm_unlock` panics (`usb.c:341`). `LockFollows` fails without `~glitch`.
* Mass storage is enabled once per start of the watch: Lua never calls `usb_msd(false)`, so `usb_msd_state` stays set.
* The mass storage task waits for the configuration without looking at its flag (`usb.c:241`), and sleeps or spins at its
  priority when the host has gone in the middle of a command (`usb.c:246`). It is released by the next connection, as a serial
  port, and may then cut that connection (`leftover`).
* Without a battery `battery_init` returns before it creates the queue, and the USB task posts to a null queue;
  the arguments of `memset` there are swapped (`battery.c:107`), without effect.
* Lua can test the brightness task's flag before the task has handled a queued START (`display.c:132`); the STOP is then never sent and automatic brightness
  overrides the level. `ModeFollows` fails without `~overlapped`.
* `display_power` sets the level before it switches the OLED on, which sets profile 2 (`relit`).
* A level above 3 ends automatic brightness before `oledSetProfile` refuses it (`display.c:132-140`): the level stays 0 and nobody measures
  (`refused`). No caller in the repository asks for one.
* When the mass storage task cannot be created `usb_msd` returns with the serial port closed, no mode and
  `usb_task_msd_running` set (`usb.c:266`): `halfway`.

Bluetooth:

* `u_bt_task` panics on a status of the chip between `bt_close` and the end of the task (`bt.c:1058`): `PanicOnlyWhileClosing`
  says that this is the only way in a session that begins with nothing left to send.
* `transmitQueue` is static and nothing empties it (`bt.c:228`). Messages that `abcsp_sendmsg` has refused at the end of a session go out at the beginning
  of the next one, and a command complete that answers them is a credit that `u_bt_task` does not expect: it may panic in
  `RESTARTING`, or send a setting before the last one is answered. The model keeps the rest but does not begin such a session.
* The debug restart of `override.lua:173` closes Bluetooth whatever `hw_status` is. `CanClose` is the Bluetooth manager's own way.
* After a serial port that did not start, `bt_open_count` stays 1 and `bt_open` never starts anything again (`bt.c:889`): `refused`.
* An event that Lua handles after `bt_close` is answered with a command, and the queues may have been deleted by then
  (`bt_manager_app.lua:249`); if Lua waits for a result it waits for ever. `QueuesExist`, `Closes` and `Answered` name this case.
* `UartDrv_Stop` deletes the receiving thread although it may hold the power lock (`SerialCom.c:1396`), which is then never given back.
* `bgIntFlags` is not reset when the scheduler starts again: a flag of the last session is served in the new one.

## 6. What is not modelled, and why

* The parts marked `not_modelled` in `PROJECT.json`: sequential code without shared state (drawing, most of the Lua
  layer), code that is not in the watch image (network, OSC, web server, most drivers inherited from the MakeController
  firmware), and vendored code. The last is by far the largest part of the repository: FatFs with four copies of its
  code tables, FreeRTOS, lwIP, lwBT, yabcsp, Lua, zlib, libpng and the Atmel USB stack. The firmware's own concurrent code is a
  few thousand lines, and a map of it remains a small share of the whole.
* Bluetooth: the transmitting thread, the deep sleep of the receiving thread with its power lock, sockets and
  connections. What they do is done by lwBT and lwIP within one task.
* Time in every module but `SysTimer`: a running timer may expire at any moment, which
  includes every actual timing.
* The wrap of the 32-bit counter, and of `now + delay`, after 49 days: the bounds of the runs are far below.
* A session of Bluetooth that begins with leftover messages, and the debug restart in `override.lua` (section 5). That `abcsp_sendmsg` refuses a
  message of the driver itself ("ps", "reset", "hci") is a later `Pump`: there is one of them at a time.
* The end of the Bluetooth timer's period while the scheduler is at work (`TimeComes`, see Fairness).
* `sd_close`, `display_close`, `usb_close`, `usb_msd(false)`: nothing calls them.
* Register setup, clock switching and the content of messages.

## 7. What is left

In the order in which it would add most:

1. `ButtonsMenu`: `Buttons.lua` and `Menu.lua` on `ButtonInput` and `LuaTimers`; scrolling stops after UP.
2. `EventQueue`: its producers together, and when it can be full.
3. The power lock of the receiving thread in `BtSession`, and with it the lock that `UartDrv_Stop` leaks.
4. Proofs: `OnTime` for callbacks that start timers, which needs another margin; the clients' modules on
   `TimerContract` itself, instead of each one's `running`.

The number of runs is kept small on purpose: a run of a new module that asks the same question
of the same instance as an existing one is merged with it.
