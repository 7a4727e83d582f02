---------------------------- MODULE BatteryMonitor --------------------------
(***************************************************************************)
(* The battery task of src/core/dynawa/battery.c.  It reads the gas gauge, *)
(* switches the charger, and sleeps until its timer of ten seconds expires *)
(* or the USB task tells it of the cable.  Its queue holds one event: what *)
(* does not fit is dropped, by the timer's handler and by the USB task.    *)
(*                                                                         *)
(* The events that it posts to Lua are left out: Lua only logs them.       *)
(***************************************************************************)
EXTENDS Naturals, Sequences

VARIABLES
  battery_queue,   \* events for the task, at most one
  battery_timer,   \* TRUE while the timer is running
  battery_pc,      \* "poll", "start", "receive", "stop", "panic"
  charge           \* the charger is enabled

batteryVars == <<battery_queue, battery_timer, battery_pc, charge>>

NO_CHARGE == "no_charge"
CHARGING  == "charging"
CHARGED   == "charged"
GaugeStates == {NO_CHARGE, CHARGING, CHARGED}

BatteryInit ==
  /\ battery_queue = <<>> /\ battery_timer = FALSE
  /\ battery_pc = "poll" /\ charge = FALSE

\* faulty: the queue takes any number of events
NotifyAlways(e) == battery_queue' = Append(battery_queue, e)

\* xQueueSend without waiting.
BatteryNotify(e) ==
  battery_queue' = IF battery_queue = <<>> THEN <<e>> ELSE battery_queue

\* The first read of the gauge may fail, and the task gives up the system.
GaugeFails ==
  /\ battery_pc = "poll"
  /\ battery_pc' = "panic"
  /\ UNCHANGED <<battery_queue, battery_timer, charge>>

\* state is the gauge's, low says that the voltage is below 4050 mV.
Poll(state, low) ==
  /\ battery_pc = "poll"
  /\ charge' = CASE state = NO_CHARGE /\ low -> TRUE
                 [] state = CHARGED -> FALSE
                 [] OTHER -> charge
  /\ battery_pc' = "start"
  /\ UNCHANGED <<battery_queue, battery_timer>>

\* faulty: the timer is started only while the battery is being charged
BatteryTimerToCharge == charge
BatteryTimerAfterStart == TRUE

BatteryStartsTimer ==
  /\ battery_pc = "start"
  /\ battery_timer' = BatteryTimerAfterStart
  /\ battery_pc' = "receive"
  /\ UNCHANGED <<battery_queue, charge>>

BatteryReceives ==
  /\ battery_pc = "receive" /\ battery_queue # <<>>
  /\ battery_queue' = Tail(battery_queue)
  /\ battery_pc' = "stop"
  /\ UNCHANGED <<battery_timer, charge>>

\* faulty: the wait that an event of the USB task ends leaves the timer running
BatteryTimerKept == battery_timer
BatteryTimerAfterStop == FALSE

BatteryStopsTimer ==
  /\ battery_pc = "stop"
  /\ battery_timer' = BatteryTimerAfterStop
  /\ battery_pc' = "poll"
  /\ UNCHANGED <<battery_queue, charge>>

battery_timer_handler ==
  /\ battery_timer
  /\ battery_timer' = FALSE
  /\ BatteryNotify("timed")
  /\ UNCHANGED <<battery_pc, charge>>

BatteryTask ==
  \/ GaugeFails
  \/ \E state \in GaugeStates, low \in BOOLEAN : Poll(state, low)
  \/ BatteryStartsTimer \/ BatteryReceives \/ BatteryStopsTimer

BatteryQueues == {<<>>, <<"timed">>, <<"connected">>, <<"disconnected">>}

BatteryTypeOK ==
  /\ battery_queue \in BatteryQueues
  /\ battery_timer \in BOOLEAN /\ charge \in BOOLEAN
  /\ battery_pc \in {"poll", "start", "receive", "stop", "panic"}
=============================================================================
