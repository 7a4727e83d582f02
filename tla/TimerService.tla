---------------------------- MODULE TimerService ----------------------------
(***************************************************************************)
(* What dynawa.devices.timers promises to an application: a timed event is *)
(* handed to its receiver, after its delay, unless it is cancelled         *)
(* before or the system halts.  LuaTimers implements it; of an event that  *)
(* repeats, this describes the first time.                                 *)
(***************************************************************************)
EXTENDS Naturals

CONSTANT MaxStarts  \* number of timed events

VARIABLE status

Ids == 1 .. MaxStarts

Init == status = [i \in Ids |-> "unused"]

Step(i, from, to) == status[i] \in from /\ status' = [status EXCEPT ![i] = to]

Start(i)   == Step(i, {"unused"}, "pending")
Expire(i)  == Step(i, {"pending"}, "due")
Deliver(i) == Step(i, {"due"}, "delivered")
Cancel(i)  == Step(i, {"pending", "due"}, "cancelled")

\* The system stops, and what was not delivered is lost.
Open == {"pending", "due"}

Halt == /\ \E i \in Ids : status[i] \in Open
        /\ status' = [i \in Ids |-> IF status[i] \in Open THEN "lost" ELSE status[i]]

Next == Halt \/ \E i \in Ids : Start(i) \/ Expire(i) \/ Deliver(i) \/ Cancel(i)

Spec == Init /\ [][Next]_status
        /\ \A i \in Ids : WF_status(Expire(i)) /\ WF_status(Deliver(i))
=============================================================================
