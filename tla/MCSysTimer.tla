----------------------------- MODULE MCSysTimer -----------------------------
(* Small instances of SysTimer for TLC. *)
EXTENDS SysTimer, TLC

NoPairs  == {}
AnyPair  == Timers \X Timers
TimerSym == Permutations(Timers)

\* A list that was cut is not of interest any further.
Uncut == ~cut

\* States that differ only in values no step can read are one state for TLC: the
\* fields of timers that are neither listed nor being started, and the handler's
\* locals between two interrupts.
Live(t) == armed[t] \/ call[t] = "start"
OfLive(f, other) == [t \in Timers |-> IF Live(t) THEN f[t] ELSE other]
Recent(time) == IF time + Slack < now THEN 0 ELSE time

LiveView ==
  << now, rtar, almien, alms, running, servicing, first, call, armed, drift,
     OfLive(next, Nil), OfLive(target, 0),
     [t \in Repeating |-> OfLive(initial, 0)[t]],
     [t \in Timers |-> IF call[t] = "start" /\ (armed[t] \/ cut) THEN saved[t] ELSE Nil],
     IF servicing THEN <<cur, mnext, mprev, phase, stopArg, nextTimeSet>> ELSE <<>>,
     IF servicing /\ (nextTimeSet \/ HandlerStarts # {}) THEN nextTime ELSE 0,
     Recent(clippedAt), cut >>
=============================================================================
