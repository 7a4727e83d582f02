\* A timer started again while it is running.
SPECIFICATION Spec
CONSTANTS
  t1 = t1
  t2 = t2
  Nil = Nil
  Timers = {t1, t2}
  Delays = {2}
  MaxTime = 4
  Lag = 1
  MaxDrift = 1
  Repeating = {}
  Restartable = {t1}
  HandlerStarts <- NoPairs
  HandlerStops <- NoPairs
INVARIANT RestartIsSafe
CHECK_DEADLOCK FALSE
