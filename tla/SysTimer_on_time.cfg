\* A repeating timer and a one-shot timer, over a time in which both could be late;
\* callbacks stop either timer.
SPECIFICATION Spec
CONSTANTS
  t1 = t1
  t2 = t2
  Nil = Nil
  Timers = {t1, t2}
  Delays = {0, 2, 3}
  MaxTime = 10
  Lag = 1
  MaxDrift = 1
  Repeating = {t1}
  Restartable = {t1, t2}
  HandlerStarts <- NoPairs
  HandlerStops <- AnyPair
CONSTRAINT Uncut
VIEW LiveView
INVARIANT OnTime
PROPERTY AlarmCoversAll
CHECK_DEADLOCK FALSE
