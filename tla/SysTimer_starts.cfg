\* Three one-shot timers, started and stopped by tasks and by callbacks.
SPECIFICATION Spec
CONSTANTS
  t1 = t1
  t2 = t2
  t3 = t3
  Nil = Nil
  Timers = {t1, t2, t3}
  Delays = {0, 2}
  MaxTime = 4
  Lag = 1
  MaxDrift = 1
  Repeating = {}
  Restartable = {t1, t2, t3}
  HandlerStarts <- AnyPair
  HandlerStops <- AnyPair
CONSTRAINT Uncut
VIEW LiveView
SYMMETRY TimerSym
INVARIANTS AlarmAlive ListExact
PROPERTY ContractSpec
CHECK_DEADLOCK FALSE
