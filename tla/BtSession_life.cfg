\* Bluetooth is switched on and off, the chip and the applications have something to say.
SPECIFICATION FairSpec
CONSTANTS
  Settings = 2
  Bursts <- FewBursts
  MaxOpens = 2
  MaxFrames = 1
  MaxCommands = 1
INVARIANT TypeOK
INVARIANT NoLostWakeup
INVARIANT PanicOnlyWhileClosing
INVARIANT QueuesExist
INVARIANT ResultIsAwaited
PROPERTY Opens
PROPERTY Closes
PROPERTY Answered
CHECK_DEADLOCK FALSE
