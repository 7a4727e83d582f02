\* The cable is moved at any time, Lua asks for mass storage or not.
SPECIFICATION FairSpec
CONSTANTS
  MaxMoves = 3
INVARIANT TypeOK
INVARIANT LockFollows
INVARIANT ModeFollows
INVARIANT BatteryStartsIdleTimer
PROPERTY SerialIsLeftAlone
PROPERTY KeepsPolling
CHECK_DEADLOCK FALSE
