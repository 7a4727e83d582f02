\* Lua changes the level and the power at any time; the timer expires at any time.
SPECIFICATION FairSpec
CONSTANTS
  Levels = {0, 1, 2, 3, 4}
  QueueLength = 1
INVARIANT ModeFollows
INVARIANT ProfileIsLevel
INVARIANT StartsIdleTimer
PROPERTY KeepsMeasuring
