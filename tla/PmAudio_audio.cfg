\* Three tasks transfer sectors; one of them also plays and stops samples.  A panic halts the system.
SPECIFICATION Spec
CONSTANTS
  lua = lua
  msd = msd
  bt = bt
  Nobody = Nobody
  Tasks = {lua, msd, bt}
  Players = {lua}
  Lengths = {1, 3}
  MaxPlays = 2
INVARIANT CountCovers
PROPERTY DeepSleepIsSafe
CHECK_DEADLOCK FALSE
