\* One-shot and repeating timers, stale handles, deleted receivers, and an event
\* queue that can overflow.
SPECIFICATION FairSpec
CONSTANTS
  b1 = b1
  b2 = b2
  Blocks = {b1, b2}
  MaxStarts = 4
  QueueLength = 3
  Repeats = {TRUE, FALSE}
  Deletions = 1
INVARIANT NoLeak
INVARIANT HandleIsUnique
INVARIANT FreedOnce
PROPERTY ServiceSpec
CHECK_DEADLOCK FALSE
