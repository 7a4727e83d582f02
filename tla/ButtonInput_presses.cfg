\* Two buttons that share a queue, with bouncing pins and a queue that can overflow.
SPECIFICATION Spec
CONSTANTS
  top = top
  confirm = confirm
  Buttons = {top, confirm}
  QueueLength = 4
  MaxEdges = 6
INVARIANT StoryIsTrue
INVARIANT NoTimerLeft
PROPERTY StartsIdleTimer
PROPERTY HoldIsCurrent
\* Every action is bounded by the number of changes of the pins.
CHECK_DEADLOCK FALSE
