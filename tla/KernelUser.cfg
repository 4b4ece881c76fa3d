SPECIFICATION Spec
CONSTANTS
  Programs = {p1, p2}
  QueueMax = 2
  SentMax = 5
INVARIANTS OwnMessage NothingLeft NoneLost
PROPERTIES ValueArrives
CHECK_DEADLOCK FALSE
