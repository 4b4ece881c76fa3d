SPECIFICATION PauserSpec
CONSTANTS
  w1 = w1
  w2 = w2
  p1 = p1
  p2 = p2
  Workers <- MCWorkers
  Procs <- MCProcs
  NoPid = NoPid
  NoThread = NoThread
  ErrPtr = ErrPtr
  Latency = 0
  Delay = 2
  Gap = 2
INVARIANTS ReleasedOnUnload
PROPERTIES FullPause StopEnds UnloadEnds
CHECK_DEADLOCK FALSE
