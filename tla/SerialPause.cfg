SPECIFICATION Spec
CONSTANTS
  w1 = w1
  w2 = w2
  p1 = p1
  p2 = p2
  Workers <- MCWorkers
  Procs <- MCProcs
  NoPid = NoPid
  Latency = 1
  SleepTicks = 2
  QueueMax = 2
  MaxChunk = 2
  Echoes <- MCEchoes
INVARIANTS OneWorker UnloadSafe NeverStuck
CHECK_DEADLOCK FALSE
