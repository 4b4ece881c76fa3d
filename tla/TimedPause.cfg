SPECIFICATION Spec
CONSTANTS
  w1 = w1
  w2 = w2
  p1 = p1
  p2 = p2
  Workers <- MCWorkers
  Procs <- MCProcs
  NoPid = NoPid
  Latency = 1
  Delay = 3
  SleepTicks = 2
  QueueMax = 1
  MaxChunk = 1
  Echoes <- MCEchoes
SYMMETRY Perms
INVARIANTS OnePauses AllResumed
PROPERTIES FlagKeepsPauses
CHECK_DEADLOCK FALSE
