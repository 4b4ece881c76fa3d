SPECIFICATION SystemSpec
CONSTANTS
  w1 = w1
  hello = hello
  Workers <- MCWorkers
  Procs <- MCProcs
  Hello = hello
  NoPid = NoPid
  Latency = 0
  SleepTicks = 1
  QueueMax = 1
  MaxChunk = 1
  Echoes <- MCEchoes
  Turns = 2
  Rest = 5
  RxMax = 1
PROPERTIES ServoRests ServoMoves UnloadEnds
CHECK_DEADLOCK FALSE
