SPECIFICATION BoardSpec
CONSTANTS
  Turns = 36
  Rest = 90
  RxMax = 3
  Middle = 18
INVARIANTS BoardFollows
PROPERTIES BoardSweeps Live
