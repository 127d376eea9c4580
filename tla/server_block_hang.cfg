CONSTANTS
  Workers = {w1}
  Main = main
  QmaxSize = 1
  Policies = {"block"}
  MaxConn = 3
  NULL = NULL
SPECIFICATION FairSpec
PROPERTY EveryRequestAnswered
CHECK_DEADLOCK FALSE
