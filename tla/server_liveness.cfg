CONSTANTS
  Workers = {w1, w2}
  Main = main
  QmaxSize = 2
  Policies = {"dt"}
  MaxConn = 3
  NULL = NULL
SPECIFICATION FairSpec
PROPERTY EveryRequestAnswered
\* Once every client has been answered the threads wait for the next one.
CHECK_DEADLOCK FALSE
