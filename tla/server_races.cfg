CONSTANTS
  Workers = {w1}
  Main = main
  QmaxSize = 3
  Policies = {"dt", "block", "dh", "random", "other"}
  MaxConn = 5
  NULL = NULL
SPECIFICATION Spec
INVARIANTS
  QueueSorted
  DropWalkSafe
\* Once every client has been answered the threads wait for the next one.
CHECK_DEADLOCK FALSE
