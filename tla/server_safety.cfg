CONSTANTS
  Workers = {w1, w2}
  Main = main
  QmaxSize = 2
  Policies = {"dt", "block", "dh", "random", "other"}
  MaxConn = 3
  NULL = NULL
SPECIFICATION Spec
SYMMETRY WorkerSymmetry
INVARIANTS
  TypeOK
  MutualExclusion
  CountersAgree
  CapacityBound
  NoFault
  HeldOnce
  NoLostWakeup
\* Once every client has been answered the threads wait for the next one.
CHECK_DEADLOCK FALSE
