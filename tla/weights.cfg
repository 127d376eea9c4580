SPECIFICATION Spec
CONSTANTS MaxPid = 4
          MaxWeight = 1
INVARIANTS SumBounded  WalkStays
CHECK_DEADLOCK FALSE
