CONSTANTS
  Slots = {p, q, r}
  Sizes = {1, 2, 3}
  Counts = {1, 2, 33}
  MaxAllocation = 4
  MaxBrk = 10
  Word = 64
  Avoid = {"wrap", "overread", "oom"}
SPECIFICATION Spec
SYMMETRY SlotSymmetry
INVARIANT
  WellFormed
PROPERTIES
  GrowsOnlyWhenNeeded
  ImplementsAllocator
CHECK_DEADLOCK FALSE
