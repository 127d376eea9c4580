CONSTANTS
  Slots = {p, q, r}
  Sizes = {1, 2, 4, 8, 9}
  Counts = {1, 33}
  MaxAllocation = 8
  MaxBrk = 10
  Word = 64
  Limit = 8
  SplitMin = 1
  Page = 4
  MaxMmap = 4
  Avoid = {"wrap", "oom", "low", "mmap2", "tag", "cut"}
SPECIFICATION Spec
SYMMETRY SlotSymmetry
INVARIANTS
  WellFormed
  Unfragmented
PROPERTIES
  GrowsOnlyWhenNeeded
  ImplementsAllocator
CHECK_DEADLOCK FALSE
