CONSTANTS
  MaxStages = 3
  MaxArgs = 3
SPECIFICATION Spec
INVARIANTS
  ReadAsMeant
  
\* A line is read once.
CHECK_DEADLOCK FALSE
