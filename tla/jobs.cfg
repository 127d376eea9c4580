CONSTANTS
  JobsMaxAmount = 3
  MaxProc = 3
  Lines <- MCLines
  Avoid = {"early", "full", "zero"}
SPECIFICATION FairSpec
INVARIANTS
  JobsTracked
  
  JobIdsDistinct
  
  QuitKillsAll
PROPERTY InterruptReturns
\* The shell waits for the user at the prompt, and ends with quit.
CHECK_DEADLOCK FALSE
