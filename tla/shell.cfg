CONSTANTS
  Lines <- MCLines
  MaxLines = 2
  Files = {"f", "g"}
  Dirs = {"home", "sub"}
  MaxFd = 5
  Capacity = 1
  MaxFail = 1
  Avoid = {}
SPECIFICATION Spec
INVARIANTS
  NoProcessLeft
  OutputInPlace
  StdRestored
  LastDirRight
 
\* The shell waits for the user at the prompt.
CHECK_DEADLOCK FALSE
