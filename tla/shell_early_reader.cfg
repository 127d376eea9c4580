CONSTANTS
  Lines <- EarlyLines
  MaxLines = 1
  Files = {"f", "g"}
  Dirs = {"home", "sub"}
  MaxFd = 5
  Capacity = 1
  MaxFail = 0
  Avoid = {}
SPECIFICATION Spec
PROPERTY PromptReturns
CHECK_DEADLOCK FALSE
