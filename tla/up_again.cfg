SPECIFICATION Spec
CONSTANTS
  Connects = {"connecting"}
  MaxLocals = 1
  MaxRemotes = 0
  MaxQueue = 2
  Module = {}
INVARIANT StopIsFinal
CHECK_DEADLOCK FALSE
