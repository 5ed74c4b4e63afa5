SPECIFICATION Spec
CONSTANTS
  MaxPackets = 1
  MaxUpdates = 1
  Responses = {"NONE"}
PROPERTY ClosedEndsThreads
CHECK_DEADLOCK FALSE
