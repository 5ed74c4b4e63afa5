SPECIFICATION Spec
CONSTANTS
  MaxClients = 3
  MayClose = {}
  MayUpdate = {3}
  SuspendResults = {TRUE}
  Responses = {"NONE", "CLOSE"}
INVARIANTS EachJoinToldOnce LaterJoinSeen OneSnapshotSees OneOrder
PROPERTY RoundEnds
CHECK_DEADLOCK FALSE
