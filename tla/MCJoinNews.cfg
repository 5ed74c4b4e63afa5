SPECIFICATION Spec
CONSTANTS
  MaxClients = 2
  MayClose = {1, 2}
  MayUpdate = {1, 2}
  SuspendResults = {TRUE, FALSE}
  Responses = {"NONE", "CLOSE"}
INVARIANTS TypeOK LockUncontended
PROPERTIES IsNews IsIntake
CHECK_DEADLOCK FALSE
