SPECIFICATION Spec
CONSTANTS
  MaxClients = 2
  MayClose = {}
  MayUpdate = {1, 2}
  SuspendResults = {FALSE}
  Responses = {"NONE"}
INVARIANT JoinShown
CHECK_DEADLOCK FALSE
