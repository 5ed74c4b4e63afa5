SPECIFICATION Spec
CONSTANTS
  MaxPackets = 2
  MaxUpdates = 3
  Responses = {"NONE", "CLOSE"}
INVARIANTS TypeOK JoinedBeforeFreed QueueNotShared UpdatesInOrder SuspendedOnlyDuringUpdate
PROPERTIES IsOutbox HandlerResumed MainGetsQueue UpdatesDelivered CloseWakesSleeper
CHECK_DEADLOCK FALSE
