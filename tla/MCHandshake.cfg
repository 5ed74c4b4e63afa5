SPECIFICATION Spec
CONSTANT RegCount = 2
INVARIANTS TypeOK OneScript JoinedOnce ShortUuidStops InSyncUntilPlay
PROPERTIES PacketsFitPhase ClosedPeerIsClosed
CHECK_DEADLOCK FALSE
