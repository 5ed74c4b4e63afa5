SPECIFICATION Spec
CONSTANTS
  MaxPackets = 1
  MaxUpdates = 1
  Responses = {"NONE"}
PROPERTY PacketPausesUpdates
CHECK_DEADLOCK FALSE
