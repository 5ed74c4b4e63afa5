SPECIFICATION StreamSpec
CONSTANTS
  Width = 8
  Segment = 3
  MaxBytes = 5
  Sizes = {0, 1, 9}
INVARIANTS StreamTypeOK ArrivesIntact BoundariesMeet ShortReadIsLast
PROPERTIES Arrives ClosedIsNotAwaited
CHECK_DEADLOCK FALSE
