SPECIFICATION Spec
CONSTANT RegCount = 2
PROPERTY FailedRecvIsClosed
CHECK_DEADLOCK FALSE
