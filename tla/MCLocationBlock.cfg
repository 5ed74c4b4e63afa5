SPECIFICATION Spec
CONSTANT Sample = {0, 1, 15, 16, 17}
INVARIANT InOwnBlock
CHECK_DEADLOCK FALSE
