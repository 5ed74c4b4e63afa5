SPECIFICATION SSpec
CONSTANT MaxAccepts = 2
PROPERTY PlayersFreeOpensGate
CHECK_DEADLOCK FALSE
