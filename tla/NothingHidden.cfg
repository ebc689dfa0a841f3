CONSTANT MaxLines = 2
SPECIFICATION FilterSpec
INVARIANT NothingHidden
CHECK_DEADLOCK FALSE
