SPECIFICATION HandSpec
CONSTANT MaxStarts = 2
INVARIANTS NewBaseIsPromoted
CHECK_DEADLOCK FALSE
