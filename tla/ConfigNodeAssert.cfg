CONSTANTS
    SessionNames = {"s", "t"}
SPECIFICATION Spec
INVARIANTS ImportsNodes
CHECK_DEADLOCK FALSE
