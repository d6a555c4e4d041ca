CONSTANTS
    SessionNames = {"s"}
SPECIFICATION Spec
INVARIANTS TypeOK ValidIfUsable IndicesFill
CHECK_DEADLOCK FALSE
