CONSTANTS
    Kinds <- LiveUnroute
    MsgLen = 1
SPECIFICATION Spec
INVARIANT NoBug
CHECK_DEADLOCK FALSE
