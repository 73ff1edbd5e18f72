\* Every sequence of up to six replies to five calls.
SPECIFICATION Spec
CONSTANTS
    MaxXid = 6
    MaxReplies = 6
INVARIANTS
    WindowIsReceived
    LoopCompresses
CHECK_DEADLOCK FALSE
