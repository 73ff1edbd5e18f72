\* Retransmission on: a handler touches a freed Caller.
SPECIFICATION Spec
CONSTANTS
    w1 = w1
    w2 = w2
    Retrans = TRUE
    MaxXid = 3
    MaxBinds = 1
    MaxFaults = 1
    SendErrs = {"SEND_FAILURE", "BROKEN_PIPE"}
    CallProcs = {1}
    BIND = 1000
    HandlerErrs = {"OK", "handler error"}
    Results = {1}
    Workers = {w1, w2}
SYMMETRY WorkerSymmetry
INVARIANTS
    NoUseAfterFree
CHECK_DEADLOCK FALSE
