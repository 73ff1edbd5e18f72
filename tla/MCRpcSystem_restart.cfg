\* A call runs in one server process and again in the next one, which has the
\* same nonce.
SPECIFICATION Spec
CONSTANTS
    w1 = w1
    w2 = w2
    CltNonce = 7
    CallProcs = {1}
    BIND = 1000
    Workers = {w1}
    SendErrs = {"SEND_FAILURE", "BROKEN_PIPE"}
    HandlerErrs = {"OK", "handler error"}
    MaxXid = 3
    MaxBinds = 1
    MaxFaults = 1
    MaxInstances = 2
    MaxConns = 2
    MaxBreaks = 0
    MaxLosses = 0
    SrvNonces <- UnseededTwo
INVARIANTS
    AtMostOnceAcrossRestarts
CHECK_DEADLOCK FALSE
