\* One failing send, one break, a second connection, a second server process,
\* with the nonce of the first.
SPECIFICATION Spec
CONSTANTS
    w1 = w1
    w2 = w2
    CltNonce = 7
    CallProcs = {1}
    BIND = 1000
    Workers = {w1}
    SendErrs = {"SEND_FAILURE", "BROKEN_PIPE"}
    HandlerErrs = {"OK", "handler error"}
    MaxXid = 3
    MaxBinds = 1
    MaxFaults = 1
    MaxInstances = 2
    MaxConns = 2
    MaxBreaks = 1
    MaxLosses = 0
    SrvNonces <- UnseededTwo
INVARIANTS
    ForgetsOnlyReceived
    DiesOnlyOfRepBuf
PROPERTIES
    ImplementsExactlyOnce
CHECK_DEADLOCK FALSE
