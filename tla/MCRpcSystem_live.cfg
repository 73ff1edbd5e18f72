\* One failing send and one silent loss: every call returns, and
\* client and server are what their own modules say.
SPECIFICATION FairSpec
CONSTANTS
    w1 = w1
    w2 = w2
    CltNonce = 7
    CallProcs = {1}
    BIND = 1000
    Workers = {w1}
    SendErrs = {"SEND_FAILURE", "BROKEN_PIPE"}
    HandlerErrs = {"OK", "handler error"}
    MaxXid = 3
    MaxBinds = 1
    MaxFaults = 1
    MaxInstances = 1
    MaxConns = 1
    MaxBreaks = 0
    MaxLosses = 1
    SrvNonces <- OneServer
INVARIANTS
    ServerUnharmed
    RepliesAreHeard
PROPERTIES
    ImplementsServer
    ImplementsClient
    EveryCallReturns
CHECK_DEADLOCK FALSE
