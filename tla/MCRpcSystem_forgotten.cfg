\* Nothing fails and the server is never replaced: a retransmission of a call is
\* refused, because its first reply was acknowledged while one io thread had not
\* yet taken the Caller.  Methods that fail are not needed for that.
SPECIFICATION Spec
CONSTANTS
    w1 = w1
    w2 = w2
    CltNonce = 7
    CallProcs = {1}
    BIND = 1000
    Workers = {w1, w2}
    SendErrs = {"SEND_FAILURE", "BROKEN_PIPE"}
    HandlerErrs = {"OK"}
    MaxXid = 4
    MaxBinds = 1
    MaxFaults = 0
    MaxInstances = 1
    MaxConns = 1
    MaxBreaks = 0
    MaxLosses = 0
    SrvNonces <- OneServer
SYMMETRY WorkerSymmetry
INVARIANTS
    ErrorRepliesReachCallback
CHECK_DEADLOCK FALSE
