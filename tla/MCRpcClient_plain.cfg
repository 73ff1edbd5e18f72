\* Retransmission off: timeouts and failed sends end the call.
SPECIFICATION FairSpec
CONSTANTS
    w1 = w1
    w2 = w2
    Retrans = FALSE
    MaxXid = 3
    MaxBinds = 1
    MaxFaults = 1
    SendErrs = {"SEND_FAILURE", "BROKEN_PIPE"}
    CallProcs = {1}
    BIND = 1000
    HandlerErrs = {"OK", "handler error"}
    Results = {1}
    Workers = {w1, w2}
INVARIANTS
    ReplyOrTimeout
PROPERTIES
    EveryCallReturns
CHECK_DEADLOCK FALSE
