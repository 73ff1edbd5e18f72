\* Retransmission on: a Bind and one call, one failing send; and, where all
\* goes well, a second call in flight with them.
SPECIFICATION Spec
CONSTANTS
    w1 = w1
    w2 = w2
    Retrans = TRUE
    MaxXid = 4
    MaxBinds = 1
    MaxFaults = 1
    SendErrs = {"SEND_FAILURE", "BROKEN_PIPE"}
    CallProcs = {1}
    BIND = 1000
    HandlerErrs = {"OK", "handler error"}
    Results = {1}
    Workers = {w1, w2}
SYMMETRY WorkerSymmetry
CONSTRAINT ThirdCallIsSmooth
INVARIANTS
    TypeOK
    OneCallback
    TakenOnce
    AckSound
CHECK_DEADLOCK FALSE
