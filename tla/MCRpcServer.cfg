\* One client on two connections; the server process dies at any point, and
\* dies again: the second process has the nonce of the first, the third not.
SPECIFICATION Spec
CONSTANTS
    k1 = k1
    k2 = k2
    Nonces = {7}
    Xids = {2, 3}
    Procs = {1000, 1}
    BIND = 1000
    HandlerErrs = {"OK", "handler error"}
    Conns = {k1, k2}
    MaxInstances = 3
    SrvNonces <- UnseededThenSeeded
SYMMETRY ConnSymmetry
INVARIANTS
    TypeOK
    AtMostOnce
    RunsUnderOneNonce
    ReplayedRepliesAreResults
    WindowTrimmed
CHECK_DEADLOCK FALSE
