\* Two clients, two io threads of the server, one failing accept.
SPECIFICATION FairSpec
CONSTANTS
    Clients = {c1, c2}
    Leavers = {c1}
    NumWorkers = 2
    MaxAcceptFaults = 1
INVARIANTS
    AtMostOneSurvivor
    ConnectHandlerOutlived
    CallsAreConnected
PROPERTIES
    StopReturns
    EveryClientServed
CHECK_DEADLOCK FALSE
