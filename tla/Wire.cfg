\* Two calls; documents that fit the buffer and documents that do not; two
\* short ones overflow it.
SPECIFICATION FairSpec
CONSTANTS
    Calls = {2, 3}
    Sizes = {2, 4}
    DEFAULT_RPC_SZ = 3
    MaxFaults = 1
    MaxResends = 1
INVARIANTS
    AnswersMatch
    OneAtATimeIsSafe
PROPERTIES
    ImplementsChannels
    UndisturbedCallsReturn
CHECK_DEADLOCK FALSE
