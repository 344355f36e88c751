SPECIFICATION FairSpec
CONSTANTS
    DataLength = 8
    Order <- MCOrder
    Hashes <- MCHashes
    MaxCalls = 2
INVARIANTS ArgumentsArrive ResultsReturn RefusalsExplained
PROPERTY RemoteCallEnds
CHECK_DEADLOCK FALSE
