SPECIFICATION FairSpec
CONSTANTS
    MaxCalls = 2
    MaxCrashes = 3
INVARIANTS TypeOK EstablishedNeverAbandoned
PROPERTIES UnknownNotServed ClientEnds ThreadsEnd StoreNeverAbandons
CHECK_DEADLOCK FALSE
