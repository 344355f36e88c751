SPECIFICATION FairSpec
CONSTANTS
    Store = "key_store"
    Proxies <- KeyStoreMix
    MaxCalls = 2
    MaxConns = 2
INVARIANTS TypeOK AnswersMatch StopsSoon
PROPERTIES RemoteCallSpec CallReturned
CHECK_DEADLOCK FALSE
