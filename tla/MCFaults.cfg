SPECIFICATION FairSpec
CONSTANTS
    None = None
    u1 = u1
    u2 = u2
    u3 = u3
    s1 = s1
    s2 = s2
    Blocks = {b1}
    Users = {u1, u2, u3}
    Registered = {u1, u2}
    Contents = {c1}
    Sessions = {s1, s2}
    UserOf <- MCUserOf
    Rank <- MCRank
    Ops <- LockoutOps
    Faults = {"crash", "ks_down"}
    MaxKeys = 4
INVARIANTS TypeOK SameGeneration TokenHoldersListed TokensOnlyToGranted
PROPERTY CallsEnd
