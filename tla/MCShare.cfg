SPECIFICATION Spec
CONSTANTS
    None = None
    u1 = u1
    u2 = u2
    u3 = u3
    s1 = s1
    s2 = s2
    Blocks = {b1}
    Users = {u1, u2}
    Registered = {u1, u2}
    Contents = {c1, c2}
    Sessions = {s1, s2}
    UserOf <- MCUserOf
    Rank <- MCRank
    Ops <- SharingOps
    Faults = {}
    MaxKeys = 4
INVARIANTS SameGeneration KeyNotLost TokensOnlyToGranted
PROPERTY NoLostUpdate
