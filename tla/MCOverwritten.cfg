SPECIFICATION Spec
CONSTANTS
    None = None
    u1 = u1
    u2 = u2
    u3 = u3
    s1 = s1
    s2 = s2
    Blocks = {b1}
    Users = {u1}
    Registered = {u1}
    Contents = {c1, c2}
    Sessions = {s1, s2}
    UserOf <- OneUser
    Rank <- MCRank
    Ops <- OwnOps
    Faults = {}
    MaxKeys = 4
INVARIANT KeyNotLost
