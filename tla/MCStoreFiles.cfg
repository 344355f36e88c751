SPECIFICATION Spec
CONSTANTS
    Block = b1
    u1 = u1
    u2 = u2
    Values = {v1, v2}
    Users = {u1, u2}
    Absent = Absent
    Torn = Torn
    Empty = Empty
    Mixed = Mixed
    NoRequest = NoRequest
    Threads = {t1, t2}
    Initial <- MCInitial
    Workloads <- MCWorkloads
INVARIANT EmptyOnlyByCrash
PROPERTY AtomicUnlessDisturbed
SYMMETRY MCSymmetry
