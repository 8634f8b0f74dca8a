\* The leases: three workers in two processes, one target.
SPECIFICATION FairSpec
CONSTANTS
    p1 = p1
    p2 = p2
    w1 = w1
    w2 = w2
    w3 = w3
    NoWorker = NoWorker
    Workers = {w1, w2, w3}
    Processes = {p1, p2}
    ProcOf <- MCProcOf
    Targets = {t1}
    t1 = t1
    LeaseSeconds = 1
    MaxToken = 3
    Times = {0, 1}
INVARIANTS
    TypeOK
    SingleHolder
    ValidUntilExpiry
PROPERTIES
    FreshToken
    ImplementsFence
    BoundedWait
