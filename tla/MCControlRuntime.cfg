\* Two processes, three permits of a grant for two actions, clocks that step either way.
SPECIFICATION Spec
CONSTANTS
    q1 = q1
    q2 = q2
    p1 = p1
    p2 = p2
    p3 = p3
    None = None
    Procs = {q1, q2}
    Permits = {p1, p2, p3}
    Sequence <- MCSequence
    Target <- MCTarget
    Expiry <- MCExpiry
    MaxActions = 2
    Times = {1, 2}
    MaxFaults = 1
    MaxRecoveries = 1
    Revocable = {p2}
INVARIANTS
    DispatchedOnce
    ReceiptsTruthful
PROPERTY
    ImplementsChain
SYMMETRY
    Processes
CHECK_DEADLOCK
    FALSE
