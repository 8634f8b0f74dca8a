\* Two processes, two events of different sizes that do not fit together.
SPECIFICATION Spec
CONSTANTS
    w1 = w1
    w2 = w2
    e1 = e1
    e2 = e2
    NoWorker = NoWorker
    NoEvent = NoEvent
    Workers = {w1, w2}
    Events = {e1, e2}
    SizeOf <- MCSizeOf
    Kinds = {"compact", "read"}
    MaxRecords = 2
    MaxBytes = 2
    MaxAge = 1
    MaxLines = 3
    Times = {0, 2}
INVARIANTS
    InOrder
    VerdictHolds

    
SYMMETRY
    Processes
