\* The dispatch of one invocation with two actions on two targets, with progress and
\* a ledger so small that retention drops events of the effect under way.
SPECIFICATION FairSpec
CONSTANTS
    w1 = w1
    w2 = w2
    i1 = i1
    i2 = i2
    a1 = a1
    a2 = a2
    t1 = t1
    t2 = t2
    NoWorker = NoWorker
    Workers = {w1, w2}
    Invocations = {i1}
    Actions = {a1, a2}
    Targets = {t1, t2}
    TargetOf <- MCTargetOf
    MaxToken = 2
    MaxRecords = 3
INVARIANT
    LedgerConsistent
PROPERTY
    DispatchEnds
