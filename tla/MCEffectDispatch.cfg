\* Safety of the dispatch: two dispatchers replay two invocations of one action.
SPECIFICATION Spec
CONSTANTS
    w1 = w1
    w2 = w2
    i1 = i1
    i2 = i2
    a1 = a1
    a2 = a2
    t1 = t1
    t2 = t2
    NoWorker = NoWorker
    Workers = {w1, w2}
    Invocations = {i1, i2}
    Actions = {a1}
    Targets = {t1}
    TargetOf <- MCTargetOf
    MaxToken = 3
    MaxRecords = 20
INVARIANTS
    AtMostOnce
    SettledTruthfully
    IntentDurable
    
PROPERTY
    FencedCalls
SYMMETRY
    Alike
