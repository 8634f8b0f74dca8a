\* Safety of the attempt ledger: three mutations of which one can be observed, an
\* observation, a probe, one pool thread.
SPECIFICATION Spec
CONSTANTS
    x = x
    y = y
    z = z
    see = see
    ask = ask
    w1 = w1
    Main = Main
    Workers = {w1}
    Writes = {x, y, z}
    Reads = {see}
    Probes = {ask}
    Sees <- MCSees
    Limit = 2
    MaxEffects = 3

    
    
PROPERTY
    StaleOnlyIfAbandoned
SYMMETRY
    Alike
