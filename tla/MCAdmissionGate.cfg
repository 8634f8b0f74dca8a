\* The admission gate: four threads, deadlines optional.
SPECIFICATION FairGateSpec
CONSTANTS
    h1 = h1
    h2 = h2
    h3 = h3
    h4 = h4
    Threads = {h1, h2, h3, h4}

    
PROPERTIES
    NoOvertaking
    
