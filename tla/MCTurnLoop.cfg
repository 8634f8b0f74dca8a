\* Turns with and without limits, one after the other: two actions, five work
\* rounds, two recovery rounds.
SPECIFICATION Spec
CONSTANTS
    Modes = {FALSE, TRUE}
    MaxIterations = 5
    RecoveryLimit = 2
    Keys = {k1, k2}
    MaxEvents = 2
INVARIANTS
    CompletionVerified
    CeilingStrict
    
PROPERTY
    TurnEnds
