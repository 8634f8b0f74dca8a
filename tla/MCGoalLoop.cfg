\* Goal mode: goals of up to two rounds, resumed up to three, among ordinary turns.
SPECIFICATION GoalSpec
CONSTANTS
    Modes = {FALSE}
    MaxIterations = 1
    RecoveryLimit = 1
    Keys = {k1}
    MaxEvents = 1
    MaxGoalRounds = 2
    MaxRecord = 3

    
    
PROPERTIES
    
    DriveEnds
