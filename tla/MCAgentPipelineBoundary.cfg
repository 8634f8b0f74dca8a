\* The boundary that resume_state() reconstructs, against the grammar's.
SPECIFICATION Spec
CONSTANTS
    Blocks = 2
    Changing = {1}
    MaxRounds = 2
    Batches <- MCSingle
    MaxResumes = 1
    MaxFaults = 0
    MaxEdits = 1
INVARIANT
    BoundaryAgrees
CHECK_DEADLOCK
    FALSE
