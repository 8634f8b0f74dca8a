\* A plan block and a changing block, two processes, one failing write.
SPECIFICATION Spec
CONSTANTS
    Blocks = 2
    Changing = {1}
    MaxRounds = 2
    Batches <- MCBatches
    MaxResumes = 1
    MaxFaults = 1
    MaxEdits = 1
INVARIANTS
    NothingReplayed
    CompletionBacked
    
CHECK_DEADLOCK
    FALSE
