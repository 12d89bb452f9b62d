\* Every kind of upload, alone and in pairs, two workers.
SPECIFICATION FairSpec
CONSTANTS
    Workers = {w1, w2}
    Plans <- AllPlans
    Faults = {"lost", "file"}
INVARIANTS WholeIfAlone LengthTellsComplete
PROPERTIES CompleteIsAnnounced
CHECK_DEADLOCK FALSE
