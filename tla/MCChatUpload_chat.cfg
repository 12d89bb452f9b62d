\* Two workers, every way a file is sent, lost POSTs and failures.
SPECIFICATION FairSpec
CONSTANTS
    Workers = {w1, w2}
    Plans <- AllPlans
    Faults = {"lost", "body", "memory"}
    MaxFaults = 1
    c1 = c1
    c2 = c2
    Keys <- MCKeys
    Hash <- MCHash
INVARIANTS AnnouncedWhole BlocksCounted SessionsReleased
PROPERTIES WholeIsAnnounced
CHECK_DEADLOCK FALSE
