\* Two threads, fair; a long list and two short ones; the log is removed under them.
SPECIFICATION FairSpec
CONSTANTS
    Workers = {w1, w2}
    Jobs <- LongThenShort
    IntMax = 7
    MaxFilesize = 3
    PolicyCap = 1
    MaxRemovals = 1
    Faults = {"memory", "disk"}
INVARIANTS SentWithinBounds AttributesOwn LogCounts
PROPERTIES CallEnds
CHECK_DEADLOCK FALSE
