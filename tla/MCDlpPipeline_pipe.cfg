\* Two threads and a worker, fair, every fault, one restart.
SPECIFICATION FairSpec
CONSTANTS
    Threads = {t1, t2}
    Workers = {w1}
    Requests <- Ways
    MaxServed = 2
    irb_qlength = 1
    FreshEof = {0, 1}
    Faults = {"signal", "storage", "disconnect", "silent", "restart"}
    PolicyCap = 1
    MaxRestarts = 1
INVARIANTS GateHolds EndsWhole OwnVerdict ReadsLiveFrame
PROPERTIES EveryRequestEnds
CHECK_DEADLOCK FALSE
