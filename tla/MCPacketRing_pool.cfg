\* The size classes, the pool under any user, and the ring of packets on it.
SPECIFICATION Spec
CONSTANTS
    Scenes <- AllScenes
    Asks <- Boundaries
    Caplens = {0, 1, 8, 34, 60, 70}
    MaxCaplen = 64
    PacketQlength = 2
    MaxPackets = 4
    MaxCreates = 2
    Names = {"n1", "n2"}
    Faults = {1, 7}
    Signals = TRUE
INVARIANTS BlocksApart BestFit PacketsKept
CHECK_DEADLOCK FALSE
