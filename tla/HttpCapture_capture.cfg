\* One connection, two consumers, everything that can fail.
SPECIFICATION FairCapture
CONSTANTS
    Keys = {k1}
    Consumers = {c1, c2}
    MaxPosts = 3
    MaxSegments = 2
    Qlength = 2
    Faults = {"memory", "create", "append", "signal", "response"}
INVARIANTS NodeIsOnePost AttrOutlivesItsPost
PROPERTIES CapturedIsTaken
CHECK_DEADLOCK FALSE
