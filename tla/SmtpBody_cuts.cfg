\* Bodies of three to seven characters, cut in every way.
SPECIFICATION BodySpec
CONSTANTS
    Lengths = {3, 5, 6, 7}
    MaxSegment = 7
    MaxMails = 2
INVARIANTS NeverEarly OnceEach KnownCutsSeen
CHECK_DEADLOCK FALSE
