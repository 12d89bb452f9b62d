\* Two mails with RSET, BDAT, STARTTLS and one fault, or three plain mails.
SPECIFICATION Spec
CONSTANTS
    Keys = {c1, c2}
    Hash <- OneChain
    Workers = {w1, w2}
    Scenes <- TheScenes
    MaxRcpts = 1
    MaxBuckets = 2
    Segments = 2
INVARIANTS  WholeMail NothingLost
PROPERTIES Judged
CHECK_DEADLOCK FALSE
