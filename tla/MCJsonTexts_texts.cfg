\* One call, with one failure of memory anywhere.
SPECIFICATION Spec
CONSTANTS
    Files = {1, 2}
    Sizes <- Bytes
    MailLists <- Lists
    TikaOutputs <- Outputs
    MaxFilesize = 4000
    Faults = {"malloc", "load"}
INVARIANTS SentIsSource NothingKept
CHECK_DEADLOCK FALSE
