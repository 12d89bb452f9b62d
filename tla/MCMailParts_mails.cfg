\* Trees of parts, with one failure anywhere.
SPECIFICATION MailSpec
CONSTANTS
    Messages <- Mails
    MailFaults = {"parse", "list", "node", "open", "write", "dump"}
INVARIANTS AttachmentsInOrder FailureStaysLocal
CHECK_DEADLOCK FALSE
