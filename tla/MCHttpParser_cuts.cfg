\* Some hundred texts, whole and cut anywhere.
SPECIFICATION Spec
CONSTANTS
    Texts <- AllTexts
    UllMax = 30
    MaxHeader = 60
INVARIANTS CallsRight AssertsHold 
CHECK_DEADLOCK FALSE
