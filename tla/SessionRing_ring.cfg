\* One producer, two consumers, fair threads; the ring wraps twice.
SPECIFICATION FairRing
CONSTANTS
    Producers = {p1}
    Consumers = {c1, c2}
    Qlength = 2
    MaxPuts = 5
    NoEntry = NoEntry
INVARIANTS RingInv IntactInOrder
PROPERTIES ImplementsFifo EveryEntryTaken
CHECK_DEADLOCK FALSE
