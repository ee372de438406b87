SPECIFICATION FairSpec
CONSTANTS
    Producers = {p1}
    Consumers = {c1, c2}
    Closers = {k}
    Items = {v1, v2}
    Capacity = 3
    Word = 5
    NULL = NULL
    Junk = Junk
INVARIANT TypeOK
INVARIANT WindowHoldsItems
INVARIANT NoLostWakeup
PROPERTY RefinesFifo
PROPERTY PutReturns
PROPERTY QueueDrains
PROPERTY CloseReleasesGets
CHECK_DEADLOCK FALSE
