SPECIFICATION FairSpec
CONSTANTS
    Connections = {1, 2}
    Max = 2
    MaxSend = 2
    MaxBuffer = 4
INVARIANT TypeOK
INVARIANT BufferBounded
INVARIANT WokenHasRecord
PROPERTY BufferDrains
CHECK_DEADLOCK FALSE
