SPECIFICATION Spec
CONSTANTS
    Hdr = 2
    MaxLen = 6
    Traffic <- MCTraffic
    MaxLinks = 2
INVARIANT TypeOK
INVARIANT CommandsInOrder
INVARIANT ReportsInOrder
CHECK_DEADLOCK FALSE
