SPECIFICATION FairSpec
CONSTANTS
    Fds = {1, 2, 3}
    MaxFaults = 1
CHECK_DEADLOCK FALSE
PROPERTY ReconnectSucceeds
