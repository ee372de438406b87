SPECIFICATION FairSpec
CONSTANTS
    Fds = {1, 2, 3, 4, 5}
    MaxFaults = 3
INVARIANT TypeOK
INVARIANT AnsweredIsLive
INVARIANT LeakBounded
PROPERTY LinkRecovers
CHECK_DEADLOCK FALSE
