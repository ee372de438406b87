SPECIFICATION FairSpec
CONSTANTS
    Cmds = {m1, m2}
    MaxConn = 2
    MaxBeats = 1
    MaxId = 1
    Room = 1
    Other = Other
    None = None
INVARIANT TypeOK
INVARIANT ConfirmedByRightAnswer
PROPERTY CommandSettles
CHECK_DEADLOCK FALSE
