SPECIFICATION FairSpec
CONSTANTS
    k1 = k1
    k2 = k2
    k3 = k3
    Keys = {k1, k2, k3}
    Hash <- MCHash
    InitSize = 2
    PerCollision = 2
    Age = 1
    None = None
    QueueCap = 2
    MaxNow = 3
    MaxSize = 8
INVARIANT TypeOK
INVARIANT TableSound
INVARIANT RecentIsFound
PROPERTY CollectedIsStable
PROPERTY TaskIsTaken
CHECK_DEADLOCK FALSE
