SPECIFICATION FairSpec
CONSTANTS
    s1 = s1
    s2 = s2
    m1 = m1
    t1 = t1
    w1 = w1
    w2 = w2
    p1 = p1
    Sockets = {s1, s2}
    Macs = {m1}
    Mac <- MCMac
    Stations = {t1}
    Workers = {w1, w2}
    WorkerOf <- MCWorkerOf
    QueueSize = 1
    MaxMsgs <- MCMaxMsgs
    Listener = Listener
    Pool = {p1}
    None = None
INVARIANT TypeOK
INVARIANT RegisteredIsOpen
INVARIANT FoundByMacIsRegistered
INVARIANT ClosedIsForgotten
INVARIANT ResetIsExclusive
 
CHECK_DEADLOCK FALSE
