SPECIFICATION FairSpec
CONSTANTS
    s1 = s1
    m1 = m1
    t1 = t1
    w1 = w1
    w2 = w2
    p1 = p1
    Sockets = {s1}
    Macs = {m1}
    Mac <- MCMac
    Stations = {t1}
    Workers = {w1}
    WorkerOf <- MCWorkerOf
    QueueSize = 1
    MaxMsgs <- MCMaxMsgs
    Listener = Listener
    Pool = {p1}
    None = None
PROPERTY TimedOutIsClosed
CHECK_DEADLOCK FALSE
