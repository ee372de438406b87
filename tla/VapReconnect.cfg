SPECIFICATION FairSpec
CONSTANTS
    a1 = a1
    a2 = a2
    a3 = a3
    m1 = m1
    m2 = m2
    t1 = t1
    t2 = t2
    u1 = u1
    g1 = g1
    c1 = c1
    c2 = c2
    Agents = {a1, a3}
    ApMacs = {m1, m2}
    ApMac <- MCApMac
    FiveG = {m2}
    Stations = {t1, t2}
    StaMacs = {u1}
    StaMac <- MCStaMac
    Ssids = {g1}
    Copies = {c1, c2}
    NULL = NULL
    MaxCmds = 1
    MaxMsgs = 1
    MaxAdds = 0
INVARIANT TypeOK
INVARIANT OnlineOnItsVap
CHECK_DEADLOCK FALSE
 
