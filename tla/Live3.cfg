SPECIFICATION FairSpec
CONSTANTS
    t1 = t1
    t2 = t2
    t3 = t3
    t4 = t4
    g1 = g1
    g2 = g2
    o1 = o1
    o2 = o2
    N = 3
    Txs = {t1}
    Owner <- OneOwner
    Spends <- OneSpends
    Creates <- OneCreates
    Genesis = {g1}
    MinTxs = 1
    InitViews = {0}
    Early = {t1}
    MaxView = 1
    Delays = {1}
INVARIANTS
    OpenRoundIsCurrent

    
CHECK_DEADLOCK FALSE
