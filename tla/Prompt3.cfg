SPECIFICATION OneProposalSpec
CONSTANTS
    t1 = t1
    t2 = t2
    t3 = t3
    t4 = t4
    g1 = g1
    g2 = g2
    o1 = o1
    o2 = o2
    N = 3
    Txs = {t1, t2}
    Owner <- PairOwner
    Spends <- PairSpends
    Creates <- PairCreates
    Genesis = {g1, g2}
    MinTxs = 1
    InitViews = {0}
    Early = {t1, t2}
    MaxView = 1
    Delays = {1}
INVARIANTS
    Agreement
CHECK_DEADLOCK FALSE
