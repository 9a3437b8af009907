SPECIFICATION Spec
CONSTANTS
    t1 = t1
    t2 = t2
    t3 = t3
    t4 = t4
    g1 = g1
    g2 = g2
    o1 = o1
    o2 = o2
    N = 2
    Txs = {t1, t2, t3}
    Owner <- ConflictOwner
    Spends <- ConflictSpends
    Creates <- ConflictCreates
    Genesis = {g1}
    MinTxs = 1
    InitViews = {0, 1}
    Early = {}
    MaxView = 3
    Delays = {0, 1}
INVARIANTS
    TypeOK
    
    UtxoMatchesChain
    NoDoubleSpend
    PendingNotCommitted
    CommittedBlocksMined
CHECK_DEADLOCK FALSE
