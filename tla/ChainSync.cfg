SPECIFICATION FairSpec
CONSTANTS
    j1 = j1
    j2 = j2
    g1 = g1
    g2 = g2
    a1 = a1
    a2 = a2
    a3 = a3
    founder = founder
    Joiners = {j1, j2}
    Asks <- AskEachOther
    Spends <- ThreeSpends
    Creates <- ThreeCreates
    MaxHeaders = 2
    MaxHeight = 3
    InitViews = {0, 1}
    MaxLosses = 1
INVARIANTS
    TypeOK
    ChainLinked
    UtxoExplained
PROPERTIES
    SyncEnds
    GenesisCompleted
CHECK_DEADLOCK FALSE
