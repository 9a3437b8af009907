SPECIFICATION FairSpec
CONSTANTS
    j1 = j1
    j2 = j2
    g1 = g1
    g2 = g2
    a1 = a1
    a2 = a2
    a3 = a3
    founder = founder
    Joiners = {j1}
    Asks <- AskFounder
    Spends <- ThreeSpends
    Creates <- ThreeCreates
    MaxHeaders = 3
    MaxHeight = 1
    InitViews = {0}
    MaxLosses = 0
PROPERTIES
    HeadersCompleted
CHECK_DEADLOCK FALSE
