SPECIFICATION FairSpec
CONSTANTS
    Conns = {c1, c2}
    AtStart = {c1}
    acceptor = acceptor
    pinger = pinger
    stopper = stopper
    nobody = nobody
    MaxMsgs = 1
INVARIANTS
    TypeOK
    WaitsOrdered
    PauseHasOwner
PROPERTIES
    HandlingEnds
    
CHECK_DEADLOCK FALSE
