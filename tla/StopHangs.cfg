SPECIFICATION FairSpec
CONSTANTS
    Conns = {c1}
    AtStart = {c1}
    acceptor = acceptor
    pinger = pinger
    stopper = stopper
    nobody = nobody
    MaxMsgs = 1
PROPERTIES
    StopReturns
CHECK_DEADLOCK FALSE
