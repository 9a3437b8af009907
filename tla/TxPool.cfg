SPECIFICATION Spec
CONSTANTS
    Callers = {c1}
    Receiver = r
    Genesis <- MCGenesis
    Amounts = {1, 2}
    Leads = {0, 2}
    MinTxs = 1
    MaxTxs = 3
    MaxView = 3
INVARIANTS
    ReservedOnce
    WalletMatchesUtxoAlone
    
    ViewPerBlockAlone
CHECK_DEADLOCK FALSE
