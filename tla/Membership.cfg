SPECIFICATION Spec
CONSTANTS
    n1 = n1
    n2 = n2
    Nodes = {n1, n2}
    InitViews = {0}
    MaxListed = 2
    Slots <- FourSlots
    MaxStarts = 4
    MaxStops = 1
    MaxEarly = 1
INVARIANTS
    TypeOK
    IdsUnique
    OneCalls
    OneFounder
    
    AnswersReachCallers
    AnswerDue
CHECK_DEADLOCK FALSE
