SPECIFICATION FairSpec
CONSTANTS
    Calls = {c1, c2, c3}
    MaxRecords = 2
    Window = 4
    MaxTime = 7
    Horizon = 7
INVARIANTS
    TypeOK
    RateBound
    ExactBurst
PROPERTIES
    GateSpec
    CallReturns
