CONSTANTS
    Operations = {o1, o2, o3}
    MaxAttempts = 2
    NoReport = NoReport
    OwnPolicy = {o3}
SPECIFICATION FairSpec
INVARIANTS
    TypeOK
    MutualExclusion
    NoLostWakeup
    OthersGoFirst
    ReportsMatchReturns
PROPERTY EveryOperationEnds
