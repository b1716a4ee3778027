CONSTANTS
    Operations = {o1, o2}
    MaxAttempts = 3
    NoReport = NoReport
    OwnPolicy = {o2}
SPECIFICATION FairSpec
INVARIANTS
    TurnCoversTheClose
    WorkIsNotRepeated
PROPERTY ImplementsAttempts
CHECK_DEADLOCK FALSE
