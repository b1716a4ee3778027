CONSTANTS
    NotifyAttempts = 3
    MaxCancels = 2
SPECIFICATION FairSpec
INVARIANTS
    TypeOK
    SubscriptionUndone
PROPERTIES
    OutcomeKept
    ReaderEnds
