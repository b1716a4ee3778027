CONSTANTS
    Clients = {c1, c2}
    NoClient = NoClient
    MaxCancels = 2
SPECIFICATION FairSpec
INVARIANTS
    TypeOK
    LeakIsReported
    Attribution
    OneLinkOwned
PROPERTIES
    CloseNeverMasks
    ImplementsLinkOwnership
    ImplementsSessionLife
    SessionEnds
