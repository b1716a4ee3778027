CONSTANTS
    MaxLen = 5
    MaxSize = 3
SPECIFICATION FairSpec
INVARIANTS
    TypeOK
    WholeOnReturn
    ProgressIsTrue
PROPERTIES
    KnownDropEndsIt
    TransferEnds
CHECK_DEADLOCK FALSE
