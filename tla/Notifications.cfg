CONSTANTS
    Never = Never
    MaxFrames = 4
    MaxTasks = 2
SPECIFICATION FairSpec
INVARIANTS
    TypeOK
    ReplyOnItsWay
PROPERTIES
    ImplementsReplyQueue
    DroppedWaitEnds
