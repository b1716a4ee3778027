CONSTANTS
    Names = {"connect", "session", "disconnect", "unlock", "readout", "refresh", "pair"}
    StageMap <- MCStageMap
    MaxDepth = 3
    Callables = {a, b}
    MaxRecursion = 2
    NoteNames = {"parts"}
SPECIFICATION Spec
INVARIANTS
    TypeOK
    BlameIsFirst
    KindIsTheAttempts
    CauseIsTrue
    EveryoneIsTold
