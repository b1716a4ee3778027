CONSTANTS
    Agreed = {23, 50, 247}
    MinSizes = {20, 21, 100}
    Default = 20
    Proxies = {"p1", "p2"}
    Adapters = {"a1"}
    MaxStarts = 2
SPECIFICATION FactsSpec
INVARIANTS
    TypeOK
    FinalStaysFinal
    LimitIsSound
    RadioTypeOK
    ViaIsHonest
