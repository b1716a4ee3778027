CONSTANTS
    Proxies = {"p1", "p2"}
    Adapters = {"a1"}
    MaxStarts = 2
SPECIFICATION RadioSpec
INVARIANT AdvertisedIsAnother
