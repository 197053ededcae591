SPECIFICATION FairSpec
CONSTANTS
    p1 = p1
    p2 = p2
    Procs = {p1, p2}
    None = None
    Ops = {"get", "update", "publish", "history", "delete"}
    TTL = 2
    MaxVersion = 2
    MaxLocal = 2
    MaxFaults = 1
CHECK_DEADLOCK FALSE
INVARIANT
    FreshWasLatest
PROPERTIES
    CacheSurvives
    Converges
