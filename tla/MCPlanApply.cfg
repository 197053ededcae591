SPECIFICATION FairSpec
CONSTANTS
    t1 = t1
    t2 = t2
    a = a
    b = b
    p1 = p1
    p2 = p2
    Procs = {p1, p2}
    Order <- MCOrder
    Templates = {a, b}
    Plan <- MCPlan
    First <- MCFirst
    MaxConsole = 1
    MaxEdits = 1
    MaxFaults = 1
CHECK_DEADLOCK FALSE
INVARIANTS
    OverPlannedBase
    NothingIfStale
    ReportIsTrue
PROPERTIES
    DraftsKept
    Applies
