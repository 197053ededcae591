SPECIFICATION Spec
CONSTANTS
    p1 = p1
    p2 = p2
    a = a
    b = b
    Procs = {p1, p2}
    Templates = {a, b}
    First <- MCFirst
    MaxVersion = 3
    MaxConsole = 1
    MaxLocal = 1
    MaxFaults = 1
CHECK_DEADLOCK FALSE
INVARIANTS
    SeenOrRaced
    BringsBack
    ReportTrue
