SPECIFICATION Spec
CONSTANTS
    x = x
    y = y
    root = root
    v1 = v1
    v2 = v2
    v3 = v3
    inapp = inapp
    empty = empty
    XValues = {v1, v2}
    p1 = p1
    p2 = p2
    Procs = {p1, p2}
    None = None
    Templates <- MCTemplates
    FirstTemplate <- MCFirst
    Edits <- MCEdits
    Items <- MCItems
    Merge <- MCMerge
    MergeConflict <- MCConflict
    Ops = {"edit", "publish", "republish", "mutatePublish", "direct", "refresh"}
    MaxEdits = 2
    MaxConsole = 1
    MaxFaults = 0
SYMMETRY ProcSymmetry
CHECK_DEADLOCK FALSE
PROPERTIES
    LostOnlyAfterRecheck
    RegisterSpec
