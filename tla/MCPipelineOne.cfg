SPECIFICATION FairSpec
CONSTANTS
    x = x
    y = y
    root = root
    v1 = v1
    v2 = v2
    v3 = v3
    inapp = inapp
    empty = empty
    XValues = {v1, v2, v3}
    p1 = p1
    p2 = p2
    Procs = {p1}
    None = None
    Templates <- MCTemplates
    FirstTemplate <- MCFirst
    Edits <- MCEdits
    Items <- MCItems
    Merge <- MCMerge
    MergeConflict <- MCConflict
    Ops = {"edit", "mutate", "publish", "mutatePublish", "direct", "refresh", "note", "discard"}
    MaxEdits = 2
    MaxConsole = 1
    MaxFaults = 1
CHECK_DEADLOCK FALSE
INVARIANTS
    NoRedundantVersion
    OnlyIntendedChanges
    PublishedAsShown
PROPERTIES
    DraftNotLost
    DraftResolves
