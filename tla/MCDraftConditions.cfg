SPECIFICATION Spec
CONSTANTS
    p = p
    g = g
    root = root
    c = c
    d = d
    e1 = e1
    e2 = e2
    v1 = v1
    v2 = v2
    inapp = inapp
    managed = managed
    empty = empty
    none = none
    Params = {p}
    Groups = {g}
    Root = root
    CondSeq <- MCCondSeq
    Exprs = {e1, e2}
    PlainValues = {v1, v2}
    InAppDefault = inapp
    OpaqueValues = {managed}
    Descs = {empty}
    EmptyDesc = empty
    None = none
    Seeds <- MCSeeds
    MaxLocal = 2
    MaxRemote = 2
CHECK_DEADLOCK FALSE
INVARIANTS
    MergeKeepsBothSides
    NoDanglingCondition
    OrderIsSomeones
    ManagedValuesFollowLatest
