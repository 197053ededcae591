SPECIFICATION Spec
CONSTANTS
    p = p
    q = q
    g = g
    h = h
    root = root
    v1 = v1
    v2 = v2
    inapp = inapp
    managed = managed
    empty = empty
    desc = desc
    none = none
    Params = {p, q}
    Groups = {g, h}
    Root = root
    CondSeq <- MCCondSeq
    Exprs = {}
    PlainValues = {v1, v2}
    InAppDefault = inapp
    OpaqueValues = {managed}
    Descs = {empty, desc}
    EmptyDesc = empty
    None = none
    Seeds <- MCSeeds
    MaxLocal = 2
    MaxRemote = 1
CHECK_DEADLOCK FALSE
INVARIANTS
    TypeOK
    MergeKeepsBothSides
    OneHomePerParameter
    RetryIsIdempotent
PROPERTY
    GroupsGoByRequest
