SPECIFICATION Spec
CONSTANTS
    p = p
    q = q
    g = g
    root = root
    a = a
    b = b
    c = c
    e1 = e1
    e2 = e2
    v1 = v1
    v2 = v2
    managed = managed
    inapp = inapp
    empty = empty
    desc = desc
    none = none
    Params = {p, q}
    Groups = {g}
    Root = root
    CondSeq <- MCCondSeq
    Exprs = {e1, e2}
    NonPortable = {e2}
    PlainValues = {v1, v2}
    InAppDefault = inapp
    OpaqueValues = {managed}
    Descs = {empty, desc}
    EmptyDesc = empty
    None = none
    Sources <- MCSources
    Targets <- MCTargets
    Drafts <- MCDrafts
    MaxOthers = 2
    MaxLost = 2
CHECK_DEADLOCK FALSE
PROPERTIES
    ManagedValuesGuarded
