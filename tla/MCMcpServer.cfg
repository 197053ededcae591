SPECIFICATION FairSpec
CONSTANTS
    o1 = o1
    o2 = o2
    c1 = c1
    c2 = c2
    Ops = {o1, o2}
    Calls = {c1, c2}
    None = None
    MaxJobs = 2
    MaxAsks <- MCMaxAsks
CHECK_DEADLOCK FALSE
INVARIANTS
    Consent
    AnswersMatch
PROPERTY
    Settles
