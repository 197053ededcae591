SPECIFICATION FairSpec
CONSTANTS
    r1 = r1
    r2 = r2
    r3 = r3
    k1 = k1
    k2 = k2
    Requests = {r1, r2, r3}
    Keys = {k1, k2}
    KeyOf <- MCKeyOf
    Replayable = {r1}
    Cancelable = {r1}
    MaxConcurrent = 1
    Interval = 1
    Cooldown = 1
    MaxAttempts = 2
    Delays = {1}
    RetryAfters = {1, 2}
CHECK_DEADLOCK FALSE
INVARIANT
    RetryAfterHonoured
PROPERTY
    Ends
