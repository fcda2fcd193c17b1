SPECIFICATION Spec
CONSTANTS
    Docs = {1, 2, 3}
    Reports = {1}
    Kinds = {"coach", "career"}
    Length = 2
    Alone = 2
    MaxFull = 2
    Budget = 1
    MaxForced = 1
    MaxMishaps = 2
    MaxDeleted = 1
    small = small
    half = half
    large = large
    huge = huge
    Ids = {small, half, large, huge}
    Stored = {small, half, large}
    Size <- MCSize
    Retrievals = {r1, r2}
    MaxAsked = 2
    MaxItems = 1
    MaxMemory = 4
    Target = 1
    MaxContent = 3
    Ttl = 1
    MaxTime = 1
    None = None
INVARIANTS
    EveryDocumentHeard
    ForgottenStays
    CacheBounded
    CompleteAnswer
CHECK_DEADLOCK FALSE
