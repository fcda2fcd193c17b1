SPECIFICATION FairSpec
CONSTANTS
    Procs = {p1, p2}
    Convs = {c1, c2}
    Msgs = {m1, m2}
    None = None
    Custom = Custom
INVARIANTS
    TitleFromFirstMessage
    AudioBacked
PROPERTIES
    IsLog
    AudioSettles
CHECK_DEADLOCK FALSE
