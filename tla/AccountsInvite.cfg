SPECIFICATION Spec
CONSTANTS
    Invites = {i1}
    SignUps = {s1}
    Workers = {w1}
    Threads = 1
    MaxLeft = 1
    None = None
PROPERTY OnlyUnconfirmedCleanedUp
CHECK_DEADLOCK FALSE
