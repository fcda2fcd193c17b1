SPECIFICATION Spec
CONSTANTS
    Invites = {i1, i2}
    SignUps = {s1}
    Workers = {w1}
    Threads = 2
    MaxLeft = 1
    None = None
INVARIANTS
    AddressConsistent
    DeletedStaysOut
    VerifiedIsConfirmed
CHECK_DEADLOCK FALSE
