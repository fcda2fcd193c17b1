SPECIFICATION Spec
CONSTANTS
    Requests = {r1, r2, r3, r4}
    Threads = 2
    None = None
    Window = 2
    PageSize = 1
    MaxSize = 3
    Seeded = Seeded
    Files = {f1}
    PasswordSet = {"p1", "p2", "p3"}
    FirstPassword = "p1"
    Providers = {google, facebook}
    Subs = {s1, s2, s3}
    OwnSub = s0
    Emails = {e1, e2}
    UserIds = {u1, u2}
    Ttl = 2
    CacheMax = 2
    MaxClock = 3
    ConfigTtl = 2
    MaxConfigs = 3
    MaxUptime = 5
SYMMETRY Symmetry
INVARIANTS
    UniqueUnlessOverlapped
    ScrollComplete
    ApprovedIsRemembered
    PasswordsAgree
    TokensNameUser
    CachesFresh
PROPERTIES
    NeverBack
CHECK_DEADLOCK FALSE
