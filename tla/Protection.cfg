SPECIFICATION Spec
CONSTANTS
    h1 = h1
    h2 = h2
    h3 = h3
    h4 = h4
    Hits = {h1, h2, h3, h4}
    NoPromise = NoPromise
    UnitsPerSecond = 2
    WindowSeconds = 2
    MaxRequests = 2
    MaxTime = 10
    Asks = {h1, h2, h3, h4}
    Orgs = {o1, o2}
    o1 = o1
    o2 = o2
    Length <- MCLength
    Configs <- MCConfigs
    DefaultConfig <- MCDefaultConfig
    MaxNow = 6
    Callers = {c1, c2, c3}
    c1 = c1
    c2 = c2
    c3 = c3
    FailureThreshold = 2
    RecoveryTimeout = 2
    NoOne = NoOne
    RuleAgents = {"aura", "nova", "sage"}
    RuleOrgs = {"acme"}
    Rules <- MCRules
    Confidences = {40, 70, 90, 97}
    Approvals = {a1, a2}
    a1 = a1
    a2 = a2
    Users = {ann, bob}
    ann = ann
    bob = bob
    Sessions = {s1}
    s1 = s1
    None = None
    Messages <- MCMessages
    Texts <- MCTexts
    MaxTurns = 3
    MaxRestarts = 1
    Nodes = {n1, n2, n3}
    Foreign = {x}
    Idle = Idle
INVARIANTS
    RetryHonoured
    ProbesSpaced
    PlannedIsHandled
    DependenciesFirst
    OnlyStuckLeftOut
PROPERTIES
    ExecutionEnds
    KeepsTheLimit
    KeepsTheQuotas
    Recovers
    RulesOnlyTighten
CHECK_DEADLOCK FALSE
