SPECIFICATION Spec
CONSTANTS
    Requests = {r1, r2, r3}
    Threads = 2
    None = None
    Seeded = Seeded
    First = First
    Agents = {a1}
    Practitioners = {p1, p2}
    Amounts = {1, 2}
    Purchased = 2
INVARIANTS
    LedgerCoversTotals
PROPERTIES
    LimitsAreChecked
CHECK_DEADLOCK FALSE
