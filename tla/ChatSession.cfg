SPECIFICATION FairSpec
CONSTANTS
    Sessions = {s1, s2}
    Convs = {c1, c2}
    Existing = {c1}
    Device = Device
    Msgs = {m1, m2}
    Initial = 2
    MaxPairs = 1
    MaxStuck = 1
INVARIANTS
    MessagesInPlace
    TurnsInOrder
    RecordingsOwned
    HistoryOfConversation
PROPERTIES
    TurnEnds
CHECK_DEADLOCK FALSE
