SPECIFICATION CalmSpec
CONSTANTS
    m1 = m1
    m2 = m2
    m3 = m3
    Messages = {m1, m2, m3}
    NoMessage = NoMessage
    Time <- MCTime
    MaxPending = 3
    MaxWrites = 2
    MaxPresses = 1
INVARIANTS NoMessageListedTwice
PROPERTIES ImplementsBoard
CHECK_DEADLOCK FALSE
