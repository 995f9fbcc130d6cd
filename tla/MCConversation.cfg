SPECIFICATION FairSpec
CONSTANTS
    m1 = m1
    m2 = m2
    Messages = {m1, m2}
    NoMessage = NoMessage
    Time <- MCTime
    MaxPending = 3
    MaxPresses = 1
    MaxWrites = 1
INVARIANTS TypeOK TableMatchesData NoVersionMix RestingListIsComplete
PROPERTIES SettledPressTakesShownMessage EveryMessageShown
CHECK_DEADLOCK FALSE
