SPECIFICATION FairSpec
CONSTANTS
    u1 = u1
    u2 = u2
    l1 = l1
    l2 = l2
    l3 = l3
    Users = {u1, u2}
    Lists = {l1, l2, l3}
    Nobody = Nobody
    MaxChanges = 3
INVARIANTS TypeOK SavedOnce ListsOthers
PROPERTIES OfflineKnowsAll ListFills
CHECK_DEADLOCK FALSE
