SPECIFICATION Spec
CONSTANTS
    a = a
    b = b
    p = p
    m = m
    t = t
    q = q
    q7 = q7
    Users = {a, b}
    FirstUser = a
    Partners = {p}
    Messages = {m}
    Texts = {t}
    Queries = {q, q7}
    LastQuery = q7
    Nobody = Nobody
    NoMessage = NoMessage
    NoText = NoText
    Placeholder = Placeholder
    Closed = Closed
    AdminBot = AdminBot
    MaxChats = 2
    MaxPending = 3
    MaxWrites = 1
    MaxPresses = 1
    MaxSwitches = 1

PROPERTIES SupportSendsSomething
CHECK_DEADLOCK FALSE
