SPECIFICATION FairSpec
CONSTANTS
    a = a
    b = b
    m1 = m1
    Phones = {a, b}
    Own = a
    Messages = {m1}
    Nobody = Nobody
    MaxWrites = 3
    MaxAnswers = 4
    MaxTroubles = 2
    MaxDeletes = 2
INVARIANTS TypeOK ConfirmedIsStored DeletedStaysDeleted RestingPhonesAgree
PROPERTIES PhoneIsClient EchoStays Convergence
CHECK_DEADLOCK FALSE
