SPECIFICATION Spec
CONSTANTS
    a = a
    b = b
    r1 = r1
    r2 = r2
    r3 = r3
    Emails = {a, b}
    Attempts = {r1, r2, r3}
    Nobody = Nobody
    Elsewhere = Elsewhere
SYMMETRY Symmetries
INVARIANTS TypeOK ProfilesAreWhole RememberedIsRegistered DashboardKnowsUser
PROPERTIES ProfilesAreFinal
