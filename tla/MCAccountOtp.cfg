SPECIFICATION Spec
CONSTANTS
    a = a
    b = b
    r1 = r1
    r2 = r2
    r3 = r3
    Emails = {a}
    Attempts = {r1, r2}
    Nobody = Nobody
    Elsewhere = Elsewhere
PROPERTIES DashboardNeedsAccount
