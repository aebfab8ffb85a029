SPECIFICATION FairSpec
CONSTANTS
    Clients = {c1, c2}
    Users = {admin, bob}
    Passes = {p0, p1}
    DefaultUser = admin
    DefaultPass = p0
    Blank = Blank
    MaxRequests = 2
    MaxCrashes = 1
    Nil = Nil
INVARIANTS
    AdmittedCurrent
    IndInv
PROPERTIES
    ChangedByVerified
    ImplementsAccount
    RequestsAnswered
CHECK_DEADLOCK FALSE
