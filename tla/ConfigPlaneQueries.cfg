SPECIFICATION Spec
CONSTANTS
    Admins = {a1, a2}
    Main = main
    Queries = {q1}
    Domains = {d1}
    MaxStored = 1
    MaxRequests = 1
    MaxCrashes = 1
    Nil = Nil
SYMMETRY Symmetry
INVARIANTS
    QueryFresh
    IndInv
