SPECIFICATION Spec
CONSTANTS
    Admins = {a1, a2}
    Main = main
    Queries = {}
    Domains = {d1}
    MaxStored = 1
    MaxRequests = 2
    MaxCrashes = 0
    Nil = Nil
SYMMETRY Symmetry
INVARIANTS
    AckedServed
    StaleExplained
    FreshCacheIsTable
PROPERTIES
    NoResurrection
    ImplementsRegister
