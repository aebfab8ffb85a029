SPECIFICATION FairSpec
CONSTANTS
    Admins = {a1, a2}
    Main = main
    Queries = {q1}
    Domains = {d1}
    MaxStored = 0
    MaxRequests = 1
    MaxCrashes = 0
    Nil = Nil
PROPERTIES
    QueriesAnswered
    HandlersAnswer
    CacheConverges
