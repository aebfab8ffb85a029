SPECIFICATION FairSpec
CONSTANTS
    Questions = {q1, q2}
    Budget = 1
    Timeout = 1
    MaxAsked = 2
    MaxReloads = 1
    Nil = Nil
INVARIANTS
    WithinBudget
    ForwardOutcome
    LocalOnlyIfPresent
    CountersAgree
    IndInv
PROPERTIES
    QuestionsEnd
CHECK_DEADLOCK FALSE
