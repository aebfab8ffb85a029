SPECIFICATION StoreSpec
CONSTANTS
    Clients = {c1, c2}
    Ttls <- MCTtls
    DefaultTtl = 3
    TtlBits = 3
    MaxRequests = 3
    Nil = Nil
SYMMETRY Symmetry
INVARIANTS
    RowNormalised
    TtlSettles
    StoreIndInv
PROPERTIES
    ColumnsExplained
CHECK_DEADLOCK FALSE
