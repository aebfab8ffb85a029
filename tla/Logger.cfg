SPECIFICATION FairSpec
CONSTANTS
    Goroutines = {g1}
    Buffers = {b1, b2}
    BufSize = 1
    MaxLines = 2
    MaxDay = 1
    StdoutFaults = TRUE
    Nil = Nil
INVARIANTS
    LinesKept
    OnlyReusedLinesLost
    ShutdownSaves
    IndInv
PROPERTIES
    CallsReturnUnlessWedged
    SignalEndsProcess
CHECK_DEADLOCK FALSE
