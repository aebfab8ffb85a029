SPECIFICATION FairSpec
CONSTANTS
    Goroutines = {g1}
    Buffers = {b1, b2}
    BufSize = 1
    MaxLines = 2
    MaxDay = 1
    StdoutFaults = FALSE
    Nil = Nil
PROPERTIES
    LogCallsReturn
CHECK_DEADLOCK FALSE
