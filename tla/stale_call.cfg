SPECIFICATION BothSpec
CONSTANTS
    Base = 4
    Nibble = 2
    Pc = 5
    Programs <- StaleCall
    Inlined <- BrkOps
    CacheSize = 4
    NumRegs = 6
    MaxFrames = 1
    Trusting = TRUE
INVARIANTS DropIn
