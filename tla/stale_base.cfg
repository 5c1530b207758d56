SPECIFICATION BothSpec
CONSTANTS
    Base = 4
    Nibble = 2
    Pc = 5
    Programs <- Branches
    Inlined <- ReturnOps
    CacheSize = 4
    NumRegs = 6
    MaxFrames = 0
    Trusting = FALSE
INVARIANTS DropIn
