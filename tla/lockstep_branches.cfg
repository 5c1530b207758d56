SPECIFICATION BothSpec
CONSTANTS
    Base = 4
    Nibble = 2
    Pc = 5
    Programs <- Branches
    Inlined <- NeutralOps
    CacheSize = 4
    NumRegs = 6
    MaxFrames = 1
    Trusting = FALSE
INVARIANTS DropIn
