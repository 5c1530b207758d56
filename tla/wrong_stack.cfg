SPECIFICATION BothSpec
CONSTANTS
    Base = 2
    Nibble = 2
    Pc = 1
    Programs <- WrongStack
    Inlined = {}
    CacheSize = 4
    NumRegs = 6
    MaxFrames = 0
    Trusting = FALSE
INVARIANTS DropIn
