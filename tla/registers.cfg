SPECIFICATION Spec
CONSTANTS
    Base = 1
    Nibble = 1
    Pc = 0
    Programs <- WorkingStack
    Inlined = {}
    CacheSize = 4
    NumRegs = 6
    MaxFrames = 0
    Trusting = FALSE
INVARIANTS TypeOK NoAssert FlushedPrefix
