SPECIFICATION Spec
CONSTANTS
    v1 = v1
    v2 = v2
    VM <- Both
    PerfVM <- One
    None = None
    ChunkSize = 2
    ZeroPage = 1
    Entries = {1}
    CallOps = {2, 3}
    Symtabs <- DebugFiles
    Labels <- LabelMaps
    MaxBlocks = 1
    MaxOpcodes = 2
INVARIANTS ClosedForGood
CHECK_DEADLOCK FALSE
