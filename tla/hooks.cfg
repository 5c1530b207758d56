SPECIFICATION FairSpec
CONSTANTS
    v1 = v1
    v2 = v2
    VM <- Both
    PerfVM <- One
    None = None
    ChunkSize = 2
    ZeroPage = 1
    Entries = {0, 1}
    CallOps = {2, 3}
    Symtabs <- DebugFiles
    Labels <- LabelMaps
    MaxBlocks = 3
    MaxOpcodes = 3
INVARIANTS TypeOK ChunksOwned OwnMappings GdbKnows Attached Shown Dumped Named Lookup
PROPERTIES Announced
CHECK_DEADLOCK FALSE
