SPECIFICATION BoundedSpec
CONSTANTS
    a1 = a1
    a2 = a2
    a3 = a3
    Addr <- Addr3
    None = None
    MaxLinks = 2
    MaxJumps = 3
    Hash <- CollidingHash
    NumBits = 2
INVARIANTS TypeOK Ownership NoUseAfterFree Linked BlocksCounted MapFinds
PROPERTIES CompiledOnce Returns Serves
