SPECIFICATION FairSpec
CONSTANTS
    Top = 3
    Zero = 1
    Programs <- SmallPrograms
    MaxRst = 3
    MaxDrops = 1
INVARIANTS TypeOK NativeDepth
PROPERTIES Interpreter Unwinds
CHECK_DEADLOCK FALSE
