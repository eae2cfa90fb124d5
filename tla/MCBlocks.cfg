SPECIFICATION MCSpec
CONSTANTS
    Parts = {"extents", "mkfs", "cache", "jbd"}
    Files = {f1}
    Libs = {d1}
    BlocksPerGroup = 6
    NBlocks = 14
    Meta = {0, 1, 6, 12}
    RootCap = 1
    NodeCap = 2
    MaxLen = 2
    Chunk = 2
    MaxSize = 5
    RootIno = 2
    FirstIno = 3
    Lbas = {1, 2}
    Marked = {1}
    Cnt = 2
    MaxVal = 1
    MaxRef = 2
    First = 1
    LogEnd = 8
    TagMax = 1
    MaxVer = 2
    MaxTx = 2
    MaxCrash = 1
    MaxErr = 1
    Restart = FALSE
    Off = Off
INVARIANTS
    MapCorrect
    MkfsCorrect
    CacheCorrect
    
PROPERTIES
    MapImplementsBlockMap
