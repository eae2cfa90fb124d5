SPECIFICATION MCSpec
CONSTANTS
    Parts = {"journal", "buffers", "sync"}
    d0 = d0
    d1 = d1
    DF = {d0, d1}
    i1 = i1
    i2 = i2
    Inodes = {i1, i2}
    t1 = t1
    t2 = t2
    Threads = {t1, t2}
    ChunkBlks = 2
    MaxBlks = 3
    MaxObj = 3
    u1 = u1
    u2 = u2
    Scripts <- TwoThreads
    NPages = 4
    MaxVecs = 2
    MaxWrites = 4
    Off = Off
SYMMETRY Symmetry
INVARIANTS
    JoinedNotBuilt
    BuildComplete
    BuffersCorrect
    PagesHandedOnce
PROPERTIES
    FilesFrozen
    
