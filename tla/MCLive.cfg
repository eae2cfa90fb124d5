SPECIFICATION MCSpec
CONSTANTS
    DF = {d0, d1}
    MaxData = 2
    MaxMeta = 2
    MaxTx = 2
    LogSize = 6
    Workers = 2
    Trigger = 2
    Word = 64
    Inodes = {i1}
    Threads = {t1, t2}
    MaxBlks = 2
    MaxObj = 3
    Readers = {1, 2}
    MaxEvents = 1
    Off = Off
INVARIANTS
    LifeCorrect
    SetupCorrect
PROPERTIES
    DevfsProgress
    DrainEnds
    ShutdownEnds
