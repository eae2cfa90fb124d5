SPECIFICATION Spec
CONSTANTS
    SeqCap = 4
    RingCap = 2
    SeThreads = 2
    RdThreads = 1
    HwQpairs <- MCHwQpairs
    FS = {f1}
    NPages = 4
    FileBlks = 3
    ExtEnd <- MCExtEnd
    NoMap = {}
    MallocFails = {"bio"}
    GrpPages = 2
    MaxIo = 1
    TargetQd = 2
    BatchMax = 2
    MsgBatch = 2
    BudgetNormal = 2
    BudgetFsync = 1
    PumpMax = 0
    PumpPct = 50
    MinQuota = 1
    ChunkBlks = 2
    AdminBlks = 3
    SeqsPerFsync = 2
    MaxWindow = 3
    Workloads <- MCWorkloads
CHECK_DEADLOCK FALSE

    
PROPERTIES
    ReadsEnd
