SPECIFICATION MCSpec
CONSTANTS
    Parts = {"journal", "coalesce", "plain"}
    d0 = d0
    d1 = d1
    DF = {d0, d1}
    ChunkBlks = 2
    MaxData = 3
    MaxMeta = 2
    MaxTx = 3
    LogSize = 8
    Workers = 2
    Trigger = 2
    Word = 64
    FsBlks = 4
    StageFirst = 10
    StageLast = 18
    JFirst = 20
    JLast = 24
    Slots = {1, 2}
    MaxStageTx = 2
    MaxTags = 3
    MaxCnt = 3
    BufBlks = 3
    PlainTags = 2
    Off = Off
SYMMETRY LogSymmetry
INVARIANTS
    CommitOrder
    FreeAccounting
    CommittedRecoverable
    NoInternalFailure
    CoalesceCorrect
    PlainCorrect
PROPERTIES
    CheckpointOrder
    HeadStable
