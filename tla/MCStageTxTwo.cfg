SPECIFICATION FairSpec
CONSTANTS
    Inodes = {f1}
    Pages = {1}
    Grows = {TRUE}
    Sb = 4
    Nr = 40
    SlotBlks = 2
    SeqMax = 2
    DescTags = 9
    EtagTags = 2
    IrdEnts = 2
    Threads = 2
    MaxWrites = 1
    MaxStx = 2
    MaxTid = 1
CHECK_DEADLOCK FALSE
INVARIANTS
    StageCorrect
PROPERTIES
    StageProgress
