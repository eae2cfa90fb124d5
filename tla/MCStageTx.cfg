SPECIFICATION Spec
CONSTANTS
    Inodes = {f1}
    Pages = {1, 2}
    Grows = {TRUE, FALSE}
    Sb = 4
    Nr = 40
    SlotBlks = 2
    SeqMax = 2
    DescTags = 2
    EtagTags = 2
    IrdEnts = 2
    Threads = 1
    MaxWrites = 2
    MaxStx = 2
    MaxTid = 2
CHECK_DEADLOCK FALSE
INVARIANTS
    StageCorrect
    FsyncDurable
    LayoutAgrees
