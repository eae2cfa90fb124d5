SPECIFICATION Spec
CONSTANTS
    Inodes = {f1}
    Pages = {1, 2}
    Grows = {FALSE}
    Sb = 4
    Nr = 40
    SlotBlks = 2
    SeqMax = 2
    DescTags = 2
    EtagTags = 2
    IrdEnts = 2
    Threads = 2
    MaxWrites = 1
    MaxStx = 2
    MaxTid = 1
INVARIANTS ProcessedDurable
CHECK_DEADLOCK FALSE
