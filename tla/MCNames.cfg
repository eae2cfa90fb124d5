SPECIFICATION MCSpec
CONSTANTS
    PerGroup = 3
    NGroups = 2
    Names = {a, b}
    Stale = {2, 3}
    Readers = {r1, r2}
    MaxReqs = 3
    NlinkMod = 8
    Unused = unused
    Off = Off
SYMMETRY Symmetry
CHECK_DEADLOCK FALSE
INVARIANTS
    
    DirCorrect
