SPECIFICATION MCSpec
CONSTANTS
    Workers = {w1, w2}
    Pool = {0, 1}
    Ras = {r1, r2}
    MaxIo = 2
    Off = Off
CHECK_DEADLOCK FALSE
INVARIANTS
    
    LocalCorrect
PROPERTIES
    EnginesProgress
