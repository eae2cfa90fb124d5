CONSTANTS
  t1 = t1
  t2 = t2
  c1 = c1
  c2 = c2
  c3 = c3
  a = a
  b = b
  Off = Off
  Nil = Nil
  Junk = Junk
  Threads = {t1, t2}
  PerSlab = 1
  InitSlabs = 2
  MaxSlabs = 3
  MaxVer = 9
SPECIFICATION MCSpec
CHECK_DEADLOCK FALSE
INVARIANTS
    
    
    SlabCorrect

    
