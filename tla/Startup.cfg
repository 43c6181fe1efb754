CONSTANTS
  Threads = {t1, t2, t3}
  Mutexes = {m1, m2}
  MaxFails = 1
  Execs = {x1, x2, x3}
  MaxOps = 5
  Null = Null
SPECIFICATION Spec
INVARIANT RtIInv
INVARIANT NoneSkipped
PROPERTY ImplementsOnceInit
PROPERTY EveryCallEnds
PROPERTY WalkEnds
