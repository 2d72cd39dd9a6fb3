SPECIFICATION Spec
CONSTANTS
    Thread = {t1, t2, t3}
    Key = {k1, k2}
    Lock = {l1, l2, l3, l4, l5}
    NoLock = NoLock
    NoThread = NoThread
    MaxKeys = 1
    TTL = 1
    MaxStale = 2
    MaxNow = 1
    MaxData = 0
SYMMETRY Symmetry
INVARIANTS OneComputation
