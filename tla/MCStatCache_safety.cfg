SPECIFICATION FairSpec
CONSTANTS
    Thread = {t1, t2, t3}
    Key = {k1}
    Lock = {l1, l2}
    NoLock = NoLock
    NoThread = NoThread
    MaxKeys = 2
    TTL = 1
    MaxStale = 2
    MaxNow = 2
    MaxData = 1
INVARIANTS OneComputation NeverAhead
PROPERTIES NoRegress AnswerRecent Answered
