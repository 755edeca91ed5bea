SPECIFICATION Spec
CONSTANTS
    NWorker = 3
    PerDelegate = 2
    Tries = 3
    Parallelism = 4
    t1 = t1
    t2 = t2
    t3 = t3
    t4 = t4
    k1 = k1
    k2 = k2
    Txs = {t1, t2, t3, t4}
    Keys = {k1, k2}
    Reads <- MCReads
    Writes <- MCWrites
    Works <- MCWorks
    MaxRounds = 2
INVARIANTS TypeOK ResultsOfOwnBatch AnsweredUnlessClash OnlyConflictsRaise
PROPERTIES ExecutionEnds
CHECK_DEADLOCK FALSE
