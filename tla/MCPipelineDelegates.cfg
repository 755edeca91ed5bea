SPECIFICATION Spec
CONSTANTS
    m1 = m1
    m2 = m2
    d1 = d1
    d2 = d2
    Masters = {m1}
    Processors = {m1}
    Delegates = {d1, d2}
    NoBlock = NoBlock
    TxPerBlock = 2
    ExpiredBatch = 0
    BatchSize = 2
    MaxQueue = 2
    MaxTxs <- DelegatesMaxTxs
    MaxFlight <- DelegatesMaxFlight
    MaxNow = 0
INVARIANTS LockedIsUnderWay
PROPERTIES NonceBackOnlyIfOutdated
SYMMETRY Symmetry
CHECK_DEADLOCK FALSE
