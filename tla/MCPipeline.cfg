SPECIFICATION Spec
CONSTANTS
    m1 = m1
    m2 = m2
    d1 = d1
    d2 = d2
    Masters = {m1, m2}
    Processors = {m1}
    Delegates = {d1}
    NoBlock = NoBlock
    TxPerBlock = 2
    ExpiredBatch = 0
    BatchSize = 2
    MaxQueue = 2
    MaxTxs <- RoundsMaxTxs
    MaxFlight <- RoundsMaxFlight
    MaxNow = 1
INVARIANTS TypeOK DoublesOnlyAfterReset ExecutedOnce SameRoundElsewhere
CHECK_DEADLOCK FALSE
