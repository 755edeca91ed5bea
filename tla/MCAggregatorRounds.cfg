SPECIFICATION Spec
CONSTANTS
    d1 = d1
    d2 = d2
    d3 = d3
    r1 = r1
    r2 = r2
    m1 = m1
    m2 = m2
    NoResult = NoResult
    Delegates = {d1, d2}
    Results = {r1}
    Masters = {m1}
    Soundness = {TRUE}
    Parallelism = 2
    MasterCounts = {1, 3}
    ContactCounts = {1, 2}
    MaxPasses = 2
    MaxGathers = 2
INVARIANTS TypeOK CountedOnce HeardAlike
PROPERTIES GatherEnds
CHECK_DEADLOCK FALSE
