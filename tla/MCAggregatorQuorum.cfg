SPECIFICATION Spec
CONSTANTS
    d1 = d1
    d2 = d2
    d3 = d3
    r1 = r1
    r2 = r2
    m1 = m1
    m2 = m2
    NoResult = NoResult
    Delegates = {d1, d2, d3}
    Results = {r1, r2}
    Masters = {m1, m2}
    Soundness = {TRUE}
    Parallelism = 2
    MasterCounts = {2}
    ContactCounts = {3}
    MaxPasses = 1
    MaxGathers = 1
INVARIANTS TallyExact BestIsMaximal Vouched Agreement
PROPERTIES DecisionStable
SYMMETRY MCSymmetry
CHECK_DEADLOCK FALSE
