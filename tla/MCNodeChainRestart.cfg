SPECIFICATION Spec
CONSTANTS
    Masters = {m1}
    Delegates = {d1}
    Seed = m1
    Bodies = {b1}
    NoBody = NoBody
    MaxQueue <- MCMaxQueue
    MaxSeedQueue = 1
    MaxOtherQueue = 2
    MaxHeight = 2
    MaxStarts = 3
    Crashing = {m1, d1}
INVARIANTS TypeOK HeightLagsByTears PaidOnce CompleteOrInterrupted DelegatesFollow
PROPERTIES CatchupEnds
CHECK_DEADLOCK FALSE
