SPECIFICATION Spec
CONSTANTS
    Masters = {m1, m2}
    Delegates = {}
    Seed = m1
    Bodies = {b1, b2}
    NoBody = NoBody
    MaxQueue <- MCMaxQueue
    MaxSeedQueue = 0
    MaxOtherQueue = 1
    MaxHeight = 2
    MaxStarts = 3
    Crashing = {m2}
PROPERTIES ImplementsLedger
SYMMETRY MCSymmetry
CHECK_DEADLOCK FALSE
