SPECIFICATION Spec
CONSTANTS
    m1 = m1
    d1 = d1
    j1 = j1
    j2 = j2
    None = None
    Constitution = {m1}
    Joiners = {j1, j2}
    Boot <- MCBoot
    Delegates = {j1}
    Adviser = m1
    Movers = {j1}
    MaxMoves = 1
INVARIANTS TypeOK KnownUnlessMissed
PROPERTY NodesComeUp
CHECK_DEADLOCK FALSE
