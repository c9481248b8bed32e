CONSTANTS
    a = a
    b = b
    c = c
    Nobody = Nobody
    Thread = {a, b, c}
    Soft <- MCSoftTwo
    PriorityBoost = 0
    MaxPow = 1
    UintRange = 8
    Slices = {1}
    LoadRange = 1
    MaxOverrun = 0
    MaxBalancing = 1
SPECIFICATION FairSpec
CONSTRAINT OneAway
INVARIANTS TypeOK  
PROPERTY EveryThreadRuns
CHECK_DEADLOCK FALSE
