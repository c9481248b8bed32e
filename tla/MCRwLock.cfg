SPECIFICATION FairSpec
CONSTANTS
    t1 = t1
    t2 = t2
    t3 = t3
    NoProc = NoProc
    Proc <- MCProc
    CountMod <- MCCountMod
INVARIANTS
    TypeOK
    CountExact
    NoLostWakeup
PROPERTIES
    EveryRequestServed
    ImplementsSharedLock
