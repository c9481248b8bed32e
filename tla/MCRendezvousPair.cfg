SPECIFICATION FairSpec
CONSTANTS
    Cpu <- MCCpu
    max <- MCMax
    MaxJoins <- MCMaxJoins
INVARIANTS
    TypeOK
    NobodyLeftBehind
PROPERTIES
    ImplementsCpuBarrier
    EveryJoinReturns
