SPECIFICATION Spec
CONSTANTS
    t1 = t1
    t2 = t2
    t3 = t3
    Irq = Irq
    Nobody = Nobody
    Thread <- Three
    NumMod <- Width
    TimerMod <- Width
SYMMETRY Sym
INVARIANTS
    TypeOK
    MutualExclusion
    QueuedOnce
CHECK_DEADLOCK FALSE
