SPECIFICATION Spec
CONSTANTS
    t1 = t1
    t2 = t2
    t3 = t3
    Irq = Irq
    Nobody = Nobody
    Thread <- Two
    NumMod <- Width
    TimerMod <- Width
INVARIANT
    NobodySleepsForFreeMutex
CHECK_DEADLOCK FALSE
