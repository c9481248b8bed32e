SPECIFICATION Spec
CONSTANTS
    Thread <- MCThread
    Irq <- MCIrq
    NumMod = 4
    TimerMod = 4
INVARIANT AwakeBetweenReleases
CHECK_DEADLOCK FALSE
