SPECIFICATION Spec
CONSTANTS
    Cpu <- MCCpu
    max <- MCMax
INVARIANT
    RendezvousWorks
CHECK_DEADLOCK FALSE
