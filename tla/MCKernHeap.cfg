SPECIFICATION Spec
CONSTANTS
    HeapStart = 32
    HeapSize = 32
    LargestBlock = 16
    EmergencyStore = 4
    Width = 7
    Requests = {1, 2, 3, 4, 7, 8, 13, 19}
INVARIANTS TypeOK NoOverlap EveryWordAccounted FreeBlocksFit HeapMergesBack
CHECK_DEADLOCK FALSE
