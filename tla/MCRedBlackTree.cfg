SPECIFICATION FairSpec
CONSTANTS
    Node <- MCNode
    Readable <- MCReadable
INVARIANTS
    TypeOK
    LinksMutual
    SearchTree
    Balanced
PROPERTY EveryCallReturns
CHECK_DEADLOCK FALSE
