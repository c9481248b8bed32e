SPECIFICATION Spec
CONSTANTS
    Pool <- MCPool
    NumColors = 3
    Id = {x, y}
    InodePage = {f, g}
    Proc = {p1, p2}
    Nobody = Nobody
    MaxCount = 1
SYMMETRY MCSymmetry
INVARIANTS
    TypeOK
    PageListsSound
    PagesAccounted
    OneCopyCached
    IdsUnique
    ColorHeap
    FailsOnlyWhenEmpty
CHECK_DEADLOCK FALSE
