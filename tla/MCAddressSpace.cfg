SPECIFICATION SpaceSpec
CONSTANTS
    Node <- MCNode
    Readable <- MCNode
    Obj = {o1, o2}
    ObjSize <- MCObjSize
    Address <- MCAddress
INVARIANT TreeHoldsMappings
