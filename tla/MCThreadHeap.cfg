CONSTANTS
  t1 = t1
  t2 = t2
  t3 = t3
  t4 = t4
  t5 = t5
  t6 = t6
  Threads <- SixThreads
  Keys <- ThreeKeys
  UintRange = 8
  NULL = NULL
SYMMETRY Sym
CONSTRAINT FewUnlike
SPECIFICATION Spec
INVARIANTS TypeOK IndexFindsThread HeadIsBest
PROPERTY ImplementsReadyQueue
