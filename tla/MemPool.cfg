SPECIFICATION Spec
CONSTANTS
  Table = 7
  Word = 65536
  Sizes = {0, 1, 32, 33, 64, 96, 100}
INVARIANTS TypeOK NoOverlap TableAgrees SearchIsComplete
PROPERTY IsAllocator
