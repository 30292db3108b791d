SPECIFICATION Spec
CONSTANTS
  NumLists = 4
  SearchedLists = 3
  ClassLimit <- MCClassLimit
  WORD = 4096
  MaxHeap = 152
  Ids = {a, b, c}
  Sizes = {0, 1, 40, 100}
  Counts = {0, 2}
SYMMETRY Symmetry
INVARIANTS TypeOK HeapTiled ListsSound ListsComplete ClientOwnsAllocated PayloadsSafe
PROPERTIES NoAvoidableGrowth KeepsContract
