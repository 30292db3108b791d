SPECIFICATION Spec
CONSTANTS
  NumLists = 3
  SearchedLists = 2
  ClassLimit <- MCClassLimit
  WORD = 4096
  MaxHeap = 72
  Ids = {0, 1}
  Sizes = {0, 8, 12, 40}
  Counts = {5}
INVARIANT DataIntact
PROPERTY ImplementsBlocks
