SPECIFICATION Spec
CONSTANTS
  NumLists = 14
  SearchedLists = 12
  ClassLimit <- MCClassLimit
  WORD = 4194304
  MaxHeap = 200100
  Ids = {a, b}
  Sizes = {1000, 65528, 65529, 131100}
  Counts = {1}
SYMMETRY Symmetry
PROPERTIES NoAvoidableGrowth
