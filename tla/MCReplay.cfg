SPECIFICATION LibcSpec
CONSTANTS
  NumLists = 3
  SearchedLists = 2
  ClassLimit <- MCClassLimit
  WORD = 4096
  MaxHeap = 104
  Files <- MCFiles
  MaxOps = 4
  Sizes = {0, 8, 24, 40}
  maxfill = 2
  RANDOM_DATA_LEN = 3
  Bases = {0, 2}
  MaxRounds = 2
  Places <- MCPlaces
CHECK_DEADLOCK FALSE
INVARIANTS TypeOK OnlyExhaustion RecordsMatchHeap MeasuredIfValid ReplaysAlike UtilIsPeak LibcBlocksKept
