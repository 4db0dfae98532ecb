CONSTANTS
  h1 = h1
  Keys <- WideKeys
  Handles = {}
  NoSnapshot = NoSnapshot
  NumLevels = 3
  MemSizes = {1,2,3}
  L0Trigger = 1
  MaxBytes <- MCMaxBytes
  MaxFileSize = 2
  GrandLimit = 1
  ExpandLimit = 9
  MayFail = FALSE
  MaxWrites = 7
  Workload <- WideWorkload
SPECIFICATION FairSpec
INVARIANT LevelsDisjoint
PROPERTIES ImplementsKV CompactionSettles
