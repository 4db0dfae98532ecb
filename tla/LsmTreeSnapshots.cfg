CONSTANTS
  h1 = h1
  Keys <- MCKeys
  Handles = {h1}
  NoSnapshot = NoSnapshot
  NumLevels = 3
  MemSizes = {1}
  L0Trigger = 1
  MaxBytes <- MCMaxBytes
  MaxFileSize = 1
  GrandLimit = 1
  ExpandLimit = 5
  MayFail = TRUE
  MaxWrites = 4
  Workload <- MCWorkload
SPECIFICATION Spec
INVARIANT SnapshotReadsAgree
