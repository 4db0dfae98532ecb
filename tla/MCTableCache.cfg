SPECIFICATION Spec
CONSTANTS
  e1 = e1  e2 = e2  e3 = e3  e4 = e4
  f1 = f1  f2 = f2  f3 = f3  user = user  background = background
  NoEntry = NoEntry  NoKey = NoKey
  Entries <- MCEntries
  Keys <- MCKeys
  Threads <- MCThreads
  Charges = {1, 2}
  Capacity = 2
  MaxHandles = 2
SYMMETRY Symmetry
INVARIANTS TypeOK TableExact RefsExact ListsExact NotFreedInUse UsageExact DestructorClean
