CONSTANTS
  k1 = k1
  k2 = k2
  Keys <- MCKeys
  KeyOf <- MCKeyOf
  MemLimit = 1
  MaxWrites = 4
  MaxCrashes = 2
  MaxCompactions = 1
SPECIFICATION Spec
INVARIANT OnlyUnneededRemoved
