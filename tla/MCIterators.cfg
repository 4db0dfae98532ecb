SPECIFICATION Spec
CONSTANTS
  ListHead = ListHead
  Nil = Nil
  MaxHeight = 2
  BlockSize = 3
  RestartInterval = 2
  MaxSequence = 99
  UserKeys <- MCUserKeys
  Targets <- MCTargets
  Contents <- MCContents
  MaxWrites = 1
INVARIANTS
  TypeOK
  CursorExact
  NothingSkipped
  SearchExact
