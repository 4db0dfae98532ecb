CONSTANTS
  d1 = d1
  d2 = d2
  DBs <- MCDBs
  MemLimit = 0
  L0Trigger = 2
  MaxWrites <- MCMaxWrites
  NoDB = NoDB
SPECIFICATION FairSpec
INVARIANTS TypeOK SingleTask DestroyedIsQuiet NoLostWakeup NoForgottenWork
PROPERTIES DestructorReturns WorkIsDone
