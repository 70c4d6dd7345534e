\* Two threads, two calls each, every method.
SPECIFICATION FairSpec
CONSTANTS
  T1 = T1
  T2 = T2
  Threads <- MCThreads
  Budget = 2
  NoThread = NoThread
INVARIANTS TypeOK FreedOnce NoUseAfterFree NoSharedNode NothingLost
PROPERTY Returns
CHECK_DEADLOCK FALSE
