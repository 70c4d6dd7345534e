\* Two threads, two uses each of any class; loading may fail.
SPECIFICATION FairSpec
CONSTANTS
  T1 = T1
  T2 = T2
  Threads <- MCThreads
  Uses = 2
  LoadMayFail = TRUE
  None = None
INVARIANTS TypeOK LoadedOnce NativesLinked
PROPERTY UseEnds
CHECK_DEADLOCK FALSE
