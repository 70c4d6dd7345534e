\* Two threads, each sending its request twice.
SPECIFICATION FairSpec
CONSTANTS
  T1 = T1
  T2 = T2
  Threads <- MCThreads
  Budget = 2
  Nil = Nil
INVARIANTS TypeOK NoDanglingLocals OwnAnswer
PROPERTY Returns
CHECK_DEADLOCK FALSE
