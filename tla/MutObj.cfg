\* Every method; keys are distinct and no released byte is read.
SPECIFICATION Spec
CONSTANTS
  O0 = O0
  O1 = O1
  S1 = S1
  S2 = S2
  a = a
  b = b
  c = c
  Objs <- MCObjs
  Items <- MCItems
  PoolKeys = 3
  Keys <- MCKeys
  Unset = Unset
  Root = O0
  Methods <- MethodNames
  DistinctKeys = TRUE
  ReadsFreed = FALSE
INVARIANTS TypeOK RingClosed OneOwner ContentKept
PROPERTY ImplementsObjects
CHECK_DEADLOCK FALSE
SYMMETRY MCSymmetry
