\* The bytes of the key replaceObj leaves in the document.
SPECIFICATION Spec
CONSTANTS
  O0 = O0
  O1 = O1
  S1 = S1
  S2 = S2
  a = a
  b = b
  c = c
  Objs <- MCObjs
  Items <- MCItems
  PoolKeys = 3
  Keys <- MCKeys
  Unset = Unset
  Root = O0
  Methods <- MethodNames
  DistinctKeys = TRUE
  ReadsFreed = TRUE
INVARIANT NoFreedKey
CHECK_DEADLOCK FALSE
