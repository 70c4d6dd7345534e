\* An object may have a key twice: add, then remove by key.
SPECIFICATION Spec
CONSTANTS
  O0 = O0
  O1 = O1
  S1 = S1
  S2 = S2
  a = a
  b = b
  c = c
  Objs <- MCObjs
  Items <- MCItems
  PoolKeys = 3
  Keys <- MCKeys
  Unset = Unset
  Root = O0
  Methods <- MCEditing
  DistinctKeys = FALSE
  ReadsFreed = FALSE
PROPERTY RemovesAll
CHECK_DEADLOCK FALSE
