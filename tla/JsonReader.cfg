\* Two threads share one Json; the cursor of an object has one user.
SPECIFICATION Spec
CONSTANTS
  R = R
  A = A
  L = L
  E = E
  M = M
  S1 = S1
  S2 = S2
  S3 = S3
  S4 = S4
  X = X
  Y = Y
  I0 = I0
  I1 = I1
  Threads = {t1, t2}
  Nobody = Nobody
  Nil = Nil
  Root = R
  Nodes <- MCNodes
  Arrays <- MCArrays
  Fields <- MCFields
  Child <- MCChild
  Elems <- MCElems
  Paths <- MCPaths
  Budget = 3
INVARIANTS TypeOK ReadsItsPath ObjectsStandForPaths
PROPERTY Returns
CHECK_DEADLOCK FALSE
