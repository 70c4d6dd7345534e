\* Every method, a root array, a second array and two other values.
SPECIFICATION Spec
CONSTANTS
  A0 = A0
  A1 = A1
  S1 = S1
  S2 = S2
  Arrays <- MCArrays
  Items <- MCItems
  Root = A0
  Indexes <- MCIndexes
  Ranges <- MCRanges
  SizeMod = 16
INVARIANTS TypeOK RingClosed OneOwner
PROPERTIES ImplementsArrays EditsAsCalled
CHECK_DEADLOCK FALSE
SYMMETRY MCSymmetry
