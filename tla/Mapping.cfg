\* Two threads map any of the objects, again and again.
SPECIFICATION Spec
CONSTANTS
  T1 = T1
  T2 = T2
  D1 = D1
  D2 = D2
  Threads <- MCThreads
  Names <- MCNames
  Objects <- MCObjects
  Docs <- MCDocs
  IntHalf = 2
  LongHalf = 4
  Grain = 3
  NonFinite = NonFinite
  Null = Null
  None = None
INVARIANTS TypeOK OwnDocument FieldsReadBack ElementsReadBack
