\* flushOn with the level ERROR.
SPECIFICATION Spec
CONSTANTS
  T1 = T1
  T2 = T2
  Threads <- MCThreads
  Builder = T1
  MsgLevels <- MCMsgLevels
  SetLevels <- MCSetLevels
  FlushLevels <- MCErrorOnly
  Messages = 1
  Settings = 1
  Crashes = 1
PROPERTY FlushOnSets
CHECK_DEADLOCK FALSE
