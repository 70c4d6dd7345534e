\* Two threads, a crash; flushOn with another level than ERROR.
SPECIFICATION Spec
CONSTANTS
  T1 = T1
  T2 = T2
  Threads <- MCThreads
  Builder = T1
  MsgLevels <- MCMsgLevels
  SetLevels <- MCSetLevels
  FlushLevels <- MCFlushLevels
  Messages = 2
  Settings = 2
  Crashes = 1
INVARIANTS TypeOK ThreadOrder FileIsThere FlushedAsAsked
CHECK_DEADLOCK FALSE
