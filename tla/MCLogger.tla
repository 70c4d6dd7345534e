------------------------------ MODULE MCLogger ------------------------------
(* Instances of Logger for TLC. *)
EXTENDS Logger

CONSTANTS T1, T2

MCThreads == {T1, T2}
MCMsgLevels == {1, 3}
MCSetLevels == {1}
MCFlushLevels == {3, 5}
MCErrorOnly == {LevelError}
=============================================================================
