------------------------------- MODULE Logger -------------------------------
(***************************************************************************)
(* Logger.java, the natives of Logger.cpp and what they use of spdlog: one *)
(* console logger, one file logger that build() creates, each with a level *)
(* and a flush level, and a file whose last messages may still be in the   *)
(* buffer of the C library when the process dies.                          *)
(*                                                                         *)
(* The client builds the file logger from one thread, and calls the        *)
(* methods that name the file logger once build() returned: the natives    *)
(* use realFileLogger without looking.  Any Logger may log before that.    *)
(*                                                                         *)
(* Each level is an atomic of its own, loaded and stored relaxed: that one *)
(* was set before a call means that the client orders the two.             *)
(*                                                                         *)
(* Mutants stand before what they mutate and take part in no               *)
(* specification.                                                          *)
(***************************************************************************)
EXTENDS Integers, Sequences

CONSTANTS
  Threads,      \* threads that log
  Builder,      \* the thread that calls Logger.build
  MsgLevels,    \* levels of the messages logged
  SetLevels,    \* levels passed to set_level
  FlushLevels,  \* levels passed to flushOn
  Messages,     \* bound: messages a thread logs in one process
  Settings,     \* bound: calls of set_level, flushOn and flush, in all
  Crashes       \* bound: how often the process dies

LevelInfo == 2
LevelError == 4
Levels == 0..5
Off == 6

ASSUME LevelsAssumption ==
  MsgLevels \subseteq Levels /\ SetLevels \subseteq Levels /\ FlushLevels \subseteq Levels
ASSUME BoundsAssumption ==
  Builder \in Threads /\ Messages \in Nat /\ Settings \in Nat /\ Crashes \in Nat

VARIABLES
  built,      \* Logger.logger # null
  open,       \* realFileLogger # nullptr
  enabled,    \* isEnableFileLogger
  level,      \* level_ of each logger: "console" and "file"
  flushAt,    \* flush_level_ of each logger
  threw,      \* history: build() threw, there is no file logger
  asked,      \* history: the level flushOn was last called with, or Off
  must,       \* history: the highest of those levels during a log call
  console,    \* messages on the console
  file,       \* messages given to the file sink
  onDisk,     \* how many of those are in the file
  due,        \* history: how many must be, a call has returned that says so
  at,         \* where each thread is
  msg,        \* the message it logs: <<thread, number, level>>
  pos,        \* history: where that message went in file, or 0
  changes,    \* settings made
  crashes     \* how often the process died

conf == <<built, open, enabled, threw, level, flushAt, asked>>
sinks == <<console, file, onDisk, due>>
vars == <<conf, sinks, at, msg, pos, must, changes, crashes>>

Sinks == {"console", "file"}

Init ==
  /\ built = FALSE /\ open = FALSE /\ enabled = FALSE /\ threw = FALSE
  /\ level = [s \in Sinks |-> LevelInfo]
  /\ flushAt = [s \in Sinks |-> Off]
  /\ asked = Off
  /\ console = << >> /\ file = << >>
  /\ onDisk = 0 /\ due = 0
  /\ at = [t \in Threads |-> "idle"]
  /\ msg = [t \in Threads |-> <<t, 0, LevelInfo>>]
  /\ pos = [t \in Threads |-> 0]
  /\ must = [t \in Threads |-> Off]
  /\ changes = 0 /\ crashes = 0

Goto(t, s) == at' = [at EXCEPT ![t] = s]

-----------------------------------------------------------------------------
Build_EnablesFirst(t) ==
  /\ t = Builder /\ at[t] = "idle" /\ ~built
  /\ built' = TRUE /\ enabled' = TRUE
  /\ Goto(t, "create")
  /\ UNCHANGED <<open, threw, level, flushAt, asked, sinks, msg, pos, must, changes, crashes>>

(* Logger.build: the static is assigned first.                             *)
Build(t) ==
  /\ t = Builder /\ at[t] = "idle" /\ ~built
  /\ built' = TRUE
  /\ Goto(t, "create")
  /\ UNCHANGED <<open, enabled, threw, level, flushAt, asked, sinks, msg, pos, must, changes, crashes>>

(* basic_logger_mt: the sink truncates the file, the registry gives the    *)
(* new logger its default level and flush level.                           *)
CreateFile(t) ==
  /\ at[t] = "create"
  /\ open' = TRUE
  /\ level' = [level EXCEPT !["file"] = LevelInfo]
  /\ flushAt' = [flushAt EXCEPT !["file"] = Off]
  /\ file' = << >> /\ onDisk' = 0 /\ due' = 0
  /\ Goto(t, "enable")
  /\ UNCHANGED <<built, enabled, threw, asked, console, msg, pos, must, changes, crashes>>

(* The file cannot be opened, or, once it was truncated, the name turns    *)
(* out to be taken: an exception is pending and the native goes on.        *)
CreateFails(t) ==
  /\ at[t] = "create"
  /\ \/ UNCHANGED <<file, onDisk, due>>
     \/ file' = << >> /\ onDisk' = 0 /\ due' = 0
  /\ threw' = TRUE
  /\ Goto(t, "enable")
  /\ UNCHANGED <<built, open, enabled, level, flushAt, asked, console, msg, pos, must, changes, crashes>>

(* spdlog::shutdown() forgets the loggers, whose owners keep them; the     *)
(* file logger is enabled on both ways.                                    *)
Enable(t) ==
  /\ at[t] = "enable"
  /\ enabled' = TRUE
  /\ Goto(t, "idle")
  /\ UNCHANGED <<built, open, threw, level, flushAt, asked, sinks, msg, pos, must, changes, crashes>>

-----------------------------------------------------------------------------
(* log: console, then file, each with a level check of its own.            *)

Log(t, l) ==
  /\ at[t] = "idle" /\ msg[t][2] < Messages
  /\ msg' = [msg EXCEPT ![t] = <<t, @[2] + 1, l>>]
  /\ must' = [must EXCEPT ![t] = asked]
  /\ Goto(t, "console")
  /\ UNCHANGED <<conf, sinks, pos, changes, crashes>>

Level(t) == msg[t][3]

ToConsole_NoCheck(t) ==
  /\ at[t] = "console"
  /\ console' = IF Level(t) >= level["console"] THEN Append(console, msg[t]) ELSE console
  /\ Goto(t, "file")
  /\ UNCHANGED <<conf, file, onDisk, due, msg, pos, must, changes, crashes>>

(* Then: if (isEnableFileLogger).                                          *)
ToConsole(t) ==
  /\ at[t] = "console"
  /\ console' = IF Level(t) >= level["console"] THEN Append(console, msg[t]) ELSE console
  /\ Goto(t, IF enabled THEN "file" ELSE "return")
  /\ UNCHANGED <<conf, file, onDisk, due, msg, pos, must, changes, crashes>>

ToFile_FallsThrough(t) ==
  /\ at[t] = "file" /\ open
  /\ \/ /\ Level(t) >= level["file"]
        /\ file' = file \o <<msg[t], msg[t]>>
        /\ pos' = [pos EXCEPT ![t] = Len(file) + 1]
        /\ Goto(t, "test")
     \/ /\ Level(t) < level["file"]
        /\ Goto(t, "return") /\ UNCHANGED <<file, pos>>
  /\ UNCHANGED <<conf, console, onDisk, due, msg, must, changes, crashes>>

(* sink_it_: the message, then, apart from it, the flush.                  *)
ToFile(t) ==
  /\ at[t] = "file" /\ open
  /\ \/ /\ Level(t) >= level["file"]
        /\ file' = Append(file, msg[t])
        /\ pos' = [pos EXCEPT ![t] = Len(file) + 1]
        /\ Goto(t, "test")
     \/ /\ Level(t) < level["file"]
        /\ Goto(t, "return") /\ UNCHANGED <<file, pos>>
  /\ UNCHANGED <<conf, console, onDisk, due, msg, must, changes, crashes>>

ShouldFlush_Above(t) == Level(t) > flushAt["file"]

ShouldFlush(t) == Level(t) >= flushAt["file"]

(* should_flush_ loads the flush level once.                               *)
TestFlush(t) ==
  /\ at[t] = "test"
  /\ Goto(t, IF ShouldFlush(t) THEN "flush" ELSE "return")
  /\ UNCHANGED <<conf, sinks, msg, pos, must, changes, crashes>>

FlushFile(t) ==
  /\ at[t] = "flush"
  /\ onDisk' = Len(file)
  /\ Goto(t, "return")
  /\ UNCHANGED <<conf, console, file, due, msg, pos, must, changes, crashes>>

(* The client is told: what it asked for all along has been done.          *)
Return(t) ==
  /\ at[t] = "return"
  /\ due' = IF Level(t) >= must[t] /\ pos[t] > due THEN pos[t] ELSE due
  /\ pos' = [pos EXCEPT ![t] = 0]
  /\ must' = [must EXCEPT ![t] = Off]
  /\ Goto(t, "idle")
  /\ UNCHANGED <<conf, console, file, onDisk, msg, changes, crashes>>

(* The C library writes out its buffer when it is full.                    *)
Drain ==
  /\ onDisk < Len(file)
  /\ onDisk' = onDisk + 1
  /\ UNCHANGED <<conf, console, file, due, at, msg, pos, must, changes, crashes>>

-----------------------------------------------------------------------------
(* Settings                                                                *)

(* A client whose build() threw makes no settings of the file logger.      *)
Setting(t, s) ==
  /\ at[t] = "idle" /\ changes < Settings /\ (s = "file" => enabled /\ open)
  /\ changes' = changes + 1

SetLevel(t, s, l) ==
  /\ Setting(t, s)
  /\ level' = [level EXCEPT ![s] = l]
  /\ UNCHANGED <<built, open, enabled, threw, flushAt, asked, sinks, at, msg, pos, must, crashes>>

(* The case of ERROR and the file logger calls set_level.  A log call that *)
(* runs meanwhile may go by the level of before or by this one: must.      *)
FlushOn(t, s, l) ==
  /\ Setting(t, s)
  /\ \/ /\ s = "file" /\ l = LevelError
        /\ level' = [level EXCEPT ![s] = l] /\ flushAt' = flushAt
     \/ /\ ~(s = "file" /\ l = LevelError)
        /\ flushAt' = [flushAt EXCEPT ![s] = l] /\ level' = level
  /\ asked' = IF s = "file" THEN l ELSE asked
  /\ must' = [u \in Threads |-> IF s = "file" /\ l > must[u] THEN l ELSE must[u]]
  /\ UNCHANGED <<built, open, enabled, threw, sinks, at, msg, pos, crashes>>

Flush(t) ==
  /\ Setting(t, "file")
  /\ onDisk' = Len(file) /\ due' = Len(file)
  /\ UNCHANGED <<conf, console, file, at, msg, pos, must, crashes>>

-----------------------------------------------------------------------------
(* The process dies and is started again: what was not written is lost.    *)
Restart ==
  /\ crashes < Crashes
  /\ crashes' = crashes + 1
  /\ built' = FALSE /\ open' = FALSE /\ enabled' = FALSE /\ threw' = FALSE
  /\ level' = [s \in Sinks |-> LevelInfo]
  /\ flushAt' = [s \in Sinks |-> Off]
  /\ asked' = Off
  /\ console' = << >> /\ file' = SubSeq(file, 1, onDisk)
  /\ at' = [t \in Threads |-> "idle"]
  /\ msg' = [t \in Threads |-> <<t, 0, LevelInfo>>]
  /\ pos' = [t \in Threads |-> 0]
  /\ must' = [t \in Threads |-> Off]
  /\ UNCHANGED <<onDisk, due, changes>>

Crash == Restart

(* The file logger was enabled but not created: a null pointer is used.    *)
NullFile(t) == at[t] = "file" /\ ~open /\ Restart

Next ==
  \/ \E t \in Threads :
       \/ Build(t) \/ CreateFile(t) \/ CreateFails(t) \/ Enable(t)
       \/ NullFile(t)
       \/ ToConsole(t) \/ ToFile(t) \/ TestFlush(t) \/ FlushFile(t) \/ Return(t)
       \/ Flush(t)
       \/ \E l \in MsgLevels : Log(t, l)
       \/ \E s \in Sinks, l \in SetLevels : SetLevel(t, s, l)
       \/ \E s \in Sinks, l \in FlushLevels : FlushOn(t, s, l)
  \/ Drain \/ Crash

Spec == Init /\ [][Next]_vars

-----------------------------------------------------------------------------
(* Types, and only an enabled and created file logger is written to.       *)
TypeOK ==
  /\ built \in BOOLEAN /\ open \in BOOLEAN /\ enabled \in BOOLEAN /\ threw \in BOOLEAN
  /\ level \in [Sinks -> Levels] /\ flushAt \in [Sinks -> Levels \cup {Off}]
  /\ asked \in Levels \cup {Off} /\ must \in [Threads -> Levels \cup {Off}]
  /\ onDisk \in 0..Len(file) /\ due \in Nat
  /\ \A t \in Threads :
       /\ at[t] \in {"idle", "create", "enable", "console", "file", "test", "flush", "return"}
       /\ at[t] = "file" => enabled
       /\ at[t] \in {"test", "flush"} => open

(* A message comes to a file logger that is not there only after build()   *)
(* threw: a thread that logs while another one builds finds it assigned    *)
(* when it finds it enabled.                                               *)
FileIsThere == \A t \in Threads : at[t] = "file" => open \/ threw

InOrder(s) ==
  \A i, j \in 1..Len(s) : i < j /\ s[i][1] = s[j][1] => s[i][2] < s[j][2]

(* On the console and in the file, the messages of a thread are in the     *)
(* order it logged them, and none is there twice.                          *)
ThreadOrder == InOrder(console) /\ InOrder(file)

(* When a log call has returned, its message is in the file if its level   *)
(* is at or above the flush level asked for when the call began and every  *)
(* one asked for, by any thread, while it ran; and when a flush() has      *)
(* returned, so is all that was given to the sink before; also if the      *)
(* process dies then.  A flushOn with a higher level that overlaps a log   *)
(* call leaves it open.                                                    *)
FlushedAsAsked == due <= onDisk

(* flush_on "sets the level of flushing" (Logger.java:91): it sets that    *)
(* level and no other.                                                     *)
FlushOnSets ==
  [][\A t \in Threads, s \in Sinks, l \in FlushLevels :
       FlushOn(t, s, l) => flushAt'[s] = l /\ level' = level]_vars
=============================================================================
