--------------------------- MODULE Logger_proofs ---------------------------
(***************************************************************************)
(* Proofs about Logger for any threads, levels, settings and crashes: the  *)
(* order of messages, and that a message which must be in the file is in   *)
(* it.  flushOn with ERROR breaks the second (FlushOnSets), so that one is *)
(* proved for clients that do not use it.                                  *)
(***************************************************************************)
EXTENDS Logger, TLAPS

Msg == Threads \X Nat \X Levels

SeqsOK ==
  /\ console \in Seq(Msg) /\ file \in Seq(Msg)
  /\ DOMAIN at = Threads
  /\ pos \in [Threads -> Nat]
  /\ msg \in [Threads -> Msg]
  /\ \A t \in Threads : msg[t][1] = t

(* There is no file logger before one thread has created it, once, and it  *)
(* is enabled after it was created or that thread has thrown.              *)
BuiltOnce ==
  /\ enabled \/ open => built
  /\ enabled => open \/ threw
  /\ \A t \in Threads :
       /\ at[t] \in {"create", "enable"} => t = Builder /\ built
       /\ at[t] = "create" => ~open
       /\ at[t] = "enable" => open \/ threw

(* The numbers of t's messages in s are below n.                           *)
Below(s, t, n) == \A i \in 1..Len(s) : s[i][1] = t => s[i][2] < n

(* What is behind the message a thread logs: while there is no file logger *)
(* the file holds the messages of an earlier process, counted anew since.  *)
Numbered ==
  \A t \in Threads :
    /\ Below(console, t, msg[t][2] + 1)
    /\ at[t] = "console" => Below(console, t, msg[t][2])
    /\ open => Below(file, t, msg[t][2] + 1)
    /\ open /\ at[t] \in {"console", "file"} => Below(file, t, msg[t][2])

IInv == TypeOK /\ SeqsOK /\ BuiltOnce /\ Numbered /\ ThreadOrder

LEMMA AppendType ==
  ASSUME NEW s \in Seq(Msg), NEW m \in Msg
  PROVE  /\ Append(s, m) \in Seq(Msg) /\ Len(s) \in Nat /\ Len(Append(s, m)) = Len(s) + 1
         /\ Append(s, m)[Len(s) + 1] = m
         /\ \A i \in 1..Len(s) : Append(s, m)[i] = s[i]
OBVIOUS

LEMMA AppendInOrder ==
  ASSUME NEW s \in Seq(Msg), NEW m \in Msg, InOrder(s), Below(s, m[1], m[2])
  PROVE  InOrder(Append(s, m))
<1> DEFINE a == Append(s, m)
<1> SUFFICES ASSUME NEW i \in 1..Len(a), NEW j \in 1..Len(a), i < j, a[i][1] = a[j][1]
             PROVE  a[i][2] < a[j][2]
  BY DEF InOrder
<1>1. i \in 1..Len(s) /\ a[i] = s[i]
  BY AppendType
<1>2. CASE j \in 1..Len(s)
  BY AppendType, <1>1, <1>2 DEF InOrder
<1>3. CASE j = Len(s) + 1
  BY AppendType, <1>1, <1>3 DEF Below
<1> QED BY AppendType, <1>2, <1>3

LEMMA AppendBelow ==
  ASSUME NEW s \in Seq(Msg), NEW m \in Msg, NEW t \in Threads, NEW n \in Nat,
         Below(s, t, n), m[1] = t => m[2] < n
  PROVE  Below(Append(s, m), t, n)
<1> SUFFICES ASSUME NEW i \in 1..Len(Append(s, m)), Append(s, m)[i][1] = t
             PROVE  Append(s, m)[i][2] < n
  BY DEF Below
<1>1. CASE i \in 1..Len(s)
  BY AppendType, <1>1 DEF Below
<1>2. CASE i = Len(s) + 1
  BY AppendType, <1>2
<1> QED BY AppendType, <1>1, <1>2

LEMMA InitIInv == Init => IInv
<1> SUFFICES ASSUME Init PROVE IInv
  OBVIOUS
<1>1. TypeOK
  <2>1. onDisk \in 0..Len(file) /\ due \in Nat
    BY DEF Init
  <2>2. /\ level \in [Sinks -> Levels] /\ flushAt \in [Sinks -> Levels \cup {Off}]
        /\ asked \in Levels \cup {Off} /\ must \in [Threads -> Levels \cup {Off}]
    BY DEF Init, Levels, LevelInfo
  <2> QED BY <2>1, <2>2 DEF Init, TypeOK
<1>2. console \in Seq(Msg) /\ file \in Seq(Msg) /\ Len(console) = 0 /\ Len(file) = 0
  BY DEF Init
<1>3. SeqsOK /\ BuiltOnce
  BY <1>2 DEF Init, SeqsOK, BuiltOnce, Msg, Levels, LevelInfo
<1>4. Numbered /\ ThreadOrder
  BY <1>2 DEF Numbered, ThreadOrder, Below, InOrder
<1> QED BY <1>1, <1>3, <1>4 DEF IInv

-----------------------------------------------------------------------------
LEMMA BuildStep ==
  ASSUME IInv, NEW t \in Threads,
         Build(t) \/ CreateFile(t) \/ CreateFails(t) \/ Enable(t)
  PROVE  IInv'
<1> USE DEF conf, sinks, Goto
<1>1. CASE Build(t) \/ Enable(t)
  <2>1. at'[t] \in {"create", "idle"} /\ \A u \in Threads \ {t} : at'[u] = at[u]
    BY <1>1 DEF IInv, SeqsOK, Build, Enable
  <2>2. TypeOK'
    BY <1>1, <2>1 DEF IInv, TypeOK, Build, Enable
  <2>3. SeqsOK' /\ BuiltOnce'
    BY <1>1, <2>1 DEF IInv, TypeOK, SeqsOK, BuiltOnce, Build, Enable
  <2>4. Numbered' /\ ThreadOrder'
    BY <1>1, <2>1 DEF IInv, Numbered, ThreadOrder, Below, InOrder, Build, Enable
  <2> QED BY <2>2, <2>3, <2>4 DEF IInv
<1>2. CASE CreateFile(t) \/ CreateFails(t)
  <2>1. at'[t] = "enable" /\ \A u \in Threads \ {t} : at'[u] = at[u]
    BY <1>2 DEF IInv, SeqsOK, CreateFile, CreateFails
  <2>2. (file' = << >> /\ onDisk' = 0 /\ due' = 0) \/ UNCHANGED <<file, onDisk, due>>
    BY <1>2 DEF CreateFile, CreateFails
  <2>3. TypeOK'
    <3>1. onDisk' \in 0..Len(file') /\ due' \in Nat
      BY <2>2 DEF IInv, TypeOK
    <3>2. level' \in [Sinks -> Levels] /\ flushAt' \in [Sinks -> Levels \cup {Off}]
      BY <1>2 DEF IInv, TypeOK, CreateFile, CreateFails, Sinks, Levels, LevelInfo
    <3> QED BY <1>2, <2>1, <3>1, <3>2 DEF IInv, TypeOK, CreateFile, CreateFails
  <2>4. SeqsOK' /\ BuiltOnce'
    <3>1. file' \in Seq(Msg)
      <4>1. << >> \in Seq(Msg)
        OBVIOUS
      <4> QED BY <2>2, <4>1 DEF IInv, SeqsOK
    <3>2. SeqsOK'
      BY <1>2, <3>1 DEF IInv, SeqsOK, CreateFile, CreateFails
    <3> QED BY <1>2, <2>1, <3>2 DEF IInv, BuiltOnce, CreateFile, CreateFails
  <2>5. Numbered'
    <3>1. open' => file' = << >>
      BY <1>2 DEF IInv, BuiltOnce, CreateFile, CreateFails
    <3>2. UNCHANGED <<console, msg>>
      BY <1>2 DEF CreateFile, CreateFails
    <3> QED BY <2>1, <3>1, <3>2 DEF IInv, Numbered, Below
  <2>6. ThreadOrder'
    BY <1>2, <2>2 DEF IInv, ThreadOrder, InOrder, CreateFile, CreateFails
  <2> QED BY <2>3, <2>4, <2>5, <2>6 DEF IInv
<1> QED BY <1>1, <1>2

LEMMA LogStep ==
  ASSUME IInv, NEW t \in Threads, NEW l \in MsgLevels, Log(t, l)
  PROVE  IInv'
<1> USE DEF conf, sinks, Goto
<1>1. /\ msg[t] \in Msg /\ msg'[t] = <<t, msg[t][2] + 1, l>> /\ at'[t] = "console"
      /\ \A u \in Threads \ {t} : msg'[u] = msg[u] /\ at'[u] = at[u]
  BY DEF IInv, SeqsOK, Log
<1>2. TypeOK' /\ BuiltOnce' /\ ThreadOrder'
  <2>1. must' \in [Threads -> Levels \cup {Off}]
    BY DEF IInv, TypeOK, Log
  <2>2. TypeOK'
    BY <1>1, <2>1 DEF IInv, TypeOK, Log
  <2>3. BuiltOnce' /\ ThreadOrder'
    BY <1>1 DEF IInv, BuiltOnce, ThreadOrder, InOrder, Log
  <2> QED BY <2>2, <2>3
<1>3. SeqsOK'
  BY <1>1, LevelsAssumption DEF IInv, SeqsOK, Log, Msg
<1>4. Numbered'
  <2> SUFFICES ASSUME NEW u \in Threads
               PROVE  /\ Below(console, u, msg'[u][2] + 1)
                      /\ at'[u] = "console" => Below(console, u, msg'[u][2])
                      /\ open => Below(file, u, msg'[u][2] + 1)
                      /\ open /\ at'[u] \in {"console", "file"} => Below(file, u, msg'[u][2])
    BY DEF Numbered, Log, Below
  <2>1. CASE u = t
    <3>1. msg[t][2] \in Nat /\ msg'[t][2] = msg[t][2] + 1
      BY <1>1 DEF Msg
    <3>2. Below(console, t, msg'[t][2]) /\ (open => Below(file, t, msg'[t][2]))
      BY <3>1 DEF IInv, Numbered
    <3>3. \A s \in Seq(Msg) : Below(s, t, msg'[t][2]) => Below(s, t, msg'[t][2] + 1)
      BY <3>1 DEF Below, Msg
    <3> QED BY <2>1, <3>2, <3>3 DEF IInv, SeqsOK
  <2>2. CASE u # t
    BY <1>1, <2>2 DEF IInv, Numbered
  <2> QED BY <2>1, <2>2
<1> QED BY <1>2, <1>3, <1>4 DEF IInv

LEMMA ConsoleStep ==
  ASSUME IInv, NEW t \in Threads, ToConsole(t)
  PROVE  IInv'
<1> USE DEF conf, sinks, Goto
<1>1. /\ at[t] = "console" /\ at'[t] = (IF enabled THEN "file" ELSE "return")
      /\ \A u \in Threads \ {t} : at'[u] = at[u]
      /\ UNCHANGED <<conf, file, onDisk, due, msg, pos, must>>
  BY DEF IInv, SeqsOK, ToConsole
<1>2. TypeOK' /\ BuiltOnce'
  BY <1>1 DEF IInv, TypeOK, BuiltOnce
<1>3. /\ msg[t] \in Msg /\ msg[t][1] = t
      /\ console' = console \/ console' = Append(console, msg[t])
      /\ console \in Seq(Msg) /\ Below(console, t, msg[t][2]) /\ InOrder(console)
  BY <1>1 DEF ToConsole, IInv, SeqsOK, Numbered, ThreadOrder
<1>4. SeqsOK' /\ ThreadOrder'
  BY <1>1, <1>3, AppendType, AppendInOrder DEF IInv, SeqsOK, ThreadOrder, ToConsole
<1>5. Numbered'
  <2>0. ASSUME NEW u \in Threads
        PROVE  msg[u][2] \in Nat /\ msg[u][2] + 1 \in Nat
    BY DEF IInv, SeqsOK, Msg
  <2>1. ASSUME NEW u \in Threads PROVE Below(console', u, msg[u][2] + 1)
    <3>1. msg[t][1] = u => msg[t][2] < msg[u][2] + 1
      BY <1>3, <2>0
    <3>2. Below(console, u, msg[u][2] + 1)
      BY DEF IInv, Numbered
    <3> QED BY <1>3, <2>0, <3>1, <3>2, AppendBelow
  <2>2. ASSUME NEW u \in Threads \ {t}, at[u] = "console"
        PROVE  Below(console', u, msg[u][2])
    <3>1. msg[t][1] # u /\ Below(console, u, msg[u][2])
      BY <1>3, <2>2 DEF IInv, Numbered
    <3> QED BY <1>3, <2>0, <3>1, AppendBelow
  <2> QED BY <1>1, <2>1, <2>2 DEF IInv, Numbered
<1> QED BY <1>2, <1>4, <1>5 DEF IInv

LEMMA FileStep ==
  ASSUME IInv, NEW t \in Threads, ToFile(t)
  PROVE  IInv' /\ open /\ Len(file') \in Len(file)..(Len(file) + 1)
         /\ (at'[t] = "test" => pos'[t] = Len(file'))
<1> USE DEF conf, sinks, Goto
<1>1. /\ at[t] = "file" /\ open /\ at'[t] \in {"test", "return"}
      /\ \A u \in Threads \ {t} : at'[u] = at[u]
      /\ UNCHANGED <<conf, console, onDisk, due, msg, must>>
  BY DEF IInv, SeqsOK, ToFile
<1>2. /\ msg[t] \in Msg /\ msg[t][1] = t
      /\ file' = file \/ file' = Append(file, msg[t])
      /\ file \in Seq(Msg) /\ Len(file) \in Nat /\ Below(file, t, msg[t][2]) /\ InOrder(file)
  BY <1>1 DEF ToFile, IInv, SeqsOK, Numbered, ThreadOrder
<1>3. file' \in Seq(Msg) /\ InOrder(file') /\ Len(file') \in Len(file)..(Len(file) + 1)
  <2>1. CASE file' = file
    BY <1>2, <2>1
  <2>2. CASE file' = Append(file, msg[t])
    BY <1>2, <2>2, AppendType, AppendInOrder
  <2> QED BY <1>2, <2>1, <2>2
<1>4. TypeOK' /\ BuiltOnce'
  BY <1>1, <1>2, <1>3 DEF IInv, TypeOK, BuiltOnce
<1>5. pos' \in [Threads -> Nat] /\ (at'[t] = "test" => pos'[t] = Len(file'))
  <2>1. CASE Level(t) >= level["file"]
    BY <1>2, <2>1, AppendType DEF ToFile, IInv, SeqsOK, TypeOK, Level
  <2>2. CASE ~(Level(t) >= level["file"])
    BY <2>2 DEF ToFile, IInv, SeqsOK
  <2> QED BY <2>1, <2>2
<1>6. SeqsOK' /\ ThreadOrder'
  BY <1>1, <1>3, <1>5 DEF IInv, SeqsOK, ThreadOrder, ToFile
<1>7. Numbered'
  <2>0. ASSUME NEW u \in Threads
        PROVE  msg[u][2] \in Nat /\ msg[u][2] + 1 \in Nat
    BY DEF IInv, SeqsOK, Msg
  <2>1. ASSUME NEW u \in Threads PROVE Below(file', u, msg[u][2] + 1)
    <3>1. msg[t][1] = u => msg[t][2] < msg[u][2] + 1
      BY <1>2, <2>0
    <3>2. Below(file, u, msg[u][2] + 1)
      BY <1>1 DEF IInv, Numbered
    <3> QED BY <1>2, <2>0, <3>1, <3>2, AppendBelow
  <2>2. ASSUME NEW u \in Threads \ {t}, at[u] \in {"console", "file"}
        PROVE  Below(file', u, msg[u][2])
    <3>1. msg[t][1] # u /\ Below(file, u, msg[u][2])
      BY <1>1, <1>2, <2>2 DEF IInv, Numbered
    <3> QED BY <1>2, <2>0, <3>1, AppendBelow
  <2> QED BY <1>1, <2>1, <2>2 DEF IInv, Numbered
<1> QED BY <1>1, <1>3, <1>4, <1>5, <1>6, <1>7 DEF IInv

LEMMA SettingStep ==
  ASSUME IInv,
         \/ Drain
         \/ \E t \in Threads : TestFlush(t) \/ FlushFile(t) \/ Return(t) \/ Flush(t)
         \/ \E t \in Threads, s \in Sinks, l \in SetLevels : SetLevel(t, s, l)
         \/ \E t \in Threads, s \in Sinks, l \in FlushLevels : FlushOn(t, s, l)
  PROVE  IInv'
<1> USE LevelsAssumption DEF conf, sinks, Goto
<1>1. UNCHANGED <<built, open, enabled, threw, console, file, msg>>
  BY DEF Drain, TestFlush, FlushFile, Return, Flush, SetLevel, FlushOn
<1>2. /\ \A t \in Threads : \/ at'[t] = at[t]
                           \/ at'[t] \in {"return", "idle"}
                           \/ (at[t] = "test" /\ at'[t] = "flush")
      /\ DOMAIN at' = Threads
  BY DEF Drain, TestFlush, FlushFile, Return, Flush, SetLevel, FlushOn, IInv, SeqsOK
<1>3. onDisk' \in 0..Len(file) /\ due' \in Nat /\ pos' \in [Threads -> Nat]
  <2>1. Len(file) \in Nat
    BY DEF IInv, SeqsOK
  <2>2. CASE Drain \/ \E t \in Threads : TestFlush(t) \/ FlushFile(t) \/ Return(t) \/ Flush(t)
    BY <2>1, <2>2 DEF Drain, TestFlush, FlushFile, Return, Flush, IInv, TypeOK, SeqsOK
  <2>3. CASE \/ \E t \in Threads, s \in Sinks, l \in SetLevels : SetLevel(t, s, l)
             \/ \E t \in Threads, s \in Sinks, l \in FlushLevels : FlushOn(t, s, l)
    BY <2>3 DEF SetLevel, FlushOn, IInv, TypeOK, SeqsOK
  <2> QED BY <2>2, <2>3
<1>4. /\ level' \in [Sinks -> Levels] /\ flushAt' \in [Sinks -> Levels \cup {Off}]
      /\ asked' \in Levels \cup {Off}
  BY DEF Drain, TestFlush, FlushFile, Return, Flush, SetLevel, FlushOn, IInv, TypeOK
<1>5. must' \in [Threads -> Levels \cup {Off}]
  BY DEF Drain, TestFlush, FlushFile, Return, Flush, SetLevel, FlushOn, IInv, TypeOK
<1>6. TypeOK'
  BY <1>1, <1>2, <1>3, <1>4, <1>5 DEF IInv, TypeOK
<1>7. SeqsOK' /\ BuiltOnce'
  BY <1>1, <1>2, <1>3 DEF IInv, SeqsOK, BuiltOnce
<1>8. Numbered' /\ ThreadOrder'
  BY <1>1, <1>2 DEF IInv, Numbered, ThreadOrder, Below, InOrder
<1> QED BY <1>6, <1>7, <1>8 DEF IInv

LEMMA RestartStep ==
  ASSUME IInv, Restart
  PROVE  IInv' /\ Len(file') = onDisk
<1>1. /\ file \in Seq(Msg) /\ onDisk \in 0..Len(file) /\ Len(file) \in Nat
      /\ file' = SubSeq(file, 1, onDisk)
  BY DEF IInv, SeqsOK, TypeOK, Restart
<1>2. /\ file' \in Seq(Msg) /\ Len(file') = onDisk
      /\ \A i \in 1..onDisk : file'[i] = file[i]
  BY <1>1
<1>3. ThreadOrder'
  <2>1. InOrder(console')
    BY DEF Restart, InOrder
  <2>2. InOrder(file')
    BY <1>1, <1>2 DEF IInv, ThreadOrder, InOrder
  <2> QED BY <2>1, <2>2 DEF ThreadOrder, InOrder
<1>4. TypeOK'
  <2>1. onDisk' \in 0..Len(file') /\ due' \in Nat
    BY <1>1, <1>2 DEF IInv, TypeOK, Restart
  <2>2. /\ level' \in [Sinks -> Levels] /\ flushAt' \in [Sinks -> Levels \cup {Off}]
        /\ asked' \in Levels \cup {Off} /\ must' \in [Threads -> Levels \cup {Off}]
    BY DEF Restart, Levels, LevelInfo
  <2> QED BY <2>1, <2>2 DEF Restart, TypeOK
<1>5. SeqsOK' /\ BuiltOnce' /\ Numbered'
  BY <1>2 DEF SeqsOK, BuiltOnce, Numbered, Below, Restart, Msg, Levels, LevelInfo
<1> QED BY <1>2, <1>3, <1>4, <1>5 DEF IInv

THEOREM Invariance == Spec => []IInv
<1>1. IInv /\ [Next]_vars => IInv'
  <2> SUFFICES ASSUME IInv, [Next]_vars PROVE IInv'
    OBVIOUS
  <2>1. CASE UNCHANGED vars
    BY <2>1 DEF IInv, TypeOK, SeqsOK, BuiltOnce, Numbered, ThreadOrder, Below, InOrder,
                vars, conf, sinks
  <2>2. CASE Next
    BY <2>2, BuildStep, LogStep, ConsoleStep, FileStep, SettingStep, RestartStep
       DEF Next, NullFile, Crash
  <2> QED BY <2>1, <2>2
<1> QED BY <1>1, InitIInv, PTL DEF Spec

(* Types, and only an enabled and created file logger is written to.       *)
THEOREM TypeCorrect == Spec => []TypeOK
<1>1. IInv => TypeOK
  BY DEF IInv
<1> QED BY <1>1, Invariance, PTL

(* A message comes to a file logger that is not there only after build()   *)
(* threw, however many threads log while the logger is built.              *)
THEOREM FileCreated == Spec => []FileIsThere
<1>1. IInv => FileIsThere
  BY DEF IInv, TypeOK, BuiltOnce, FileIsThere
<1> QED BY <1>1, Invariance, PTL

(* A thread's messages are in the order it logged them, on the console and *)
(* in the file, through crashes and a file logger created meanwhile.       *)
THEOREM Ordered == Spec => []ThreadOrder
<1>1. IInv => ThreadOrder
  BY DEF IInv
<1> QED BY <1>1, Invariance, PTL

-----------------------------------------------------------------------------
(* What the client asked for is what the file logger does, from the moment *)
(* there is one; what a thread has written before it flushes is in file.   *)
Running == {"console", "file", "test", "flush", "return"}

AskedOK ==
  /\ asked = flushAt["file"]
  /\ ~open => asked = Off /\ \A t \in Threads : pos[t] = 0
  /\ FlushedAsAsked
  /\ \A t \in Threads :
       /\ at[t] \in Running => asked <= must[t]
       /\ at[t] \in {"test", "flush"} => pos[t] \in 1..Len(file)
       /\ at[t] \notin {"test", "flush", "return"} => pos[t] = 0
       /\ at[t] = "return" => pos[t] <= onDisk \/ Level(t) < must[t]

LEMMA Numbers ==
  ASSUME IInv
  PROVE  /\ Len(file) \in Nat /\ onDisk \in 0..Len(file) /\ due \in Nat
         /\ asked \in Int /\ asked <= Off
         /\ \A t \in Threads : pos[t] \in Nat /\ must[t] \in Int /\ Level(t) \in Int
<1>1. /\ Len(file) \in Nat /\ onDisk \in 0..Len(file) /\ due \in Nat
      /\ \A t \in Threads : pos[t] \in Nat
  BY DEF IInv, TypeOK, SeqsOK
<1>2. asked \in 0..6 /\ \A t \in Threads : must[t] \in 0..6
  BY DEF IInv, TypeOK, Levels, Off
<1>3. \A t \in Threads : msg[t][3] \in 0..5
  BY DEF IInv, SeqsOK, Msg, Levels
<1> QED BY <1>1, <1>2, <1>3 DEF Level, Off

LEMMA CreateAsked ==
  ASSUME IInv, AskedOK, NEW t \in Threads, CreateFile(t) \/ CreateFails(t)
  PROVE  AskedOK'
<1> USE DEF conf, sinks, Goto, FlushedAsAsked
<1>1. /\ ~open /\ at[t] = "create" /\ at'[t] = "enable"
      /\ \A u \in Threads : at[u] \notin {"test", "flush"}
      /\ \A u \in Threads \ {t} : at'[u] = at[u]
  BY DEF IInv, TypeOK, SeqsOK, BuiltOnce, CreateFile, CreateFails
<1>2. asked' = flushAt'["file"] /\ asked' = Off /\ \A u \in Threads : pos[u] = 0
  BY <1>1 DEF AskedOK, IInv, TypeOK, CreateFile, CreateFails, Sinks
<1>3. (onDisk' = 0 /\ due' = 0) \/ UNCHANGED <<onDisk, due>>
  BY DEF CreateFile, CreateFails
<1>4. UNCHANGED <<asked, pos, must, msg>>
  BY DEF CreateFile, CreateFails
<1> QED BY <1>1, <1>2, <1>3, <1>4, Numbers DEF AskedOK, Level, Running

LEMMA LogAsked ==
  ASSUME IInv, AskedOK, NEW t \in Threads,
         ToConsole(t) \/ ToFile(t) \/ \E l \in MsgLevels : Log(t, l)
  PROVE  AskedOK'
<1> USE DEF conf, sinks, Goto, FlushedAsAsked
<1>1. CASE \E l \in MsgLevels : Log(t, l)
  <2>1. at[t] = "idle" /\ at'[t] = "console" /\ must'[t] = asked
    BY <1>1 DEF IInv, TypeOK, SeqsOK, Log
  <2>2. \A u \in Threads \ {t} : at'[u] = at[u] /\ must'[u] = must[u] /\ msg'[u] = msg[u]
    BY <1>1 DEF IInv, TypeOK, SeqsOK, Log
  <2>3. UNCHANGED <<open, flushAt, asked, file, onDisk, due, pos>>
    BY <1>1 DEF Log
  <2> QED BY <2>1, <2>2, <2>3, Numbers DEF AskedOK, Level, Running
<1>2. CASE ToConsole(t)
  <2>1. /\ at[t] = "console" /\ at'[t] \in {"file", "return"}
        /\ \A u \in Threads \ {t} : at'[u] = at[u]
    BY <1>2 DEF IInv, SeqsOK, ToConsole
  <2>2. UNCHANGED <<open, flushAt, asked, file, onDisk, due, pos, must, msg>>
    BY <1>2 DEF ToConsole
  <2> QED BY <2>1, <2>2, Numbers DEF AskedOK, Level, Running
<1>3. CASE ToFile(t)
  <2>1. /\ at[t] = "file" /\ open
        /\ \A u \in Threads \ {t} : at'[u] = at[u] /\ pos'[u] = pos[u]
        /\ UNCHANGED <<open, flushAt, asked, onDisk, due, must, msg>>
    BY <1>3 DEF IInv, SeqsOK, ToFile
  <2>2. /\ Len(file') \in Len(file)..(Len(file) + 1)
        /\ at'[t] = "test" => pos'[t] = Len(file')
    BY <1>3, FileStep
  <2>3. \/ at'[t] = "test" /\ Len(file') = Len(file) + 1
        \/ at'[t] = "return" /\ pos'[t] = pos[t]
    BY <1>3, AppendType DEF IInv, SeqsOK, ToFile
  <2> QED BY <2>1, <2>2, <2>3, Numbers DEF AskedOK, Level, Running
<1> QED BY <1>1, <1>2, <1>3

(* The load of the flush level, the flush and the return: a call that does *)
(* not flush has loaded a level that was asked for while it ran.           *)
LEMMA FlushAsked ==
  ASSUME IInv, AskedOK, NEW t \in Threads, TestFlush(t) \/ FlushFile(t) \/ Return(t)
  PROVE  AskedOK'
<1> USE DEF conf, sinks, Goto, FlushedAsAsked
<1>1. /\ \A u \in Threads \ {t} : at'[u] = at[u] /\ pos'[u] = pos[u] /\ must'[u] = must[u]
      /\ UNCHANGED <<open, flushAt, asked, file, msg>>
  BY DEF IInv, TypeOK, SeqsOK, TestFlush, FlushFile, Return
<1>2. CASE TestFlush(t)
  <2>1. /\ at[t] = "test" /\ at'[t] = (IF Level(t) >= asked THEN "flush" ELSE "return")
        /\ UNCHANGED <<onDisk, due, pos, must>>
    BY <1>2 DEF IInv, SeqsOK, TestFlush, ShouldFlush, AskedOK
  <2>2. CASE Level(t) >= asked
    BY <1>1, <2>1, <2>2, Numbers DEF AskedOK, Level, Running
  <2>3. CASE ~(Level(t) >= asked)
    <3>1. asked <= must[t]
      BY <2>1 DEF AskedOK, Running
    <3>2. Level(t) < must[t]
      BY <2>3, <3>1, Numbers
    <3> QED BY <1>1, <2>1, <2>3, <3>1, <3>2, Numbers DEF AskedOK, Level, Running
  <2> QED BY <2>2, <2>3
<1>3. CASE FlushFile(t)
  <2>1. /\ at[t] = "flush" /\ at'[t] = "return" /\ onDisk' = Len(file)
        /\ UNCHANGED <<due, pos, must>>
    BY <1>3 DEF IInv, SeqsOK, FlushFile
  <2>2. onDisk <= onDisk' /\ pos[t] <= onDisk'
    BY <2>1, Numbers DEF AskedOK
  <2> QED BY <1>1, <2>1, <2>2, Numbers DEF AskedOK, Level, Running
<1>4. CASE Return(t)
  <2>1. /\ at[t] = "return" /\ at'[t] = "idle" /\ pos'[t] = 0 /\ onDisk' = onDisk
        /\ due' = IF Level(t) >= must[t] /\ pos[t] > due THEN pos[t] ELSE due
    BY <1>4 DEF IInv, TypeOK, SeqsOK, Return
  <2>2. due' <= onDisk
    BY <2>1, Numbers DEF AskedOK
  <2> QED BY <1>1, <2>1, <2>2, Numbers DEF AskedOK, Level, Running
<1> QED BY <1>2, <1>3, <1>4

LEMMA SetAsked ==
  ASSUME LevelError \notin FlushLevels, IInv, AskedOK,
         NEW t \in Threads, NEW s \in Sinks, NEW l \in FlushLevels, FlushOn(t, s, l)
  PROVE  AskedOK'
<1> USE DEF conf, sinks, FlushedAsAsked
<1>1. l \in Int
  BY LevelsAssumption DEF Levels
<1>2. /\ asked' = flushAt'["file"] /\ (~open => asked' = Off)
      /\ s = "file" => asked' = l
      /\ s # "file" => asked' = asked
  BY DEF AskedOK, IInv, TypeOK, FlushOn, Setting, Sinks
<1>3. \A u \in Threads : asked <= must[u] => asked' <= must'[u]
  BY <1>1, <1>2, Numbers DEF FlushOn
<1>4. \A u \in Threads : must[u] <= must'[u] /\ must'[u] \in Int
  BY <1>1, Numbers DEF FlushOn
<1>5. UNCHANGED <<open, file, onDisk, due, at, msg, pos>>
  BY DEF FlushOn
<1>6. \A u \in Threads : Level(u) < must[u] => Level(u) < must'[u]
  BY <1>4, Numbers
<1> QED BY <1>2, <1>3, <1>5, <1>6 DEF AskedOK, Level, Running

LEMMA AskedStep ==
  ASSUME LevelError \notin FlushLevels, IInv, AskedOK, Next
  PROVE  AskedOK'
<1> USE DEF conf, sinks, Goto, FlushedAsAsked
<1>1. CASE \E t \in Threads : Build(t) \/ Enable(t)
  <2> SUFFICES ASSUME NEW t \in Threads, Build(t) \/ Enable(t) PROVE AskedOK'
    BY <1>1
  <2>1. /\ at[t] \in {"idle", "enable"} /\ at'[t] \in {"create", "idle"}
        /\ \A u \in Threads \ {t} : at'[u] = at[u]
        /\ UNCHANGED <<open, flushAt, asked, file, onDisk, due, pos, must, msg>>
    BY DEF IInv, SeqsOK, Build, Enable
  <2> QED BY <2>1 DEF AskedOK, Level, Running
<1>2. CASE Drain \/ \E t \in Threads : Flush(t)
  <2>1. onDisk' \in Nat /\ onDisk <= onDisk' /\ due' <= onDisk'
    BY <1>2, Numbers DEF AskedOK, Drain, Flush
  <2>2. UNCHANGED <<open, flushAt, asked, file, at, pos, must, msg>>
    BY <1>2 DEF Drain, Flush
  <2> QED BY <2>1, <2>2, Numbers DEF AskedOK, Level, Running
<1>3. CASE \E t \in Threads, s \in Sinks, l \in SetLevels : SetLevel(t, s, l)
  BY <1>3 DEF AskedOK, SetLevel, Level, Running
<1>4. CASE Restart
  BY <1>4, Numbers, RestartStep DEF AskedOK, Restart, Sinks, Level, Running
<1> QED BY <1>1, <1>2, <1>3, <1>4, CreateAsked, LogAsked, FlushAsked, SetAsked
       DEF Next, NullFile, Crash

(* When a log call has returned, its message is in the file if its level   *)
(* is at or above every flush level that was asked for while it ran, the   *)
(* one it began with included; what was given to the sink before a flush() *)
(* is in the file; whatever overlaps, and also if the process dies then.   *)
(* For clients that ask for another flush level than ERROR.                *)
THEOREM FlushesKept ==
  ASSUME LevelError \notin FlushLevels
  PROVE  Spec => []FlushedAsAsked
<1>1. Init => AskedOK
  BY DEF Init, AskedOK, FlushedAsAsked, Sinks, Running
<1>2. IInv /\ AskedOK /\ [Next]_vars => AskedOK'
  <2> SUFFICES ASSUME IInv, AskedOK, UNCHANGED vars PROVE AskedOK'
    BY AskedStep
  <2> QED BY DEF AskedOK, FlushedAsAsked, Level, vars, conf, sinks
<1>3. AskedOK => FlushedAsAsked
  BY DEF AskedOK
<1> QED BY <1>1, <1>2, <1>3, Invariance, PTL DEF Spec
=============================================================================
