-------------------------- MODULE ClassInit_proofs --------------------------
(***************************************************************************)
(* Proofs about ClassInit, for any number of threads and uses.             *)
(*                                                                         *)
(* The initialisers a thread is in are ordered: Ssl uses the classes with  *)
(* natives, these use Info, and Info uses none.  So no thread waits in one *)
(* for a class it is initialising itself, and what an initialiser has gone *)
(* past was initialised.                                                   *)
(***************************************************************************)
EXTENDS ClassInit, TLAPS

Frame == Classes \X Nat

Rank(c) == IF c = "Info" THEN 0 ELSE IF c = "Ssl" THEN 2 ELSE 1

(* Of a stack: the classes in it, the monitors, and whether an initialiser *)
(* in it has gone past a class it uses.                                    *)
In(s, c) == \E i \in 1..Len(s) : s[i][1] = c
Locks(s, c) == \E i \in 1..Len(s) : MonitorOf(s[i][1]) = c /\ s[i][2] > 0
Past(s) == \E i \in 1..Len(s) : s[i][2] > 1

Ordered(s) ==
  /\ s \in Seq(Frame)
  /\ \A i, j \in 1..Len(s) : i < j =>
       /\ Rank(s[i][1]) > Rank(s[j][1])
       /\ s[i][2] > 0 /\ s[j][2] > 0 => MonitorOf(s[i][1]) # MonitorOf(s[j][1])

StackOK(t) ==
  /\ Ordered(stack[t])
  /\ Past(stack[t]) => state["Info"] = "done"
  /\ \A c \in Classes :
       (by[c] = t <=> In(stack[t], c)) /\ (owner[c] = t <=> Locks(stack[t], c))

MachineOK ==
  /\ state \in [Classes -> {"fresh", "running", "done", "failed"}]
  /\ by \in [Classes -> Threads \cup {None}]
  /\ owner \in [Classes -> Threads \cup {None}]
  /\ DOMAIN stack = Threads /\ DOMAIN outcome = Threads
  /\ \A c \in Classes : state[c] = "running" <=> by[c] # None

(* The library is loaded when Info is done, and Info is done first.        *)
InfoFirst ==
  /\ isInit = (state["Info"] = "done")
  /\ loads = IF state["Info"] = "done" THEN 1 ELSE 0
  /\ \A c \in Classes : state[c] = "done" => state["Info"] = "done"
  /\ \A t \in Threads : outcome[t] = "native call" => state["Info"] = "done"

IInv == MachineOK /\ InfoFirst /\ \A t \in Threads : StackOK(t)

-----------------------------------------------------------------------------
LEMMA ClassFacts ==
  /\ "Info" \in Classes
  /\ \A c \in Classes : MonitorOf(c) \in Classes
  /\ \A c \in Classes : \A i \in 1..Len(Touches(c)) :
       Touches(c)[i] \in Classes /\ Rank(Touches(c)[i]) < Rank(c)
  /\ \A c \in Classes : Len(Touches(c)) \in Nat /\ (c # "Info" => Len(Touches(c)) > 0)
<1>1. "Info" \in Classes /\ \A c \in Classes : MonitorOf(c) \in Classes
  BY DEF Classes, Natives, MonitorOf
<1>2. ASSUME NEW c \in Classes
      PROVE  /\ \A i \in 1..Len(Touches(c)) :
                  Touches(c)[i] \in Classes /\ Rank(Touches(c)[i]) < Rank(c)
             /\ Len(Touches(c)) \in Nat /\ (c # "Info" => Len(Touches(c)) > 0)
  <2>1. CASE c = "Info"
    BY <2>1 DEF Touches
  <2>2. CASE c = "Ssl"
    BY <2>2 DEF Touches, Classes, Natives, Rank
  <2>3. CASE c \notin {"Info", "Ssl"}
    BY <2>3 DEF Touches, Classes, Natives, Rank
  <2> QED BY <2>1, <2>2, <2>3
<1> QED BY <1>1, <1>2

LEMMA RankNat == \A c : Rank(c) \in Nat
BY DEF Rank

(* The three changes of a stack.                                           *)
LEMMA Pushed ==
  ASSUME NEW s, Ordered(s), NEW c \in Classes,
         s # << >> => Rank(c) < Rank(s[Len(s)][1])
  PROVE  LET a == Append(s, <<c, 0>>)
         IN /\ Ordered(a) /\ (Past(a) => Past(s))
            /\ \A d \in Classes : (In(a, d) <=> In(s, d) \/ d = c) /\ (Locks(a, d) <=> Locks(s, d))
<1> DEFINE n == Len(s)  a == Append(s, <<c, 0>>)
<1>1. s \in Seq(Frame) /\ n \in Nat /\ <<c, 0>> \in Frame
  BY DEF Ordered, Frame
<1>2. /\ a \in Seq(Frame) /\ Len(a) = n + 1 /\ a[n + 1] = <<c, 0>>
      /\ \A i \in 1..n : a[i] = s[i]
  BY <1>1
<1>3. \A i : i \in 1..(n + 1) <=> i \in 1..n \/ i = n + 1
  BY <1>1
<1> HIDE DEF a, n
<1>4. Past(a) => Past(s)
  BY <1>2, <1>3 DEF Past, n
<1>5. ASSUME NEW d \in Classes
      PROVE  (In(a, d) <=> In(s, d) \/ d = c) /\ (Locks(a, d) <=> Locks(s, d))
  <2>1. In(a, d) <=> In(s, d) \/ d = c
    BY <1>2, <1>3 DEF In, n
  <2>2. Locks(a, d) <=> Locks(s, d)
    BY <1>2, <1>3 DEF Locks, n
  <2> QED BY <2>1, <2>2
<1>6. \A i \in 1..n : Rank(s[i][1]) > Rank(c)
  <2> SUFFICES ASSUME NEW i \in 1..n PROVE Rank(s[i][1]) > Rank(c)
    OBVIOUS
  <2>1. s # << >> /\ n \in 1..n
    BY <1>1 DEF n
  <2>2. i = n \/ Rank(s[i][1]) > Rank(s[n][1])
    BY <1>1, <2>1 DEF Ordered, n
  <2> QED BY <2>1, <2>2, RankNat DEF n
<1>7. Ordered(a)
  <2> SUFFICES ASSUME NEW i \in 1..(n + 1), NEW j \in 1..(n + 1), i < j
               PROVE  /\ Rank(a[i][1]) > Rank(a[j][1])
                      /\ a[i][2] > 0 /\ a[j][2] > 0 => MonitorOf(a[i][1]) # MonitorOf(a[j][1])
    BY <1>2 DEF Ordered
  <2>1. i \in 1..n /\ a[i] = s[i]
    BY <1>1, <1>2
  <2>2. CASE j \in 1..n
    BY <1>2, <2>1, <2>2 DEF Ordered, n
  <2>3. CASE j = n + 1
    BY <1>2, <1>6, <2>1, <2>3
  <2> QED BY <1>3, <2>2, <2>3
<1> QED BY <1>4, <1>5, <1>7 DEF a

Last(s) == s[Len(s)]
Bumped(s) == [s EXCEPT ![Len(s)] = <<Last(s)[1], Last(s)[2] + 1>>]

LEMMA Advanced ==
  ASSUME NEW s, Ordered(s), s # << >>,
         Last(s)[2] > 0 \/ ~Locks(s, MonitorOf(Last(s)[1]))
  PROVE  /\ Ordered(Bumped(s)) /\ (Past(Bumped(s)) => Past(s) \/ Last(s)[2] > 0)
         /\ \A d \in Classes :
              /\ In(Bumped(s), d) <=> In(s, d)
              /\ Locks(Bumped(s), d) <=> Locks(s, d) \/ d = MonitorOf(Last(s)[1])
<1> DEFINE n == Len(s)  f == Last(s)  g == <<f[1], f[2] + 1>>  a == Bumped(s)
<1>1. s \in Seq(Frame) /\ n \in Nat \ {0} /\ f \in Frame
  BY DEF Ordered, Last
<1>2. g \in Frame /\ g[1] = f[1] /\ g[2] = f[2] + 1 /\ f[2] \in Nat
  BY <1>1 DEF Frame
<1>3. /\ a \in Seq(Frame) /\ Len(a) = n /\ a[n] = g
      /\ \A i \in 1..n : i # n => a[i] = s[i]
  BY <1>1, <1>2 DEF Bumped
<1>4. /\ n \in 1..n /\ s[n] = f /\ \A i \in 1..n : s[i][2] \in Nat
  BY <1>1 DEF Frame, Last
<1> HIDE DEF g, f, a
<1>5. Past(a) => Past(s) \/ f[2] > 0
  BY <1>2, <1>3, <1>4 DEF Past
<1>6. ASSUME NEW d \in Classes
      PROVE  (In(a, d) <=> In(s, d)) /\ (Locks(a, d) <=> Locks(s, d) \/ d = MonitorOf(f[1]))
  <2>1. In(a, d) <=> In(s, d)
    BY <1>2, <1>3, <1>4 DEF In
  <2>2. Locks(a, d) <=> Locks(s, d) \/ d = MonitorOf(f[1])
    BY <1>2, <1>3, <1>4 DEF Locks
  <2> QED BY <2>1, <2>2
<1>7. \A i \in 1..n : i < n /\ s[i][2] > 0 => MonitorOf(s[i][1]) # MonitorOf(f[1])
  BY <1>1, <1>4 DEF Ordered, Locks, f
<1>8. Ordered(a)
  <2> SUFFICES ASSUME NEW i \in 1..n, NEW j \in 1..n, i < j
               PROVE  /\ Rank(a[i][1]) > Rank(a[j][1])
                      /\ a[i][2] > 0 /\ a[j][2] > 0 => MonitorOf(a[i][1]) # MonitorOf(a[j][1])
    BY <1>3 DEF Ordered
  <2>1. i # n /\ a[i] = s[i]
    BY <1>1, <1>3
  <2>2. CASE j # n
    BY <1>3, <2>1, <2>2 DEF Ordered
  <2>3. CASE j = n
    BY <1>2, <1>3, <1>4, <1>7, <2>1, <2>3 DEF Ordered
  <2> QED BY <2>2, <2>3
<1> QED BY <1>5, <1>6, <1>8 DEF f, a

LEMMA Popped ==
  ASSUME NEW s, Ordered(s), s # << >>, s[Len(s)][2] > 0
  PROVE  LET f == s[Len(s)]
             a == SubSeq(s, 1, Len(s) - 1)
         IN /\ Ordered(a) /\ (Past(a) => Past(s))
            /\ \A d \in Classes : /\ In(a, d) <=> In(s, d) /\ d # f[1]
                                  /\ Locks(a, d) <=> Locks(s, d) /\ d # MonitorOf(f[1])
<1> DEFINE n == Len(s)  f == s[n]  m == n - 1  a == SubSeq(s, 1, m)
<1>1. s \in Seq(Frame) /\ n \in Nat \ {0} /\ f \in Frame /\ m \in 0..n /\ n = m + 1
  BY DEF Ordered
<1>2. a \in Seq(Frame) /\ Len(a) = m /\ \A i \in 1..m : a[i] = s[i]
  BY <1>1
<1>3. n \in 1..n /\ \A i : i \in 1..n <=> i \in 1..m \/ i = n
  BY <1>1
<1>4. \A i \in 1..m : i < n /\ i \in 1..n
  BY <1>1
<1> HIDE DEF a
<1>5. \A i \in 1..m : s[i][1] # f[1] /\ (s[i][2] > 0 => MonitorOf(s[i][1]) # MonitorOf(f[1]))
  BY <1>3, <1>4, RankNat DEF Ordered
<1>6. ASSUME NEW d \in Classes
      PROVE  /\ In(a, d) <=> In(s, d) /\ d # f[1]
             /\ Locks(a, d) <=> Locks(s, d) /\ d # MonitorOf(f[1])
  <2>1. In(a, d) <=> In(s, d) /\ d # f[1]
    BY <1>2, <1>3, <1>5 DEF In
  <2>2. Locks(a, d) <=> Locks(s, d) /\ d # MonitorOf(f[1])
    BY <1>2, <1>3, <1>5 DEF Locks
  <2> QED BY <2>1, <2>2
<1>7. Ordered(a)
  BY <1>2, <1>4 DEF Ordered
<1>8. Past(a) => Past(s)
  BY <1>2, <1>4 DEF Past
<1> QED BY <1>6, <1>7, <1>8 DEF a

-----------------------------------------------------------------------------
(* Another thread's step leaves what is booked to u.                       *)
LEMMA OtherStack ==
  ASSUME NEW u \in Threads, StackOK(u), stack'[u] = stack[u],
         state["Info"] = "done" => state'["Info"] = "done",
         \A c \in Classes : (by'[c] = u <=> by[c] = u) /\ (owner'[c] = u <=> owner[c] = u)
  PROVE  StackOK(u)'
BY DEF StackOK

LEMMA UseStep ==
  ASSUME IInv, NEW t \in Threads, NEW c \in Classes,
         Use(t, c) \/ (stack[t] = << >> /\ (Proceed(t, c) \/ Unusable(t, c)))
  PROVE  IInv'
<1>1. CASE Use(t, c)
  BY <1>1 DEF Use, IInv, MachineOK, InfoFirst, StackOK
<1>2. CASE stack[t] = << >> /\ Proceed(t, c)
  <2>1. UNCHANGED <<state, by, owner, isInit, loads, stack>>
    BY <1>2 DEF Proceed
  <2>2. state[c] = "done"
    <3>1. ~In(stack[t], c)
      BY <1>2 DEF In
    <3> QED BY <1>2, <3>1 DEF Proceed, IInv, StackOK
  <2>3. state["Info"] = "done"
    BY <2>2 DEF IInv, InfoFirst
  <2>4. DOMAIN outcome' = Threads
    BY <1>2 DEF Proceed, IInv, MachineOK
  <2> QED BY <2>1, <2>3, <2>4 DEF IInv, MachineOK, InfoFirst, StackOK
<1>3. CASE stack[t] = << >> /\ Unusable(t, c)
  <2>1. UNCHANGED <<state, by, owner, isInit, loads, stack>>
    BY <1>3 DEF Unusable
  <2>2. outcome' = [outcome EXCEPT ![t] = "error"]
    BY <1>3 DEF Unusable
  <2>3. \A u \in Threads : outcome'[u] = "native call" => outcome[u] = "native call"
    BY <2>2 DEF IInv, MachineOK
  <2> QED BY <2>1, <2>2, <2>3 DEF IInv, MachineOK, InfoFirst, StackOK
<1> QED BY <1>1, <1>2, <1>3

LEMMA InitialiseStep ==
  ASSUME IInv, NEW t \in Threads, NEW c \in Classes, Initialise(t, c)
  PROVE  IInv'
<1>1. /\ state[c] = "fresh" /\ state' = [state EXCEPT ![c] = "running"]
      /\ by' = [by EXCEPT ![c] = t] /\ by[c] = None
      /\ stack' = [stack EXCEPT ![t] = Append(stack[t], <<c, 0>>)]
      /\ UNCHANGED <<owner, isInit, loads, outcome>>
  BY DEF Initialise, IInv, MachineOK
<1>2. state'["Info"] = "done" <=> state["Info"] = "done"
  BY <1>1, ClassFacts DEF IInv, MachineOK
<1>3. stack[t] # << >> => Rank(c) < Rank(stack[t][Len(stack[t])][1])
  <2> SUFFICES ASSUME stack[t] # << >>
               PROVE  Rank(c) < Rank(stack[t][Len(stack[t])][1])
    OBVIOUS
  <2>1. stack[t][Len(stack[t])] \in Frame
    BY DEF IInv, StackOK, Ordered
  <2>2. At(t) \in 1..Len(Touches(Class(t))) /\ c = Touches(Class(t))[At(t)]
    BY DEF Initialise, Wants
  <2> QED BY <2>1, <2>2, ClassFacts DEF Frame, Class, At, Top
<1>4. StackOK(t)'
  <2>1. stack'[t] = Append(stack[t], <<c, 0>>)
    BY <1>1 DEF IInv, MachineOK
  <2>2. Ordered(stack'[t]) /\ (Past(stack'[t]) => Past(stack[t]))
    BY <1>3, <2>1, Pushed DEF IInv, StackOK
  <2>3. ASSUME NEW d \in Classes
        PROVE  /\ In(stack'[t], d) <=> In(stack[t], d) \/ d = c
               /\ Locks(stack'[t], d) <=> Locks(stack[t], d)
    BY <1>3, <2>1, Pushed DEF IInv, StackOK
  <2>4. \A d \in Classes : by'[d] = t <=> by[d] = t \/ d = c
    BY <1>1 DEF IInv, MachineOK
  <2> QED BY <1>1, <1>2, <2>2, <2>3, <2>4 DEF IInv, StackOK
<1>5. ASSUME NEW u \in Threads, u # t PROVE StackOK(u)'
  <2>1. \A d \in Classes : by'[d] = u <=> by[d] = u
    BY <1>1, <1>5, NoneAssumption DEF IInv, MachineOK
  <2> QED BY <1>1, <1>2, <1>5, <2>1, OtherStack DEF IInv
<1>6. MachineOK'
  BY <1>1, NoneAssumption DEF IInv, MachineOK
<1>7. InfoFirst'
  BY <1>1, <1>2 DEF IInv, MachineOK, InfoFirst
<1> QED BY <1>4, <1>5, <1>6, <1>7 DEF IInv

(* The initialiser on top of a stack goes on to its next statement.        *)
LEMMA AdvanceStep ==
  ASSUME IInv, NEW t \in Threads, stack[t] # << >>,
         Lock(t) \/ \E c \in Classes : Proceed(t, c)
  PROVE  IInv'
<1> DEFINE f == stack[t][Len(stack[t])]  M == MonitorOf(f[1])
<1>1. /\ f \in Frame /\ f[1] \in Classes /\ f[2] \in Nat /\ M \in Classes
      /\ Class(t) = f[1] /\ At(t) = f[2]
  BY ClassFacts DEF IInv, StackOK, Ordered, Frame, Class, At, Top
<1>2. /\ stack' = [stack EXCEPT ![t] = [stack[t] EXCEPT ![Len(stack[t])] = <<f[1], f[2] + 1>>]]
      /\ UNCHANGED <<state, by, isInit, loads, outcome>>
  BY <1>1 DEF Lock, Proceed, Advance
<1>3. \/ f[2] = 0 /\ owner[M] = None /\ owner' = [owner EXCEPT ![M] = t]
      \/ f[2] > 0 /\ owner' = owner /\ state["Info"] = "done"
  <2>1. CASE Lock(t)
    BY <1>1, <2>1 DEF Lock
  <2>2. ASSUME NEW c \in Classes, Proceed(t, c)
        PROVE  f[2] > 0 /\ owner' = owner /\ state["Info"] = "done"
    <3>1. f[2] \in 1..Len(Touches(f[1])) /\ c = Touches(f[1])[f[2]]
      BY <1>1, <2>2 DEF Proceed, Wants
    <3>2. Rank(c) < Rank(f[1])
      BY <1>1, <3>1, ClassFacts
    <3>3. ~In(stack[t], c)
      <4> SUFFICES ASSUME NEW i \in 1..Len(stack[t]), stack[t][i][1] = c PROVE FALSE
        BY DEF In
      <4>1. Len(stack[t]) \in 1..Len(stack[t]) /\ i <= Len(stack[t])
        BY DEF IInv, StackOK, Ordered
      <4>2. i = Len(stack[t]) \/ Rank(c) > Rank(f[1])
        BY <4>1 DEF IInv, StackOK, Ordered
      <4> QED BY <3>2, <4>2, RankNat
    <3>4. state[c] = "done"
      BY <2>2, <3>3 DEF Proceed, IInv, StackOK
    <3>5. f[2] > 0
      BY <1>1, <3>1
    <3>6. owner' = owner /\ state["Info"] = "done"
      BY <2>2, <3>4 DEF Proceed, IInv, InfoFirst
    <3> QED BY <3>5, <3>6
  <2> QED BY <2>1, <2>2
<1>4. f[2] > 0 => Locks(stack[t], M)
  <2>1. Len(stack[t]) \in 1..Len(stack[t])
    BY DEF IInv, StackOK, Ordered
  <2> QED BY <2>1 DEF Locks
<1>5. f[2] > 0 \/ ~Locks(stack[t], M)
  BY <1>1, <1>3, NoneAssumption DEF IInv, StackOK
<1>6. StackOK(t)'
  <2>1. stack'[t] = [stack[t] EXCEPT ![Len(stack[t])] = <<f[1], f[2] + 1>>]
    BY <1>2 DEF IInv, MachineOK
  <2>2. /\ Ordered(stack'[t]) /\ (Past(stack'[t]) => Past(stack[t]) \/ f[2] > 0)
        /\ \A d \in Classes : /\ In(stack'[t], d) <=> In(stack[t], d)
                              /\ Locks(stack'[t], d) <=> Locks(stack[t], d) \/ d = M
    <3>1. Ordered(stack[t]) /\ stack'[t] = Bumped(stack[t]) /\ f = Last(stack[t])
      BY <2>1 DEF IInv, StackOK, Bumped, Last
    <3> HIDE DEF f
    <3> QED BY <1>5, <3>1, Advanced
  <2>4. ASSUME NEW d \in Classes
        PROVE  owner'[d] = t <=> owner[d] = t \/ d = M
    BY <1>1, <1>3, <1>4 DEF IInv, MachineOK, StackOK
  <2>5. Past(stack'[t]) => state'["Info"] = "done"
    BY <1>1, <1>2, <1>3, <2>2 DEF IInv, StackOK
  <2> QED BY <1>2, <2>2, <2>4, <2>5 DEF IInv, StackOK
<1>7. ASSUME NEW u \in Threads, u # t PROVE StackOK(u)'
  <2>1. \A d \in Classes : owner'[d] = u <=> owner[d] = u
    BY <1>1, <1>3, <1>7, NoneAssumption DEF IInv, MachineOK
  <2> QED BY <1>2, <1>7, <2>1, OtherStack DEF IInv
<1>8. MachineOK' /\ InfoFirst'
  BY <1>1, <1>2, <1>3 DEF IInv, MachineOK, InfoFirst
<1> QED BY <1>6, <1>7, <1>8 DEF IInv

(* An initialiser ends, by itself or by an error in a class it uses.       *)
LEMMA EndStep ==
  ASSUME IInv, NEW t \in Threads, stack[t] # << >>,
         InitInfo(t) \/ Finish(t) \/ \E c \in Classes : Unusable(t, c)
  PROVE  IInv'
<1> DEFINE f == stack[t][Len(stack[t])]  C == f[1]  M == MonitorOf(f[1])
<1>1. /\ f \in Frame /\ C \in Classes /\ f[2] \in Nat /\ M \in Classes
      /\ Class(t) = C /\ At(t) = f[2] /\ Len(stack[t]) \in 1..Len(stack[t])
  BY ClassFacts DEF IInv, StackOK, Ordered, Frame, Class, At, Top
<1>2. PICK s \in {"done", "failed"} :
        /\ End(t, s) /\ outcome' = outcome /\ f[2] > 0
        /\ \/ s = "failed" /\ UNCHANGED <<isInit, loads>>
           \/ s = "done" /\ C = "Info" /\ loads' = loads + 1 /\ isInit' = TRUE
           \/ /\ s = "done" /\ C # "Info" /\ f[2] > 1
              /\ loads' = IF C = "Ssl" \/ isInit THEN loads ELSE loads + 1
              /\ isInit' = (isInit \/ C # "Ssl")
  <2>1. CASE InitInfo(t)
    BY <1>1, <2>1, ClassFacts DEF InitInfo, Throw
  <2>2. CASE Finish(t)
    <3>1. C # "Info" /\ f[2] = Len(Touches(C)) + 1 /\ Len(Touches(C)) \in Nat \ {0}
      BY <1>1, <2>2, ClassFacts DEF Finish
    <3> QED BY <1>1, <2>2, <3>1 DEF Finish
  <2>3. CASE \E c \in Classes : Unusable(t, c)
    BY <1>1, <2>3, ClassFacts DEF Unusable, Throw, Wants
  <2> QED BY <2>1, <2>2, <2>3
<1>3. /\ state' = [state EXCEPT ![C] = s] /\ by' = [by EXCEPT ![C] = None]
      /\ owner' = [owner EXCEPT ![M] = None]
      /\ stack' = [stack EXCEPT ![t] = SubSeq(stack[t], 1, Len(stack[t]) - 1)]
  BY <1>1, <1>2 DEF End, Pop
<1>4. by[C] = t /\ owner[M] = t /\ state[C] = "running"
  <2>1. In(stack[t], C) /\ Locks(stack[t], M)
    BY <1>1, <1>2 DEF In, Locks
  <2> QED BY <1>1, <2>1, NoneAssumption DEF IInv, StackOK, MachineOK
<1>5. C # "Info" => /\ state'["Info"] = state["Info"]
                    /\ f[2] > 1 => state["Info"] = "done"
  BY <1>1, <1>3, ClassFacts DEF IInv, MachineOK, StackOK, Past
<1>6. C = "Info" => state'["Info"] = s /\ state["Info"] # "done"
  BY <1>1, <1>3, <1>4 DEF IInv, MachineOK
<1>7. StackOK(t)'
  <2>1. stack'[t] = SubSeq(stack[t], 1, Len(stack[t]) - 1)
    BY <1>3 DEF IInv, MachineOK
  <2>2. Ordered(stack'[t]) /\ (Past(stack'[t]) => Past(stack[t]))
    BY <1>2, <2>1, Popped DEF IInv, StackOK
  <2>3. ASSUME NEW d \in Classes
        PROVE  /\ In(stack'[t], d) <=> In(stack[t], d) /\ d # C
               /\ Locks(stack'[t], d) <=> Locks(stack[t], d) /\ d # M
    BY <1>2, <2>1, Popped DEF IInv, StackOK
  <2>4. ASSUME NEW d \in Classes
        PROVE  (by'[d] = t <=> by[d] = t /\ d # C) /\ (owner'[d] = t <=> owner[d] = t /\ d # M)
    BY <1>1, <1>3, NoneAssumption DEF IInv, MachineOK
  <2>5. Past(stack'[t]) => state'["Info"] = "done"
    BY <1>5, <1>6, <2>2 DEF IInv, StackOK
  <2> QED BY <2>2, <2>3, <2>4, <2>5 DEF IInv, StackOK
<1>8. ASSUME NEW u \in Threads, u # t PROVE StackOK(u)'
  <2>1. \A d \in Classes : (by'[d] = u <=> by[d] = u) /\ (owner'[d] = u <=> owner[d] = u)
    BY <1>1, <1>3, <1>4, <1>8, NoneAssumption DEF IInv, MachineOK
  <2>2. stack'[u] = stack[u]
    BY <1>3, <1>8 DEF IInv, MachineOK
  <2> QED BY <1>5, <1>6, <1>8, <2>1, <2>2, OtherStack DEF IInv
<1>9. MachineOK'
  BY <1>1, <1>2, <1>3 DEF IInv, MachineOK
<1>10. InfoFirst'
  <2>1. \A c \in Classes : state'[c] = "done" => state'["Info"] = "done"
    BY <1>2, <1>3, <1>5, <1>6 DEF IInv, InfoFirst, MachineOK
  <2>2. \A u \in Threads : outcome'[u] = "native call" => state'["Info"] = "done"
    BY <1>2, <1>5, <1>6 DEF IInv, InfoFirst
  <2>3. /\ isInit = (state["Info"] = "done")
        /\ loads = IF state["Info"] = "done" THEN 1 ELSE 0
    BY DEF IInv, InfoFirst
  <2>4. loads' = IF state'["Info"] = "done" THEN 1 ELSE 0
    <3>1. CASE C = "Info"
      BY <1>2, <1>6, <2>3, <3>1
    <3>2. CASE C # "Info"
      <4>1. s = "done" => isInit
        BY <1>2, <1>5, <2>3, <3>2
      <4>2. loads' = loads
        BY <1>2, <3>2, <4>1
      <4> QED BY <1>5, <2>3, <3>2, <4>2
    <3> QED BY <3>1, <3>2
  <2>5. isInit' = (state'["Info"] = "done")
    BY <1>2, <1>5, <1>6, <2>3
  <2> QED BY <2>1, <2>2, <2>4, <2>5 DEF InfoFirst
<1> QED BY <1>7, <1>8, <1>9, <1>10 DEF IInv

THEOREM Invariance == Spec => []IInv
<1>1. Init => IInv
  <2> SUFFICES ASSUME Init PROVE IInv
    OBVIOUS
  <2>1. ASSUME NEW t \in Threads PROVE StackOK(t)
    BY NoneAssumption DEF Init, StackOK, Ordered, Past, In, Locks
  <2> QED BY <2>1, ClassFacts DEF Init, IInv, MachineOK, InfoFirst
<1>2. IInv /\ [Next]_vars => IInv'
  <2> SUFFICES ASSUME IInv, [Next]_vars PROVE IInv'
    OBVIOUS
  <2>1. CASE UNCHANGED vars
    BY <2>1 DEF IInv, MachineOK, InfoFirst, StackOK, vars
  <2>2. ASSUME NEW t \in Threads, Step(t) PROVE IInv'
    <3>1. CASE stack[t] = << >>
      BY <2>2, <3>1, UseStep, InitialiseStep DEF Step, Lock, InitInfo, Finish
    <3>2. CASE stack[t] # << >>
      BY <2>2, <3>2, InitialiseStep, AdvanceStep, EndStep DEF Step
    <3> QED BY <3>1, <3>2
  <2> QED BY <2>1, <2>2, UseStep DEF Next
<1> QED BY <1>1, <1>2, PTL DEF Spec

(* A class is running exactly while a thread is in its initialiser, and a  *)
(* monitor has an owner exactly while that thread is in its block.         *)
THEOREM TypeCorrect == Spec => []TypeOK
<1>1. IInv => TypeOK
  <2> SUFFICES ASSUME IInv PROVE TypeOK
    OBVIOUS
  <2>1. ASSUME NEW t \in Threads, NEW c \in Classes
        PROVE  /\ by[c] = t <=> InFrame(t, c)
               /\ owner[c] = t <=>
                    \E i \in DOMAIN stack[t] : MonitorOf(stack[t][i][1]) = c /\ stack[t][i][2] > 0
    <3>1. DOMAIN stack[t] = 1..Len(stack[t])
      BY DEF IInv, StackOK, Ordered
    <3> QED BY <3>1 DEF IInv, StackOK, In, Locks, InFrame
  <2> QED BY <2>1 DEF IInv, MachineOK, InfoFirst, TypeOK
<1> QED BY <1>1, Invariance, PTL

(* However many threads first use however many classes at once, the        *)
(* library is loaded once.                                                 *)
THEOREM OneLoad == Spec => []LoadedOnce
<1>1. IInv => loads = IF state["Info"] = "done" THEN 1 ELSE 0
  BY DEF IInv, InfoFirst
<1>2. IInv => LoadedOnce
  BY <1>1 DEF LoadedOnce
<1> QED BY <1>2, Invariance, PTL

(* A class whose natives can be called has the library behind it, also     *)
(* when loading it failed for another.                                     *)
THEOREM Linked == Spec => []NativesLinked
<1>1. IInv => NativesLinked
  <2> SUFFICES ASSUME IInv PROVE NativesLinked
    OBVIOUS
  <2>1. state["Info"] = "done" => loads > 0
    BY DEF IInv, InfoFirst
  <2>2. state["Info"] = "done" => isInit
    BY DEF IInv, InfoFirst
  <2>3. \A c \in Classes : state[c] = "done" => state["Info"] = "done"
    BY DEF IInv, InfoFirst
  <2>4. \A t \in Threads : outcome[t] = "native call" => state["Info"] = "done"
    BY DEF IInv, InfoFirst
  <2>5. \A c \in Natives : c \in Classes
    BY DEF Classes
  <2> QED BY <2>1, <2>2, <2>3, <2>4, <2>5 DEF NativesLinked
<1> QED BY <1>1, Invariance, PTL
=============================================================================
