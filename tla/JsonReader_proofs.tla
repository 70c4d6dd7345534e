------------------------- MODULE JsonReader_proofs -------------------------
(***************************************************************************)
(* Proofs about JsonReader, for any document, any paths and any threads.   *)
(*                                                                         *)
(* The first part is about Follow, a recursive function: it follows one    *)
(* path and then another as it follows the two put together.  Induction is *)
(* by the smallest counterexample, which NatLessThanWellFounded provides.  *)
(***************************************************************************)
EXTENDS JsonReader, Integers, SequenceTheorems, WellFoundedInduction, TLAPS

LEMMA Smallest ==
  ASSUME NEW T, T \subseteq Nat, T # {}
  PROVE  \E x \in T : \A y \in T : x <= y
<1>1. PICK x \in T : \A y \in T : ~(<<y, x>> \in OpToRel(<, Nat))
  BY NatLessThanWellFounded, WFMin, Zenon
<1>2. ASSUME NEW y \in T PROVE x <= y
  <2>1. ~(<<y, x>> \in {ss \in Nat \X Nat : ss[1] < ss[2]})
    BY <1>1 DEF OpToRel
  <2> QED BY <2>1
<1> QED BY <1>2

(* w lists the values on the way from n along the first k names of p.      *)
Trace(w, n, p, k) ==
  w = [i \in 0..k |-> IF i = 0 THEN n ELSE Sub(w[i - 1], p[i])]

Upto(w, k) == w = [i \in 0..k |-> w[i]]

LEMMA TraceIs ==
  ASSUME NEW n, NEW p, NEW k \in Nat, NEW w, Upto(w, k),
         w[0] = n, \A i \in 1..k : w[i] = Sub(w[i - 1], p[i])
  PROVE  Trace(w, n, p, k)
<1>1. \A i \in 0..k : w[i] = IF i = 0 THEN n ELSE Sub(w[i - 1], p[i])
  OBVIOUS
<1> QED BY <1>1 DEF Trace, Upto

LEMMA TraceSteps ==
  ASSUME NEW n, NEW p, NEW k \in Nat, NEW w, Trace(w, n, p, k)
  PROVE  w[0] = n /\ \A i \in 1..k : w[i] = Sub(w[i - 1], p[i])
BY DEF Trace

LEMMA TraceExists ==
  ASSUME NEW n, NEW p, NEW k \in Nat
  PROVE  \E w : Trace(w, n, p, k)
<1> DEFINE T == {m \in Nat : ~\E w : Trace(w, n, p, m)}
<1> SUFFICES ASSUME T # {} PROVE FALSE
  OBVIOUS
<1>1. PICK m \in T : \A y \in T : m <= y
  BY Smallest
<1>2. CASE m = 0
  <2>1. Trace([i \in 0..0 |-> n], n, p, 0)
    BY DEF Trace
  <2> QED BY <1>2, <2>1
<1>3. CASE m # 0
  <2>1. m - 1 \in Nat /\ m - 1 \notin T
    BY <1>1, <1>3
  <2>2. PICK w : Trace(w, n, p, m - 1)
    BY <2>1
  <2> DEFINE v == [i \in 0..m |-> IF i < m THEN w[i] ELSE Sub(w[m - 1], p[m])]
  <2>3. v[0] = n /\ \A i \in 1..m : v[i] = Sub(v[i - 1], p[i])
    BY <1>3, <2>1, <2>2, TraceSteps
  <2>4. Upto(v, m)
    BY DEF Upto
  <2> HIDE DEF v
  <2>5. Trace(v, n, p, m)
    BY <2>3, <2>4, TraceIs
  <2> QED BY <2>5
<1> QED BY <1>2, <1>3

LEMMA TraceUnique ==
  ASSUME NEW n, NEW p, NEW k \in Nat, NEW v, NEW w, Trace(v, n, p, k), Trace(w, n, p, k)
  PROVE  v[k] = w[k]
<1> DEFINE T == {m \in 0..k : v[m] # w[m]}
<1> SUFFICES ASSUME T # {} PROVE FALSE
  OBVIOUS
<1>1. PICK m \in T : \A y \in T : m <= y
  <2>1. T \subseteq Nat
    OBVIOUS
  <2> HIDE DEF T
  <2> QED BY <2>1, Smallest
<1>2. /\ v[0] = n /\ \A i \in 1..k : v[i] = Sub(v[i - 1], p[i])
      /\ w[0] = n /\ \A i \in 1..k : w[i] = Sub(w[i - 1], p[i])
  BY TraceSteps
<1>3. m \in 1..k /\ v[m] # w[m]
  BY <1>2
<1>4. v[m - 1] = w[m - 1]
  BY <1>1, <1>3
<1> QED BY <1>2, <1>3, <1>4

(* The recursive definition yields the end of the trace.                   *)
LEMMA FollowTrace ==
  ASSUME NEW n, NEW p \in Seq(Names), NEW w, Trace(w, n, p, Len(p))
  PROVE  Follow(n, p) = w[Len(p)]
<1> DEFINE f == CHOOSE g : Trace(g, n, p, Len(p))
<1>1. Trace(f, n, p, Len(p))
  BY TraceExists
<1>2. Follow(n, p) = f[Len(p)]
  BY DEF Follow, Trace
<1> HIDE DEF f
<1> QED BY <1>1, <1>2, TraceUnique

LEMMA FollowNone ==
  ASSUME NEW n
  PROVE  Follow(n, << >>) = n
<1>1. PICK w : Trace(w, n, << >>, 0)
  BY TraceExists
<1>2. << >> \in Seq(Names) /\ Len(<< >>) = 0
  OBVIOUS
<1>3. w[0] = n
  BY <1>1, TraceSteps
<1> QED BY <1>1, <1>2, <1>3, FollowTrace

LEMMA FollowBoth ==
  ASSUME NEW n, NEW p \in Seq(Names), NEW q \in Seq(Names)
  PROVE  Follow(n, p \o q) = Follow(Follow(n, p), q)
<1> DEFINE a == Len(p)  b == Len(q)
<1>1. /\ a \in Nat /\ b \in Nat /\ p \o q \in Seq(Names) /\ Len(p \o q) = a + b
      /\ \A i \in 1..(a + b) : (p \o q)[i] = IF i <= a THEN p[i] ELSE q[i - a]
  OBVIOUS
<1>2. PICK w : Trace(w, n, p, a)
  BY <1>1, TraceExists
<1>3. PICK v : Trace(v, w[a], q, b)
  BY <1>1, TraceExists
<1>4. Follow(n, p) = w[a] /\ Follow(w[a], q) = v[b]
  BY <1>2, <1>3, FollowTrace
<1> DEFINE u == [i \in 0..(a + b) |-> IF i <= a THEN w[i] ELSE v[i - a]]
<1>5. /\ w[0] = n /\ \A i \in 1..a : w[i] = Sub(w[i - 1], p[i])
      /\ v[0] = w[a] /\ \A i \in 1..b : v[i] = Sub(v[i - 1], q[i])
  BY <1>1, <1>2, <1>3, TraceSteps
<1>6. u[0] = n /\ Upto(u, a + b) /\ u[a + b] = v[b]
  <2>1. u[0] = n /\ u[a + b] = v[b]
    <3>1. 0 \in 0..(a + b) /\ a + b \in 0..(a + b) /\ 0 <= a
      BY <1>1
    <3>2. u[0] = w[0] /\ u[a + b] = IF a + b <= a THEN w[a + b] ELSE v[(a + b) - a]
      BY <3>1
    <3>3. CASE b = 0
      BY <1>1, <1>5, <3>2, <3>3
    <3>4. CASE b # 0
      <4>1. ~(a + b <= a) /\ (a + b) - a = b
        BY <1>1, <3>4
      <4> QED BY <1>5, <3>2, <4>1
    <3> QED BY <3>3, <3>4
  <2>2. Upto(u, a + b)
    BY DEF Upto
  <2> QED BY <2>1, <2>2
<1>7. ASSUME NEW i \in 1..(a + b) PROVE u[i] = Sub(u[i - 1], (p \o q)[i])
  <2>1. CASE i <= a
    BY <1>1, <1>5, <2>1
  <2>2. CASE i = a + 1
    BY <1>1, <1>5, <2>2
  <2>3. CASE i > a + 1
    <3>1. i - a \in 1..b /\ (i - a) - 1 = (i - 1) - a
      BY <1>1, <2>3
    <3>2. u[i] = v[i - a] /\ u[i - 1] = v[(i - 1) - a] /\ (p \o q)[i] = q[i - a]
      BY <1>1, <2>3
    <3> QED BY <1>5, <3>1, <3>2
  <2> QED BY <1>1, <2>1, <2>2, <2>3
<1> HIDE DEF u, a, b
<1>8. Trace(u, n, p \o q, a + b)
  <2>1. a + b \in Nat
    BY <1>1
  <2> QED BY <1>6, <1>7, <2>1, TraceIs
<1>9. Follow(n, p \o q) = u[a + b]
  BY <1>1, <1>8, FollowTrace
<1> QED BY <1>4, <1>6, <1>9

LEMMA FollowOne ==
  ASSUME NEW n, NEW k \in Names
  PROVE  Follow(n, <<k>>) = Sub(n, k)
<1>1. <<k>> \in Seq(Names) /\ Len(<<k>>) = 1 /\ <<k>>[1] = k
  OBVIOUS
<1>2. PICK w : Trace(w, n, <<k>>, 1)
  BY TraceExists
<1>3. w[0] = n /\ w[1] = Sub(w[0], k)
  BY <1>1, <1>2, TraceSteps
<1> QED BY <1>1, <1>2, <1>3, FollowTrace

LEMMA FollowAppend ==
  ASSUME NEW n, NEW p \in Seq(Names), NEW k \in Names
  PROVE  Follow(n, Append(p, k)) = Sub(Follow(n, p), k)
<1>1. Append(p, k) = p \o <<k>> /\ <<k>> \in Seq(Names)
  OBVIOUS
<1>2. ASSUME NEW q \in Seq(Names), q = <<k>>
      PROVE  Follow(n, p \o q) = Follow(Follow(n, p), q)
  BY FollowBoth
<1> QED BY <1>1, <1>2, FollowOne

Address == Nodes \cup {Nil}

(* A path leads to a value of the document or to none.                     *)
LEMMA FollowType ==
  ASSUME NEW n \in Address, NEW p \in Seq(Names)
  PROVE  Follow(n, p) \in Address
<1> DEFINE k == Len(p)
<1>0. k \in Nat
  OBVIOUS
<1> HIDE DEF k
<1>1. PICK w : Trace(w, n, p, k)
  BY <1>0, TraceExists
<1>2. w[0] = n /\ \A i \in 1..k : w[i] = Sub(w[i - 1], p[i])
  BY <1>0, <1>1 DEF Trace
<1>3. \A x \in Address : \A key : Sub(x, key) \in Address
  BY DocumentAssumption DEF Sub, Address
<1> DEFINE T == {m \in 0..k : w[m] \notin Address}
<1>4. T = {}
  <2> SUFFICES ASSUME T # {} PROVE FALSE
    OBVIOUS
  <2>1. PICK m \in T : \A y \in T : m <= y
    <3>1. T \subseteq Nat
      BY <1>0
    <3> HIDE DEF T
    <3> QED BY <3>1, Smallest
  <2>2. m # 0
    BY <1>2
  <2>3. w[m - 1] \in Address /\ m \in 1..k
    BY <1>0, <2>1, <2>2
  <2> QED BY <1>2, <1>3, <2>3
<1>5. w[k] \in Address
  BY <1>0, <1>4
<1> QED BY <1>1, <1>5, FollowTrace DEF k

-----------------------------------------------------------------------------
Path == Seq(Names)

ObjectType ==
  [at : Address, cursor : Address, path : Path, asked : Path, owner : Threads]

(* An object stands for its path, and its cursor for the path last asked   *)
(* of it; only the cursor of the Json may still be null.                   *)
ObjectOK(o) ==
  /\ objs[o].at = Resolve(objs[o].path)
  /\ objs[o].cursor = Resolve(objs[o].asked) \/ (o = 1 /\ objs[o].asked = << >>)

(* A call that has not read its address yet finds what it was begun for;   *)
(* one that has, has the value of the path it stands for.                  *)
CallOK(t) ==
  LET m == call[t].m  o == call[t].o
  IN /\ pc[t] \in {"enter", "native"} =>
          /\ o \in 1..Len(objs)
          /\ m \in ReadCursor \cup SetCursor => objs[o].owner = t
     /\ pc[t] = "enter" =>
          /\ call[t].path = (IF m \in ReadCursor THEN objs[o].asked ELSE objs[o].path) \o call[t].p
          /\ m \in ReadCursor /\ o = 1 => objs[1].asked # << >>
     /\ pc[t] = "native" => Found(t) = Resolve(call[t].path)

(* What a call has still to construct, and what it answered.               *)
ResultOK(t) ==
  /\ \A i \in 1..Len(todo[t]) : todo[t][i][1] = Resolve(todo[t][i][2])
  /\ answer[t] # None => answer[t].node = Resolve(answer[t].path)

Types ==
  /\ objs \in Seq(ObjectType) /\ Len(objs) > 0
  /\ call \in [Threads -> [m : JsonMethods \cup ObjectMethods, o : Nat, p : Path, path : Path]]
  /\ todo \in [Threads -> Seq(Address \X Path)]
  /\ DOMAIN answer = Threads

IInv ==
  /\ TypeOK /\ Types
  /\ \A o \in 1..Len(objs) : ObjectOK(o)
  /\ \A t \in Threads : CallOK(t) /\ ResultOK(t)

LEMMA RootType == Root \in Address /\ \A p \in Path : Resolve(p) \in Address
BY DocumentAssumption, FollowType DEF Resolve, Address, Path

(* What another thread needs of the objects: their places never change,    *)
(* and a cursor only by its owner.                                         *)
Keeps(u) ==
  /\ Len(objs) <= Len(objs') /\ Len(objs') \in Nat
  /\ \A o \in 1..Len(objs) :
       /\ objs'[o].path = objs[o].path /\ objs'[o].owner = objs[o].owner
       /\ objs[o].owner = u => objs'[o].asked = objs[o].asked

LEMMA OtherThread ==
  ASSUME IInv, NEW u \in Threads, Keeps(u),
         pc'[u] = pc[u], call'[u] = call[u], reg'[u] = reg[u],
         todo'[u] = todo[u], answer'[u] = answer[u]
  PROVE  CallOK(u)' /\ ResultOK(u)'
<1>1. ResultOK(u)'
  BY DEF IInv, ResultOK
<1>2. CallOK(u)
  BY DEF IInv
<1>3. 1 \in 1..Len(objs) /\ 1..Len(objs) \subseteq 1..Len(objs')
  BY DEF IInv, Types, Keeps
<1>4. \A o \in 1..Len(objs) :
        /\ objs'[o].path = objs[o].path /\ objs'[o].owner = objs[o].owner
        /\ objs[o].owner = u => objs'[o].asked = objs[o].asked
  BY DEF Keeps
<1>5. Found(u)' = Found(u)
  BY DEF Found
<1> DEFINE o == call[u].o
<1>6. ASSUME pc[u] \in {"enter", "native"}
      PROVE  /\ o \in 1..Len(objs')
             /\ call[u].m \in ReadCursor \cup SetCursor => objs'[o].owner = u
  BY <1>2, <1>3, <1>4, <1>6 DEF CallOK
<1>7. ASSUME pc[u] = "enter"
      PROVE  /\ call[u].path = (IF call[u].m \in ReadCursor THEN objs'[o].asked ELSE objs'[o].path) \o call[u].p
             /\ call[u].m \in ReadCursor /\ o = 1 => objs'[1].asked # << >>
  BY <1>2, <1>3, <1>4, <1>7 DEF CallOK
<1>8. CallOK(u)'
  BY <1>2, <1>5, <1>6, <1>7 DEF CallOK
<1> QED BY <1>1, <1>8

(* Steps that leave the objects alone.                                     *)
LEMMA SameObjects ==
  ASSUME IInv, NEW t \in Threads, objs' = objs, NEW u \in Threads
  PROVE  Keeps(u) /\ \A o \in 1..Len(objs') : ObjectOK(o)'
BY DEF IInv, Types, Keeps, ObjectOK

LEMMA ArgsType ==
  ASSUME NEW m, NEW p \in Args(m)
  PROVE  p \in Path
<1>1. << >> \in Path /\ \A k \in Fields : <<k>> \in Path
  BY DEF Path, Names
<1> QED BY <1>1, NamesAssumption DEF Args, Path

LEMMA BeginStep ==
  ASSUME IInv, NEW t \in Threads, NEW o \in 1..Len(objs), NEW m \in MethodsOf(o),
         NEW p \in Args(m), Begin(t, o, m, p)
  PROVE  IInv'
<1> DEFINE b == IF m \in ReadCursor THEN objs[o].asked ELSE objs[o].path
           r == [m |-> m, o |-> o, p |-> p, path |-> b \o p]
<1>1. p \in Path /\ b \in Path /\ b \o p \in Path
  <2>1. p \in Path
    BY ArgsType
  <2>2. objs[o] \in ObjectType
    BY DEF IInv, Types
  <2> QED BY <2>1, <2>2 DEF ObjectType, Path
<1>2. r \in [m : JsonMethods \cup ObjectMethods, o : Nat, p : Path, path : Path]
  BY <1>1 DEF MethodsOf, IInv, Types
<1>3. /\ call'[t] = r /\ pc'[t] = "enter" /\ answer'[t] = None
      /\ UNCHANGED <<objs, monitor, reg, todo>>
      /\ call' \in [Threads -> [m : JsonMethods \cup ObjectMethods, o : Nat, p : Path, path : Path]]
      /\ pc' \in [Threads -> {"idle", "enter", "native", "construct"}]
      /\ DOMAIN answer' = Threads
  BY <1>2 DEF Begin, IInv, TypeOK, Types
<1>4. calls' \in 0..Budget
  BY ClientAssumption DEF Begin, IInv, TypeOK
<1>5. \A u \in Threads : pc'[u] = "idle" => Inside(u)' = {}
  BY <1>3 DEF IInv, TypeOK, Inside, Begin
<1>6. TypeOK' /\ Types'
  BY <1>3, <1>4, <1>5 DEF IInv, TypeOK, Types
<1>7. CallOK(t)' /\ ResultOK(t)'
  <2>1. m \in ReadCursor \cup SetCursor => objs[o].owner = t
    BY DEF Begin, Confined
  <2>2. m \in ReadCursor /\ o = 1 => objs[1].asked # << >>
    BY DEF Begin
  <2>3. CallOK(t)'
    BY <1>3, <2>1, <2>2, SMTT(30) DEF CallOK
  <2>4. ResultOK(t)'
    BY <1>3 DEF IInv, ResultOK
  <2> QED BY <2>3, <2>4
<1>8. ASSUME NEW u \in Threads, u # t PROVE CallOK(u)' /\ ResultOK(u)'
  <2>1. pc'[u] = pc[u] /\ call'[u] = call[u] /\ answer'[u] = answer[u]
    BY <1>8 DEF Begin, IInv, TypeOK, Types
  <2> QED BY <1>3, <2>1, SameObjects, OtherThread
<1>9. \A q \in 1..Len(objs') : ObjectOK(q)'
  BY <1>3, SameObjects
<1> QED BY <1>6, <1>7, <1>8, <1>9 DEF IInv

(* A thread reads the address of its object once it has its monitors: from *)
(* there on the path to follow is the path of the call.                    *)
LEMMA EnterStep ==
  ASSUME IInv, NEW t \in Threads, Enter(t)
  PROVE  IInv'
<1> DEFINE m == call[t].m  o == call[t].o  p == call[t].p
<1>1. UNCHANGED <<objs, call, todo, answer, calls>> /\ pc[t] = "enter"
  BY DEF Enter
<1>2. CallOK(t) /\ ResultOK(t) /\ o \in 1..Len(objs) /\ p \in Path
  BY <1>1 DEF IInv, Types, CallOK
<1>3. \A q \in 1..Len(objs') : ObjectOK(q)'
  BY <1>1, SameObjects
<1>4. CASE reg' = [reg EXCEPT ![t] = Base(o, m)] /\ pc' = [pc EXCEPT ![t] = "native"]
           /\ UNCHANGED monitor
  <2>1. objs[o] \in ObjectType /\ ObjectOK(o)
    BY <1>2 DEF IInv, Types
  <2> DEFINE b == IF m \in ReadCursor THEN objs[o].asked ELSE objs[o].path
  <2>2. b \in Path /\ Base(o, m) = Resolve(b) /\ Base(o, m) \in Address /\ call[t].path = b \o p
    BY <1>1, <1>2, <2>1 DEF CallOK, ObjectOK, Base, ObjectType
  <2>3. reg'[t] = Base(o, m) /\ pc'[t] = "native"
    BY <1>4 DEF IInv, TypeOK
  <2>4. Found(t)' = Follow(Resolve(b), p)
    BY <1>1, <2>2, <2>3 DEF Found
  <2>5. Follow(Resolve(b), p) = Resolve(b \o p)
    BY <1>2, <2>2, FollowBoth DEF Resolve, Path
  <2>6. CallOK(t)'
    BY <1>1, <1>2, <2>2, <2>3, <2>4, <2>5 DEF CallOK
  <2>7. ResultOK(t)'
    BY <1>1, <1>2 DEF ResultOK
  <2>8. TypeOK' /\ Types'
    BY <1>1, <1>4, <2>2 DEF IInv, TypeOK, Types, Inside, Address
  <2>9. ASSUME NEW u \in Threads, u # t PROVE CallOK(u)' /\ ResultOK(u)'
    <3>1. pc'[u] = pc[u] /\ reg'[u] = reg[u]
      BY <1>4, <2>9 DEF IInv, TypeOK
    <3> QED BY <1>1, <3>1, SameObjects, OtherThread
  <2> QED BY <1>3, <2>6, <2>7, <2>8, <2>9 DEF IInv
<1>5. ASSUME NEW c \in {"Json", "JsonObject"}, monitor' = [monitor EXCEPT ![c] = t],
             UNCHANGED <<reg, pc>>
      PROVE  IInv'
  <2>1. \A u \in Threads : CallOK(u)' /\ ResultOK(u)'
    BY <1>1, <1>5, SameObjects, OtherThread
  <2>2. \A u \in Threads : u # t => Inside(u)' \subseteq Inside(u)
    BY <1>5 DEF IInv, TypeOK, Inside
  <2>3. TypeOK' /\ Types'
    <3>1. \A u \in Threads : pc'[u] = "idle" => Inside(u)' = {}
      BY <1>1, <1>5, <2>2 DEF IInv, TypeOK
    <3>2. monitor' \in [{"Json", "JsonObject"} -> Threads \cup {Nobody}]
      BY <1>5 DEF IInv, TypeOK
    <3> QED BY <1>1, <1>5, <3>1, <3>2 DEF IInv, TypeOK, Types
  <2> QED BY <1>3, <2>1, <2>3 DEF IInv
<1>6. \A i \in 1..Len(Monitors(o, m)) : Monitors(o, m)[i] \in {"Json", "JsonObject"}
  BY DEF Monitors
<1> QED BY <1>4, <1>5, <1>6 DEF Enter

(* Return: the thread is idle and in no monitor.                           *)
LEMMA LeaveType ==
  ASSUME IInv, NEW t \in Threads, Leave(t)
  PROVE  /\ monitor' \in [{"Json", "JsonObject"} -> Threads \cup {Nobody}]
         /\ pc' \in [Threads -> {"idle", "enter", "native", "construct"}]
         /\ pc'[t] = "idle" /\ \A u \in Threads : u # t => pc'[u] = pc[u]
         /\ \A u \in Threads : pc'[u] = "idle" => Inside(u)' = {}
<1>1. monitor' \in [{"Json", "JsonObject"} -> Threads \cup {Nobody}]
  BY DEF Leave, IInv, TypeOK
<1>2. pc' = [pc EXCEPT ![t] = "idle"] /\ pc \in [Threads -> {"idle", "enter", "native", "construct"}]
  BY DEF Leave, IInv, TypeOK
<1>3. Nobody \notin Threads
  BY ClientAssumption
<1>4. \A u \in Threads : \A c \in DOMAIN monitor : monitor'[c] = u => monitor[c] = u /\ u # t
  BY <1>3 DEF Leave, Inside
<1>5. \A u \in Threads : Inside(u)' \subseteq Inside(u) /\ Inside(t)' = {}
  BY <1>1, <1>4 DEF IInv, TypeOK, Inside
<1>6. \A u \in Threads : pc'[u] = "idle" => Inside(u)' = {}
  BY <1>2, <1>5 DEF IInv, TypeOK
<1> QED BY <1>1, <1>2, <1>6

LEMMA ReadStep ==
  ASSUME IInv, NEW t \in Threads, Read(t)
  PROVE  IInv'
<1>1. UNCHANGED <<objs, call, reg, todo, calls>> /\ pc[t] = "native" /\ Leave(t)
  BY DEF Read
<1>2. answer' = [answer EXCEPT ![t] = [node |-> Found(t), path |-> call[t].path]]
  BY DEF Read
<1>3. DOMAIN answer = Threads
  BY DEF IInv, Types
<1>4. TypeOK' /\ Types'
  BY <1>1, <1>2, LeaveType DEF IInv, TypeOK, Types
<1>5. CallOK(t)' /\ ResultOK(t)'
  <2>1. CallOK(t)'
    BY <1>1, LeaveType DEF CallOK
  <2>2. Found(t) = Resolve(call[t].path)
    BY <1>1 DEF IInv, CallOK
  <2>3. answer'[t] = [node |-> Found(t), path |-> call[t].path]
    BY <1>2, <1>3
  <2>4. ResultOK(t)'
    BY <1>1, <2>2, <2>3 DEF IInv, ResultOK
  <2> QED BY <2>1, <2>4
<1>6. ASSUME NEW u \in Threads, u # t PROVE CallOK(u)' /\ ResultOK(u)'
  <2>1. pc'[u] = pc[u] /\ answer'[u] = answer[u]
    BY <1>1, <1>2, <1>6, LeaveType
  <2> QED BY <1>1, <2>1, SameObjects, OtherThread
<1>7. \A q \in 1..Len(objs') : ObjectOK(q)'
  BY <1>1, SameObjects
<1> QED BY <1>4, <1>5, <1>6, <1>7 DEF IInv

(* What a native call works with.                                          *)
LEMMA AtNative ==
  ASSUME IInv, NEW t \in Threads, pc[t] = "native"
  PROVE  /\ Found(t) = Resolve(call[t].path) /\ Found(t) \in Address
         /\ call[t].path \in Path /\ call[t].o \in 1..Len(objs)
         /\ call[t].m \in ReadCursor \cup SetCursor => objs[call[t].o].owner = t
<1>1. call[t] \in [m : JsonMethods \cup ObjectMethods, o : Nat, p : Path, path : Path]
  BY DEF IInv, Types
<1>2. CallOK(t) /\ call[t].path \in Path
  BY <1>1 DEF IInv
<1> QED BY <1>2, RootType, SMTT(30) DEF CallOK

(* Setting a cursor disturbs no other thread: the object is its own.       *)
LEMMA AimStep ==
  ASSUME IInv, NEW t \in Threads, Aim(t)
  PROVE  IInv'
<1> DEFINE o == call[t].o  n == Found(t)  path == call[t].path
           new == [objs EXCEPT ![o].cursor = n, ![o].asked = path]
<1>1. UNCHANGED <<call, reg, todo, answer, calls>> /\ pc[t] = "native" /\ Leave(t)
      /\ call[t].m \in SetCursor
  BY DEF Aim
<1>2. n = Resolve(path) /\ n \in Address /\ path \in Path /\ o \in 1..Len(objs) /\ objs[o].owner = t
  BY <1>1, AtNative
<1>3. objs' = objs \/ objs' = new
  BY DEF Aim
<1>4. objs \in Seq(ObjectType)
  BY DEF IInv, Types
<1>5. /\ Len(objs') = Len(objs) /\ objs' \in Seq(ObjectType)
      /\ \A q \in 1..Len(objs) :
           /\ objs'[q].at = objs[q].at /\ objs'[q].path = objs[q].path
           /\ objs'[q].owner = objs[q].owner
           /\ \/ objs'[q].cursor = objs[q].cursor /\ objs'[q].asked = objs[q].asked
              \/ q = o /\ objs'[q].cursor = n /\ objs'[q].asked = path
  <2>1. CASE objs' = objs
    BY <1>4, <2>1
  <2>2. CASE objs' = new
    <3> DEFINE x == [objs[o] EXCEPT !.cursor = n, !.asked = path]
    <3>1. objs[o] \in ObjectType
      BY <1>2, <1>4
    <3>2. /\ x \in ObjectType /\ x.at = objs[o].at /\ x.path = objs[o].path
          /\ x.owner = objs[o].owner /\ x.cursor = n /\ x.asked = path
      BY <1>2, <3>1 DEF ObjectType
    <3>3. new = [objs EXCEPT ![o] = x]
      BY <1>2, <1>4, <3>1 DEF ObjectType
    <3> HIDE DEF x, new, n, o, path
    <3>4. objs' \in Seq(ObjectType) /\ Len(objs') = Len(objs)
      BY <1>2, <1>4, <2>2, <3>2, <3>3
    <3>5. \A q \in 1..Len(objs) : objs'[q] = IF q = o THEN x ELSE objs[q]
      BY <1>2, <1>4, <2>2, <3>3
    <3> QED BY <3>2, <3>4, <3>5
  <2> QED BY <1>3, <2>1, <2>2
<1> HIDE DEF n, path, o, new
<1>6. \A q \in 1..Len(objs') : ObjectOK(q)'
  <2>1. \A q \in 1..Len(objs) : ObjectOK(q)
    BY DEF IInv
  <2> QED BY <1>2, <1>5, <2>1 DEF ObjectOK
<1>7. TypeOK' /\ Types'
  <2>1. \A q \in 1..Len(objs') : objs'[q] \in ObjectType
    BY <1>5
  <2>2. \A q \in 1..Len(objs') :
          /\ objs'[q].at \in Nodes \cup {Nil} /\ objs'[q].cursor \in Nodes \cup {Nil}
          /\ objs'[q].owner \in Threads
    BY <2>1 DEF ObjectType, Address
  <2>3. TypeOK'
    BY <1>1, <2>2, LeaveType DEF IInv, TypeOK
  <2>4. Types'
    BY <1>1, <1>5 DEF IInv, Types
  <2> QED BY <2>3, <2>4
<1>8. CallOK(t)' /\ ResultOK(t)'
  <2>1. CallOK(t)'
    BY <1>1, LeaveType DEF CallOK
  <2>2. ResultOK(t)'
    BY <1>1 DEF IInv, ResultOK
  <2> QED BY <2>1, <2>2
<1>9. ASSUME NEW u \in Threads, u # t PROVE CallOK(u)' /\ ResultOK(u)'
  <2>1. pc'[u] = pc[u]
    BY <1>1, <1>9, LeaveType
  <2>2. Len(objs) \in Nat
    BY <1>4
  <2>3. Keeps(u)
    BY <1>2, <1>5, <1>9, <2>2 DEF Keeps
  <2> QED BY <1>1, <2>1, <2>3, OtherThread
<1> QED BY <1>6, <1>7, <1>8, <1>9 DEF IInv

(* Every object a call wraps stands for the path of the call, or for one   *)
(* element behind it.                                                      *)
LEMMA WrapsRight ==
  ASSUME IInv, NEW t \in Threads, pc[t] = "native"
  PROVE  /\ Wraps(t) \in Seq(Address \X Path)
         /\ \A i \in 1..Len(Wraps(t)) : Wraps(t)[i][1] = Resolve(Wraps(t)[i][2])
<1> DEFINE n == Found(t)  path == call[t].path
           s == [i \in 1..Len(Elems[n]) |-> <<Sub(n, Elems[n][i]), Append(path, Elems[n][i])>>]
<1>1. n = Resolve(path) /\ n \in Address /\ path \in Path
  BY AtNative
<1>2. << >> \in Seq(Address \X Path) /\ Len(<< >>) = 0
  OBVIOUS
<1>3. <<<<n, path>>>> \in Seq(Address \X Path) /\ Len(<<<<n, path>>>>) = 1
      /\ <<<<n, path>>>>[1] = <<n, path>>
  BY <1>1
<1>4. ASSUME n \in Arrays
      PROVE  s \in Seq(Address \X Path) /\ \A i \in 1..Len(s) : s[i][1] = Resolve(s[i][2])
  <2>1. Elems[n] \in Seq(Names) /\ Len(Elems[n]) \in Nat
    BY <1>4, NamesAssumption
  <2>2. ASSUME NEW i \in 1..Len(Elems[n])
        PROVE  /\ Sub(n, Elems[n][i]) = Resolve(Append(path, Elems[n][i]))
               /\ Append(path, Elems[n][i]) \in Path
    <3>1. Elems[n][i] \in Names
      BY <2>1, <2>2
    <3> QED BY <1>1, <3>1, FollowAppend DEF Resolve, Path
  <2>3. \A i \in 1..Len(Elems[n]) : s[i] \in Address \X Path /\ s[i][1] = Resolve(s[i][2])
    BY <2>2, RootType
  <2>4. DOMAIN s = 1..Len(Elems[n]) /\ s \in [1..Len(Elems[n]) -> Address \X Path]
    BY <2>3
  <2> HIDE DEF s
  <2>5. s \in Seq(Address \X Path)
    <3> DEFINE S == Address \X Path
    <3>1. s \in UNION {[1..k -> S] : k \in Nat}
      BY <2>1, <2>4
    <3> QED BY <3>1, SeqDef
  <2>6. Len(s) = Len(Elems[n])
    BY <2>1, <2>4, <2>5
  <2> QED BY <2>3, <2>5, <2>6
<1>5. Wraps(t) = IF call[t].m \in Lists THEN IF n \in Arrays THEN s ELSE << >>
                 ELSE IF call[t].m = "getObject" /\ n = Nil THEN << >> ELSE <<<<n, path>>>>
  BY DEF Wraps
<1> HIDE DEF s, n, path
<1> QED BY <1>1, <1>2, <1>3, <1>4, <1>5

LEMMA WrapStep ==
  ASSUME IInv, NEW t \in Threads, Wrap(t)
  PROVE  IInv'
<1>1. /\ UNCHANGED <<objs, monitor, call, reg, answer, calls>> /\ pc[t] = "native"
      /\ todo' = [todo EXCEPT ![t] = Wraps(t)] /\ pc' = [pc EXCEPT ![t] = "construct"]
  BY DEF Wrap
<1>2. /\ pc'[t] = "construct" /\ todo'[t] = Wraps(t)
      /\ \A u \in Threads : u # t => pc'[u] = pc[u] /\ todo'[u] = todo[u]
  BY <1>1 DEF IInv, TypeOK, Types
<1>3. TypeOK' /\ Types'
  <2>1. todo' \in [Threads -> Seq(Address \X Path)]
    BY <1>1, WrapsRight DEF IInv, Types
  <2>2. \A u \in Threads : pc'[u] = "idle" => Inside(u)' = {}
    BY <1>1, <1>2 DEF IInv, TypeOK, Inside
  <2>3. pc' \in [Threads -> {"idle", "enter", "native", "construct"}]
    BY <1>1 DEF IInv, TypeOK
  <2> QED BY <1>1, <2>1, <2>2, <2>3 DEF IInv, TypeOK, Types
<1>4. CallOK(t)' /\ ResultOK(t)'
  <2>1. CallOK(t)'
    BY <1>2 DEF CallOK
  <2>2. ResultOK(t)'
    BY <1>1, <1>2, WrapsRight DEF IInv, ResultOK
  <2> QED BY <2>1, <2>2
<1>5. \A u \in Threads : u # t => CallOK(u)' /\ ResultOK(u)'
  BY <1>1, <1>2, SameObjects, OtherThread
<1>6. \A q \in 1..Len(objs') : ObjectOK(q)'
  BY <1>1, SameObjects
<1> QED BY <1>3, <1>4, <1>5, <1>6 DEF IInv

LEMMA ConstructStep ==
  ASSUME IInv, NEW t \in Threads, Construct(t)
  PROVE  IInv'
<1>1. UNCHANGED <<call, reg, answer, calls>> /\ pc[t] = "construct"
  BY DEF Construct
<1>2. CASE todo[t] = << >> /\ Leave(t) /\ UNCHANGED <<objs, todo>>
  <2>1. TypeOK' /\ Types'
    BY <1>1, <1>2, LeaveType DEF IInv, TypeOK, Types
  <2>2. CallOK(t)'
    BY <1>2, LeaveType DEF CallOK
  <2>3. ResultOK(t)'
    BY <1>1, <1>2 DEF IInv, ResultOK
  <2>4. ASSUME NEW u \in Threads, u # t PROVE CallOK(u)' /\ ResultOK(u)'
    <3>1. pc'[u] = pc[u]
      BY <1>2, <2>4, LeaveType
    <3> QED BY <1>1, <1>2, <3>1, SameObjects, OtherThread
  <2>5. \A q \in 1..Len(objs') : ObjectOK(q)'
    BY <1>2, SameObjects
  <2> QED BY <2>1, <2>2, <2>3, <2>4, <2>5 DEF IInv
<1>3. CASE /\ todo[t] # << >> /\ todo' = [todo EXCEPT ![t] = Tail(@)]
           /\ objs' = Append(objs, Object(Head(todo[t])[1], Head(todo[t])[1], Head(todo[t])[2], t))
           /\ UNCHANGED <<pc, monitor>>
  <2> DEFINE a == Head(todo[t])[1]  path == Head(todo[t])[2]  x == Object(a, a, path, t)
             n == Len(objs)
  <2>1. todo[t] \in Seq(Address \X Path) /\ objs \in Seq(ObjectType) /\ n \in Nat
    BY DEF IInv, Types
  <2>2. a \in Address /\ path \in Path /\ a = Resolve(path)
    <3>1. Head(todo[t]) \in Address \X Path /\ 1 \in 1..Len(todo[t]) /\ Head(todo[t]) = todo[t][1]
      BY <1>3, <2>1
    <3>2. todo[t][1][1] = Resolve(todo[t][1][2])
      BY <3>1 DEF IInv, ResultOK
    <3> QED BY <3>1, <3>2
  <2>3. /\ x \in ObjectType /\ x.at = a /\ x.cursor = a /\ x.path = path /\ x.asked = path
    BY <2>2 DEF Object, ObjectType
  <2> HIDE DEF x, a, path, n
  <2>4. /\ objs' \in Seq(ObjectType) /\ Len(objs') = n + 1
        /\ \A q \in 1..(n + 1) : objs'[q] = IF q <= n THEN objs[q] ELSE x
    BY <1>3, <2>1, <2>3 DEF x, a, path, n
  <2>5. \A q \in 1..Len(objs') : ObjectOK(q)'
    <3>1. \A q \in 1..n : ObjectOK(q)
      BY DEF IInv, n
    <3>2. n > 0
      BY DEF IInv, Types, n
    <3>3. ASSUME NEW q \in 1..(n + 1) PROVE ObjectOK(q)'
      <4>1. CASE q \in 1..n
        BY <2>1, <2>4, <3>1, <4>1 DEF ObjectOK
      <4>2. CASE q = n + 1
        BY <2>1, <2>2, <2>3, <2>4, <3>2, <4>2 DEF ObjectOK
      <4> QED BY <2>1, <4>1, <4>2
    <3> QED BY <2>4, <3>3
  <2>6. todo' \in [Threads -> Seq(Address \X Path)] /\ todo'[t] = Tail(todo[t])
    BY <1>3, <2>1 DEF IInv, Types
  <2>7. TypeOK' /\ Types'
    <3>0. \A q \in 1..Len(objs') : objs'[q] \in ObjectType
      BY <2>4
    <3>1. \A q \in 1..Len(objs') :
            /\ objs'[q].at \in Nodes \cup {Nil} /\ objs'[q].cursor \in Nodes \cup {Nil}
            /\ objs'[q].owner \in Threads
      BY <3>0 DEF ObjectType, Address
    <3>2. \A u \in Threads : pc'[u] = "idle" => Inside(u)' = {}
      BY <1>3 DEF IInv, TypeOK, Inside
    <3>3. TypeOK'
      BY <1>1, <1>3, <3>1, <3>2 DEF IInv, TypeOK
    <3>4. Types'
      BY <1>1, <2>1, <2>4, <2>6 DEF IInv, Types
    <3> QED BY <3>3, <3>4
  <2>8. CallOK(t)' /\ ResultOK(t)'
    <3>1. CallOK(t)'
      BY <1>1, <1>3 DEF CallOK
    <3>2. \A i \in 1..Len(Tail(todo[t])) :
            i + 1 \in 1..Len(todo[t]) /\ Tail(todo[t])[i] = todo[t][i + 1]
      BY <1>3, <2>1
    <3>3. ResultOK(t)'
      BY <1>1, <2>6, <3>2 DEF IInv, ResultOK
    <3> QED BY <3>1, <3>3
  <2>9. ASSUME NEW u \in Threads, u # t PROVE CallOK(u)' /\ ResultOK(u)'
    <3>1. Keeps(u)
      BY <2>1, <2>4 DEF Keeps, n
    <3>2. pc'[u] = pc[u] /\ todo'[u] = todo[u]
      BY <1>3, <2>9 DEF IInv, Types
    <3> QED BY <1>1, <3>1, <3>2, OtherThread
  <2> QED BY <2>5, <2>7, <2>8, <2>9 DEF IInv
<1> QED BY <1>2, <1>3 DEF Construct

LEMMA InitStep ==
  ASSUME Init
  PROVE  IInv
<1>1. PICK t \in Threads : objs = <<Object(Root, Nil, << >>, t)>>
  BY DEF Init
<1> DEFINE x == Object(Root, Nil, << >>, t)
<1>2. /\ x \in ObjectType /\ x.at = Root /\ x.cursor = Nil /\ x.path = << >> /\ x.asked = << >>
  BY DocumentAssumption DEF Object, ObjectType, Address, Path
<1>3. Resolve(<< >>) = Root
  BY FollowNone DEF Resolve
<1> HIDE DEF x
<1>4. objs = <<x>>
  BY <1>1 DEF x
<1>5. objs \in Seq(ObjectType) /\ Len(objs) = 1 /\ objs[1] = x
  BY <1>2, <1>4
<1>6. \A o \in 1..Len(objs) : ObjectOK(o)
  BY <1>2, <1>3, <1>5 DEF ObjectOK
<1>7. TypeOK
  <2>1. \A o \in 1..Len(objs) :
          /\ objs[o].at \in Nodes \cup {Nil} /\ objs[o].cursor \in Nodes \cup {Nil}
          /\ objs[o].owner \in Threads
    BY <1>2, <1>5 DEF ObjectType, Address
  <2> QED BY <2>1, ClientAssumption DEF Init, TypeOK, Inside
<1>8. Types
  <2>1. << >> \in Path /\ << >> \in Seq(Address \X Path)
    BY DEF Path
  <2>2. [m |-> "get", o |-> 1, p |-> << >>, path |-> << >>]
          \in [m : JsonMethods \cup ObjectMethods, o : Nat, p : Path, path : Path]
    BY <2>1 DEF JsonMethods
  <2> QED BY <1>5, <2>1, <2>2 DEF Init, Types
<1>9. \A t1 \in Threads : CallOK(t1) /\ ResultOK(t1)
  BY DEF Init, CallOK, ResultOK
<1> QED BY <1>6, <1>7, <1>8, <1>9 DEF IInv

LEMMA NextStep ==
  ASSUME IInv, [Next]_vars
  PROVE  IInv'
<1>1. CASE Next
  BY <1>1, BeginStep, EnterStep, AimStep, ReadStep, WrapStep, ConstructStep DEF Next, Step
<1>2. CASE UNCHANGED vars
  <2>1. UNCHANGED <<objs, monitor, pc, call, reg, todo, answer, calls>>
    BY <1>2 DEF vars
  <2>2. TypeOK' /\ Types'
    BY <2>1 DEF IInv, TypeOK, Types, Inside
  <2>3. \A u \in Threads : CallOK(u)' /\ ResultOK(u)'
    BY <2>1, SameObjects, OtherThread
  <2>4. ASSUME NEW t \in Threads PROVE \A q \in 1..Len(objs') : ObjectOK(q)'
    BY <2>1, SameObjects
  <2>5. Threads # {}
    <3>1. objs[1] \in ObjectType
      BY DEF IInv, Types
    <3> QED BY <3>1 DEF ObjectType
  <2> QED BY <2>2, <2>3, <2>4, <2>5 DEF IInv
<1> QED BY <1>1, <1>2

(* The invariant of the reader, whatever the document and the threads do.  *)
THEOREM Invariance == Spec => []IInv
BY InitStep, NextStep, PTL DEF Spec

(* Addresses, cursors and monitors have their types; no thread keeps a     *)
(* monitor after a call of Json.java.                                      *)
THEOREM TypeCorrect == Spec => []TypeOK
<1>1. IInv => TypeOK
  BY DEF IInv
<1> QED BY <1>1, Invariance, PTL

(* A value read through getPointer and asPointer, or directly, is the one  *)
(* at the path of the calls (Json.java:48), for every document and any     *)
(* number of threads, as long as one of them has the cursor of an object.  *)
THEOREM ReadsRight == Spec => []ReadsItsPath
<1>1. IInv => ReadsItsPath
  BY DEF IInv, ResultOK, ReadsItsPath
<1> QED BY <1>1, Invariance, PTL

(* Every JsonObject stands for the path along which it was reached, also   *)
(* as the element of a nested array (Json.cpp:152).                        *)
THEOREM ObjectsRight == Spec => []ObjectsStandForPaths
<1>1. IInv => ObjectsStandForPaths
  BY DEF IInv, ObjectOK, ObjectsStandForPaths
<1> QED BY <1>1, Invariance, PTL
=============================================================================
