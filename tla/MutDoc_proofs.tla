--------------------------- MODULE MutDoc_proofs ---------------------------
(***************************************************************************)
(* Proofs about MutDoc for any number of threads and any budget of calls.  *)
(*                                                                         *)
(* The four safety properties of the runs follow from one inductive        *)
(* invariant: overlapping calls are calls of one monitor, so at most one   *)
(* thread is inside a call that touches the document; what that thread     *)
(* read (the address, the pool cursor, the chain) is still so.             *)
(***************************************************************************)
EXTENDS MutDoc, TLAPS

(* The private data of a call is of its type.                              *)
LocalOK ==
  /\ got \in [Threads -> Nat]
  /\ cur \in [Threads -> Nat]
  /\ left \in [Threads -> Nat]
  /\ seen \in [Threads -> SUBSET Nat]
  /\ chain \in [Containers -> SUBSET Nat]
  /\ meant \in [Containers -> SUBSET Nat]

(* The places of a method are those its native has.                        *)
PlacesOK ==
  \A t \in Threads :
    /\ at[t] \in {"cursor", "take"} => call[t] \notin {"close", "getJsonStr"} \cup Unlinks
    /\ at[t] \in {"read", "store"} => call[t] \in Links \cup Unlinks
    /\ at[t] = "write" => call[t] = "getJsonStr"
    /\ at[t] \in {"free", "zero"} => call[t] = "close"

(* Calls overlap within one monitor.                                       *)
OneMonitor ==
  \A t, u \in Threads :
    at[t] # "idle" /\ at[u] # "idle" => MonitorOf(call[t]) = MonitorOf(call[u])

(* _address is not 0 before the free, and the nodes a call will read are   *)
(* those of a live document.                                               *)
AddressOK ==
  /\ frees <= 1
  /\ frees = 0 => address
  /\ address => frees = 0 \/ \E t \in Threads : at[t] = "zero"
  /\ \A t \in Threads : at[t] = "zero" => frees = 1
  /\ \A t \in Threads : at[t] # "idle" /\ call[t] \in NeedsNodes => address

(* What a thread read of the shared state still holds.                     *)
FreshReads ==
  /\ \A t \in Threads : at[t] = "take" => cur[t] = pool
  /\ \A t \in Threads : at[t] = "store" => seen[t] = chain[ContainerOf(call[t])]

(* Handed-out nodes lie below the cursor.                                  *)
BelowCursor == \A x \in made : x[3] \in Nat /\ x[3] < pool

IInv ==
  /\ TypeOK /\ LocalOK /\ PlacesOK /\ OneMonitor /\ AddressOK
  /\ NoUseAfterFree /\ FreshReads /\ BelowCursor /\ NoSharedNode /\ NothingLost

-----------------------------------------------------------------------------
(* Every method but getJsonStr has one of the three monitors.              *)
LEMMA MonitorOfMethods ==
  ASSUME NEW m \in Methods
  PROVE  /\ m # "getJsonStr" => MonitorOf(m) \in Monitors
         /\ m = "getJsonStr" => MonitorOf(m) = "none"
BY DEF Methods, MonitorOf, Monitors, MutMethods, ObjMethods, ArrMethods

(* Two threads past the entry of their calls are one, unless both          *)
(* serialise: overlapping calls are of one monitor, and one thread is in.  *)
LEMMA Exclusion ==
  ASSUME TypeOK, OneMonitor,
         NEW t \in Threads, at[t] \notin {"idle", "enter"}, call[t] # "getJsonStr",
         NEW u \in Threads, at[u] \notin {"idle", "enter"}
  PROVE  t = u
<1> DEFINE m == MonitorOf(call[t])
<1>1. call[t] \in Methods
  BY DEF TypeOK
<1>2. m \in Monitors
  BY <1>1, MonitorOfMethods
<1>3. Inside(t, m) /\ Inside(u, m)
  BY DEF OneMonitor, Inside
<1>4. owner[m] = t /\ owner[m] = u
  BY <1>2, <1>3 DEF TypeOK
<1> QED
  BY <1>4

(* A thread at the entry of a method of a free monitor is alone, but for   *)
(* threads that are at the entry of theirs.                                *)
LEMMA FreeMonitor ==
  ASSUME TypeOK, OneMonitor, ThreadsAssumption,
         NEW t \in Threads, at[t] = "enter", call[t] # "getJsonStr",
         owner[MonitorOf(call[t])] = NoThread,
         NEW u \in Threads
  PROVE  at[u] \in {"idle", "enter"}
<1> DEFINE m == MonitorOf(call[t])
<1> SUFFICES ASSUME at[u] \notin {"idle", "enter"}
             PROVE  FALSE
  OBVIOUS
<1>1. m \in Monitors
  BY MonitorOfMethods DEF TypeOK
<1>2. Inside(u, m)
  BY DEF OneMonitor, Inside
<1>3. owner[m] = u
  BY <1>1, <1>2 DEF TypeOK
<1> QED
  BY <1>3, ThreadsAssumption

LEMMA InitIInv == Init => IInv
<1> SUFFICES ASSUME Init PROVE IInv
  OBVIOUS
<1>1. TypeOK
  BY ThreadsAssumption
  DEF Init, TypeOK, Inside, Places, Methods, MutMethods, ObjMethods, ArrMethods
<1>2. LocalOK
  BY BudgetAssumption DEF Init, LocalOK
<1>3. PlacesOK /\ OneMonitor /\ AddressOK /\ NoUseAfterFree
  BY DEF Init, PlacesOK, OneMonitor, AddressOK, NoUseAfterFree
<1>4. FreshReads /\ BelowCursor /\ NoSharedNode /\ NothingLost
  BY DEF Init, FreshReads, BelowCursor, NoSharedNode, NothingLost
<1> QED
  BY <1>1, <1>2, <1>3, <1>4 DEF IInv

(* One lemma per action: the parts of IInv it can disturb, each in a step. *)
LEMMA BeginIInv ==
  ASSUME IInv, NEW t \in Threads, NEW m \in Methods, Begin(t, m)
  PROVE  IInv'
<1> USE DEF IInv, Begin, Goto, shared
<1>1. TypeOK'
  BY ThreadsAssumption DEF TypeOK, Inside, Places
<1>2. LocalOK'
  BY BudgetAssumption DEF LocalOK
<1>3. PlacesOK'
  BY DEF PlacesOK, TypeOK
<1>4. OneMonitor'
  BY DEF OneMonitor, TypeOK
<1>5. AddressOK'
  BY DEF AddressOK, TypeOK
<1>6. NoUseAfterFree' /\ FreshReads'
  BY DEF NoUseAfterFree, FreshReads, TypeOK
<1>7. BelowCursor' /\ NoSharedNode' /\ NothingLost'
  BY DEF BelowCursor, NoSharedNode, NothingLost
<1> QED
  BY <1>1, <1>2, <1>3, <1>4, <1>5, <1>6, <1>7

LEMMA EnterIInv ==
  ASSUME IInv, NEW t \in Threads, Enter(t)
  PROVE  IInv'
<1> USE DEF IInv, Enter, Goto
<1>m. call[t] \in Methods
  BY DEF TypeOK
<1>b. Body(t, address) \in Places \ {"idle", "enter", "take", "store"}
  BY DEF Body, Places
<1>1. TypeOK'
  <2>1. at' \in [Threads -> Places] /\ call' \in [Threads -> Methods]
        /\ doc' \in [Threads -> BOOLEAN] /\ address' \in BOOLEAN
        /\ frees' \in Nat /\ pool' \in Nat
        /\ owner' \in [Monitors -> Threads \cup {NoThread}]
    BY <1>b DEF TypeOK
  <2>2. ASSUME NEW u \in Threads, NEW n \in Monitors
        PROVE  (owner[n] = u <=> Inside(u, n))'
    <3>1. CASE call[t] = "getJsonStr"
      BY <1>b, <3>1, MonitorOfMethods DEF TypeOK, Inside, Monitors
    <3>2. CASE call[t] # "getJsonStr"
      <4>1. MonitorOf(call[t]) \in Monitors /\ MonitorOf(call[t]) # "none"
        BY <1>m, <3>2, MonitorOfMethods DEF Monitors
      <4>2. owner[MonitorOf(call[t])] = NoThread
            /\ owner' = [owner EXCEPT ![MonitorOf(call[t])] = t]
        BY <4>1
      <4> QED
        BY <1>b, <4>1, <4>2, ThreadsAssumption DEF TypeOK, Inside
    <3> QED
      BY <3>1, <3>2
  <2> QED
    BY <2>1, <2>2 DEF TypeOK
<1>2. LocalOK'
  BY DEF LocalOK
<1>3. PlacesOK'
  BY <1>m DEF PlacesOK, TypeOK, Body, Links, Unlinks, Methods, MutMethods,
              ObjMethods, ArrMethods
<1>4. OneMonitor'
  BY DEF OneMonitor, TypeOK
<1>5. AddressOK' /\ NoUseAfterFree'
  <2>1. address => frees = 0
    <3> SUFFICES ASSUME frees # 0, address
                 PROVE  FALSE
      OBVIOUS
    <3>1. PICK u \in Threads : at[u] = "zero"
      BY DEF AddressOK
    <3>2. call[u] = "close" /\ MonitorOf(call[u]) = MonitorOf(call[t])
      BY <3>1 DEF PlacesOK, OneMonitor
    <3>3. MonitorOf(call[t]) # "none"
      BY <3>2, MonitorOfMethods DEF Methods, MutMethods, Monitors
    <3>4. call[t] # "getJsonStr" /\ owner[MonitorOf(call[t])] = NoThread
      BY <1>m, <3>3, MonitorOfMethods
    <3> QED
      BY <3>1, <3>4, FreeMonitor, ThreadsAssumption
  <2>2. call[t] \in Unlinks => address
    BY DEF AddressOK, NeedsNodes
  <2>3. Body(t, address) \notin {"zero", "leave"} => frees = 0
    BY <2>1, <2>2 DEF Body
  <2>4. Body(t, address) = "zero" => frees = 1
    BY <2>1 DEF Body, AddressOK, Unlinks, TypeOK
  <2>5. AddressOK'
    BY <1>b, <2>1, <2>4 DEF AddressOK, TypeOK
  <2>6. NoUseAfterFree'
    BY <1>b, <2>3 DEF NoUseAfterFree, TypeOK
  <2> QED
    BY <2>5, <2>6
<1>6. FreshReads'
  BY <1>b DEF FreshReads, TypeOK
<1>7. BelowCursor' /\ NoSharedNode' /\ NothingLost'
  BY DEF BelowCursor, NoSharedNode, NothingLost
<1> QED
  BY <1>1, <1>2, <1>3, <1>4, <1>5, <1>6, <1>7

LEMMA ReadCursorIInv ==
  ASSUME IInv, NEW t \in Threads, ReadCursor(t)
  PROVE  IInv'
<1> USE DEF IInv, ReadCursor, Goto, shared
<1>1. TypeOK' /\ LocalOK'
  BY DEF TypeOK, LocalOK, Inside, Places
<1>2. PlacesOK' /\ OneMonitor'
  BY DEF PlacesOK, OneMonitor, TypeOK
<1>3. AddressOK' /\ NoUseAfterFree'
  BY DEF AddressOK, NoUseAfterFree, TypeOK
<1>4. FreshReads'
  BY DEF FreshReads, TypeOK, LocalOK
<1>5. BelowCursor' /\ NoSharedNode' /\ NothingLost'
  BY DEF BelowCursor, NoSharedNode, NothingLost
<1> QED
  BY <1>1, <1>2, <1>3, <1>4, <1>5

LEMMA TakeNodesIInv ==
  ASSUME IInv, NEW t \in Threads, TakeNodes(t)
  PROVE  IInv'
<1> USE DEF IInv, TakeNodes, Goto
<1> DEFINE n == CountOf(call[t])
<1>n. n \in 1..2
  BY DEF CountOf
<1>t. at[t] = "take" /\ cur[t] = pool /\ cur[t] \in Nat /\ pool' = pool + n
  BY DEF FreshReads, LocalOK
<1>g. at'[t] \in {"cursor", "read", "leave"}
  BY DEF TypeOK
<1>1. TypeOK' /\ LocalOK'
  BY <1>n, <1>t, <1>g DEF TypeOK, LocalOK, Inside, Places
<1>2. PlacesOK' /\ OneMonitor'
  BY DEF PlacesOK, OneMonitor, TypeOK
<1>3. AddressOK' /\ NoUseAfterFree'
  BY <1>g DEF AddressOK, NoUseAfterFree, TypeOK
<1>4. FreshReads'
  <2>1. call[t] # "getJsonStr"
    BY DEF PlacesOK
  <2>2. \A u \in Threads : at[u] = "take" => u = t
    BY <2>1, Exclusion
  <2> QED
    BY <2>2, <1>g DEF FreshReads, TypeOK
<1>5. BelowCursor'
  BY <1>n, <1>t DEF BelowCursor
<1>6. NoSharedNode'
  <2> SUFFICES ASSUME NEW x \in made', NEW y \in made', x[3] = y[3]
               PROVE  x[1] = y[1] /\ x[2] = y[2]
    BY DEF NoSharedNode
  <2> DEFINE new == {<<t, left[t], z>> : z \in pool..(pool + n - 1)}
  <2>1. made' = made \cup new
    BY <1>t
  <2>2. \A z \in new : z[1] = t /\ z[2] = left[t] /\ z[3] >= pool
    BY <1>n, <1>t
  <2>3. \A z \in made : z[3] \in Nat /\ z[3] < pool
    BY DEF BelowCursor
  <2>4. CASE x \in made /\ y \in made
    BY <2>4 DEF NoSharedNode
  <2>5. CASE x \in new /\ y \in new
    BY <2>2, <2>5
  <2>6. ~(x \in made /\ y \in new) /\ ~(x \in new /\ y \in made)
    BY <2>2, <2>3, <1>t
  <2> QED
    BY <2>1, <2>4, <2>5, <2>6
<1>7. NothingLost'
  BY DEF NothingLost
<1> QED
  BY <1>1, <1>2, <1>3, <1>4, <1>5, <1>6, <1>7

LEMMA ReadChainIInv ==
  ASSUME IInv, NEW t \in Threads, ReadChain(t)
  PROVE  IInv'
<1> USE DEF IInv, ReadChain, Goto, shared
<1>1. TypeOK' /\ LocalOK'
  BY DEF TypeOK, LocalOK, Inside, Places, ContainerOf, Containers
<1>2. PlacesOK' /\ OneMonitor'
  BY DEF PlacesOK, OneMonitor, TypeOK
<1>3. AddressOK' /\ NoUseAfterFree'
  BY DEF AddressOK, NoUseAfterFree, TypeOK
<1>4. FreshReads'
  BY DEF FreshReads, TypeOK, LocalOK
<1>5. BelowCursor' /\ NoSharedNode' /\ NothingLost'
  BY DEF BelowCursor, NoSharedNode, NothingLost
<1> QED
  BY <1>1, <1>2, <1>3, <1>4, <1>5

LEMMA StoreChainIInv ==
  ASSUME IInv, NEW t \in Threads, StoreChain(t)
  PROVE  IInv'
<1> USE DEF IInv, StoreChain, Goto
<1> DEFINE c == ContainerOf(call[t])
<1>c. c \in Containers
  BY DEF ContainerOf, Containers
<1>s. seen[t] = chain[c] /\ seen[t] \subseteq Nat /\ cur[t] \in Nat
  BY DEF FreshReads, LocalOK
<1>1. TypeOK'
  BY DEF TypeOK, Inside, Places
<1>2. LocalOK'
  BY <1>c, <1>s DEF LocalOK
<1>3. PlacesOK' /\ OneMonitor'
  BY DEF PlacesOK, OneMonitor, TypeOK
<1>4. AddressOK' /\ NoUseAfterFree'
  BY DEF AddressOK, NoUseAfterFree, TypeOK
<1>5. FreshReads'
  <2>1. call[t] # "getJsonStr"
    BY DEF PlacesOK, Links, Unlinks
  <2>2. \A u \in Threads : at[u] = "store" => u = t
    BY <2>1, Exclusion
  <2> QED
    BY <2>2 DEF FreshReads, TypeOK
<1>6. BelowCursor' /\ NoSharedNode'
  BY DEF BelowCursor, NoSharedNode
<1>7. NothingLost'
  BY <1>c, <1>s DEF NothingLost, LocalOK
<1> QED
  BY <1>1, <1>2, <1>3, <1>4, <1>5, <1>6, <1>7

LEMMA WriteIInv ==
  ASSUME IInv, NEW t \in Threads, Write(t)
  PROVE  IInv'
<1> USE DEF IInv, Write, Goto, shared
<1>1. TypeOK' /\ LocalOK'
  BY DEF TypeOK, LocalOK, Inside, Places
<1>2. PlacesOK' /\ OneMonitor'
  BY DEF PlacesOK, OneMonitor, TypeOK
<1>3. AddressOK' /\ NoUseAfterFree' /\ FreshReads'
  BY DEF AddressOK, NoUseAfterFree, FreshReads, TypeOK
<1>4. BelowCursor' /\ NoSharedNode' /\ NothingLost'
  BY DEF BelowCursor, NoSharedNode, NothingLost
<1> QED
  BY <1>1, <1>2, <1>3, <1>4

LEMMA FreeDocIInv ==
  ASSUME IInv, NEW t \in Threads, FreeDoc(t)
  PROVE  IInv'
<1> USE DEF IInv, FreeDoc, Goto
<1>f. frees = 0 /\ frees' = 1 /\ address /\ call[t] = "close"
  BY DEF NoUseAfterFree, PlacesOK, AddressOK
<1>1. TypeOK' /\ LocalOK'
  BY <1>f DEF TypeOK, LocalOK, Inside, Places
<1>2. PlacesOK' /\ OneMonitor'
  BY DEF PlacesOK, OneMonitor, TypeOK
<1>3. AddressOK'
  BY <1>f DEF AddressOK, TypeOK
<1>4. NoUseAfterFree'
  <2>1. \A u \in Threads : at[u] \notin {"idle", "enter"} => u = t
    BY <1>f, Exclusion
  <2> QED
    BY <2>1 DEF NoUseAfterFree, TypeOK
<1>5. FreshReads' /\ BelowCursor' /\ NoSharedNode' /\ NothingLost'
  BY DEF FreshReads, BelowCursor, NoSharedNode, NothingLost, TypeOK
<1> QED
  BY <1>1, <1>2, <1>3, <1>4, <1>5

LEMMA ZeroAddressIInv ==
  ASSUME IInv, NEW t \in Threads, ZeroAddress(t)
  PROVE  IInv'
<1> USE DEF IInv, ZeroAddress, Goto
<1>f. frees = 1 /\ call[t] = "close"
  BY DEF PlacesOK, AddressOK
<1>1. TypeOK' /\ LocalOK'
  BY DEF TypeOK, LocalOK, Inside, Places
<1>2. PlacesOK' /\ OneMonitor'
  BY DEF PlacesOK, OneMonitor, TypeOK
<1>3. AddressOK'
  <2>1. \A u \in Threads : at[u] # "idle" => call[u] \notin NeedsNodes
    <3>1. MonitorOf(call[t]) = "JsonMut"
      BY <1>f DEF MonitorOf, MutMethods, ObjMethods, ArrMethods
    <3>2. \A m \in NeedsNodes : MonitorOf(m) # "JsonMut"
      BY DEF NeedsNodes, Unlinks, MonitorOf, MutMethods, ObjMethods, ArrMethods
    <3> QED
      BY <3>1, <3>2 DEF OneMonitor
  <2> QED
    BY <1>f, <2>1 DEF AddressOK, TypeOK
<1>4. NoUseAfterFree' /\ FreshReads'
  BY DEF NoUseAfterFree, FreshReads, TypeOK
<1>5. BelowCursor' /\ NoSharedNode' /\ NothingLost'
  BY DEF BelowCursor, NoSharedNode, NothingLost
<1> QED
  BY <1>1, <1>2, <1>3, <1>4, <1>5

LEMMA LeaveIInv ==
  ASSUME IInv, NEW t \in Threads, Leave(t)
  PROVE  IInv'
<1> USE DEF IInv, Leave, Goto
<1>1. TypeOK'
  <2>1. ASSUME NEW u \in Threads, NEW m \in Monitors
        PROVE  (owner[m] = u <=> Inside(u, m))'
    <3>1. CASE m = MonitorOf(call[t])
      <4>1. Inside(t, m) /\ owner[m] = t
        BY <3>1 DEF Inside, TypeOK
      <4>2. owner'[m] = NoThread
        BY <3>1
      <4>3. u # t => ~Inside(u, m)
        BY <4>1 DEF TypeOK
      <4> QED
        BY <3>1, <4>2, <4>3, ThreadsAssumption DEF Inside, TypeOK
    <3>2. CASE m # MonitorOf(call[t])
      BY <3>2 DEF Inside, TypeOK
    <3> QED
      BY <3>1, <3>2
  <2>2. owner' \in [Monitors -> Threads \cup {NoThread}]
    BY DEF TypeOK
  <2> QED
    BY <2>1, <2>2 DEF TypeOK, Places
<1>2. LocalOK'
  BY DEF LocalOK
<1>3. PlacesOK' /\ OneMonitor'
  BY DEF PlacesOK, OneMonitor, TypeOK
<1>4. AddressOK' /\ NoUseAfterFree' /\ FreshReads'
  BY DEF AddressOK, NoUseAfterFree, FreshReads, TypeOK
<1>5. BelowCursor' /\ NoSharedNode' /\ NothingLost'
  BY DEF BelowCursor, NoSharedNode, NothingLost
<1> QED
  BY <1>1, <1>2, <1>3, <1>4, <1>5

-----------------------------------------------------------------------------
LEMMA NextIInv == IInv /\ [Next]_vars => IInv'
<1> SUFFICES ASSUME IInv, [Next]_vars PROVE IInv'
  OBVIOUS
<1>1. ASSUME NEW t \in Threads, Step(t) PROVE IInv'
  BY <1>1, EnterIInv, ReadCursorIInv, TakeNodesIInv, ReadChainIInv,
     StoreChainIInv, WriteIInv, FreeDocIInv, ZeroAddressIInv, LeaveIInv DEF Step
<1>2. ASSUME NEW t \in Threads, NEW m \in Methods, Begin(t, m) PROVE IInv'
  BY <1>2, BeginIInv
<1>3. CASE UNCHANGED vars
  BY <1>3 DEF vars, shared, IInv, TypeOK, Inside, LocalOK, PlacesOK, OneMonitor,
              AddressOK, NoUseAfterFree, FreshReads, BelowCursor, NoSharedNode,
              NothingLost
<1> QED
  BY <1>1, <1>2, <1>3 DEF Next

THEOREM Invariance == Spec => []IInv
BY InitIInv, NextIInv, PTL DEF Spec

(* For any number of threads and calls: the fields have their types, and a *)
(* monitor of JsonMut.java is owned by a thread exactly while it is inside *)
(* a method that synchronizes on it.                                       *)
THEOREM TypeCorrect == Spec => []TypeOK
<1>1. IInv => TypeOK
  BY DEF IInv
<1> QED
  BY <1>1, Invariance, PTL

(* close() gives the native document back at most once, however often and  *)
(* from however many threads at once it is called.                         *)
THEOREM ClosedOnce == Spec => []FreedOnce
<1>1. IInv => FreedOnce
  BY DEF IInv, AddressOK, FreedOnce
<1> QED
  BY <1>1, Invariance, PTL

(* No call that a client may make reads or writes the document after it    *)
(* was freed.                                                              *)
THEOREM MemorySafe == Spec => []NoUseAfterFree
<1>1. IInv => NoUseAfterFree
  BY DEF IInv
<1> QED
  BY <1>1, Invariance, PTL

(* The value pool hands no node to two calls.                              *)
THEOREM NodesDistinct == Spec => []NoSharedNode
<1>1. IInv => NoSharedNode
  BY DEF IInv
<1> QED
  BY <1>1, Invariance, PTL

(* The chains are at every moment what the same edits, one after the       *)
(* other, would have made of them.                                         *)
THEOREM EditsKept == Spec => []NothingLost
<1>1. IInv => NothingLost
  BY DEF IInv
<1> QED
  BY <1>1, Invariance, PTL
=============================================================================
