------------------------------- MODULE MutDoc -------------------------------
(***************************************************************************)
(* The life of one mutable JSON document under concurrent calls: the       *)
(* monitors JsonMut.java takes (JsonMut.class, JsonMutObject.class and     *)
(* JsonMutArr.class), the reads of JsonMut._address, the value pool of the *)
(* native document and the chains of its containers, in the steps in which *)
(* other threads can get between.                                          *)
(*                                                                         *)
(* Three monitors guard one document, so calls under different monitors do *)
(* not exclude each other: the client overlaps calls of one monitor only.  *)
(* What is shown is that this is enough, also around close().              *)
(*                                                                         *)
(* A chain is the set of its nodes: MutArr and MutObj have its pointers.   *)
(* cleanObj and cleanArr stand for every method that unlinks: they all     *)
(* read the length and the last node of their receiver and write them.     *)
(***************************************************************************)
EXTENDS Naturals

CONSTANTS
  Threads,    \* the threads that share the document
  Budget,     \* bound: how many calls a thread makes
  NoThread    \* the owner of a free monitor

MutMethods == {"close", "createFree", "createType", "createBound"}
ObjMethods == {"add", "bind", "cleanObj"}
ArrMethods == {"addArr", "cleanArr"}
Methods == MutMethods \cup ObjMethods \cup ArrMethods \cup {"getJsonStr"}

Monitors == {"JsonMut", "JsonMutObject", "JsonMutArr"}

MonitorOf(m) == CASE m \in MutMethods -> "JsonMut"
                  [] m \in ObjMethods -> "JsonMutObject"
                  [] m \in ArrMethods -> "JsonMutArr"
                  [] OTHER -> "none"

Containers == {"obj", "arr"}

(* add takes the key and the value in one allocation, createBound in two.  *)
CountOf(m) == IF m = "add" THEN 2 ELSE 1
AllocsOf(m) == IF m = "createBound" THEN 2 ELSE 1

Links == {"add", "addArr", "bind", "createBound"}
Unlinks == {"cleanObj", "cleanArr"}

(* Methods whose native reads a node before, or without, asking whether    *)
(* there is a document: the client does not call them on a closed one.     *)
NeedsNodes == {"bind"} \cup Unlinks

ContainerOf(m) == IF m \in ArrMethods THEN "arr" ELSE "obj"

ASSUME ThreadsAssumption == NoThread \notin Threads
ASSUME BudgetAssumption == Budget \in Nat \ {0}

VARIABLES
  address,    \* JsonMut._address is not 0
  frees,      \* how often the native document was freed
  owner,      \* who is in each monitor
  pool,       \* val_pool.cur: how many values were handed out
  chain,      \* the nodes of each container
  meant,      \* history: what chain would be if calls were atomic
  made,       \* history: <<thread, call, node>> for every node a call got
  at,         \* where each thread is
  call,       \* the method it is in
  doc,        \* the document address it read: TRUE when not 0
  got,        \* how many allocations it has done
  cur,        \* the pool cursor it read
  seen,       \* the chain it read
  left        \* how many calls each thread may still begin

shared == <<address, frees, owner, pool, chain, meant, made>>
vars == <<shared, at, call, doc, got, cur, seen, left>>

Init ==
  /\ address = TRUE /\ frees = 0
  /\ owner = [m \in Monitors |-> NoThread]
  /\ pool = 1
  /\ chain = [c \in Containers |-> {}] /\ meant = chain
  /\ made = {}
  /\ at = [t \in Threads |-> "idle"]
  /\ call = [t \in Threads |-> "getJsonStr"]
  /\ doc = [t \in Threads |-> FALSE]
  /\ got = [t \in Threads |-> 0]
  /\ cur = [t \in Threads |-> 0]
  /\ seen = [t \in Threads |-> {}]
  /\ left = [t \in Threads |-> Budget]

-----------------------------------------------------------------------------
Goto(t, s) == at' = [at EXCEPT ![t] = s]

(* Where a call goes once it knows whether there is a document.            *)
Body(t, open) ==
  CASE call[t] = "close" -> IF open THEN "free" ELSE "zero"
    [] call[t] = "getJsonStr" -> IF open THEN "write" ELSE "leave"
    [] call[t] \in Unlinks -> "read"
    [] OTHER -> IF open THEN "cursor" ELSE "leave"

(* The client's part: overlap within a monitor, nodes of a live document.  *)
Begin(t, m) ==
  /\ at[t] = "idle" /\ left[t] > 0
  /\ \A u \in Threads : at[u] = "idle" \/ MonitorOf(call[u]) = MonitorOf(m)
  /\ m \in NeedsNodes => address
  /\ call' = [call EXCEPT ![t] = m]
  /\ got' = [got EXCEPT ![t] = 0]
  /\ left' = [left EXCEPT ![t] = @ - 1]
  /\ Goto(t, "enter")
  /\ UNCHANGED <<shared, doc, cur, seen>>

(* Mutants stand before what they mutate and take part in no specification. *)
Enter_NoMonitor(t) ==
  /\ at[t] = "enter"
  /\ doc' = [doc EXCEPT ![t] = address]
  /\ Goto(t, Body(t, address))
  /\ UNCHANGED <<shared, call, got, cur, seen, left>>

(* The monitor, then the read of _address.  getJsonStr takes no monitor,   *)
(* and reads _address again to pass it on: Begin lets no close in between. *)
Enter(t) ==
  /\ at[t] = "enter"
  /\ \/ MonitorOf(call[t]) = "none" /\ owner' = owner
     \/ /\ MonitorOf(call[t]) # "none"
        /\ owner[MonitorOf(call[t])] = NoThread
        /\ owner' = [owner EXCEPT ![MonitorOf(call[t])] = t]
  /\ doc' = [doc EXCEPT ![t] = address]
  /\ Goto(t, Body(t, address))
  /\ UNCHANGED <<address, frees, pool, chain, meant, made, call, got, cur, seen, left>>

(* unsafe_yyjson_mut_val: val = pool->cur; pool->cur += count.             *)
ReadCursor(t) ==
  /\ at[t] = "cursor"
  /\ cur' = [cur EXCEPT ![t] = pool]
  /\ Goto(t, "take")
  /\ UNCHANGED <<shared, call, doc, got, seen, left>>

TakeNodes(t) ==
  LET n == CountOf(call[t])
  IN /\ at[t] = "take"
     /\ pool' = cur[t] + n
     /\ made' = made \cup {<<t, left[t], x>> : x \in cur[t]..(cur[t] + n - 1)}
     /\ got' = [got EXCEPT ![t] = @ + 1]
     /\ Goto(t, IF got[t] + 1 < AllocsOf(call[t]) THEN "cursor"
                ELSE IF call[t] \in Links THEN "read" ELSE "leave")
     /\ UNCHANGED <<address, frees, owner, chain, meant, call, doc, cur, seen, left>>

(* Length and last node of the receiver are read, then written.            *)
ReadChain(t) ==
  /\ at[t] = "read"
  /\ seen' = [seen EXCEPT ![t] = chain[ContainerOf(call[t])]]
  /\ Goto(t, "store")
  /\ UNCHANGED <<shared, call, doc, got, cur, left>>

StoreChain(t) ==
  LET c == ContainerOf(call[t])
      Edit(s) == IF call[t] \in Links THEN s \cup {cur[t]} ELSE {}
  IN /\ at[t] = "store"
     /\ chain' = [chain EXCEPT ![c] = Edit(seen[t])]
     /\ meant' = [meant EXCEPT ![c] = Edit(@)]
     /\ Goto(t, "leave")
     /\ UNCHANGED <<address, frees, owner, pool, made, call, doc, got, cur, seen, left>>

(* The serialiser goes over every chain.                                   *)
Write(t) ==
  /\ at[t] = "write"
  /\ Goto(t, "leave")
  /\ UNCHANGED <<shared, call, doc, got, cur, seen, left>>

FreeDoc(t) ==
  /\ at[t] = "free"
  /\ frees' = frees + 1
  /\ Goto(t, "zero")
  /\ UNCHANGED <<address, owner, pool, chain, meant, made, call, doc, got, cur, seen, left>>

ZeroAddress_Keeps(t) ==
  /\ at[t] = "zero"
  /\ Goto(t, "leave")
  /\ UNCHANGED <<shared, call, doc, got, cur, seen, left>>

ZeroAddress(t) ==
  /\ at[t] = "zero"
  /\ address' = FALSE
  /\ Goto(t, "leave")
  /\ UNCHANGED <<frees, owner, pool, chain, meant, made, call, doc, got, cur, seen, left>>

Leave_KeepsMonitor(t) ==
  /\ at[t] = "leave"
  /\ Goto(t, "idle")
  /\ UNCHANGED <<shared, call, doc, got, cur, seen, left>>

Leave(t) ==
  /\ at[t] = "leave"
  /\ owner' = [m \in Monitors |-> IF m = MonitorOf(call[t]) THEN NoThread ELSE owner[m]]
  /\ Goto(t, "idle")
  /\ UNCHANGED <<address, frees, pool, chain, meant, made, call, doc, got, cur, seen, left>>

Step(t) ==
  \/ Enter(t) \/ ReadCursor(t) \/ TakeNodes(t) \/ ReadChain(t) \/ StoreChain(t)
  \/ Write(t) \/ FreeDoc(t) \/ ZeroAddress(t) \/ Leave(t)

Next == \E t \in Threads : Step(t) \/ \E m \in Methods : Begin(t, m)

Spec == Init /\ [][Next]_vars

(* A thread that can go on goes on.  Budget stands for the others making   *)
(* finitely many calls: then nobody is overtaken at a monitor for ever.    *)
FairSpec == Spec /\ \A t \in Threads : WF_vars(Step(t))

-----------------------------------------------------------------------------
Places == {"idle", "enter", "cursor", "take", "read", "store", "write", "free",
           "zero", "leave"}

(* Where a thread is inside the monitor its method synchronizes on.        *)
Inside(t, m) == at[t] \notin {"idle", "enter"} /\ MonitorOf(call[t]) = m

(* Types, and a monitor is owned by a thread exactly while that thread is  *)
(* inside a method that synchronizes on it.                                *)
TypeOK ==
  /\ address \in BOOLEAN /\ frees \in Nat /\ pool \in Nat
  /\ owner \in [Monitors -> Threads \cup {NoThread}]
  /\ at \in [Threads -> Places]
  /\ call \in [Threads -> Methods]
  /\ doc \in [Threads -> BOOLEAN]
  /\ \A t \in Threads, m \in Monitors : owner[m] = t <=> Inside(t, m)

(* Closing twice, also from two threads at once, frees the document once.  *)
FreedOnce == frees <= 1

(* No step that reads or writes memory of the document runs after it was   *)
(* freed: calls that come after or overlap close() find the address 0.     *)
NoUseAfterFree ==
  \A t \in Threads :
    at[t] \in {"cursor", "take", "read", "store", "write", "free"} => frees = 0

(* A pool node goes to one call only.                                      *)
NoSharedNode ==
  \A x, y \in made : x[3] = y[3] => x[1] = y[1] /\ x[2] = y[2]

(* No edit of a chain is lost: after any overlap the chains are what the   *)
(* same calls one after the other would have made.                         *)
NothingLost == chain = meant

(* Every call returns.                                                     *)
Returns == \A t \in Threads : at[t] # "idle" ~> at[t] = "idle"
=============================================================================
