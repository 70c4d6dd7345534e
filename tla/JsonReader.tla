----------------------------- MODULE JsonReader -----------------------------
(***************************************************************************)
(* The reader of JSON text: Json and its inner class JsonObject (Json.java)*)
(* over the natives _get, _getArray and _getPoint (Json.cpp).              *)
(*                                                                         *)
(* A parsed document does not change.  What changes is what the Java       *)
(* objects point to.  The Json object and every JsonObject have an address *)
(* and a cursor, both called pointerAddress in nested classes.  getPointer *)
(* sets the cursor inside a monitor, asPointerInt and the others read it   *)
(* later and outside; some methods hold one monitor while they construct   *)
(* objects inside another.                                                 *)
(***************************************************************************)
EXTENDS Naturals, Sequences

CONSTANTS
  Threads, Nobody,
  Nodes, Nil,     \* values of the document; the null address
  Root,
  Arrays,         \* the nodes that are arrays
  Fields,         \* the member names of objects
  Child,          \* Child[n][name]: the member or element of n of that name
  Elems,          \* Elems[n]: the names of the elements of array n, in order
  Paths,          \* the paths the client passes to getPointer
  Budget          \* bound: calls in a behaviour

(* An empty array is left out: _getArray then returns a variable it never  *)
(* set (Json.cpp:176).                                                     *)
ASSUME DocumentAssumption ==
  /\ Root \in Nodes /\ Arrays \subseteq Nodes /\ Nil \notin Nodes
  /\ \A n \in Nodes : \A k \in DOMAIN Child[n] : Child[n][k] \in Nodes
  /\ \A n \in Arrays : Elems[n] # <<>>

Names == Fields \cup UNION {DOMAIN Child[n] : n \in Nodes}

ASSUME NamesAssumption ==
  Paths \subseteq Seq(Names) /\ \A n \in Arrays : Elems[n] \in Seq(Names)
ASSUME ClientAssumption == Nobody \notin Threads /\ Budget \in Nat

VARIABLES
  objs,       \* the Java objects: objs[1] is the Json, the others JsonObjects
  monitor,    \* the thread inside each class monitor
  pc, call,   \* where each thread is, and in which call
  reg,        \* the address each thread works on
  todo,       \* the objects a thread has still to construct: addresses, paths
  answer,     \* what the last read of each thread returned
  calls       \* calls begun

vars == <<objs, monitor, pc, call, reg, todo, answer, calls>>

(* path and asked are history: the place in the text that the address and  *)
(* the cursor stand for, as the thread that set them sees it.              *)
Object(a, cursor, path, t) ==
  [at |-> a, cursor |-> cursor, path |-> path, asked |-> path, owner |-> t]

None == [node |-> Nil, path |-> <<>>]

(* yyjson_obj_get and the steps of yyjson_get_pointer: NULL has no member. *)
Sub(n, k) == IF n # Nil /\ k \in DOMAIN Child[n] THEN Child[n][k] ELSE Nil

Follow(n, p) ==
  LET f[i \in 0..Len(p)] == IF i = 0 THEN n ELSE Sub(f[i - 1], p[i])
  IN f[Len(p)]

(* What the text has at a path.                                            *)
Resolve(p) == Follow(Root, p)

-----------------------------------------------------------------------------
(* The methods.  "get" stands for getString, getInt, getDouble, getLong,   *)
(* getBoolean; "as" and "asPointer" likewise for theirs.                   *)
JsonMethods ==
  {"getPointer", "asPointer", "asPointerObject", "asPointerArr", "get",
   "getObject", "getArr", "asRootArr"}

ObjectMethods ==
  {"getPointer", "getPointerObject", "asPointer", "asPointerArr",
   "getPointString", "get", "as", "getObject", "getArr"}

MethodsOf(o) == IF o = 1 THEN JsonMethods ELSE ObjectMethods

ReadCursor == {"asPointer", "asPointerObject", "asPointerArr", "getPointString"}
SetCursor == {"getPointer", "getPointerObject"}
Lists == {"asPointerArr", "getArr", "asRootArr"}

Args(m) ==
  CASE m = "getPointer" -> Paths
    [] m \in {"getPointerObject", "getPointString", "get", "getObject", "getArr"}
         -> {<<k>> : k \in Fields}
    [] OTHER -> {<<>>}

Monitors_Nested(o, m) ==
  CASE m = "getPointer" /\ o = 1 -> <<"Json">>
    [] m = "getPointer" /\ o # 1 -> <<"JsonObject", "Json">>
    [] m = "getPointerObject" -> <<"JsonObject">>
    [] m = "getArr" -> <<"Json">>
    [] OTHER -> <<>>

(* The monitors a method enters before anything else, in this order.       *)
Monitors(o, m) ==
  CASE m = "getPointer" /\ o = 1 -> <<"Json">>
    [] m \in SetCursor /\ o # 1 -> <<"JsonObject">>
    [] m = "getArr" -> <<"Json">>
    [] OTHER -> <<>>

Base_OuterCursor(o, m) == IF m \in ReadCursor THEN objs[1].cursor ELSE objs[o].at

Base_FromRoot(o, m) ==
  IF m \in ReadCursor THEN objs[o].cursor
  ELSE IF m = "getArr" THEN objs[1].at ELSE objs[o].at

(* The address a method passes to its native.                              *)
Base(o, m) == IF m \in ReadCursor THEN objs[o].cursor ELSE objs[o].at

-----------------------------------------------------------------------------
Init ==
  /\ \E t \in Threads : objs = <<Object(Root, Nil, <<>>, t)>>
  /\ monitor = [c \in {"Json", "JsonObject"} |-> Nobody]
  /\ pc = [t \in Threads |-> "idle"]
  /\ call = [t \in Threads |-> [m |-> "get", o |-> 1, p |-> <<>>, path |-> <<>>]]
  /\ reg = [t \in Threads |-> Nil]
  /\ todo = [t \in Threads |-> <<>>]
  /\ answer = [t \in Threads |-> None]
  /\ calls = 0

(* The client: one thread uses the cursor of an object, and sets it before *)
(* it reads it; everything else any thread calls on any object.            *)
Confined(t, o, m) ==
  m \in ReadCursor \cup SetCursor => objs[o].owner = t

Begin(t, o, m, p) ==
  /\ pc[t] = "idle" /\ calls < Budget
  /\ Confined(t, o, m)
  /\ m \in ReadCursor /\ o = 1 => objs[1].asked # <<>>
  /\ call' = [call EXCEPT ![t] =
       [m |-> m, o |-> o, p |-> p,
        path |-> (IF m \in ReadCursor THEN objs[o].asked ELSE objs[o].path) \o p]]
  /\ pc' = [pc EXCEPT ![t] = "enter"]
  /\ answer' = [answer EXCEPT ![t] = None]
  /\ calls' = calls + 1
  /\ UNCHANGED <<objs, monitor, reg, todo>>

Inside(t) == {c \in DOMAIN monitor : monitor[c] = t}

(* One monitor after the other, or, with all of them, the read of the      *)
(* address.                                                                *)
Enter(t) ==
  /\ pc[t] = "enter"
  /\ LET ms == Monitors(call[t].o, call[t].m)
         missing == {i \in 1..Len(ms) : monitor[ms[i]] # t}
     IN \/ /\ missing = {}
           /\ reg' = [reg EXCEPT ![t] = Base(call[t].o, call[t].m)]
           /\ pc' = [pc EXCEPT ![t] = "native"]
           /\ UNCHANGED monitor
        \/ \E i \in missing :
             /\ \A j \in missing : i <= j
             /\ monitor[ms[i]] = Nobody
             /\ monitor' = [monitor EXCEPT ![ms[i]] = t]
             /\ UNCHANGED <<reg, pc>>
  /\ UNCHANGED <<objs, call, todo, answer, calls>>

Leave_KeepsMonitor(t) ==
  pc' = [pc EXCEPT ![t] = "idle"] /\ UNCHANGED monitor

(* Return or exception: either way the monitors are left.                  *)
Leave(t) ==
  /\ pc' = [pc EXCEPT ![t] = "idle"]
  /\ monitor' = [c \in DOMAIN monitor |-> IF c \in Inside(t) THEN Nobody ELSE monitor[c]]

Found(t) == Follow(reg[t], call[t].p)

(* getPointer stores NULL when there is no such value; getPointerObject    *)
(* throws then (Long.parseLong(null)) and the cursor stays.                *)
Aim(t) ==
  /\ pc[t] = "native" /\ call[t].m \in SetCursor
  /\ \/ /\ call[t].m = "getPointer" \/ Found(t) # Nil
        /\ objs' = [objs EXCEPT ![call[t].o].cursor = Found(t),
                                ![call[t].o].asked = call[t].path]
     \/ call[t].m = "getPointerObject" /\ Found(t) = Nil /\ UNCHANGED objs
  /\ Leave(t)
  /\ UNCHANGED <<call, reg, todo, answer, calls>>

(* A scalar: NULL makes null or a NumberFormatException.                   *)
Read(t) ==
  /\ pc[t] = "native" /\ call[t].m \in {"get", "as", "asPointer", "getPointString"}
  /\ answer' = [answer EXCEPT ![t] = [node |-> Found(t), path |-> call[t].path]]
  /\ Leave(t)
  /\ UNCHANGED <<objs, call, reg, todo, calls>>

(* asPointerObject wraps NULL as well, getObject returns null for it; a    *)
(* list of something that is not an array is null or an exception.         *)
Wraps(t) ==
  LET n == Found(t)
  IN IF call[t].m \in Lists
     THEN IF n \in Arrays
          THEN [i \in 1..Len(Elems[n]) |->
                  <<Sub(n, Elems[n][i]), Append(call[t].path, Elems[n][i])>>]
          ELSE <<>>
     ELSE IF call[t].m = "getObject" /\ n = Nil THEN <<>> ELSE <<<<n, call[t].path>>>>

Wrap(t) ==
  /\ pc[t] = "native" /\ call[t].m \in Lists \cup {"getObject", "asPointerObject"}
  /\ todo' = [todo EXCEPT ![t] = Wraps(t)]
  /\ pc' = [pc EXCEPT ![t] = "construct"]
  /\ UNCHANGED <<objs, monitor, call, reg, answer, calls>>

(* JsonObject(address) runs in the monitor of JsonObject, also when the    *)
(* thread is in that of Json.                                              *)
Construct(t) ==
  /\ pc[t] = "construct"
  /\ \/ /\ todo[t] = <<>> /\ Leave(t)
        /\ UNCHANGED <<objs, todo>>
     \/ /\ todo[t] # <<>> /\ monitor["JsonObject"] = Nobody
        /\ LET n == Head(todo[t])[1]
           IN objs' = Append(objs, Object(n, n, Head(todo[t])[2], t))
        /\ todo' = [todo EXCEPT ![t] = Tail(@)]
        /\ UNCHANGED <<pc, monitor>>
  /\ UNCHANGED <<call, reg, answer, calls>>

Step(t) == Enter(t) \/ Aim(t) \/ Read(t) \/ Wrap(t) \/ Construct(t)

Next ==
  \E t \in Threads :
    \/ \E o \in 1..Len(objs) : \E m \in MethodsOf(o) : \E p \in Args(m) :
         Begin(t, o, m, p)
    \/ Step(t)

Spec == Init /\ [][Next]_vars /\ \A t \in Threads : WF_vars(Step(t))

-----------------------------------------------------------------------------
(* Types; a thread that is in no call is in no monitor.                    *)
TypeOK ==
  /\ \A o \in 1..Len(objs) :
       /\ objs[o].at \in Nodes \cup {Nil} /\ objs[o].cursor \in Nodes \cup {Nil}
       /\ objs[o].owner \in Threads
  /\ monitor \in [{"Json", "JsonObject"} -> Threads \cup {Nobody}]
  /\ pc \in [Threads -> {"idle", "enter", "native", "construct"}]
  /\ reg \in [Threads -> Nodes \cup {Nil}]
  /\ calls \in 0..Budget
  /\ \A t \in Threads : pc[t] = "idle" => Inside(t) = {}

(* getPointer(p).asPointerX() and every other read return the value the    *)
(* text has at the path the calls spell, whatever other threads do with    *)
(* the same Json and whatever other cursors are set between the two calls  *)
(* (Json.java:48).                                                         *)
ReadsItsPath ==
  \A t \in Threads : answer[t] # None => answer[t].node = Resolve(answer[t].path)

(* A JsonObject, however it was reached, stands for the place in the text  *)
(* that the chain of calls names: also as the element of an array inside   *)
(* an object inside an array.                                              *)
ObjectsStandForPaths ==
  \A o \in 1..Len(objs) : objs[o].at = Resolve(objs[o].path)

(* Every call ends: getArrJsonObject constructs JsonObjects, in their      *)
(* monitor, inside that of Json, and nothing takes the two in the other    *)
(* order.                                                                  *)
Returns == \A t \in Threads : (pc[t] # "idle") ~> (pc[t] = "idle")
=============================================================================
