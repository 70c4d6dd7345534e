------------------------------- MODULE MutArr -------------------------------
(***************************************************************************)
(* The arrays of one mutable JSON document: JsonMut.JsonMutArr (Java), the *)
(* natives _arrAdd, _add, _bind, _createType and _arrAction (Json.cpp) and *)
(* the yyjson functions they call (yyjson.h), each handler in one action.  *)
(*                                                                         *)
(* An array value stores its length in its tag and, in uni.ptr, a pointer  *)
(* to its LAST element; the elements are linked by 'next' into a cycle.    *)
(* So next[last[a]] is the first element.  An empty array's uni.ptr and a  *)
(* value's 'next' before it is linked are uninitialised pool memory.       *)
(*                                                                         *)
(* The client is one that links only values it holds and that are in no    *)
(* container: nothing in the code looks whether a value is linked already. *)
(***************************************************************************)
EXTENDS Integers, Sequences, FiniteSets

CONSTANTS
  Arrays,     \* pool nodes that become arrays
  Items,      \* pool nodes that become values of another type
  Root,       \* the array buildArr() makes
  Indexes,    \* the jint positions the client passes
  Ranges,     \* the <<index, len>> pairs it passes to removeArrRange
  SizeMod     \* 2^64: the natives convert jint to size_t

Node == Arrays \cup Items

ASSUME NodesAssumption == Root \in Arrays /\ Arrays \cap Items = {}
ASSUME SizeAssumption == SizeMod \in Nat \ {0}
(* size_t is wider than jint by more than the nodes a pool can hold: a     *)
(* negative position becomes one no array is long enough for.              *)
ASSUME IndexesAssumption ==
  /\ Indexes \subseteq Int
  /\ \A i \in Indexes : i < SizeMod /\ i + SizeMod > Cardinality(Node)
ASSUME PoolAssumption == IsFiniteSet(Node)
(* The bound of removeArrRange is checked on index + len, which wraps when *)
(* one is negative; the sum of two jints that are not does not.            *)
ASSUME RangesAssumption ==
  \A r \in Ranges : r \in Nat \X Nat /\ r[1] + r[2] < SizeMod

VARIABLES
  used,       \* nodes handed out by the document's value pool
  held,       \* nodes whose address some Java object keeps
  next,       \* yyjson_mut_val.next
  last,       \* yyjson_mut_val.uni.ptr of an array
  len,        \* the length in the tag of an array
  ret         \* the boolean the last boolean method returned

vars == <<used, held, next, last, len, ret>>

(* Mutants stand before what they mutate and take part in no specification. *)
SizeT_Clamped(i) == IF i < 0 THEN 0 ELSE i

(* The conversion of the jint the client passes to size_t.                 *)
SizeT(i) == i % SizeMod

(* The node reached from n by following 'next' k times.                    *)
Walk(n, k) ==
  LET w[j \in 0..k] == IF j = 0 THEN n ELSE next[w[j - 1]] IN w[k]

(* yyjson_mut_arr_get at every index: what the serialiser prints.          *)
Elems(a) == [i \in 1..len[a] |-> Walk(last[a], i)]

Linked(v) == \E a \in Arrays : \E i \in 1..len[a] : Elems(a)[i] = v

Free == {v \in held : v # Root /\ ~Linked(v)}

Init ==
  /\ used = {Root}
  /\ held = {Root}
  /\ next = [n \in Node |-> n]
  /\ last = [a \in Arrays |-> a]
  /\ len = [a \in Arrays |-> 0]
  /\ ret = FALSE

-----------------------------------------------------------------------------
(* Building blocks                                                         *)

(* val->next = val, the only element of its array.                         *)
Alone(v) == [next EXCEPT ![v] = v]

(* Link v between prev and its successor.                                  *)
PutAfter(prev, v) == [next EXCEPT ![prev] = v, ![v] = next[prev]]

(* The node stores of yyjson_mut_arr_append.                               *)
LinkLast(a, v) ==
  /\ next' = IF len[a] = 0 THEN Alone(v) ELSE PutAfter(last[a], v)
  /\ last' = [last EXCEPT ![a] = v]
  /\ len' = [len EXCEPT ![a] = @ + 1]

(* A failed check: the native returns JNI_FALSE and stores nothing.        *)
Refuse ==
  /\ ret' = FALSE
  /\ UNCHANGED <<used, held, next, last, len>>

Done == ret' = TRUE /\ UNCHANGED <<used, held>>

-----------------------------------------------------------------------------
(* Creation                                                                *)

(* createFreeJsonMutArr, createFreeJsonMutObject, createJsonType*: a pool  *)
(* node in no container.                                                   *)
CreateFree(v) ==
  /\ v \notin used
  /\ used' = used \cup {v}
  /\ held' = held \cup {v}
  /\ UNCHANGED <<next, last, len, ret>>

(* JsonMutArr.createJsonMutObject and createJsonMutArr: _add links the new *)
(* value with yyjson_mut_obj_add, which refuses a parent that is an array; *)
(* _add ignores that and returns the value.                                *)
CreateJsonMut(a, v) ==
  /\ a \in held
  /\ v \notin used
  /\ used' = used \cup {v}
  /\ held' = held \cup {v}
  /\ UNCHANGED <<next, last, len, ret>>

(* addArrStr, addArrInt, addArrDouble, addArrLong, addArrBoolean: the new  *)
(* value's address never reaches Java.                                     *)
AddArr(a, v) ==
  /\ a \in held
  /\ v \in Items \ used
  /\ used' = used \cup {v}
  /\ LinkLast(a, v)
  /\ UNCHANGED <<held, ret>>

-----------------------------------------------------------------------------
(* Linking a value the client holds                                        *)

Bind(a, v) ==
  /\ a \in held
  /\ v \in Free
  /\ LinkLast(a, v)
  /\ UNCHANGED <<used, held, ret>>

AppendArr(a, v) ==
  /\ a \in held
  /\ v \in Free
  /\ LinkLast(a, v)
  /\ Done

PrependArr(a, v) ==
  /\ a \in held
  /\ v \in Free
  /\ next' = IF len[a] = 0 THEN Alone(v) ELSE PutAfter(last[a], v)
  /\ last' = IF len[a] = 0 THEN [last EXCEPT ![a] = v] ELSE last
  /\ len' = [len EXCEPT ![a] = @ + 1]
  /\ Done

(* The insertion point is idx steps after the last element; only the index *)
(* equal to the length moves uni.ptr.                                      *)
InsertAtIdx(a, v, idx) ==
  IF idx = len[a]
  THEN LinkLast(a, v)
  ELSE /\ next' = PutAfter(Walk(last[a], idx), v)
       /\ last' = last
       /\ len' = [len EXCEPT ![a] = @ + 1]

InsertArr(a, v, i) ==
  /\ a \in held
  /\ v \in Free
  /\ \/ SizeT(i) > len[a] /\ Refuse
     \/ SizeT(i) <= len[a] /\ InsertAtIdx(a, v, SizeT(i)) /\ Done

ReplaceAtIdx_StaleLast(a, v, idx) ==
  LET prev == Walk(last[a], idx)
      old  == next[prev]
  IN IF len[a] > 1
     THEN /\ next' = [next EXCEPT ![prev] = v, ![v] = next[old]]
          /\ last' = last
     ELSE next' = Alone(v) /\ last' = [last EXCEPT ![a] = v]

(* The replaced node keeps its own 'next'; uni.ptr moves when it was last. *)
ReplaceAtIdx(a, v, idx) ==
  LET prev == Walk(last[a], idx)
      old  == next[prev]
  IN IF len[a] > 1
     THEN /\ next' = [next EXCEPT ![prev] = v, ![v] = next[old]]
          /\ last' = IF old = last[a] THEN [last EXCEPT ![a] = v] ELSE last
     ELSE next' = Alone(v) /\ last' = [last EXCEPT ![a] = v]

ReplaceArr(a, v, i) ==
  /\ a \in held
  /\ v \in Free
  /\ \/ SizeT(i) >= len[a] /\ Refuse
     \/ /\ SizeT(i) < len[a]
        /\ ReplaceAtIdx(a, v, SizeT(i))
        /\ len' = len
        /\ Done

-----------------------------------------------------------------------------
(* Unlinking                                                               *)

RemoveAtIdx_StaleLast(a, idx) ==
  LET prev == Walk(last[a], idx)
      old  == next[prev]
  IN /\ len' = [len EXCEPT ![a] = @ - 1]
     /\ IF len[a] > 1
        THEN next' = [next EXCEPT ![prev] = next[old]] /\ last' = last
        ELSE UNCHANGED <<next, last>>

(* The last element of a one-element array stays in uni.ptr, with len 0.   *)
RemoveAtIdx(a, idx) ==
  LET prev == Walk(last[a], idx)
      old  == next[prev]
  IN /\ len' = [len EXCEPT ![a] = @ - 1]
     /\ IF len[a] > 1
        THEN /\ next' = [next EXCEPT ![prev] = next[old]]
             /\ last' = IF old = last[a] THEN [last EXCEPT ![a] = prev] ELSE last
        ELSE UNCHANGED <<next, last>>

RemoveArr_OffByOne(a, i) ==
  /\ a \in held
  /\ \/ SizeT(i) > len[a] /\ Refuse
     \/ SizeT(i) <= len[a] /\ RemoveAtIdx(a, SizeT(i)) /\ Done

RemoveArr(a, i) ==
  /\ a \in held
  /\ \/ SizeT(i) >= len[a] /\ Refuse
     \/ SizeT(i) < len[a] /\ RemoveAtIdx(a, SizeT(i)) /\ Done

RemoveArrFirst(a) ==
  /\ a \in held
  /\ \/ len[a] = 0 /\ Refuse
     \/ /\ len[a] > 0
        /\ next' = IF len[a] > 1
                   THEN [next EXCEPT ![last[a]] = next[next[last[a]]]]
                   ELSE next
        /\ len' = [len EXCEPT ![a] = @ - 1]
        /\ last' = last
        /\ Done

RemoveArrLast(a) ==
  /\ a \in held
  /\ \/ len[a] = 0 /\ Refuse
     \/ /\ len[a] > 0
        /\ LET prev == Walk(last[a], len[a] - 1)
           IN IF len[a] > 1
              THEN /\ next' = [next EXCEPT ![prev] = next[last[a]]]
                   /\ last' = [last EXCEPT ![a] = prev]
              ELSE UNCHANGED <<next, last>>
        /\ len' = [len EXCEPT ![a] = @ - 1]
        /\ Done

CutRange_KeepsLast(a, idx, cnt) ==
  LET prev == Walk(last[a], idx)
  IN next' = [next EXCEPT ![prev] = Walk(prev, cnt + 1)] /\ last' = last

(* Cut cnt elements out of the cycle after idx of them.                    *)
CutRange(a, idx, cnt) ==
  LET prev == Walk(last[a], idx)
  IN /\ next' = [next EXCEPT ![prev] = Walk(prev, cnt + 1)]
     /\ last' = IF idx + cnt = len[a]
                THEN [last EXCEPT ![a] = prev] ELSE last

RemoveArrRange(a, i, n) ==
  /\ a \in held
  /\ \/ SizeT(SizeT(i) + SizeT(n)) > len[a] /\ Refuse
     \/ /\ SizeT(SizeT(i) + SizeT(n)) <= len[a]
        /\ len' = [len EXCEPT ![a] = @ - SizeT(n)]
        /\ IF SizeT(n) = 0 \/ SizeT(n) = len[a]
           THEN UNCHANGED <<next, last>>
           ELSE CutRange(a, SizeT(i), SizeT(n))
        /\ Done

CleanArr(a) ==
  /\ a \in held
  /\ len' = [len EXCEPT ![a] = 0]
  /\ UNCHANGED <<next, last>>
  /\ Done

-----------------------------------------------------------------------------
Next ==
  \/ \E v \in Node : CreateFree(v)
  \/ \E a \in Arrays, v \in Node :
       \/ CreateJsonMut(a, v) \/ AddArr(a, v)
       \/ Bind(a, v) \/ AppendArr(a, v) \/ PrependArr(a, v)
  \/ \E a \in Arrays, v \in Node, i \in Indexes :
       InsertArr(a, v, i) \/ ReplaceArr(a, v, i)
  \/ \E a \in Arrays, i \in Indexes : RemoveArr(a, i)
  \/ \E a \in Arrays : RemoveArrFirst(a) \/ RemoveArrLast(a) \/ CleanArr(a)
  \/ \E a \in Arrays, r \in Ranges : RemoveArrRange(a, r[1], r[2])

Spec == Init /\ [][Next]_vars

-----------------------------------------------------------------------------
(* Types: the pool nodes in use, the handles, the pointers and the cached  *)
(* lengths of yyjson_mut_val.                                              *)
TypeOK ==
  /\ used \subseteq Node
  /\ held \subseteq used
  /\ next \in [Node -> Node]
  /\ last \in [Arrays -> Node]
  /\ len \in [Arrays -> Nat]
  /\ ret \in BOOLEAN

(* "The 'next' field links all elements inside the container to be a       *)
(* cycle" (yyjson.h:2622): from the last element, len steps come back to   *)
(* it and meet len different nodes of the pool, the array's own length.    *)
RingClosed ==
  \A a \in Arrays : len[a] > 0 =>
    /\ Elems(a)[len[a]] = last[a]
    /\ \A i, j \in 1..len[a] : Elems(a)[i] = Elems(a)[j] => i = j
    /\ \A i \in 1..len[a] : Elems(a)[i] \in used

(* A node has one 'next', so it can be in one cycle: no value is an        *)
(* element of two arrays, whatever was removed, cut out or put back, and   *)
(* the root is in none.  So the serialiser, started at the root, meets     *)
(* every value at most once and stops.                                     *)
OneOwner ==
  /\ ~Linked(Root)
  /\ \A a, b \in Arrays : a # b =>
       \A i \in 1..len[a], j \in 1..len[b] : Elems(a)[i] # Elems(b)[j]

(* The pointer surgery above is the editing of sequences JsonArrays        *)
(* promises, with the same answers.                                        *)
Promise == INSTANCE JsonArrays WITH seqs <- [a \in Arrays |-> Elems(a)]

ImplementsArrays == Promise!Spec

AsCalled(a) ==
  /\ \A v \in Node :
       /\ AddArr(a, v) => Promise!AddFresh(a, v)
       /\ Bind(a, v) => Promise!Bind(a, v)
       /\ AppendArr(a, v) => Promise!AppendTo(a, v)
       /\ PrependArr(a, v) => Promise!Prepend(a, v)
       /\ \A i \in Indexes :
            /\ InsertArr(a, v, i) => Promise!Insert(a, v, i)
            /\ ReplaceArr(a, v, i) => Promise!Replace(a, v, i)
  /\ \A i \in Indexes : RemoveArr(a, i) => Promise!RemoveOne(a, i)
  /\ RemoveArrFirst(a) => Promise!RemoveOne(a, 0)
  /\ RemoveArrLast(a) => Promise!RemoveLast(a)
  /\ \A r \in Ranges : RemoveArrRange(a, r[1], r[2]) => Promise!RemoveRange(a, r[1], r[2])
  /\ CleanArr(a) => Promise!Clear(a)

(* Each method makes the edit it was called for, of the array, with the    *)
(* value and at the place it was given, and not some other legal one: in   *)
(* particular a negative position, once converted to size_t, is refused.   *)
EditsAsCalled == [][\A a \in Arrays : AsCalled(a)]_vars
=============================================================================
