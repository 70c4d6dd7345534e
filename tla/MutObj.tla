------------------------------- MODULE MutObj -------------------------------
(***************************************************************************)
(* The objects of one mutable JSON document: JsonMut.JsonMutObject (Java), *)
(* the natives _objAdd, _add, _bind and _objAction (Json.cpp) and the      *)
(* yyjson functions they call (yyjson.h), each handler in one action.      *)
(*                                                                         *)
(* An entry is a key node linked to a value node, the value node is linked *)
(* to the next key node, the last value to the first key.  uni.ptr of the  *)
(* object is its LAST key node.  A key node points to the bytes of its     *)
(* string, which yyjson does not copy.                                     *)
(*                                                                         *)
(* replaceObj does not relink: it exchanges the contents of nodes.  So the *)
(* content of a value node is a state of its own: 'what' names it by the   *)
(* node it was born in, and the content of an object includes its uni.ptr  *)
(* and its length.                                                         *)
(***************************************************************************)
EXTENDS Naturals, Sequences

CONSTANTS
  Objs,         \* nodes born as objects
  Items,        \* nodes born as another value
  PoolKeys,     \* bound: how many key nodes the pool hands out
  Keys,         \* the key strings the client passes
  Unset,        \* the string of a key node not yet handed out
  Root,         \* the object buildObject() makes
  Methods,      \* the methods the client calls
  DistinctKeys, \* the client never adds a key an object already has
  ReadsFreed    \* the client calls methods that read released key bytes

MethodNames ==
  {"createFree", "createJsonMut", "jsonToMut", "add", "bind", "getPointer",
   "removeObj", "cleanObj", "replaceObj"}

Value == Objs \cup Items

KeyNodes == 1..PoolKeys

ASSUME NodesAssumption ==
  /\ Root \in Objs /\ Objs \cap Items = {}
  /\ PoolKeys \in Nat \ {0} /\ Unset \notin Keys
ASSUME ClientAssumption ==
  Methods \subseteq MethodNames /\ DistinctKeys \in BOOLEAN /\ ReadsFreed \in BOOLEAN

VARIABLES
  used,       \* value nodes handed out by the document's pool
  top,        \* how many key nodes it handed out, in this order
  held,       \* value nodes whose address some Java object keeps
  what,       \* the content of each value node
  next,       \* 'next' of each value node: a key node
  last,       \* uni.ptr of the object content in each value node
  len,        \* the length in the tag of that content
  valOf,      \* 'next' of each key node: its value node
  key,        \* the string a key node was made with
  freed,      \* key nodes whose bytes were released
  ret         \* the boolean the last boolean method returned

vars == <<used, top, held, what, next, last, len, valOf, key, freed, ret>>

IsObj(v) == what[v] \in Objs

(* From key node n, k entries on.                                          *)
Walk(n, k) ==
  LET w[j \in 0..k] == IF j = 0 THEN n ELSE next[valOf[w[j - 1]]] IN w[k]

(* The key nodes in the order the serialiser prints them.                  *)
Ring(o) == [i \in 1..len[o] |-> Walk(last[o], i)]

Entries(o) ==
  LET ring == Ring(o) IN [i \in 1..len[o] |-> <<key[ring[i]], valOf[ring[i]]>>]

(* The entries of object c, whichever node it is in.                       *)
EntriesOf(c) == Entries(CHOOSE v \in Value : what[v] = c)

(* Its entries as a set of key nodes.                                      *)
InRing(o) == {Walk(last[o], i) : i \in 1..len[o]}

Linked(v) ==
  \E o \in Value : IsObj(o) /\ \E n \in InRing(o) : valOf[n] = v

Free == {v \in held : v # Root /\ ~Linked(v)}

HasKey(o, k) == \E n \in InRing(o) : key[n] = k

FreedIn(o) == freed \cap InRing(o)

Init ==
  /\ used = {Root}
  /\ top = 0
  /\ held = {Root}
  /\ what = [v \in Value |-> v]
  /\ next = [v \in Value |-> 1]
  /\ last = [v \in Value |-> 1]
  /\ len = [v \in Value |-> 0]
  /\ valOf = [n \in KeyNodes |-> Root]
  /\ key = [n \in KeyNodes |-> Unset]
  /\ freed = {}
  /\ ret = FALSE

-----------------------------------------------------------------------------
(* Adding                                                                  *)

(* Key node n and value node v become the last entry of o.                 *)
LinkEntry(o, k, n, v) ==
  /\ valOf' = [valOf EXCEPT ![n] = v]
  /\ next' = IF len[o] = 0
             THEN [next EXCEPT ![v] = n]
             ELSE [next EXCEPT ![valOf[last[o]]] = n, ![v] = next[valOf[last[o]]]]
  /\ last' = [last EXCEPT ![o] = n]
  /\ len' = [len EXCEPT ![o] = @ + 1]
  /\ key' = [key EXCEPT ![n] = k]

(* A handle whose node holds an object: every other receiver is refused by *)
(* a type check that leaves the document as it is.                         *)
Receiver(o, m) == m \in Methods /\ o \in held /\ IsObj(o)

NewKey(o, k, n) == n \in KeyNodes /\ n = top + 1 /\ (DistinctKeys => ~HasKey(o, k))

(* Mutants stand before what they mutate and take part in no specification. *)
CreateFree_KeepsCursor(v) ==
  /\ "createFree" \in Methods
  /\ v \in Value \ used
  /\ held' = held \cup {v}
  /\ UNCHANGED <<used, top, what, next, last, len, valOf, key, freed, ret>>

(* createFreeJsonMutObject, createFreeJsonMutArr, createJsonType*.         *)
CreateFree(v) ==
  /\ "createFree" \in Methods
  /\ v \in Value \ used
  /\ used' = used \cup {v}
  /\ held' = held \cup {v}
  /\ UNCHANGED <<top, what, next, last, len, valOf, key, freed, ret>>

(* createJsonMutObject, createJsonMutArr: the new value is bound at once.  *)
CreateJsonMut(o, k, n, v) ==
  /\ Receiver(o, "createJsonMut") /\ NewKey(o, k, n)
  /\ v \in Value \ used
  /\ used' = used \cup {v} /\ top' = n
  /\ held' = held \cup {v}
  /\ LinkEntry(o, k, n, v)
  /\ UNCHANGED <<what, freed, ret>>

(* jsonToMutJson: a copy, which is in no container, of an object that has  *)
(* one entry (a bound; the copy of an empty one is as createFree's).       *)
JsonToMut(o, k, n, v) ==
  /\ "jsonToMut" \in Methods /\ NewKey(o, k, n)
  /\ o \in Objs \ used /\ v \in Items \ used
  /\ used' = used \cup {o, v} /\ top' = n
  /\ held' = held \cup {o}
  /\ LinkEntry(o, k, n, v)
  /\ UNCHANGED <<what, freed, ret>>

(* addStr, addInt, addDouble, addLong, addBoolean: one pool allocation for *)
(* the key node and the value node, whose addresses stay in the document.  *)
Add(o, k, n, v) ==
  /\ Receiver(o, "add") /\ NewKey(o, k, n)
  /\ v \in Items \ used
  /\ used' = used \cup {v} /\ top' = n
  /\ LinkEntry(o, k, n, v)
  /\ UNCHANGED <<held, what, freed, ret>>

Bind(o, k, n, v) ==
  /\ Receiver(o, "bind") /\ NewKey(o, k, n)
  /\ v \in Free
  /\ top' = n
  /\ LinkEntry(o, k, n, v)
  /\ UNCHANGED <<used, held, what, freed, ret>>

-----------------------------------------------------------------------------
(* Removing                                                                *)

(* A key node compares equal to k.  The bytes of a freed key read as       *)
(* anything: 'hit' is the set of those that happen to read as k.           *)
Matches(n, k, hit) == IF n \in freed THEN n \in hit ELSE key[n] = k

Defined(o) == ReadsFreed \/ FreedIn(o) = {}

IterStep_KeepsLast(it, k, hit) ==
  LET pre == it.cur
      cur == it.nx[valOf[pre]]
      nxt == it.nx[valOf[cur]]
  IN IF Matches(cur, k, hit)
     THEN [it EXCEPT !.max = @ - 1, !.cur = nxt, !.nx[valOf[pre]] = nxt]
     ELSE [it EXCEPT !.idx = @ + 1, !.cur = cur]

(* One turn of the loop of yyjson_mut_obj_remove_strn:                     *)
(* yyjson_mut_obj_iter_next, the comparison, and on a match                *)
(* yyjson_mut_obj_iter_remove, which leaves the iterator on the node after *)
(* the removed one, so that the next turn steps over that node.            *)
IterStep(it, k, hit) ==
  LET pre == it.cur
      cur == it.nx[valOf[pre]]
      nxt == it.nx[valOf[cur]]
  IN IF Matches(cur, k, hit)
     THEN [idx |-> it.idx, max |-> it.max - 1, cur |-> nxt,
           nx |-> [it.nx EXCEPT ![valOf[pre]] = nxt],
           last |-> IF it.idx + 1 = it.max THEN pre ELSE it.last]
     ELSE [it EXCEPT !.idx = @ + 1, !.cur = cur]

(* A turn either advances idx or lowers max: len turns end the loop.       *)
RemoveLoop(o, k, hit) ==
  LET it[j \in 0..len[o]] ==
        IF j = 0
        THEN [idx |-> 0, max |-> len[o], cur |-> last[o], nx |-> next,
              last |-> last[o]]
        ELSE IterStep(it[j - 1], k, hit)
  IN it[len[o]]

(* removeObj answers TRUE for every object, whether or not it had the key. *)
RemoveObj(o, k, hit) ==
  /\ Receiver(o, "removeObj") /\ Defined(o)
  /\ LET end == RemoveLoop(o, k, hit)
     IN /\ next' = end.nx
        /\ last' = [last EXCEPT ![o] = end.last]
        /\ len' = [len EXCEPT ![o] = end.max]
  /\ ret' = TRUE
  /\ UNCHANGED <<used, top, held, what, valOf, key, freed>>

CleanObj(o) ==
  /\ Receiver(o, "cleanObj")
  /\ len' = [len EXCEPT ![o] = 0]
  /\ ret' = TRUE
  /\ UNCHANGED <<used, top, held, what, next, last, valOf, key, freed>>

-----------------------------------------------------------------------------
(* Looking up and replacing                                                *)

FirstMatch(o, k, hit) ==
  CHOOSE i \in 1..len[o] :
    /\ Matches(Ring(o)[i], k, hit)
    /\ \A j \in 1..(i - 1) : ~Matches(Ring(o)[j], k, hit)

HasMatch(o, k, hit) == \E n \in InRing(o) : Matches(n, k, hit)

(* getPointerJsonMutObject, for a path of one name: a handle of the value  *)
(* of the first entry of that name, if it is an object.  A longer path is  *)
(* one such step after the other.                                          *)
GetPointer(o, k, hit) ==
  /\ Receiver(o, "getPointer") /\ Defined(o) /\ HasMatch(o, k, hit)
  /\ LET v == valOf[Ring(o)[FirstMatch(o, k, hit)]]
     IN IsObj(v) /\ held' = held \cup {v}
  /\ UNCHANGED <<used, top, what, next, last, len, valOf, key, freed, ret>>

Swap(f, v, w) == [f EXCEPT ![v] = f[w], ![w] = f[v]]

SwapContent_CopyOnly(v, w) ==
  /\ what' = [what EXCEPT ![v] = what[w]]
  /\ last' = [last EXCEPT ![v] = last[w]]
  /\ len' = [len EXCEPT ![v] = len[w]]

SwapContent_KeepsLast(v, w) ==
  /\ what' = Swap(what, v, w)
  /\ last' = last
  /\ len' = Swap(len, v, w)

(* memcpy of tag and uni through tmp; 'next' stays.                        *)
SwapContent(v, w) ==
  /\ what' = Swap(what, v, w)
  /\ last' = Swap(last, v, w)
  /\ len' = Swap(len, v, w)

(* _objAction makes a key node on the bytes of GetStringUTFChars, and      *)
(* releases them on its way out; by then the key node of the entry points  *)
(* to them.                                                                *)
ReplaceObj(o, k, v, hit) ==
  /\ "replaceObj" \in Methods /\ o \in held /\ Defined(o)
  /\ v \in Free
  /\ \/ /\ ~IsObj(o) \/ ~HasMatch(o, k, hit)
        /\ ret' = FALSE
        /\ UNCHANGED <<what, last, len, key, freed>>
     \/ /\ IsObj(o) /\ HasMatch(o, k, hit)
        /\ LET n == Ring(o)[FirstMatch(o, k, hit)]
           IN /\ SwapContent(valOf[n], v)
              /\ key' = [key EXCEPT ![n] = k]
              /\ freed' = freed \cup {n}
        /\ ret' = TRUE
  /\ UNCHANGED <<used, top, held, next, valOf>>

-----------------------------------------------------------------------------
Next ==
  \/ \E v \in Value : CreateFree(v)
  \/ \E o, v \in Value, k \in Keys, n \in KeyNodes :
       \/ CreateJsonMut(o, k, n, v) \/ JsonToMut(o, k, n, v)
       \/ Add(o, k, n, v) \/ Bind(o, k, n, v)
  \/ \E o \in Value, k \in Keys : \E hit \in SUBSET FreedIn(o) :
       \/ RemoveObj(o, k, hit) \/ GetPointer(o, k, hit)
       \/ \E v \in Value : ReplaceObj(o, k, v, hit)
  \/ \E o \in Value : CleanObj(o)

Spec == Init /\ [][Next]_vars

-----------------------------------------------------------------------------
(* Types of the node fields, the handles and the answers.                  *)
TypeOK ==
  /\ used \subseteq Value
  /\ top \in 0..PoolKeys
  /\ held \subseteq used
  /\ what \in [Value -> Value]
  /\ next \in [Value -> KeyNodes]
  /\ last \in [Value -> KeyNodes]
  /\ len \in [Value -> Nat]
  /\ valOf \in [KeyNodes -> Value]
  /\ key \in [KeyNodes -> Keys \cup {Unset}]
  /\ freed \subseteq KeyNodes
  /\ ret \in BOOLEAN

(* "The 'next' field links all elements inside the container to be a       *)
(* cycle" (yyjson.h:2622): in every object that is in some node, len       *)
(* entries lead from the last key back to it, through different keys of    *)
(* the pool.                                                               *)
RingClosed ==
  \A o \in Value : IsObj(o) /\ len[o] > 0 =>
    LET ring == Ring(o)
    IN /\ ring[len[o]] = last[o]
       /\ \A i, j \in 1..len[o] : ring[i] = ring[j] => i = j
       /\ \A i \in 1..len[o] : ring[i] <= top

(* No value node is the value of two entries, through any history of       *)
(* removing, clearing, exchanging and binding again.                       *)
OneOwner ==
  /\ ~Linked(Root)
  /\ \A o, p \in Value : IsObj(o) /\ IsObj(p) =>
       \A i \in 1..len[o], j \in 1..len[p] :
         valOf[Walk(last[o], i)] = valOf[Walk(last[p], j)] => o = p /\ i = j

(* replaceObj exchanges contents: no value is lost and none is in two      *)
(* nodes, so no object is reached as the value of two entries.             *)
ContentKept == \A v, w \in Value : what[v] = what[w] => v = w

(* The linked nodes implement the sequences of entries JsonObjects         *)
(* promises, with the same answers.                                        *)
Promise ==
  INSTANCE JsonObjects WITH
    seqs <- [c \in Objs |-> EntriesOf(c)],
    value <- what

ImplementsObjects == Promise!Spec

(* "Removes all key-value pairs for the given key" (yyjson.h:2016): after  *)
(* removeObj(k), no entry of the receiver has key k.                       *)
RemovesAll ==
  [][\A o \in Value, k \in Keys : RemoveObj(o, k, {}) => ~HasKey(o, k)']_vars

(* "The input string is not copied" (yyjson.h:1422): a key node in an      *)
(* object never points to bytes that were released.                        *)
NoFreedKey == \A o \in Value : IsObj(o) => FreedIn(o) = {}
=============================================================================
