------------------------------ MODULE Mapping ------------------------------
(***************************************************************************)
(* BlackSkyUtil.objToJsonStr, which writes the fields of a Java object     *)
(* into a new mutable document and returns its text, and the conversions a *)
(* value goes through: the casts of BlackSkyUtil, the natives _objAdd and  *)
(* _arrAdd, the text, and, when the text is read, the native _get of Json. *)
(*                                                                         *)
(* A Java value is a pair of the JAVA_TYPE getFieldType gives its class    *)
(* and a datum; a field is a pair of its declared type, boxed or not, and  *)
(* such a value, a sequence or a set of them, or Null.  Declared types     *)
(* nothing is written for (Map, byte, any other class) are one: "OTHER".   *)
(* A JSON value is a pair of its yyjson type and a datum.                  *)
(*                                                                         *)
(* The native documents come from one allocator, which hands an address    *)
(* out again as soon as it was freed.  The monitors of JsonMut.java, which *)
(* belong to classes, are left out: what they order are natives that each  *)
(* work on the document of their own call (MutDoc has the monitors).       *)
(***************************************************************************)
EXTENDS Integers, Sequences, FiniteSets

CONSTANTS
  Threads,    \* threads that map objects, each with documents of its own
  Names,      \* names of fields
  Objects,    \* the objects: functions from names to fields
  Docs,       \* addresses of native documents
  IntHalf,    \* 2^31: ints are -IntHalf .. IntHalf - 1
  LongHalf,   \* 2^63
  Grain,      \* 10^-6, in the unit doubles are given in
  NonFinite,  \* the datum of a double that is infinite or not a number
  Null,       \* the null reference
  None        \* no thread, no document

Ints == (-IntHalf)..(IntHalf - 1)
Longs == (-LongHalf)..(LongHalf - 1)

ASSUME WidthAssumption ==
  /\ IntHalf \in Nat \ {0} /\ LongHalf \in Nat /\ LongHalf >= IntHalf
  /\ Grain \in Nat \ {0}
ASSUME NoneAssumption == None \notin Threads \cup Docs

Written == {"STRING", "INT", "LONG", "DOUBLE", "BOOLEAN"}

InRange(x) ==
  /\ x[1] = "INT" => x[2] \in Ints
  /\ x[1] = "LONG" => x[2] \in Longs
  /\ x[1] = "DOUBLE" => x[2] \in Int \cup {NonFinite}
  /\ x[1] = "BOOLEAN" => x[2] \in BOOLEAN

Elements(f) == IF f[1] = "LIST" THEN {f[2][i] : i \in DOMAIN f[2]} ELSE f[2]

(* Java: a field holds a value of its declared type, and an element of a   *)
(* collection is a value of its class.                                     *)
ASSUME ObjectsAssumption ==
  \A o \in Objects :
    /\ DOMAIN o \subseteq Names
    /\ \A f \in DOMAIN o : o[f][2] # Null =>
         /\ o[f][1] \in Written => o[f][2][1] = o[f][1] /\ InRange(o[f][2])
         /\ o[f][1] = "LIST" => o[f][2] \in Seq(Elements(o[f]))
         /\ o[f][1] = "SET" => IsFiniteSet(o[f][2])
         /\ o[f][1] \in {"LIST", "SET"} =>
              \A x \in Elements(o[f]) : x # Null /\ x[1] \in Written => InRange(x)

-----------------------------------------------------------------------------
(* Conversions                                                             *)

(* jlong to uint64_t, and uni.i64 of a value that was stored as u64.       *)
ToUint(n) == IF n < 0 THEN n + 2 * LongHalf ELSE n
ToSint(n) == IF n >= LongHalf THEN n - 2 * LongHalf ELSE n

(* (int) of an int64_t.                                                    *)
ToInt(n) ==
  LET low == n % (2 * IntHalf)
  IN IF low >= IntHalf THEN low - 2 * IntHalf ELSE low

(* std::to_string of a double: the nearest multiple of 10^-6.              *)
Printed(d) == ((2 * d + Grain) \div (2 * Grain)) * Grain

KindOf ==
  [STRING |-> "str", INT |-> "sint", LONG |-> "uint", DOUBLE |-> "real",
   BOOLEAN |-> "bool"]

(* Mutants stand before what they mutate and take part in no specification. *)
Node_LongAsInt(x) ==
  <<KindOf[x[1]], IF x[1] = "LONG" THEN ToInt(x[2]) ELSE x[2]>>

(* The value _objAdd and _arrAdd make: longs go through the unsigned adder.*)
Node(x) == <<KindOf[x[1]], IF x[1] = "LONG" THEN ToUint(x[2]) ELSE x[2]>>

(* What the parser makes of the text of a value: an integer with no minus  *)
(* sign is unsigned.                                                       *)
Parsed(n) == IF n[1] = "sint" /\ n[2] >= 0 THEN <<"uint", n[2]>> ELSE n

IsInt(n) == n[1] \in {"uint", "sint"}

GetString(n) == IF n[1] = "str" THEN n[2] ELSE Null
GetInt(n) == IF IsInt(n) THEN ToInt(ToSint(n[2])) ELSE 0
GetLong(n) == IF IsInt(n) THEN ToSint(n[2]) ELSE 0
GetDouble(n) == IF n[1] = "real" THEN Printed(n[2]) ELSE 0
GetBoolean(n) == n[1] = "bool" /\ n[2]

-----------------------------------------------------------------------------
VARIABLES
  pc,       \* where each thread is
  obj,      \* the object it maps or mapped last
  todo,     \* names of the fields it has not written yet
  cur,      \* the field whose elements it is writing
  rest,     \* the elements it has not come to
  root,     \* what its document holds, and then its text, for each name
  doc,      \* the _address of its JsonMut
  owner,    \* the call that has each native document, None when it is free
  outcome   \* how its last call ended

vars == <<pc, obj, todo, cur, rest, root, doc, owner, outcome>>

Absent == << >>
Empty == [f \in Names |-> Absent]

Init ==
  /\ pc = [t \in Threads |-> "idle"]
  /\ obj = [t \in Threads |-> << >>]
  /\ todo = [t \in Threads |-> {}]
  /\ cur = [t \in Threads |-> None]
  /\ rest = [t \in Threads |-> << >>]
  /\ root = [t \in Threads |-> Empty]
  /\ doc = [t \in Threads |-> None]
  /\ owner = [d \in Docs |-> None]
  /\ outcome = [t \in Threads |-> "none"]

Goto(t, s) == pc' = [pc EXCEPT ![t] = s]

Declared(t, f) == obj[t][f][1]
Value(t, f) == obj[t][f][2]

(* No document is made: no declared field, or getDeclaredFields or         *)
(* setAccessible threw.                                                    *)
Refuse(t, o) ==
  /\ pc[t] = "idle"
  /\ \/ /\ DOMAIN o = {} /\ outcome' = [outcome EXCEPT ![t] = "null"]
     \/ outcome' = [outcome EXCEPT ![t] = "exception"]
  /\ obj' = [obj EXCEPT ![t] = << >>]
  /\ root' = [root EXCEPT ![t] = Empty]
  /\ UNCHANGED <<pc, todo, cur, rest, doc, owner>>

(* JsonMut.buildObject, then the fields, in an order Java leaves open.     *)
Build(t, o, d) ==
  /\ pc[t] = "idle" /\ DOMAIN o # {} /\ owner[d] = None
  /\ obj' = [obj EXCEPT ![t] = o]
  /\ todo' = [todo EXCEPT ![t] = DOMAIN o]
  /\ root' = [root EXCEPT ![t] = Empty]
  /\ doc' = [doc EXCEPT ![t] = d]
  /\ owner' = [owner EXCEPT ![d] = t]
  /\ outcome' = [outcome EXCEPT ![t] = "none"]
  /\ Goto(t, "fields")
  /\ UNCHANGED <<cur, rest>>

Take(t, f) ==
  /\ pc[t] = "fields" /\ f \in todo[t]
  /\ todo' = [todo EXCEPT ![t] = @ \ {f}]

(* The casts need an Integer, a Long, a Double or a Boolean: a null is not *)
(* unboxed, and a Short cast to int by way of Object is no Integer.        *)
Uncastable(f) ==
  \/ f[1] = "SHORT"
  \/ f[1] \in Written \ {"STRING"} /\ f[2] = Null

(* addStr and the other four; String.valueOf makes "null" of null.         *)
AddField(t, f) ==
  /\ Take(t, f)
  /\ Declared(t, f) \in Written /\ ~Uncastable(obj[t][f])
  /\ root' = [root EXCEPT ![t][f] =
       IF Value(t, f) = Null THEN <<"str", "null">> ELSE Node(Value(t, f))]
  /\ UNCHANGED <<pc, obj, cur, rest, doc, owner, outcome>>

SkipField(t, f) ==
  /\ Take(t, f)
  /\ Declared(t, f) = "OTHER"
  /\ UNCHANGED <<pc, obj, cur, rest, root, doc, owner, outcome>>

(* The orders in which the iterator of a set may give its elements.        *)
Orders(S) ==
  {q \in [1..Cardinality(S) -> S] : \A i, j \in DOMAIN q : q[i] = q[j] => i = j}

(* What jsonDataInsert goes through; for it null is neither a List nor a   *)
(* Set.                                                                    *)
Iterations(f) ==
  IF f[2] = Null THEN {<< >>} ELSE IF f[1] = "LIST" THEN {f[2]} ELSE Orders(f[2])

(* createFreeJsonMutArr, bind, and jsonDataInsert.                         *)
BindArray(t, f) ==
  /\ Take(t, f)
  /\ Declared(t, f) \in {"LIST", "SET"}
  /\ root' = [root EXCEPT ![t][f] = <<"arr", << >>>>]
  /\ cur' = [cur EXCEPT ![t] = f]
  /\ \E q \in Iterations(obj[t][f]) : rest' = [rest EXCEPT ![t] = q]
  /\ Goto(t, "elements")
  /\ UNCHANGED <<obj, doc, owner, outcome>>

Element(t) == pc[t] = "elements" /\ rest[t] # << >>

AddElement_AtFront(t) ==
  /\ Element(t)
  /\ Head(rest[t]) # Null /\ Head(rest[t])[1] \in Written
  /\ root' = [root EXCEPT ![t][cur[t]] = <<"arr", <<Node(Head(rest[t]))>> \o @[2]>>]
  /\ rest' = [rest EXCEPT ![t] = Tail(@)]
  /\ UNCHANGED <<pc, obj, todo, cur, doc, owner, outcome>>

AddElement(t) ==
  /\ Element(t)
  /\ Head(rest[t]) # Null /\ Head(rest[t])[1] \in Written
  /\ root' = [root EXCEPT ![t][cur[t]] = <<"arr", Append(@[2], Node(Head(rest[t])))>>]
  /\ rest' = [rest EXCEPT ![t] = Tail(@)]
  /\ UNCHANGED <<pc, obj, todo, cur, doc, owner, outcome>>

(* BYTE, CHAR, COLLECTION and NULL have no case in the switch.             *)
SkipElement(t) ==
  /\ Element(t)
  /\ Head(rest[t]) # Null /\ Head(rest[t])[1] \notin Written \cup {"SHORT"}
  /\ rest' = [rest EXCEPT ![t] = Tail(@)]
  /\ UNCHANGED <<pc, obj, todo, cur, root, doc, owner, outcome>>

EndElements(t) ==
  /\ pc[t] = "elements" /\ rest[t] = << >>
  /\ Goto(t, "fields")
  /\ UNCHANGED <<obj, todo, cur, rest, root, doc, owner, outcome>>

Throws(t) ==
  \/ pc[t] = "fields" /\ \E f \in todo[t] : Uncastable(obj[t][f])
  \/ Element(t) /\ (Head(rest[t]) # Null => Head(rest[t])[1] = "SHORT")

Catch_NoFinally(t) ==
  /\ outcome' = [outcome EXCEPT ![t] = "exception"]
  /\ Goto(t, "idle")
  /\ UNCHANGED <<obj, todo, cur, rest, root, doc, owner>>

(* catch, rethrow as RuntimeException, and on to finally.                  *)
Catch(t) ==
  /\ outcome' = [outcome EXCEPT ![t] = "exception"]
  /\ Goto(t, "close")
  /\ UNCHANGED <<obj, todo, cur, rest, root, doc, owner>>

Throw(t) == Throws(t) /\ Catch(t)

(* The iterator finds that another thread has changed its collection.      *)
Changed(t) == pc[t] = "elements" /\ Catch(t)

(* The writer reports an error, a null text, on a number that is not       *)
(* finite.                                                                 *)
Unprintable(t) ==
  \E f \in Names :
    \/ root[t][f] = <<"real", NonFinite>>
    \/ /\ root[t][f] # Absent /\ root[t][f][1] = "arr"
       /\ \E i \in DOMAIN root[t][f][2] : root[t][f][2][i] = <<"real", NonFinite>>

(* getJsonStr.                                                             *)
Write(t) ==
  /\ pc[t] = "fields" /\ todo[t] = {}
  /\ outcome' = [outcome EXCEPT ![t] = IF Unprintable(t) THEN "null" ELSE "text"]
  /\ Goto(t, "close")
  /\ UNCHANGED <<obj, todo, cur, rest, root, doc, owner>>

Close_KeepsAddress(t) ==
  /\ pc[t] = "close"
  /\ owner' = [owner EXCEPT ![doc[t]] = None]
  /\ obj' = [obj EXCEPT ![t] = << >>] /\ root' = [root EXCEPT ![t] = Empty]
  /\ todo' = [todo EXCEPT ![t] = {}]
  /\ Goto(t, "idle")
  /\ UNCHANGED <<cur, rest, doc, outcome>>

(* finally: JsonMut.close.  Of the call, its text is left.                 *)
Close(t) ==
  /\ pc[t] = "close"
  /\ owner' = [owner EXCEPT ![doc[t]] = None]
  /\ doc' = [doc EXCEPT ![t] = None]
  /\ obj' = [obj EXCEPT ![t] = IF outcome[t] = "text" THEN @ ELSE << >>]
  /\ root' = [root EXCEPT ![t] = IF outcome[t] = "text" THEN @ ELSE Empty]
  /\ todo' = [todo EXCEPT ![t] = {}]
  /\ cur' = [cur EXCEPT ![t] = None]
  /\ rest' = [rest EXCEPT ![t] = << >>]
  /\ Goto(t, "idle")
  /\ UNCHANGED outcome

Step(t) ==
  \/ \E f \in Names : AddField(t, f) \/ SkipField(t, f) \/ BindArray(t, f)
  \/ AddElement(t) \/ SkipElement(t) \/ EndElements(t)
  \/ Throw(t) \/ Write(t) \/ Close(t)

Next ==
  \E t \in Threads :
    \/ Step(t) \/ Changed(t)
    \/ \E o \in Objects : Refuse(t, o) \/ \E d \in Docs : Build(t, o, d)

Spec == Init /\ [][Next]_vars

-----------------------------------------------------------------------------
Places == {"idle", "fields", "elements", "close"}
Outcomes == {"none", "text", "null", "exception"}

(* Types, and a call has a document exactly while it runs.                 *)
TypeOK ==
  /\ pc \in [Threads -> Places]
  /\ obj \in [Threads -> Objects \cup {<< >>}]
  /\ todo \in [Threads -> SUBSET Names]
  /\ cur \in [Threads -> Names \cup {None}]
  /\ DOMAIN rest = Threads
  /\ DOMAIN root = Threads /\ \A t \in Threads : DOMAIN root[t] = Names
  /\ doc \in [Threads -> Docs \cup {None}]
  /\ owner \in [Docs -> Threads \cup {None}]
  /\ outcome \in [Threads -> Outcomes]
  /\ \A t \in Threads :
       /\ pc[t] = "idle" <=> doc[t] = None
       /\ todo[t] \subseteq DOMAIN obj[t]
       /\ pc[t] = "elements" => cur[t] \in DOMAIN obj[t] \ todo[t]

(* A call works on a document nobody has freed or been given, and none is  *)
(* left behind: not on any way out of the call, nor by an address that is  *)
(* handed out again to another thread.                                     *)
OwnDocument ==
  /\ \A t \in Threads : pc[t] # "idle" => owner[doc[t]] = t
  /\ \A d \in Docs : owner[d] # None => doc[owner[d]] = d

(* The getter of the type of x gives x back, doubles to six digits.        *)
ReadsBack(x, n) ==
  CASE x[1] = "STRING" -> GetString(Parsed(n)) = x[2]
    [] x[1] = "INT" -> GetInt(Parsed(n)) = x[2]
    [] x[1] = "LONG" -> GetLong(Parsed(n)) = x[2]
    [] x[1] = "BOOLEAN" -> GetBoolean(Parsed(n)) = x[2]
    [] OTHER -> LET back == GetDouble(Parsed(n))
                IN 2 * (back - x[2]) \in (-Grain)..Grain

(* The text of an object gives back, read with the getter of its declared  *)
(* type, every scalar field it was made from, also the negative longs that *)
(* the unsigned adder prints as numbers beyond the range of long; there is *)
(* no text when one of them could not be cast.                             *)
FieldsReadBack ==
  \A t \in Threads : outcome[t] = "text" =>
    \A f \in DOMAIN obj[t] :
      /\ ~Uncastable(obj[t][f])
      /\ Declared(t, f) \in Written /\ Value(t, f) # Null =>
           root[t][f] # Absent /\ ReadsBack(Value(t, f), root[t][f])

(* Those of the first n elements of q that have a JSON form.               *)
Kept(q, n) == {i \in 1..n : q[i][1] \in Written}

(* Each element of a list or a set that has a JSON form is in the array of *)
(* its field once, in the order of the list, or in some order of the set,  *)
(* and there is nothing else in it.                                        *)
ElementsReadBack ==
  \A t \in Threads : outcome[t] = "text" =>
    \A f \in DOMAIN obj[t] : Declared(t, f) \in {"LIST", "SET"} =>
      \E q \in Iterations(obj[t][f]) :
        LET arr == root[t][f][2]
        IN /\ Len(arr) = Cardinality(Kept(q, Len(q)))
           /\ \A i \in Kept(q, Len(q)) :
                ReadsBack(q[i], arr[Cardinality(Kept(q, i))])
=============================================================================
