--------------------------- MODULE Mapping_proofs ---------------------------
(* Proofs about Mapping, for any widths, objects, threads and documents. *)
EXTENDS Mapping, FiniteSetTheorems, TLAPS

(* Division and remainder by a positive number.                            *)
LEMMA DivMod ==
  ASSUME NEW a \in Int, NEW b \in Nat \ {0}
  PROVE  /\ a \div b \in Int /\ b * (a \div b) <= a /\ a < b * (a \div b) + b
         /\ 0 <= a /\ a < b => a % b = a
         /\ -b <= a /\ a < 0 => a % b = a + b
<1>1. a % b \in 0..(b - 1) /\ a \div b \in Int
  OBVIOUS
<1>2. a = (b * (a \div b)) + (a % b)
  OBVIOUS
<1> QED BY <1>1, <1>2

(* (int) of a 64-bit number in the range of int is that number.            *)
LEMMA ToIntOfInt == ASSUME NEW n \in Ints PROVE ToInt(n) = n
<1>1. 2 * IntHalf \in Nat \ {0} /\ IntHalf \in Nat \ {0}
  BY WidthAssumption
<1>2. n \in Int /\ -IntHalf <= n /\ n < IntHalf
  BY <1>1 DEF Ints
<1>3. CASE n >= 0
  <2>1. n < 2 * IntHalf
    BY <1>1, <1>2
  <2>2. n % (2 * IntHalf) = n
    BY <1>1, <1>2, <1>3, <2>1, DivMod
  <2> QED BY <1>1, <1>2, <2>2 DEF ToInt
<1>4. CASE n < 0
  <2>1. -(2 * IntHalf) <= n
    BY <1>1, <1>2
  <2>2. n % (2 * IntHalf) = n + 2 * IntHalf
    <3> DEFINE m == 2 * IntHalf
    <3>1. m \in Nat \ {0} /\ -m <= n
      BY <1>1, <2>1
    <3> HIDE DEF m
    <3>2. n % m = n + m
      BY <1>2, <1>4, <3>1, DivMod
    <3> QED BY <3>2 DEF m
  <2> QED BY <1>1, <1>2, <1>4, <2>2 DEF ToInt
<1> QED BY <1>2, <1>3, <1>4

(* Six digits are off by at most half a unit of the last one.              *)
LEMMA PrintedNear ==
  ASSUME NEW d \in Int PROVE 2 * (Printed(d) - d) \in (-Grain)..Grain
<1> DEFINE a == 2 * d + Grain
           b == 2 * Grain
           q == a \div b
<1>1. Grain \in Nat \ {0} /\ a \in Int /\ b \in Nat \ {0}
  BY WidthAssumption
<1>2. Printed(d) = q * Grain
  BY DEF Printed
<1>3. q \in Int /\ b * q <= a /\ a < b * q + b
  <2> HIDE DEF a, b
  <2> QED BY <1>1, DivMod
<1> HIDE DEF q
<1>4. q * Grain \in Int /\ b * q = 2 * (q * Grain)
  BY <1>1, <1>3
<1>5. 2 * (q * Grain) <= 2 * d + Grain /\ 2 * d + Grain < 2 * (q * Grain) + 2 * Grain
  BY <1>3, <1>4
<1> DEFINE p == q * Grain
<1>6. p \in Int /\ 2 * p <= 2 * d + Grain /\ 2 * d + Grain < 2 * p + 2 * Grain
  BY <1>4, <1>5
<1> HIDE DEF p
<1>7. 2 * (p - d) \in (-Grain)..Grain
  BY <1>1, <1>6
<1> QED BY <1>2, <1>7 DEF p

(* The value made of a Java value reads back as that value.                *)
LEMMA NodeReadsBack ==
  ASSUME NEW x, x[1] \in Written, InRange(x), x[1] = "DOUBLE" => x[2] \in Int
  PROVE  ReadsBack(x, Node(x))
<1>1. CASE x[1] = "STRING"
  BY <1>1 DEF ReadsBack, Node, KindOf, Parsed, GetString
<1>2. CASE x[1] = "INT"
  <2>1. x[2] \in Ints /\ Node(x) = <<"sint", x[2]>>
    BY <1>2 DEF InRange, Node, KindOf
  <2>2. ToSint(x[2]) = x[2]
    BY <2>1, WidthAssumption DEF ToSint, Ints
  <2>3. GetInt(Parsed(Node(x))) = x[2]
    BY <2>1, <2>2, ToIntOfInt, WidthAssumption DEF Parsed, GetInt, IsInt
  <2> QED BY <1>2, <2>3 DEF ReadsBack
<1>3. CASE x[1] = "LONG"
  <2>1. x[2] \in Longs /\ Node(x) = <<"uint", ToUint(x[2])>>
    BY <1>3 DEF InRange, Node, KindOf
  <2>2. ToSint(ToUint(x[2])) = x[2]
    BY <2>1, WidthAssumption DEF ToSint, ToUint, Longs
  <2>3. GetLong(Parsed(Node(x))) = x[2]
    BY <2>1, <2>2 DEF Parsed, GetLong, IsInt
  <2> QED BY <1>3, <2>3 DEF ReadsBack
<1>4. CASE x[1] = "BOOLEAN"
  <2>1. x[2] \in BOOLEAN /\ Node(x) = <<"bool", x[2]>>
    BY <1>4 DEF InRange, Node, KindOf
  <2>2. GetBoolean(Parsed(Node(x))) = x[2]
    BY <2>1 DEF Parsed, GetBoolean
  <2> QED BY <1>4, <2>2 DEF ReadsBack
<1>5. CASE x[1] = "DOUBLE"
  <2>1. x[2] \in Int /\ Node(x) = <<"real", x[2]>>
    BY <1>5 DEF Node, KindOf
  <2>2. GetDouble(Parsed(Node(x))) = Printed(x[2])
    BY <2>1 DEF Parsed, GetDouble
  <2> QED BY <1>5, <2>1, <2>2, PrintedNear DEF ReadsBack
<1> QED BY <1>1, <1>2, <1>3, <1>4, <1>5 DEF Written

-----------------------------------------------------------------------------
(* What a call has written: every field it has come to, unless it threw.   *)
Converted(t) ==
  \A f \in DOMAIN obj[t] \ todo[t] :
    /\ ~Uncastable(obj[t][f])
    /\ Declared(t, f) \in Written /\ Value(t, f) # Null => root[t][f] = Node(Value(t, f))

Progress(t) ==
  /\ pc[t] \in {"fields", "elements"} \/ outcome[t] = "text" => Converted(t)
  /\ outcome[t] = "text" =>
       pc[t] \in {"idle", "close"} /\ todo[t] = {} /\ ~Unprintable(t)
  /\ pc[t] = "elements" => Declared(t, cur[t]) \in {"LIST", "SET"}
  /\ pc[t] = "idle" => todo[t] = {}

IInv == TypeOK /\ OwnDocument /\ \A t \in Threads : Progress(t)

LEMMA InitIInv == Init => IInv
<1> SUFFICES ASSUME Init PROVE IInv
  OBVIOUS
<1>1. TypeOK
  BY DEF Init, TypeOK, Empty, Places, Outcomes
<1>2. OwnDocument
  BY DEF Init, OwnDocument
<1>3. ASSUME NEW t \in Threads PROVE Progress(t)
  BY DEF Init, Progress
<1> QED BY <1>1, <1>2, <1>3 DEF IInv

LEMMA ObjectNames ==
  ASSUME TypeOK, NEW t \in Threads PROVE DOMAIN obj[t] \subseteq Names
BY ObjectsAssumption DEF TypeOK

(* A step of thread t that leaves the maps of the others alone.            *)
Local(t) ==
  \A u \in Threads \ {t} :
    /\ pc'[u] = pc[u] /\ obj'[u] = obj[u] /\ todo'[u] = todo[u] /\ cur'[u] = cur[u]
    /\ root'[u] = root[u] /\ doc'[u] = doc[u] /\ outcome'[u] = outcome[u]

LEMMA OthersProgress ==
  ASSUME NEW t \in Threads, Local(t), NEW u \in Threads \ {t}, Progress(u)
  PROVE  Progress(u)'
BY DEF Local, Progress, Converted, Declared, Value, Unprintable

(* The steps that keep the document and the object of the call.            *)
LEMMA InsideStep ==
  ASSUME IInv, NEW t \in Threads,
         pc[t] # "idle", pc' = [pc EXCEPT ![t] = pc'[t]],
         pc'[t] \in Places \ {"idle"},
         UNCHANGED <<obj, doc, owner>>, Local(t)
  PROVE  /\ OwnDocument'
         /\ \A u \in Threads : pc'[u] = "idle" <=> doc'[u] = None
BY DEF IInv, TypeOK, OwnDocument, Local

LEMMA FieldStep ==
  ASSUME IInv, NEW t \in Threads, NEW f \in Names,
         AddField(t, f) \/ SkipField(t, f) \/ BindArray(t, f)
  PROVE  IInv'
<1>1. /\ pc \in [Threads -> Places] /\ pc[t] = "fields" /\ f \in todo[t]
      /\ f \in DOMAIN obj[t] /\ todo' = [todo EXCEPT ![t] = @ \ {f}]
      /\ pc' \in [Threads -> Places] /\ pc'[t] \in {"fields", "elements"}
      /\ outcome[t] # "text"
  BY DEF IInv, TypeOK, Progress, AddField, SkipField, BindArray, Take, Goto, Places
<1>2. Local(t)
  BY DEF IInv, TypeOK, AddField, SkipField, BindArray, Take, Goto, Local
<1>3. UNCHANGED <<obj, doc, owner, outcome>> /\ pc' = [pc EXCEPT ![t] = pc'[t]]
  BY <1>1 DEF AddField, SkipField, BindArray, Goto
<1>4. OwnDocument' /\ \A u \in Threads : pc'[u] = "idle" <=> doc'[u] = None
  BY <1>1, <1>2, <1>3, InsideStep DEF Places
<1>5. /\ DOMAIN root' = Threads /\ \A u \in Threads : DOMAIN root'[u] = Names
      /\ DOMAIN rest' = Threads /\ cur' \in [Threads -> Names \cup {None}]
  BY DEF IInv, TypeOK, AddField, SkipField, BindArray
<1>6. TypeOK'
  <2>1. \A u \in Threads :
          /\ todo'[u] \subseteq DOMAIN obj'[u]
          /\ pc'[u] = "elements" => cur'[u] \in DOMAIN obj'[u] \ todo'[u]
    BY <1>1 DEF IInv, TypeOK, AddField, SkipField, BindArray, Goto
  <2> QED BY <1>1, <1>3, <1>4, <1>5, <2>1 DEF IInv, TypeOK
<1>7. Converted(t)'
  <2> SUFFICES ASSUME NEW g \in DOMAIN obj'[t] \ todo'[t]
               PROVE  /\ ~Uncastable(obj'[t][g])
                      /\ Declared(t, g)' \in Written /\ Value(t, g)' # Null =>
                           root'[t][g] = Node(Value(t, g)')
    BY DEF Converted, Uncastable, Declared, Value, Node
  <2>1. CASE g = f
    BY <1>1, <1>3, <2>1
      DEF IInv, TypeOK, AddField, SkipField, BindArray, Uncastable, Written, Declared, Value
  <2>2. CASE g # f
    <3>1. g \in DOMAIN obj[t] \ todo[t]
      BY <1>1, <1>3, <2>2 DEF IInv, TypeOK
    <3>2. g \in Names
      BY <3>1, ObjectNames DEF IInv
    <3>3. root'[t][g] = root[t][g]
      BY <2>2, <3>2 DEF IInv, TypeOK, AddField, SkipField, BindArray
    <3> QED BY <1>1, <1>3, <3>1, <3>3 DEF IInv, Progress, Converted, Declared, Value
  <2> QED BY <2>1, <2>2
<1>8. Progress(t)'
  BY <1>1, <1>3, <1>7 DEF IInv, TypeOK, Progress, AddField, SkipField, BindArray, Goto, Declared
<1> QED BY <1>2, <1>4, <1>6, <1>8, OthersProgress DEF IInv

LEMMA ElementStep ==
  ASSUME IInv, NEW t \in Threads, AddElement(t) \/ SkipElement(t) \/ EndElements(t)
  PROVE  IInv'
<1>1. /\ pc \in [Threads -> Places] /\ pc[t] = "elements"
      /\ pc' \in [Threads -> Places] /\ pc'[t] \in {"fields", "elements"}
      /\ outcome[t] # "text" /\ Declared(t, cur[t]) \in {"LIST", "SET"}
      /\ cur[t] \in DOMAIN obj[t]
  BY DEF IInv, TypeOK, Progress, AddElement, SkipElement, EndElements, Element, Goto, Places
<1>2. UNCHANGED <<obj, todo, cur, doc, owner, outcome>> /\ pc' = [pc EXCEPT ![t] = pc'[t]]
  BY <1>1 DEF AddElement, SkipElement, EndElements, Goto
<1>3. Local(t)
  BY DEF IInv, TypeOK, AddElement, SkipElement, EndElements, Goto, Local
<1>4. OwnDocument' /\ \A u \in Threads : pc'[u] = "idle" <=> doc'[u] = None
  BY <1>1, <1>2, <1>3, InsideStep DEF Places
<1>5. /\ DOMAIN root' = Threads /\ \A u \in Threads : DOMAIN root'[u] = Names
      /\ DOMAIN rest' = Threads
  BY DEF IInv, TypeOK, AddElement, SkipElement, EndElements
<1>6. TypeOK'
  <2>1. \A u \in Threads : pc'[u] = "elements" => cur'[u] \in DOMAIN obj'[u] \ todo'[u]
    BY <1>1, <1>2 DEF IInv, TypeOK
  <2> QED BY <1>1, <1>2, <1>4, <1>5, <2>1 DEF IInv, TypeOK
<1>7. \A g \in Names \ {cur[t]} : root'[t][g] = root[t][g]
  BY DEF IInv, TypeOK, AddElement, SkipElement, EndElements
<1>8. Progress(t)'
  <2>1. Converted(t)'
    <3> SUFFICES ASSUME NEW g \in DOMAIN obj'[t] \ todo'[t]
                 PROVE  /\ ~Uncastable(obj'[t][g])
                        /\ Declared(t, g)' \in Written /\ Value(t, g)' # Null =>
                             root'[t][g] = Node(Value(t, g)')
      BY DEF Converted, Uncastable, Declared, Value, Node
    <3>1. g \in DOMAIN obj[t] \ todo[t] /\ g \in Names
      BY <1>2, ObjectNames DEF IInv
    <3>2. g = cur[t] => Declared(t, g)' \notin Written
      BY <1>1, <1>2 DEF Declared, Written
    <3> QED BY <1>1, <1>2, <1>7, <3>1, <3>2 DEF IInv, Progress, Converted, Declared, Value
  <2> QED BY <1>1, <1>2, <2>1 DEF Progress, Declared
<1> QED BY <1>3, <1>4, <1>6, <1>8, OthersProgress DEF IInv

LEMMA LeaveStep ==
  ASSUME IInv, NEW t \in Threads, Throw(t) \/ Changed(t) \/ Write(t)
  PROVE  IInv'
<1>1. /\ pc \in [Threads -> Places] /\ pc[t] \in {"fields", "elements"}
      /\ pc' = [pc EXCEPT ![t] = "close"]
      /\ UNCHANGED <<obj, todo, cur, rest, root, doc, owner>>
      /\ outcome' \in [Threads -> Outcomes]
  BY DEF IInv, TypeOK, Throw, Throws, Changed, Catch, Write, Element, Goto, Outcomes
<1>2. Local(t)
  BY <1>1 DEF IInv, TypeOK, Throw, Changed, Catch, Write, Local
<1>3. OwnDocument' /\ \A u \in Threads : pc'[u] = "idle" <=> doc'[u] = None
  BY <1>1, <1>2, InsideStep DEF Places
<1>4. TypeOK'
  BY <1>1, <1>3 DEF IInv, TypeOK, Places
<1>5. outcome'[t] = "text" => todo[t] = {} /\ ~Unprintable(t)
  BY DEF IInv, TypeOK, Throw, Changed, Catch, Write
<1>6. Progress(t)'
  BY <1>1, <1>5 DEF IInv, TypeOK, Progress, Converted, Declared, Value, Unprintable
<1> QED BY <1>2, <1>3, <1>4, <1>6, OthersProgress DEF IInv

LEMMA CloseStep ==
  ASSUME IInv, NEW t \in Threads, Close(t)
  PROVE  IInv'
<1>1. pc \in [Threads -> Places] /\ pc[t] = "close" /\ pc' = [pc EXCEPT ![t] = "idle"]
  BY DEF IInv, TypeOK, Close, Goto
<1>2. Local(t)
  BY <1>1 DEF IInv, TypeOK, Close, Local
<1>3. doc[t] \in Docs /\ owner[doc[t]] = t
  BY <1>1 DEF IInv, TypeOK, OwnDocument
<1>4. OwnDocument'
  BY <1>1, <1>3, NoneAssumption DEF IInv, TypeOK, OwnDocument, Close
<1>5. TypeOK'
  <2>1. obj' \in [Threads -> Objects \cup {<< >>}] /\ todo' \in [Threads -> SUBSET Names]
    BY DEF IInv, TypeOK, Close
  <2>2. /\ cur' \in [Threads -> Names \cup {None}] /\ DOMAIN rest' = Threads
        /\ owner' \in [Docs -> Threads \cup {None}] /\ doc' \in [Threads -> Docs \cup {None}]
    BY DEF IInv, TypeOK, Close
  <2>3. DOMAIN root' = Threads /\ \A u \in Threads : DOMAIN root'[u] = Names
    BY DEF IInv, TypeOK, Close, Empty
  <2>4. \A u \in Threads :
          /\ pc'[u] = "idle" <=> doc'[u] = None
          /\ todo'[u] \subseteq DOMAIN obj'[u]
          /\ pc'[u] = "elements" => cur'[u] \in DOMAIN obj'[u] \ todo'[u]
    BY <1>1 DEF IInv, TypeOK, Close
  <2> QED BY <1>1, <2>1, <2>2, <2>3, <2>4 DEF IInv, TypeOK, Close, Places
<1>6. outcome'[t] = "text" => obj'[t] = obj[t] /\ root'[t] = root[t] /\ todo'[t] = todo[t]
  BY DEF IInv, TypeOK, Close, Progress
<1>7. Progress(t)'
  <2>1. pc'[t] = "idle" /\ todo'[t] = {} /\ outcome' = outcome
    BY <1>1 DEF IInv, TypeOK, Close
  <2>2. ASSUME outcome[t] = "text" PROVE Converted(t)' /\ ~Unprintable(t)'
    BY <1>6, <2>1, <2>2 DEF IInv, Progress, Converted, Declared, Value, Unprintable
  <2> QED BY <2>1, <2>2 DEF Progress
<1> QED BY <1>2, <1>4, <1>5, <1>7, OthersProgress DEF IInv

LEMMA BeginStep ==
  ASSUME IInv, NEW t \in Threads, NEW o \in Objects,
         Refuse(t, o) \/ \E d \in Docs : Build(t, o, d)
  PROVE  IInv'
<1>1. CASE Refuse(t, o)
  <2>1. Local(t) /\ pc[t] = "idle" /\ UNCHANGED <<pc, todo, cur, rest, doc, owner>>
    BY <1>1 DEF IInv, TypeOK, Refuse, Local
  <2>2. OwnDocument'
    BY <2>1 DEF IInv, OwnDocument
  <2>3. todo[t] = {} /\ outcome'[t] \in {"null", "exception"}
    BY <1>1, <2>1 DEF IInv, TypeOK, Progress, Refuse
  <2>4. TypeOK'
    <3>1. /\ obj' \in [Threads -> Objects \cup {<< >>}]
          /\ outcome' \in [Threads -> Outcomes]
          /\ DOMAIN root' = Threads /\ \A u \in Threads : DOMAIN root'[u] = Names
      BY <1>1 DEF IInv, TypeOK, Refuse, Empty, Outcomes
    <3>2. \A u \in Threads :
            /\ todo'[u] \subseteq DOMAIN obj'[u]
            /\ pc'[u] = "elements" => cur'[u] \in DOMAIN obj'[u] \ todo'[u]
      BY <2>1, <2>3 DEF IInv, TypeOK, Local
    <3> QED BY <2>1, <3>1, <3>2 DEF IInv, TypeOK
  <2>5. Progress(t)'
    BY <2>1, <2>3 DEF Progress
  <2> QED BY <2>1, <2>2, <2>4, <2>5, OthersProgress DEF IInv
<1>2. ASSUME NEW d \in Docs, Build(t, o, d) PROVE IInv'
  <2>1. /\ Local(t) /\ pc[t] = "idle" /\ pc' = [pc EXCEPT ![t] = "fields"]
        /\ doc[t] = None /\ owner[d] = None
        /\ doc' = [doc EXCEPT ![t] = d] /\ owner' = [owner EXCEPT ![d] = t]
    BY <1>2 DEF IInv, TypeOK, Build, Goto, Local
  <2>2. OwnDocument'
    BY <2>1, NoneAssumption DEF IInv, TypeOK, OwnDocument
  <2>3. obj'[t] = o /\ todo'[t] = DOMAIN o /\ outcome'[t] = "none"
    BY <1>2 DEF IInv, TypeOK, Build
  <2>4. TypeOK'
    <3>1. /\ obj' \in [Threads -> Objects \cup {<< >>}]
          /\ todo' \in [Threads -> SUBSET Names] /\ outcome' \in [Threads -> Outcomes]
          /\ UNCHANGED <<cur, rest>>
      BY <1>2, ObjectsAssumption DEF IInv, TypeOK, Build, Outcomes
    <3>2. DOMAIN root' = Threads /\ \A u \in Threads : DOMAIN root'[u] = Names
      BY <1>2 DEF IInv, TypeOK, Build, Empty
    <3>3. pc' \in [Threads -> Places] /\ doc' \in [Threads -> Docs \cup {None}]
            /\ owner' \in [Docs -> Threads \cup {None}]
      BY <2>1 DEF IInv, TypeOK, Places
    <3>4. \A u \in Threads :
            /\ pc'[u] = "idle" <=> doc'[u] = None
            /\ todo'[u] \subseteq DOMAIN obj'[u]
            /\ pc'[u] = "elements" => cur'[u] \in DOMAIN obj'[u] \ todo'[u]
      BY <2>1, <2>3, NoneAssumption DEF IInv, TypeOK, Local
    <3> QED BY <3>1, <3>2, <3>3, <3>4 DEF IInv, TypeOK
  <2>5. Progress(t)'
    BY <2>1, <2>3 DEF IInv, TypeOK, Progress, Converted
  <2> QED BY <2>1, <2>2, <2>4, <2>5, OthersProgress DEF IInv
<1> QED BY <1>1, <1>2

LEMMA NextIInv == ASSUME IInv, [Next]_vars PROVE IInv'
<1>1. CASE UNCHANGED vars
  BY <1>1 DEF vars, IInv, TypeOK, OwnDocument, Progress, Converted, Declared, Value, Unprintable
<1>2. CASE Next
  BY <1>2, FieldStep, ElementStep, LeaveStep, CloseStep, BeginStep DEF Next, Step
<1> QED BY <1>1, <1>2

THEOREM Invariance == Spec => []IInv
<1>1. Init => IInv
  BY InitIInv
<1>2. IInv /\ [Next]_vars => IInv'
  BY NextIInv
<1> QED BY <1>1, <1>2, PTL DEF Spec

-----------------------------------------------------------------------------
(* Types, and a call has a document exactly while it runs.                 *)
THEOREM TypeCorrect == Spec => []TypeOK
<1>1. IInv => TypeOK
  BY DEF IInv
<1> QED BY <1>1, Invariance, PTL

(* objToJsonStr works on a live document of its own and leaves none behind *)
(* on any way out, with any number of threads and documents.               *)
THEOREM DocumentsOwned == Spec => []OwnDocument
<1>1. IInv => OwnDocument
  BY DEF IInv
<1> QED BY <1>1, Invariance, PTL

(* Every scalar field of every object survives the way into the text and   *)
(* back, for ints and longs of any width.                                  *)
THEOREM RoundTrip == Spec => []FieldsReadBack
<1>1. ASSUME IInv, NEW t \in Threads, outcome[t] = "text", NEW f \in DOMAIN obj[t]
      PROVE  /\ ~Uncastable(obj[t][f])
             /\ Declared(t, f) \in Written /\ Value(t, f) # Null =>
                  root[t][f] # Absent /\ ReadsBack(Value(t, f), root[t][f])
  <2>1. todo[t] = {} /\ Converted(t) /\ ~Unprintable(t)
    BY <1>1 DEF IInv, Progress
  <2>2. ~Uncastable(obj[t][f])
    BY <2>1 DEF Converted
  <2>3. ASSUME Declared(t, f) \in Written, Value(t, f) # Null
        PROVE  root[t][f] # Absent /\ ReadsBack(Value(t, f), root[t][f])
    <3> DEFINE x == Value(t, f)
    <3>1. obj[t] \in Objects /\ f \in Names
      BY <1>1, ObjectsAssumption DEF IInv, TypeOK
    <3>2. x[1] \in Written /\ InRange(x)
      BY <2>3, <3>1, ObjectsAssumption DEF Declared, Value
    <3>3. root[t][f] = Node(x)
      BY <2>1, <2>3 DEF Converted
    <3>4. x[1] = "DOUBLE" => x[2] \in Int
      BY <2>1, <3>1, <3>2, <3>3 DEF Unprintable, Node, KindOf, InRange
    <3>5. Node(x) # Absent
      BY DEF Node, Absent
    <3> HIDE DEF x
    <3>6. ReadsBack(x, Node(x))
      BY <3>2, <3>4, NodeReadsBack
    <3> QED BY <3>3, <3>5, <3>6 DEF x
  <2> QED BY <2>2, <2>3
<1>2. IInv => FieldsReadBack
  BY <1>1 DEF FieldsReadBack
<1> QED BY <1>2, Invariance, PTL
-----------------------------------------------------------------------------
(* What a call has made of a collection: the iterator, which is that of    *)
(* the list or one of those of the set, has n of its elements behind it.   *)
Items(q) == {q[i] : i \in 1..Len(q)}
Forms(q) == {Node(x) : x \in {y \in Items(q) : y # Null /\ y[1] \in Written}}

Filled(q, n, value) ==
  /\ value = <<"arr", value[2]>>
  /\ value[2] \in Seq(Forms(q))
  /\ Len(value[2]) = Cardinality(Kept(q, n))
  /\ \A i \in Kept(q, n) : value[2][Cardinality(Kept(q, i))] = Node(q[i])
  /\ \A i \in 1..n : q[i] # Null

Left(q, n, r) ==
  /\ r \in Seq(Items(q))
  /\ Len(r) = Len(q) - n
  /\ \A i \in 1..Len(r) : r[i] = q[n + i]

Whole(t, f) == \E q \in Iterations(obj[t][f]) : Filled(q, Len(q), root[t][f])

Part(t, f) ==
  \E q \in Iterations(obj[t][f]) : \E n \in 0..Len(q) :
    Left(q, n, rest[t]) /\ Filled(q, n, root[t][f])

Collected(t) ==
  \A f \in DOMAIN obj[t] \ todo[t] : Declared(t, f) \in {"LIST", "SET"} =>
    IF pc[t] = "elements" /\ f = cur[t] THEN Part(t, f) ELSE Whole(t, f)

Gathered(t) == pc[t] \in {"fields", "elements"} \/ outcome[t] = "text" => Collected(t)

AllGathered == \A t \in Threads : Gathered(t)

LEMMA IterationsAre ==
  ASSUME NEW o \in Objects, NEW f \in DOMAIN o, o[f][1] \in {"LIST", "SET"},
         NEW q \in Iterations(o[f])
  PROVE  /\ Len(q) \in Nat /\ q \in Seq(Items(q))
         /\ \A i \in 1..Len(q) : q[i] # Null /\ q[i][1] \in Written => InRange(q[i])
<1>1. CASE o[f][2] = Null
  <2>1. q = << >>
    BY <1>1 DEF Iterations
  <2> QED BY <2>1
<1>2. ASSUME NEW E, q \in Seq(E), \A x \in E : x # Null /\ x[1] \in Written => InRange(x)
      PROVE  /\ Len(q) \in Nat /\ q \in Seq(Items(q))
             /\ \A i \in 1..Len(q) : q[i] # Null /\ q[i][1] \in Written => InRange(q[i])
  <2>1. Len(q) \in Nat /\ \A i \in 1..Len(q) : q[i] \in E
    BY <1>2
  <2>2. q = [i \in 1..Len(q) |-> q[i]]
    BY <1>2
  <2>3. q \in [1..Len(q) -> Items(q)]
    BY <2>2 DEF Items
  <2>4. q \in Seq(Items(q))
    BY <2>1, <2>3
  <2> QED BY <1>2, <2>1, <2>4
<1>3. CASE o[f][2] # Null /\ o[f][1] = "LIST"
  <2>1. q = o[f][2]
    BY <1>3 DEF Iterations
  <2>2. /\ q \in Seq(Elements(o[f]))
        /\ \A x \in Elements(o[f]) : x # Null /\ x[1] \in Written => InRange(x)
    BY <1>3, <2>1, ObjectsAssumption
  <2> QED BY <1>2, <2>2
<1>4. CASE o[f][2] # Null /\ o[f][1] = "SET"
  <2> DEFINE S == o[f][2]
  <2>1. IsFiniteSet(S) /\ \A x \in S : x # Null /\ x[1] \in Written => InRange(x)
    BY <1>4, ObjectsAssumption DEF Elements
  <2>2. q \in [1..Cardinality(S) -> S]
    BY <1>4 DEF Iterations, Orders
  <2>3. Cardinality(S) \in Nat
    BY <2>1, FS_CardinalityType
  <2> HIDE DEF S
  <2>4. q \in Seq(S)
    BY <2>2, <2>3
  <2> QED BY <1>2, <2>1, <2>4
<1> QED BY <1>1, <1>3, <1>4

LEMMA KeptCount ==
  ASSUME NEW q, NEW n \in Nat
  PROVE  /\ IsFiniteSet(Kept(q, n)) /\ Cardinality(Kept(q, n)) \in Nat
         /\ \A i \in Kept(q, n) : Cardinality(Kept(q, i)) \in 1..Cardinality(Kept(q, n))
<1>1. ASSUME NEW i \in Nat
      PROVE  IsFiniteSet(Kept(q, i)) /\ Cardinality(Kept(q, i)) \in Nat
  <2>1. IsFiniteSet(1..i) /\ Kept(q, i) \in SUBSET (1..i)
    BY FS_Interval DEF Kept
  <2>2. IsFiniteSet(Kept(q, i))
    BY <2>1, FS_Subset
  <2> QED BY <2>2, FS_CardinalityType
<1>2. ASSUME NEW i \in Kept(q, n)
      PROVE  Cardinality(Kept(q, i)) \in 1..Cardinality(Kept(q, n))
  <2>1. i \in Nat /\ i \in Kept(q, i) /\ Kept(q, i) \in SUBSET Kept(q, n)
    BY DEF Kept
  <2>2. Cardinality(Kept(q, i)) <= Cardinality(Kept(q, n))
    BY <1>1, <2>1, FS_Subset
  <2>3. Cardinality(Kept(q, i)) # 0
    BY <1>1, <2>1, FS_EmptySet
  <2> QED BY <1>1, <2>1, <2>2, <2>3
<1> QED BY <1>1, <1>2

LEMMA KeptNext ==
  ASSUME NEW q, NEW n \in Nat
  PROVE  /\ q[n + 1][1] \in Written =>
              /\ Kept(q, n + 1) = Kept(q, n) \cup {n + 1}
              /\ Cardinality(Kept(q, n + 1)) = Cardinality(Kept(q, n)) + 1
         /\ q[n + 1][1] \notin Written => Kept(q, n + 1) = Kept(q, n)
<1>1. 1..(n + 1) = 1..n \cup {n + 1} /\ n + 1 \notin 1..n
  OBVIOUS
<1>2. CASE q[n + 1][1] \in Written
  <2>1. Kept(q, n + 1) = Kept(q, n) \cup {n + 1} /\ n + 1 \notin Kept(q, n)
    BY <1>1, <1>2 DEF Kept
  <2>2. Cardinality(Kept(q, n) \cup {n + 1}) = Cardinality(Kept(q, n)) + 1
    BY <2>1, KeptCount, FS_AddElement
  <2> QED BY <1>2, <2>1, <2>2
<1>3. CASE q[n + 1][1] \notin Written
  BY <1>1, <1>3 DEF Kept
<1> QED BY <1>2, <1>3

LEMMA FilledNone == ASSUME NEW q PROVE Filled(q, 0, <<"arr", << >>>>)
<1>1. Kept(q, 0) = {}
  BY DEF Kept
<1>2. Cardinality(Kept(q, 0)) = 0
  BY <1>1, FS_EmptySet
<1> QED BY <1>1, <1>2 DEF Filled

LEMMA FilledAppend ==
  ASSUME NEW q, NEW n \in Nat, Len(q) \in Nat, n < Len(q), NEW value, Filled(q, n, value),
         q[n + 1] # Null, q[n + 1][1] \in Written
  PROVE  Filled(q, n + 1, <<"arr", Append(value[2], Node(q[n + 1]))>>)
<1> DEFINE a == value[2]  x == Node(q[n + 1])  b == Append(a, x)
           c == Cardinality(Kept(q, n))
<1>1. a \in Seq(Forms(q)) /\ Len(a) = c /\ c \in Nat
  BY KeptCount DEF Filled
<1>2. x \in Forms(q)
  <2>1. q[n + 1] \in Items(q)
    BY DEF Items
  <2> QED BY <2>1 DEF Forms
<1>3. \A i \in Kept(q, n) : a[Cardinality(Kept(q, i))] = Node(q[i])
  BY DEF Filled
<1>4. \A i \in Kept(q, n) : Cardinality(Kept(q, i)) \in 1..c
  BY KeptCount
<1>5. Kept(q, n + 1) = Kept(q, n) \cup {n + 1} /\ Cardinality(Kept(q, n + 1)) = c + 1
  BY KeptNext
<1> HIDE DEF a, x, c
<1>6. b \in Seq(Forms(q)) /\ Len(b) = c + 1 /\ b[c + 1] = x /\ \A i \in 1..c : b[i] = a[i]
  BY <1>1, <1>2
<1> HIDE DEF b
<1>7. ASSUME NEW i \in Kept(q, n + 1) PROVE b[Cardinality(Kept(q, i))] = Node(q[i])
  <2>1. CASE i = n + 1
    BY <1>5, <1>6, <2>1 DEF x
  <2>2. CASE i \in Kept(q, n)
    BY <1>3, <1>4, <1>6, <2>2
  <2> QED BY <1>5, <2>1, <2>2
<1>8. \A i \in 1..(n + 1) : q[i] # Null
  BY DEF Filled
<1>9. Filled(q, n + 1, <<"arr", b>>)
  BY <1>5, <1>6, <1>7, <1>8 DEF Filled
<1> QED BY <1>9 DEF a, b, x

LEMMA FilledSkip ==
  ASSUME NEW q, NEW n \in Nat, NEW value, Filled(q, n, value), q[n + 1][1] \notin Written,
         q[n + 1] # Null
  PROVE  Filled(q, n + 1, value)
BY KeptNext DEF Filled

LEMMA LeftNext ==
  ASSUME NEW q, Len(q) \in Nat, NEW n \in 0..Len(q), NEW r, Left(q, n, r), r # << >>
  PROVE  n < Len(q) /\ Head(r) = q[n + 1] /\ Left(q, n + 1, Tail(r))
<1>1. r \in Seq(Items(q)) /\ Len(r) = Len(q) - n /\ \A i \in 1..Len(r) : r[i] = q[n + i]
  BY DEF Left
<1>2. Len(r) # 0
  BY <1>1
<1>3. /\ Tail(r) \in Seq(Items(q)) /\ Len(Tail(r)) = Len(r) - 1 /\ Head(r) = r[1]
      /\ \A i \in 1..(Len(r) - 1) : Tail(r)[i] = r[i + 1]
  BY <1>1, <1>2
<1>4. ASSUME NEW i \in 1..Len(Tail(r)) PROVE Tail(r)[i] = q[(n + 1) + i]
  <2>1. i + 1 \in 1..Len(r) /\ i \in 1..(Len(r) - 1) /\ n + (i + 1) = (n + 1) + i
    BY <1>1, <1>3
  <2>2. Tail(r)[i] = r[i + 1]
    BY <1>3, <2>1
  <2>3. r[i + 1] = q[n + (i + 1)]
    BY <1>1, <2>1
  <2> QED BY <2>1, <2>2, <2>3
<1>5. n < Len(q) /\ Head(r) = q[n + 1]
  BY <1>1, <1>2, <1>3
<1>6. Len(Tail(r)) = Len(q) - (n + 1)
  BY <1>1, <1>3
<1> QED BY <1>3, <1>4, <1>5, <1>6 DEF Left

-----------------------------------------------------------------------------
LEMMA OthersGathered ==
  ASSUME NEW t \in Threads, Local(t), NEW u \in Threads \ {t}, rest'[u] = rest[u], Gathered(u)
  PROVE  Gathered(u)'
BY DEF Local, Gathered, Collected, Declared, Value, Part, Whole

(* A step that leaves the arrays of the fields it does not take alone.     *)
LEMMA OtherFields ==
  ASSUME NEW t \in Threads, NEW f, obj'[t] = obj[t], pc[t] # "elements" \/ cur[t] = f,
         pc'[t] # "elements" \/ cur'[t] = f, Collected(t),
         \A g \in DOMAIN obj[t] : g # f => root'[t][g] = root[t][g],
         \A g \in DOMAIN obj[t] : g \notin todo'[t] /\ g # f => g \notin todo[t],
         f \in DOMAIN obj[t] /\ Declared(t, f) \in {"LIST", "SET"} =>
           IF pc'[t] = "elements" /\ f = cur'[t] THEN Part(t, f)' ELSE Whole(t, f)'
  PROVE  Collected(t)'
<1> SUFFICES ASSUME NEW g \in DOMAIN obj'[t] \ todo'[t], Declared(t, g)' \in {"LIST", "SET"}
             PROVE  IF pc'[t] = "elements" /\ g = cur'[t] THEN Part(t, g)' ELSE Whole(t, g)'
  BY DEF Collected, Part, Whole, Declared
<1>1. g \in DOMAIN obj[t] /\ Declared(t, g) \in {"LIST", "SET"}
  BY DEF Declared
<1>2. CASE g = f
  BY <1>1, <1>2
<1>3. CASE g # f
  <2>1. Whole(t, g)
    BY <1>1, <1>3 DEF Collected
  <2>2. Whole(t, g)'
    BY <1>1, <1>3, <2>1 DEF Whole
  <2> QED BY <1>3, <2>2
<1> QED BY <1>2, <1>3

LEMMA FieldGathers ==
  ASSUME IInv, NEW t \in Threads, Gathered(t), NEW f \in Names,
         AddField(t, f) \/ SkipField(t, f) \/ BindArray(t, f)
  PROVE  Gathered(t)'
<1>1. /\ pc[t] = "fields" /\ f \in DOMAIN obj[t] /\ obj[t] \in Objects
      /\ obj' = obj /\ todo'[t] = todo[t] \ {f} /\ Collected(t)
      /\ DOMAIN root[t] = Names /\ DOMAIN root = Threads
      /\ DOMAIN obj[t] \subseteq Names
  BY ObjectsAssumption DEF IInv, TypeOK, Gathered, AddField, SkipField, BindArray, Take
<1>2. \A g \in DOMAIN obj[t] : g # f => root'[t][g] = root[t][g]
  BY <1>1 DEF AddField, SkipField, BindArray
<1>3. CASE AddField(t, f) \/ SkipField(t, f)
  <2>1. pc'[t] = "fields" /\ Declared(t, f) \notin {"LIST", "SET"}
    BY <1>1, <1>3 DEF AddField, SkipField, Written
  <2>2. Collected(t)'
    BY <1>1, <1>2, <2>1, OtherFields
  <2> QED BY <2>2 DEF Gathered
<1>4. CASE BindArray(t, f)
  <2>1. PICK q \in Iterations(obj[t][f]) : rest' = [rest EXCEPT ![t] = q]
    BY <1>4 DEF BindArray
  <2>2. /\ Declared(t, f) \in {"LIST", "SET"} /\ pc'[t] = "elements" /\ cur'[t] = f
        /\ rest'[t] = q /\ root'[t][f] = <<"arr", << >>>>
    BY <1>1, <1>4, <2>1 DEF IInv, TypeOK, BindArray, Goto
  <2>3. Len(q) \in Nat /\ q \in Seq(Items(q))
    BY <1>1, <2>2, IterationsAre DEF Declared
  <2>4. Left(q, 0, q)
    BY <2>3 DEF Left
  <2>5. Filled(q, 0, <<"arr", << >>>>)
    BY FilledNone
  <2>6. Part(t, f)'
    BY <1>1, <2>2, <2>3, <2>4, <2>5 DEF Part
  <2>7. Collected(t)'
    BY <1>1, <1>2, <2>2, <2>6, OtherFields
  <2> QED BY <2>7 DEF Gathered
<1> QED BY <1>3, <1>4

LEMMA ElementGathers ==
  ASSUME IInv, NEW t \in Threads, Gathered(t), AddElement(t) \/ SkipElement(t) \/ EndElements(t)
  PROVE  Gathered(t)'
<1>0. PICK f : f = cur[t]
  OBVIOUS
<1>1. /\ pc[t] = "elements" /\ f \in DOMAIN obj[t] \ todo[t] /\ obj[t] \in Objects
      /\ Declared(t, f) \in {"LIST", "SET"} /\ Collected(t) /\ f \in Names
      /\ DOMAIN root[t] = Names /\ DOMAIN root = Threads /\ DOMAIN rest = Threads
      /\ DOMAIN obj[t] \subseteq Names
  BY <1>0, ObjectsAssumption
    DEF IInv, TypeOK, Progress, Gathered, AddElement, SkipElement, EndElements, Element
<1>2. UNCHANGED <<obj, todo, cur>>
  BY DEF AddElement, SkipElement, EndElements
<1>3. Part(t, f)
  BY <1>0, <1>1 DEF Collected
<1>4. PICK q \in Iterations(obj[t][f]) : \E n \in 0..Len(q) :
        Left(q, n, rest[t]) /\ Filled(q, n, root[t][f])
  BY <1>3 DEF Part
<1>5. PICK n \in 0..Len(q) : Left(q, n, rest[t]) /\ Filled(q, n, root[t][f])
  BY <1>4
<1>6. Len(q) \in Nat /\ n \in Nat /\ n + 1 \in Nat
  BY <1>1, <1>4, IterationsAre DEF Declared
<1>7. \A g \in DOMAIN obj[t] : g # f => root'[t][g] = root[t][g]
  BY <1>0, <1>1 DEF AddElement, SkipElement, EndElements
<1>8. CASE AddElement(t) \/ SkipElement(t)
  <2>1. pc' = pc /\ rest[t] # << >> /\ rest'[t] = Tail(rest[t]) /\ Head(rest[t]) # Null
    BY <1>1, <1>8 DEF AddElement, SkipElement, Element
  <2>2. n < Len(q) /\ Head(rest[t]) = q[n + 1] /\ Left(q, n + 1, Tail(rest[t]))
    BY <1>5, <1>6, <2>1, LeftNext
  <2>3. n + 1 \in 0..Len(q)
    BY <1>6, <2>2
  <2>4. Filled(q, n + 1, root'[t][f])
    <3>1. CASE AddElement(t)
      <4>1. /\ q[n + 1][1] \in Written
            /\ root'[t][f] = <<"arr", Append(root[t][f][2], Node(q[n + 1]))>>
        BY <1>0, <1>1, <2>2, <3>1 DEF AddElement
      <4> QED BY <1>5, <1>6, <2>1, <2>2, <4>1, FilledAppend
    <3>2. CASE SkipElement(t)
      <4>1. q[n + 1][1] \notin Written /\ root' = root
        BY <2>2, <3>2 DEF SkipElement
      <4> QED BY <1>5, <1>6, <2>1, <2>2, <4>1, FilledSkip
    <3> QED BY <1>8, <3>1, <3>2
  <2>5. Part(t, f)'
    <3>1. q \in Iterations(obj'[t][f]) /\ Left(q, n + 1, rest'[t])
      BY <1>2, <2>1, <2>2
    <3> QED BY <2>3, <2>4, <3>1 DEF Part
  <2>6. Collected(t)'
    BY <1>0, <1>1, <1>2, <1>7, <2>1, <2>5, OtherFields
  <2> QED BY <2>6 DEF Gathered
<1>9. CASE EndElements(t)
  <2>1. pc'[t] = "fields" /\ rest[t] = << >> /\ root' = root
    BY <1>9 DEF IInv, TypeOK, EndElements, Goto
  <2>2. n = Len(q)
    BY <1>5, <1>6, <2>1 DEF Left
  <2>3. Whole(t, f)'
    <3>1. q \in Iterations(obj'[t][f]) /\ Filled(q, Len(q), root'[t][f])
      BY <1>2, <1>5, <2>1, <2>2
    <3> QED BY <3>1 DEF Whole
  <2>4. Collected(t)'
    BY <1>0, <1>1, <1>2, <1>7, <2>1, <2>3, OtherFields
  <2> QED BY <2>4 DEF Gathered
<1> QED BY <1>8, <1>9

LEMMA LeaveGathers ==
  ASSUME IInv, NEW t \in Threads, Gathered(t), Throw(t) \/ Changed(t) \/ Write(t) \/ Close(t)
  PROVE  Gathered(t)'
<1>1. CASE Throw(t) \/ Changed(t)
  BY <1>1 DEF IInv, TypeOK, Throw, Changed, Catch, Goto, Gathered
<1>2. CASE Write(t) \/ (Close(t) /\ outcome[t] = "text")
  <2>1. /\ pc[t] # "elements" /\ pc'[t] # "elements" /\ Collected(t)
        /\ obj'[t] = obj[t] /\ root'[t] = root[t] /\ todo'[t] = todo[t]
    BY <1>2 DEF IInv, TypeOK, Progress, Write, Close, Goto, Gathered
  <2>2. Collected(t)'
    BY <2>1 DEF Collected, Declared, Whole
  <2> QED BY <2>2 DEF Gathered
<1>3. CASE Close(t) /\ outcome[t] # "text"
  BY <1>3 DEF IInv, TypeOK, Close, Goto, Gathered
<1> QED BY <1>1, <1>2, <1>3

LEMMA BeginGathers ==
  ASSUME IInv, NEW t \in Threads, NEW o \in Objects,
         Refuse(t, o) \/ \E d \in Docs : Build(t, o, d)
  PROVE  Gathered(t)'
<1>1. CASE Refuse(t, o)
  BY <1>1 DEF IInv, TypeOK, Refuse, Gathered
<1>2. CASE \E d \in Docs : Build(t, o, d)
  <2>1. obj'[t] = o /\ todo'[t] = DOMAIN o
    BY <1>2 DEF IInv, TypeOK, Build
  <2> QED BY <2>1 DEF Gathered, Collected
<1> QED BY <1>1, <1>2

LEMMA StepGathers ==
  ASSUME IInv, AllGathered, [Next]_vars
  PROVE  AllGathered'
<1>1. CASE UNCHANGED vars
  BY <1>1 DEF vars, AllGathered, Gathered, Collected, Declared, Part, Whole
<1>2. CASE Next
  <2>1. PICK t \in Threads :
          \/ Step(t) \/ Changed(t)
          \/ \E o \in Objects : Refuse(t, o) \/ \E d \in Docs : Build(t, o, d)
    BY <1>2 DEF Next
  <2>2. Gathered(t)'
    <3>1. Gathered(t)
      BY DEF AllGathered
    <3> QED BY <2>1, <3>1, FieldGathers, ElementGathers, LeaveGathers, BeginGathers DEF Step
  <2>3. Local(t) /\ \A u \in Threads \ {t} : rest'[u] = rest[u]
    BY <2>1
      DEF IInv, TypeOK, Local, Step, Changed, Refuse, Build, AddField, SkipField, BindArray, Take,
          AddElement, SkipElement, EndElements, Throw, Catch, Write, Close, Goto
  <2> QED BY <2>2, <2>3, OthersGathered DEF AllGathered
<1> QED BY <1>1, <1>2

THEOREM Gathering == Spec => []AllGathered
<1>1. Init => AllGathered
  BY DEF Init, AllGathered, Gathered
<1>2. IInv /\ AllGathered /\ [Next]_vars => AllGathered'
  BY StepGathers
<1> QED BY <1>1, <1>2, Invariance, PTL DEF Spec

(* The array of a list or a set holds the elements that have a JSON form,  *)
(* each once and in the order they were come to, and each reads back, for  *)
(* collections of any length.                                              *)
THEOREM CollectionsRoundTrip == Spec => []ElementsReadBack
<1>1. ASSUME IInv, NEW t \in Threads, Gathered(t), outcome[t] = "text", NEW f \in DOMAIN obj[t],
             Declared(t, f) \in {"LIST", "SET"}
      PROVE  \E q \in Iterations(obj[t][f]) :
               /\ Len(root[t][f][2]) = Cardinality(Kept(q, Len(q)))
               /\ \A i \in Kept(q, Len(q)) :
                    ReadsBack(q[i], root[t][f][2][Cardinality(Kept(q, i))])
  <2>1. pc[t] # "elements" /\ todo[t] = {} /\ ~Unprintable(t)
    BY <1>1 DEF IInv, Progress
  <2>2. Whole(t, f)
    BY <1>1, <2>1 DEF Gathered, Collected
  <2>3. PICK q \in Iterations(obj[t][f]) : Filled(q, Len(q), root[t][f])
    BY <2>2 DEF Whole
  <2>4. obj[t] \in Objects /\ f \in Names
    BY <1>1, ObjectsAssumption DEF IInv, TypeOK
  <2> DEFINE arr == root[t][f][2]
  <2>5. /\ Len(q) \in Nat
        /\ \A i \in 1..Len(q) : q[i] # Null /\ q[i][1] \in Written => InRange(q[i])
    BY <1>1, <2>3, <2>4, IterationsAre DEF Declared
  <2>6. Len(arr) = Cardinality(Kept(q, Len(q)))
    BY <2>3 DEF Filled
  <2>7. ASSUME NEW i \in Kept(q, Len(q)) PROVE ReadsBack(q[i], arr[Cardinality(Kept(q, i))])
    <3> DEFINE k == Cardinality(Kept(q, i))
    <3>1. k \in DOMAIN arr /\ arr[k] = Node(q[i])
      <4>1. k \in 1..Len(arr)
        BY <2>5, <2>6, KeptCount
      <4>2. arr \in Seq(Forms(q)) /\ arr[k] = Node(q[i])
        BY <2>3 DEF Filled
      <4> QED BY <4>1, <4>2
    <3>2. q[i][1] \in Written /\ i \in 1..Len(q)
      BY DEF Kept
    <3>3. InRange(q[i])
      <4>1. q[i] # Null
        BY <2>3, <3>2 DEF Filled
      <4> QED BY <2>5, <3>2, <4>1
    <3>4. root[t][f] # Absent /\ root[t][f][1] = "arr"
      BY <2>3 DEF Filled, Absent
    <3>5. arr[k] # <<"real", NonFinite>>
      BY <2>1, <2>4, <3>1, <3>4 DEF Unprintable
    <3> HIDE DEF arr, k
    <3>6. q[i][1] = "DOUBLE" => q[i][2] \in Int
      BY <3>1, <3>3, <3>5 DEF Node, KindOf, InRange
    <3>7. ReadsBack(q[i], Node(q[i]))
      BY <3>2, <3>3, <3>6, NodeReadsBack
    <3> QED BY <3>1, <3>7 DEF k
  <2> QED BY <2>6, <2>7
<1>2. IInv /\ AllGathered => ElementsReadBack
  BY <1>1 DEF AllGathered, ElementsReadBack
<1> QED BY <1>2, Invariance, Gathering, PTL
=============================================================================
