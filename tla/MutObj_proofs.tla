--------------------------- MODULE MutObj_proofs ---------------------------
(***************************************************************************)
(* Proofs about MutObj, for any objects, keys and values.                  *)
(*                                                                         *)
(* The invariant says that the links represent a sequence of key nodes for *)
(* each node that holds an object, apart from each other.  Each action is  *)
(* shown to append to one of them, to drop from one, or to exchange two.   *)
(***************************************************************************)
EXTENDS MutObj, SequenceTheorems, WellFoundedInduction, TLAPS

LEMMA Smallest ==
  ASSUME NEW T, T \subseteq Nat, T # {}
  PROVE  \E x \in T : \A y \in T : x <= y
<1>1. PICK x \in T : \A y \in T : ~(<<y, x>> \in OpToRel(<, Nat))
  BY NatLessThanWellFounded, WFMin, Zenon
<1>2. ASSUME NEW y \in T PROVE x <= y
  <2>1. ~(<<y, x>> \in {ss \in Nat \X Nat : ss[1] < ss[2]})
    BY <1>1 DEF OpToRel
  <2> QED BY <2>1
<1> QED BY <1>2

-----------------------------------------------------------------------------
(* The three loops: following 'next' from key to key, the loop of remove,  *)
(* and the filter of JsonObjects.  A turn of loop p takes x to Turn.       *)
Walking(nx, vo) == [loop |-> "walk", nx |-> nx, vo |-> vo]
Removing(k, hit) == [loop |-> "remove", k |-> k, hit |-> hit]
Keeping(q, k) == [loop |-> "keep", q |-> q, k |-> k]

Kept(q, k, j, x) == IF q[j][1] = k THEN x ELSE Append(x, q[j])

Turn(p, j, x) ==
  IF p.loop = "walk" THEN p.nx[p.vo[x]]
  ELSE IF p.loop = "remove" THEN IterStep(x, p.k, p.hit)
  ELSE Kept(p.q, p.k, j, x)

(* w lists what the first k turns reach.                                   *)
Trace(w, p, x, k) ==
  w = [j \in 0..k |-> IF j = 0 THEN x ELSE Turn(p, j, w[j - 1])]

Upto(w, k) == w = [j \in 0..k |-> w[j]]

LEMMA TraceIs ==
  ASSUME NEW p, NEW x, NEW k \in Nat, NEW w, Upto(w, k),
         w[0] = x, \A j \in 1..k : w[j] = Turn(p, j, w[j - 1])
  PROVE  Trace(w, p, x, k)
<1>1. \A j \in 0..k : w[j] = IF j = 0 THEN x ELSE Turn(p, j, w[j - 1])
  OBVIOUS
<1> QED BY <1>1 DEF Trace, Upto

LEMMA TraceTurns ==
  ASSUME NEW p, NEW x, NEW k \in Nat, NEW w, Trace(w, p, x, k)
  PROVE  w[0] = x /\ \A j \in 1..k : w[j] = Turn(p, j, w[j - 1])
BY DEF Trace

LEMMA TraceExists ==
  ASSUME NEW p, NEW x, NEW k \in Nat
  PROVE  \E w : Trace(w, p, x, k)
<1> DEFINE T == {m \in Nat : ~\E w : Trace(w, p, x, m)}
<1> SUFFICES ASSUME T # {} PROVE FALSE
  OBVIOUS
<1>1. PICK m \in T : \A y \in T : m <= y
  BY Smallest
<1>2. CASE m = 0
  <2>1. Trace([j \in 0..0 |-> x], p, x, 0)
    BY DEF Trace
  <2> QED BY <1>2, <2>1
<1>3. CASE m # 0
  <2>1. m - 1 \in Nat /\ m - 1 \notin T
    BY <1>1, <1>3
  <2>2. PICK w : Trace(w, p, x, m - 1)
    BY <2>1
  <2> DEFINE v == [j \in 0..m |-> IF j < m THEN w[j] ELSE Turn(p, m, w[m - 1])]
  <2>3. w[0] = x /\ \A j \in 1..(m - 1) : w[j] = Turn(p, j, w[j - 1])
    BY <2>1, <2>2, TraceTurns
  <2>4. v[0] = x /\ \A j \in 1..m : v[j] = Turn(p, j, v[j - 1])
    BY <1>3, <2>1, <2>3
  <2>5. Upto(v, m)
    BY DEF Upto
  <2> HIDE DEF v
  <2>6. Trace(v, p, x, m)
    BY <2>4, <2>5, TraceIs
  <2> QED BY <2>6
<1> QED BY <1>2, <1>3

LEMMA TraceUnique ==
  ASSUME NEW p, NEW x, NEW k \in Nat, NEW v, NEW w, Trace(v, p, x, k), Trace(w, p, x, k)
  PROVE  v[k] = w[k]
<1> DEFINE T == {m \in 0..k : v[m] # w[m]}
<1> SUFFICES ASSUME T # {} PROVE FALSE
  OBVIOUS
<1>1. PICK m \in T : \A y \in T : m <= y
  <2>1. T \subseteq Nat
    OBVIOUS
  <2> HIDE DEF T
  <2> QED BY <2>1, Smallest
<1>2. /\ v[0] = x /\ \A j \in 1..k : v[j] = Turn(p, j, v[j - 1])
      /\ w[0] = x /\ \A j \in 1..k : w[j] = Turn(p, j, w[j - 1])
  BY TraceTurns
<1>3. m \in 1..k /\ v[m] # w[m]
  BY <1>2
<1>4. v[m - 1] = w[m - 1]
  BY <1>1, <1>3
<1> QED BY <1>2, <1>3, <1>4

(* Walk, with the links as parameters.                                     *)
WalkIn(nx, vo, n, k) ==
  LET w[j \in 0..k] == IF j = 0 THEN n ELSE nx[vo[w[j - 1]]] IN w[k]

LEMMA WalkTrace ==
  ASSUME NEW nx, NEW vo, NEW n, NEW k \in Nat, NEW w, Trace(w, Walking(nx, vo), n, k)
  PROVE  WalkIn(nx, vo, n, k) = w[k]
<1> DEFINE Is(g) == g = [j \in 0..k |-> IF j = 0 THEN n ELSE nx[vo[g[j - 1]]]]
           f == CHOOSE g : Is(g)
<1>1. \A j, x : Turn(Walking(nx, vo), j, x) = nx[vo[x]]
  BY DEF Turn, Walking
<1>2. Is(w)
  BY <1>1 DEF Trace
<1>3. Is(f)
  BY <1>2
<1>4. WalkIn(nx, vo, n, k) = f[k]
  BY DEF WalkIn
<1> HIDE DEF f
<1>5. Trace(f, Walking(nx, vo), n, k)
  BY <1>1, <1>3 DEF Trace
<1> QED BY <1>4, <1>5, TraceUnique

LEMMA WalkStep ==
  ASSUME NEW nx, NEW vo, NEW n, NEW k \in Nat
  PROVE  /\ WalkIn(nx, vo, n, 0) = n
         /\ WalkIn(nx, vo, n, k + 1) = nx[vo[WalkIn(nx, vo, n, k)]]
<1> DEFINE p == Walking(nx, vo)
<1>0. \A j, x : Turn(p, j, x) = nx[vo[x]]
  BY DEF Turn, Walking
<1>1. PICK w : Trace(w, p, n, k + 1)
  BY TraceExists
<1>2. w[0] = n /\ \A j \in 1..(k + 1) : w[j] = nx[vo[w[j - 1]]]
  <2> DEFINE m == k + 1
  <2>1. m \in Nat /\ m = k + 1
    OBVIOUS
  <2> HIDE DEF m, p
  <2>2. w[0] = n /\ \A j \in 1..m : w[j] = Turn(p, j, w[j - 1])
    BY <1>1, <2>1, TraceTurns
  <2> QED BY <1>0, <2>1, <2>2
<1>3. WalkIn(nx, vo, n, k + 1) = w[k + 1]
  BY <1>1, WalkTrace
<1>4. ASSUME NEW i \in {0, k} PROVE WalkIn(nx, vo, n, i) = w[i]
  <2> DEFINE v == [j \in 0..i |-> w[j]]
  <2>1. i \in Nat /\ i \in 0..(k + 1) /\ Upto(v, i) /\ v[0] = n
    BY <1>2 DEF Upto
  <2>2. \A j \in 1..i : v[j] = Turn(p, j, v[j - 1])
    BY <1>0, <1>2, <2>1
  <2>3. v[i] = w[i]
    BY <2>1
  <2> HIDE DEF v, p
  <2>4. Trace(v, p, n, i)
    BY <2>1, <2>2, TraceIs
  <2> QED BY <2>1, <2>3, <2>4, WalkTrace DEF p
<1>5. w[k + 1] = nx[vo[w[k]]]
  <2>1. k + 1 \in 1..(k + 1) /\ (k + 1) - 1 = k
    OBVIOUS
  <2> QED BY <1>2, <2>1
<1> QED BY <1>2, <1>3, <1>4, <1>5
-----------------------------------------------------------------------------
(* Sequences of key nodes with a value node each, and the cycles they      *)
(* stand for.                                                              *)
Cycle(s, nx, vo, l) ==
  /\ Len(s) > 0 => s[Len(s)] = l
  /\ \A i \in 1..Len(s) : nx[vo[s[i]]] = IF i = Len(s) THEN s[1] ELSE s[i + 1]

Lists(s, nx, vo, l) ==
  /\ s \in Seq(KeyNodes)
  /\ \A i, j \in 1..Len(s) : vo[s[i]] = vo[s[j]] => i = j
  /\ Cycle(s, nx, vo, l)

(* Position 0 is the last key node, from which uni.ptr starts.             *)
At(s, i) == IF i = 0 THEN s[Len(s)] ELSE IF i = Len(s) + 1 THEN s[1] ELSE s[i]

LEMMA AtNext ==
  ASSUME NEW s, NEW nx, NEW vo, NEW l, Lists(s, nx, vo, l), Len(s) > 0
  PROVE  /\ \A i \in 0..Len(s) : nx[vo[At(s, i)]] = At(s, i + 1)
         /\ \A i \in 0..(Len(s) + 1) : At(s, i) \in KeyNodes
         /\ At(s, 0) = l /\ \A i \in 1..Len(s) : At(s, i) = s[i]
<1> DEFINE L == Len(s)
<1>1. /\ L \in Nat /\ L > 0 /\ s[L] = l /\ \A i \in 1..L : s[i] \in KeyNodes
      /\ \A i \in 1..L : nx[vo[s[i]]] = IF i = L THEN s[1] ELSE s[i + 1]
  BY DEF Lists, Cycle
<1>2. \A i : At(s, i) = IF i = 0 THEN s[L] ELSE IF i = L + 1 THEN s[1] ELSE s[i]
  BY DEF At
<1> HIDE DEF L
<1>3. ASSUME NEW i \in 0..L PROVE nx[vo[At(s, i)]] = At(s, i + 1)
  <2>1. CASE i = 0
    BY <1>1, <1>2, <2>1
  <2>2. CASE i # 0
    <3>1. i \in 1..L /\ At(s, i) = s[i]
      BY <1>1, <1>2, <2>2
    <3>2. At(s, i + 1) = IF i = L THEN s[1] ELSE s[i + 1]
      BY <1>1, <1>2, <3>1
    <3> QED BY <1>1, <3>1, <3>2
  <2> QED BY <2>1, <2>2
<1>4. \A i \in 0..(L + 1) : At(s, i) \in KeyNodes
  BY <1>1, <1>2
<1>5. At(s, 0) = l /\ \A i \in 1..L : At(s, i) = s[i]
  BY <1>1, <1>2
<1> QED BY <1>3, <1>4, <1>5 DEF L

LEMMA WalkCycle ==
  ASSUME NEW s, NEW nx, NEW vo, NEW l, Lists(s, nx, vo, l), Len(s) > 0,
         NEW k \in 0..(Len(s) + 1)
  PROVE  WalkIn(nx, vo, l, k) = At(s, k)
<1> DEFINE T == {m \in 0..k : WalkIn(nx, vo, l, m) # At(s, m)}
<1> SUFFICES ASSUME T # {} PROVE FALSE
  OBVIOUS
<1>0. Len(s) \in Nat
  BY DEF Lists
<1>1. PICK m \in T : \A y \in T : m <= y
  <2>1. T \subseteq Nat
    OBVIOUS
  <2> HIDE DEF T
  <2> QED BY <2>1, Smallest
<1>2. WalkIn(nx, vo, l, 0) = At(s, 0)
  BY WalkStep, AtNext
<1>3. m # 0 /\ m - 1 \in Nat /\ m <= k /\ m - 1 \in 0..Len(s)
  BY <1>0, <1>1, <1>2
<1>4. WalkIn(nx, vo, l, m - 1) = At(s, m - 1)
  BY <1>1, <1>3
<1>5. WalkIn(nx, vo, l, m) = nx[vo[WalkIn(nx, vo, l, m - 1)]]
  <2>1. \A j \in Nat : WalkIn(nx, vo, l, j + 1) = nx[vo[WalkIn(nx, vo, l, j)]]
    BY WalkStep
  <2>2. (m - 1) + 1 = m
    BY <1>3
  <2> QED BY <1>3, <2>1, <2>2
<1>6. nx[vo[At(s, m - 1)]] = At(s, (m - 1) + 1) /\ (m - 1) + 1 = m
  BY <1>3, AtNext
<1> QED BY <1>1, <1>4, <1>5, <1>6

(* The key nodes the serialiser finds are the sequence.                    *)
LEMMA RingIn ==
  ASSUME NEW s, NEW nx, NEW vo, NEW l, Lists(s, nx, vo, l)
  PROVE  [i \in 1..Len(s) |-> WalkIn(nx, vo, l, i)] = s
<1>1. Len(s) \in Nat /\ s \in Seq(KeyNodes)
  BY DEF Lists
<1>2. ASSUME NEW i \in 1..Len(s) PROVE WalkIn(nx, vo, l, i) = s[i]
  <2>1. Len(s) > 0 /\ i \in 0..(Len(s) + 1)
    BY <1>1
  <2> QED BY <2>1, WalkCycle, AtNext
<1> QED BY <1>1, <1>2

-----------------------------------------------------------------------------
(* The two edits of a cycle.                                               *)
LinkedOn(nx, vo, l, s, n, v) ==
  IF Len(s) = 0 THEN [nx EXCEPT ![v] = n]
  ELSE [nx EXCEPT ![vo[l]] = n, ![v] = nx[vo[l]]]

LEMMA AppendCycle ==
  ASSUME NEW s, NEW nx \in [Value -> KeyNodes], NEW vo \in [KeyNodes -> Value], NEW l,
         Lists(s, nx, vo, l), NEW n \in KeyNodes, NEW v \in Value,
         \A j \in 1..Len(s) : s[j] # n /\ vo[s[j]] # v
  PROVE  Lists(Append(s, n), LinkedOn(nx, vo, l, s, n, v), [vo EXCEPT ![n] = v], n)
<1> DEFINE L == Len(s)  r == Append(s, n)  vo1 == [vo EXCEPT ![n] = v]
           nx1 == LinkedOn(nx, vo, l, s, n, v)
<1>1. /\ L \in Nat /\ s \in Seq(KeyNodes) /\ \A i \in 1..L : s[i] \in KeyNodes
      /\ \A i, j \in 1..L : vo[s[i]] = vo[s[j]] => i = j
      /\ \A i \in 1..L : s[i] # n /\ vo[s[i]] # v
      /\ L > 0 => s[L] = l
      /\ \A i \in 1..L : nx[vo[s[i]]] = IF i = L THEN s[1] ELSE s[i + 1]
  BY DEF Lists, Cycle
<1>2. /\ r \in Seq(KeyNodes) /\ Len(r) = L + 1
      /\ r[L + 1] = n /\ \A i \in 1..L : r[i] = s[i]
  BY <1>1
<1>3. vo1[n] = v /\ \A i \in 1..L : vo1[s[i]] = vo[s[i]]
  BY <1>1
<1>4. L > 0 => /\ nx1[vo[s[L]]] = n /\ nx1[v] = s[1]
               /\ \A i \in 1..(L - 1) : nx1[vo[s[i]]] = s[i + 1]
  <2> SUFFICES ASSUME L > 0
               PROVE  /\ nx1[vo[s[L]]] = n /\ nx1[v] = s[1]
                      /\ \A i \in 1..(L - 1) : nx1[vo[s[i]]] = s[i + 1]
    OBVIOUS
  <2>1. nx1 = [nx EXCEPT ![vo[l]] = n, ![v] = nx[vo[l]]]
    BY DEF LinkedOn
  <2>2. L \in 1..L /\ l = s[L] /\ vo[l] \in Value /\ vo[l] # v /\ nx[vo[l]] = s[1]
    BY <1>1
  <2>3. nx1[vo[l]] = n /\ nx1[v] = s[1] /\ \A w \in Value \ {v, vo[l]} : nx1[w] = nx[w]
    BY <2>1, <2>2
  <2>4. ASSUME NEW i \in 1..(L - 1) PROVE nx1[vo[s[i]]] = s[i + 1]
    <3>1. i \in 1..L /\ i # L
      BY <1>1
    <3>2. vo[s[i]] \in Value \ {v, vo[l]}
      BY <1>1, <2>2, <3>1
    <3> QED BY <1>1, <2>3, <3>1, <3>2
  <2> QED BY <2>2, <2>3, <2>4
<1>5. L = 0 => nx1[v] = n
  BY DEF LinkedOn
<1> HIDE DEF r, L, vo1, nx1
<1>6. ASSUME NEW i \in 1..(L + 1), NEW j \in 1..(L + 1), vo1[r[i]] = vo1[r[j]]
      PROVE  i = j
  <2>1. \A k \in 1..(L + 1) : k = L + 1 \/ k \in 1..L
    BY <1>1
  <2> QED BY <1>1, <1>2, <1>3, <1>6, <2>1
<1>7. ASSUME NEW i \in 1..(L + 1)
      PROVE  nx1[vo1[r[i]]] = IF i = L + 1 THEN r[1] ELSE r[i + 1]
  <2>1. CASE i = L + 1 /\ L = 0
    BY <1>2, <1>3, <1>5, <2>1
  <2>2. CASE i = L + 1 /\ L > 0
    <3>1. 1 \in 1..L
      BY <1>1, <2>2
    <3> QED BY <1>2, <1>3, <1>4, <2>2, <3>1
  <2>3. CASE i = L /\ L > 0
    BY <1>1, <1>2, <1>3, <1>4, <2>3
  <2>4. CASE i < L
    <3>1. i \in 1..L /\ i + 1 \in 1..L /\ i \in 1..(L - 1) /\ i # L + 1 /\ L > 0
      BY <1>1, <2>4
    <3>2. r[i] = s[i] /\ vo1[s[i]] = vo[s[i]] /\ r[i + 1] = s[i + 1]
      BY <1>2, <1>3, <3>1
    <3>3. nx1[vo[s[i]]] = s[i + 1]
      BY <1>4, <3>1
    <3> QED BY <3>1, <3>2, <3>3
  <2> QED BY <1>1, <2>1, <2>2, <2>3, <2>4
<1> QED BY <1>2, <1>6, <1>7 DEF Lists, Cycle, r, L, vo1, nx1

Dropped(s, m) == [i \in 1..(Len(s) - 1) |-> IF i < m THEN s[i] ELSE s[i + 1]]

LinksWithout(nx, vo, s, m) == [nx EXCEPT ![vo[At(s, m - 1)]] = At(s, m + 1)]
LastWithout(l, s, m) == IF m = Len(s) THEN At(s, m - 1) ELSE l

LEMMA DroppedIs ==
  ASSUME NEW s \in Seq(KeyNodes), NEW m \in 1..Len(s)
  PROVE  /\ Dropped(s, m) \in Seq(KeyNodes) /\ Len(Dropped(s, m)) = Len(s) - 1
         /\ \A i \in 1..(Len(s) - 1) :
              /\ (IF i < m THEN i ELSE i + 1) \in 1..Len(s) \ {m}
              /\ Dropped(s, m)[i] = s[IF i < m THEN i ELSE i + 1]
<1>1. Len(s) \in Nat /\ Len(s) - 1 \in Nat
  OBVIOUS
<1>2. \A i \in 1..(Len(s) - 1) : (IF i < m THEN i ELSE i + 1) \in 1..Len(s) \ {m}
  BY <1>1
<1> QED BY <1>1, <1>2 DEF Dropped

LEMMA DropCycle ==
  ASSUME NEW s, NEW nx \in [Value -> KeyNodes], NEW vo \in [KeyNodes -> Value], NEW l,
         Lists(s, nx, vo, l), NEW m \in 1..Len(s)
  PROVE  Lists(Dropped(s, m), LinksWithout(nx, vo, s, m), vo, LastWithout(l, s, m))
<1> DEFINE L == Len(s)  r == Dropped(s, m)  p == At(s, m - 1)  q == At(s, m + 1)
           nx1 == LinksWithout(nx, vo, s, m)  at(i) == IF i < m THEN i ELSE i + 1
           l1 == LastWithout(l, s, m)
<1>1. /\ L \in Nat /\ L > 0 /\ s \in Seq(KeyNodes) /\ \A i \in 1..L : s[i] \in KeyNodes
      /\ \A i, j \in 1..L : vo[s[i]] = vo[s[j]] => i = j
      /\ s[L] = l
      /\ \A i \in 1..L : nx[vo[s[i]]] = IF i = L THEN s[1] ELSE s[i + 1]
      /\ m \in 1..L
  BY DEF Lists, Cycle
<1>2. p = (IF m = 1 THEN s[L] ELSE s[m - 1]) /\ q = (IF m = L THEN s[1] ELSE s[m + 1])
  BY <1>1 DEF At
<1>3. p \in KeyNodes /\ q \in KeyNodes /\ vo[p] \in Value
  <2>1. (IF m = 1 THEN L ELSE m - 1) \in 1..L /\ (IF m = L THEN 1 ELSE m + 1) \in 1..L
    BY <1>1
  <2> HIDE DEF p, q
  <2> QED BY <1>1, <1>2, <2>1
<1>4. \A w \in Value : nx1[w] = IF w = vo[p] THEN q ELSE nx[w]
  BY <1>3 DEF LinksWithout
<1>5. /\ r \in Seq(KeyNodes) /\ Len(r) = L - 1
      /\ \A i \in 1..(L - 1) : at(i) \in 1..L \ {m} /\ r[i] = s[at(i)]
  BY <1>1, DroppedIs
<1>6. l1 = IF m = L THEN p ELSE l
  BY DEF LastWithout
<1> HIDE DEF r, L, nx1, p, q, l1
<1>7. \A i, j \in 1..(L - 1) : vo[r[i]] = vo[r[j]] => i = j
  <2> SUFFICES ASSUME NEW i \in 1..(L - 1), NEW j \in 1..(L - 1), vo[r[i]] = vo[r[j]]
               PROVE  i = j
    OBVIOUS
  <2>1. at(i) \in 1..L /\ at(j) \in 1..L /\ vo[s[at(i)]] = vo[s[at(j)]]
    BY <1>5
  <2> HIDE DEF at
  <2>2. at(i) = at(j)
    BY <1>1, <2>1
  <2> QED BY <1>1, <2>2 DEF at
<1>8. L - 1 > 0 => r[L - 1] = l1
  <2> SUFFICES ASSUME L - 1 > 0 PROVE r[L - 1] = l1
    OBVIOUS
  <2>1. L - 1 \in 1..(L - 1) /\ at(L - 1) = IF m = L THEN L - 1 ELSE L
    BY <1>1
  <2>2. m = L => m # 1 /\ m - 1 = L - 1
    BY <1>1
  <2> HIDE DEF at
  <2> QED BY <1>1, <1>2, <1>5, <1>6, <2>1, <2>2
<1>9. ASSUME NEW i \in 1..(L - 1)
      PROVE  nx1[vo[r[i]]] = IF i = L - 1 THEN r[1] ELSE r[i + 1]
  <2>1. at(i) \in 1..L /\ at(i) # m /\ r[i] = s[at(i)] /\ vo[s[at(i)]] \in Value
    <3>1. at(i) \in 1..L /\ at(i) # m /\ r[i] = s[at(i)]
      BY <1>5
    <3> HIDE DEF at
    <3> QED BY <1>1, <3>1
  <2>2. vo[s[at(i)]] = vo[p] <=> at(i) = (IF m = 1 THEN L ELSE m - 1)
    <3>1. (IF m = 1 THEN L ELSE m - 1) \in 1..L /\ p = s[IF m = 1 THEN L ELSE m - 1]
      BY <1>1, <1>2
    <3> HIDE DEF at
    <3> QED BY <1>1, <2>1, <3>1
  <2>3. r[1] = IF m = 1 THEN s[2] ELSE s[1]
    <3>1. 1 \in 1..(L - 1) /\ at(1) = IF m = 1 THEN 2 ELSE 1
      BY <1>1
    <3> HIDE DEF at
    <3> QED BY <1>5, <3>1
  <2>4. i # L - 1 => i + 1 \in 1..(L - 1) /\ r[i + 1] = s[at(i + 1)]
    <3>1. i # L - 1 => i + 1 \in 1..(L - 1)
      BY <1>1
    <3> HIDE DEF at
    <3> QED BY <1>5, <3>1
  <2>5. nx1[vo[r[i]]] = IF vo[s[at(i)]] = vo[p] THEN q ELSE nx[vo[s[at(i)]]]
    <3> HIDE DEF at
    <3> QED BY <1>4, <2>1
  <2>6. CASE i < m - 1
    <3>1. at(i) = i /\ at(i + 1) = i + 1 /\ i # L - 1 /\ i # L /\ m # 1 /\ i # m - 1
      BY <1>1, <2>6
    <3>2. nx1[vo[r[i]]] = nx[vo[s[i]]] /\ i \in 1..L
      BY <1>1, <2>2, <2>5, <3>1
    <3> QED BY <1>1, <2>4, <3>1, <3>2
  <2>7. CASE i = m - 1
    <3>1. at(i) = i /\ at(i + 1) = i + 2 /\ m # 1 /\ (m = L <=> i = L - 1) /\ m + 1 = i + 2
      BY <1>1, <2>7
    <3>2. nx1[vo[r[i]]] = q
      BY <2>2, <2>5, <2>7, <3>1
    <3> QED BY <1>2, <2>3, <2>4, <3>1, <3>2
  <2>8. CASE i >= m
    <3>1. at(i) = i + 1 /\ at(i + 1) = i + 2 /\ (i + 1 = L <=> i = L - 1) /\ m # L
          /\ i + 1 # m - 1 /\ i + 1 \in 1..L /\ (i + 1) + 1 = i + 2
      BY <1>1, <2>8
    <3>2. CASE m = 1 /\ i + 1 = L
      BY <1>2, <2>2, <2>3, <2>5, <3>1, <3>2
    <3>3. CASE ~(m = 1 /\ i + 1 = L)
      <4>1. nx1[vo[r[i]]] = nx[vo[s[i + 1]]]
        BY <2>2, <2>5, <3>1, <3>3
      <4>2. nx[vo[s[i + 1]]] = IF i + 1 = L THEN s[1] ELSE s[i + 2]
        BY <1>1, <3>1
      <4> QED BY <2>3, <2>4, <3>1, <3>3, <4>1, <4>2
    <3> QED BY <3>2, <3>3
  <2> QED BY <1>1, <2>6, <2>7, <2>8
<1> QED BY <1>5, <1>7, <1>8, <1>9 DEF Lists, Cycle, r, L, nx1, l1

-----------------------------------------------------------------------------
(* The loop of remove, whatever it meets: the nodes stay typed, and what   *)
(* is left to do goes down by one each turn.                               *)
Iter ==
  [idx : Nat, max : Int, cur : KeyNodes, nx : [Value -> KeyNodes], last : KeyNodes]

Began(o) ==
  [idx |-> 0, max |-> len[o], cur |-> last[o], nx |-> next, last |-> last[o]]

LEMMA LoopTrace ==
  ASSUME NEW o, NEW k, NEW hit, len[o] \in Nat, NEW w,
         Trace(w, Removing(k, hit), Began(o), len[o])
  PROVE  RemoveLoop(o, k, hit) = w[len[o]]
<1> DEFINE Is(g) == g = [j \in 0..len[o] |->
                          IF j = 0 THEN Began(o) ELSE IterStep(g[j - 1], k, hit)]
           f == CHOOSE g : Is(g)
<1>1. \A j, x : Turn(Removing(k, hit), j, x) = IterStep(x, k, hit)
  BY DEF Turn, Removing
<1>2. Is(w)
  BY <1>1 DEF Trace
<1>3. Is(f)
  BY <1>2
<1>4. RemoveLoop(o, k, hit) = f[len[o]]
  BY DEF RemoveLoop, Began
<1> HIDE DEF f
<1>5. Trace(f, Removing(k, hit), Began(o), len[o])
  BY <1>1, <1>3 DEF Trace
<1> QED BY <1>4, <1>5, TraceUnique

LEMMA StepTyped ==
  ASSUME valOf \in [KeyNodes -> Value], NEW it \in Iter, NEW k, NEW hit
  PROVE  /\ IterStep(it, k, hit) \in Iter
         /\ IterStep(it, k, hit).max - IterStep(it, k, hit).idx = (it.max - it.idx) - 1
<1> DEFINE cur == it.nx[valOf[it.cur]]  nxt == it.nx[valOf[cur]]
           cut == [it.nx EXCEPT ![valOf[it.cur]] = nxt]
           end == IF it.idx + 1 = it.max THEN it.cur ELSE it.last
<1>1. /\ it.idx \in Nat /\ it.max \in Int /\ it.cur \in KeyNodes /\ it.last \in KeyNodes
      /\ it.nx \in [Value -> KeyNodes]
      /\ it = [idx |-> it.idx, max |-> it.max, cur |-> it.cur, nx |-> it.nx, last |-> it.last]
  BY DEF Iter
<1>2. cur \in KeyNodes /\ nxt \in KeyNodes /\ end \in KeyNodes
  BY <1>1
<1>3. cut \in [Value -> KeyNodes]
  BY <1>1, <1>2
<1>4. CASE Matches(cur, k, hit)
  <2>1. IterStep(it, k, hit)
        = [idx |-> it.idx, max |-> it.max - 1, cur |-> nxt, nx |-> cut, last |-> end]
    BY <1>4 DEF IterStep
  <2> HIDE DEF cur, nxt, cut, end
  <2> QED BY <1>1, <1>2, <1>3, <2>1 DEF Iter
<1>5. CASE ~Matches(cur, k, hit)
  <2>1. IterStep(it, k, hit) = [it EXCEPT !.idx = @ + 1, !.cur = cur]
    BY <1>5 DEF IterStep
  <2> HIDE DEF cur, nxt, cut, end
  <2>2. IterStep(it, k, hit) = [idx |-> it.idx + 1, max |-> it.max, cur |-> cur,
                                nx |-> it.nx, last |-> it.last]
    BY <1>1, <2>1
  <2> QED BY <1>1, <1>2, <2>2 DEF Iter
<1> QED BY <1>4, <1>5

LEMMA LoopTyped ==
  ASSUME TypeOK, NEW o \in Value, NEW k, NEW hit
  PROVE  /\ RemoveLoop(o, k, hit).nx \in [Value -> KeyNodes]
         /\ RemoveLoop(o, k, hit).last \in KeyNodes
         /\ RemoveLoop(o, k, hit).max \in Nat
<1> DEFINE L == len[o]  p == Removing(k, hit)
<1>1. /\ L \in Nat /\ valOf \in [KeyNodes -> Value] /\ next \in [Value -> KeyNodes]
      /\ last[o] \in KeyNodes
  BY DEF TypeOK
<1>2. PICK w : Trace(w, p, Began(o), L)
  BY <1>1, TraceExists
<1>3. Began(o) \in Iter /\ Began(o).max - Began(o).idx = L
  BY <1>1 DEF Began, Iter
<1>4. w[0] = Began(o) /\ \A j \in 1..L : w[j] = IterStep(w[j - 1], k, hit)
  <2>1. \A j, x : Turn(p, j, x) = IterStep(x, k, hit)
    BY DEF Turn, Removing
  <2> HIDE DEF p, L
  <2> QED BY <1>1, <1>2, <2>1, TraceTurns
<1> DEFINE Good(j) == w[j] \in Iter /\ w[j].max - w[j].idx = L - j
           T == {j \in 0..L : ~Good(j)}
<1>5. T = {}
  <2> SUFFICES ASSUME T # {} PROVE FALSE
    OBVIOUS
  <2>1. PICK m \in T : \A y \in T : m <= y
    <3>1. T \subseteq Nat
      OBVIOUS
    <3> HIDE DEF T
    <3> QED BY <3>1, Smallest
  <2>2. m \in 1..L /\ ~Good(m)
    <3>1. Good(0)
      BY <1>1, <1>3, <1>4
    <3> HIDE DEF Good, L
    <3> QED BY <1>1, <2>1, <3>1
  <2>3. Good(m - 1) /\ m - 1 \in 0..L
    <3> HIDE DEF Good, L
    <3> QED BY <1>1, <2>1, <2>2
  <2>4. w[m] = IterStep(w[m - 1], k, hit)
    BY <1>4, <2>2
  <2>5. w[m] \in Iter /\ w[m].max - w[m].idx = (w[m - 1].max - w[m - 1].idx) - 1
    BY <1>1, <2>3, <2>4, StepTyped
  <2> QED BY <1>1, <2>2, <2>3, <2>5
<1>6. w[L] \in Iter /\ w[L].max - w[L].idx = 0
  BY <1>1, <1>5
<1>7. RemoveLoop(o, k, hit) = w[L]
  BY <1>1, <1>2, LoopTrace
<1>8. w[L].max \in Nat
  <2>1. w[L].max \in Int /\ w[L].idx \in Nat
    BY <1>6 DEF Iter
  <2> QED BY <1>6, <2>1
<1> QED BY <1>6, <1>7, <1>8 DEF Iter

-----------------------------------------------------------------------------
(* Types.  Nothing is asked of the client here.                            *)
Owned == used \subseteq Value /\ Root \in used /\ \A n \in KeyNodes : valOf[n] \in used

LEMMA WalkTyped ==
  ASSUME NEW nx \in [Value -> KeyNodes], NEW vo \in [KeyNodes -> Value],
         NEW n \in KeyNodes, NEW k \in Nat
  PROVE  WalkIn(nx, vo, n, k) \in KeyNodes
<1> DEFINE T == {m \in Nat : WalkIn(nx, vo, n, m) \notin KeyNodes}
<1> SUFFICES ASSUME T # {} PROVE FALSE
  OBVIOUS
<1>1. PICK m \in T : \A y \in T : m <= y
  <2>1. T \subseteq Nat
    OBVIOUS
  <2> HIDE DEF T
  <2> QED BY <2>1, Smallest
<1>2. m # 0
  BY <1>1, WalkStep
<1>3. m - 1 \in Nat /\ (m - 1) + 1 = m /\ WalkIn(nx, vo, n, m - 1) \in KeyNodes
  BY <1>1, <1>2
<1>4. WalkIn(nx, vo, n, (m - 1) + 1) = nx[vo[WalkIn(nx, vo, n, m - 1)]]
  BY <1>3, WalkStep
<1> QED BY <1>1, <1>3, <1>4

LEMMA RingTyped ==
  ASSUME TypeOK, NEW o \in Value
  PROVE  \A i \in 1..len[o] : Ring(o)[i] \in KeyNodes /\ Ring(o)[i] = Walk(last[o], i)
<1>0. /\ next \in [Value -> KeyNodes] /\ valOf \in [KeyNodes -> Value]
      /\ last[o] \in KeyNodes /\ len[o] \in Nat
  BY DEF TypeOK
<1>1. ASSUME NEW i \in 1..len[o] PROVE WalkIn(next, valOf, last[o], i) \in KeyNodes
  <2>1. i \in Nat
    BY <1>0
  <2> QED BY <1>0, <2>1, WalkTyped
<1>2. \A i \in 1..len[o] : Walk(last[o], i) \in KeyNodes
  BY <1>1 DEF Walk, WalkIn
<1> QED BY <1>2 DEF Ring

LEMMA FirstMatchIs ==
  ASSUME TypeOK, NEW o \in Value, NEW k, NEW hit, HasMatch(o, k, hit)
  PROVE  /\ FirstMatch(o, k, hit) \in 1..len[o]
         /\ Matches(Ring(o)[FirstMatch(o, k, hit)], k, hit)
         /\ \A j \in 1..(FirstMatch(o, k, hit) - 1) : ~Matches(Ring(o)[j], k, hit)
<1> DEFINE T == {i \in 1..len[o] : Matches(Ring(o)[i], k, hit)}
<1>1. T # {}
  BY RingTyped DEF HasMatch, InRing
<1>2. T \subseteq Nat /\ len[o] \in Nat
  BY DEF TypeOK
<1>3. PICK i \in T : \A y \in T : i <= y
  <2> HIDE DEF T
  <2> QED BY <1>1, <1>2, Smallest
<1>4. /\ i \in 1..len[o] /\ Matches(Ring(o)[i], k, hit)
      /\ \A j \in 1..(i - 1) : ~Matches(Ring(o)[j], k, hit)
  BY <1>2, <1>3
<1> QED BY <1>4 DEF FirstMatch

LEMMA MatchOwned ==
  ASSUME TypeOK, Owned, NEW o \in Value, NEW k, NEW hit, HasMatch(o, k, hit)
  PROVE  /\ Ring(o)[FirstMatch(o, k, hit)] \in KeyNodes
         /\ valOf[Ring(o)[FirstMatch(o, k, hit)]] \in used
BY FirstMatchIs, RingTyped DEF Owned

LEMMA LinkTyped ==
  ASSUME TypeOK, Owned, NEW o \in Value, NEW k \in Keys, NEW n \in KeyNodes,
         NEW v \in Value, NewKey(o, k, n), top' = n, LinkEntry(o, k, n, v),
         used' \subseteq Value, used \subseteq used', v \in used', held' \subseteq used',
         UNCHANGED <<what, freed, ret>>
  PROVE  TypeOK' /\ Owned'
<1>1. next' \in [Value -> KeyNodes] /\ last' \in [Value -> KeyNodes]
  BY DEF TypeOK, LinkEntry
<1>2. len' \in [Value -> Nat] /\ valOf' \in [KeyNodes -> Value]
      /\ key' \in [KeyNodes -> Keys \cup {Unset}]
  BY DEF TypeOK, LinkEntry
<1>3. top' \in 0..PoolKeys
  BY NodesAssumption DEF KeyNodes
<1>4. \A m \in KeyNodes : valOf'[m] \in used'
  BY DEF TypeOK, LinkEntry, Owned
<1> QED BY <1>1, <1>2, <1>3, <1>4 DEF TypeOK, Owned

LEMMA AddTyped ==
  ASSUME TypeOK, Owned, NEW o \in Value, NEW k \in Keys, NEW n \in KeyNodes, NEW v \in Value,
         \/ CreateJsonMut(o, k, n, v) \/ JsonToMut(o, k, n, v)
         \/ Add(o, k, n, v) \/ Bind(o, k, n, v)
  PROVE  TypeOK' /\ Owned'
<1>1. CASE CreateJsonMut(o, k, n, v)
  BY <1>1, LinkTyped DEF CreateJsonMut, TypeOK
<1>2. CASE JsonToMut(o, k, n, v)
  BY <1>2, LinkTyped DEF JsonToMut, TypeOK
<1>3. CASE Add(o, k, n, v)
  BY <1>3, LinkTyped DEF Add, TypeOK
<1>4. CASE Bind(o, k, n, v)
  BY <1>4, LinkTyped DEF Bind, TypeOK, Free
<1> QED BY <1>1, <1>2, <1>3, <1>4

LEMMA RemoveTyped ==
  ASSUME TypeOK, Owned, NEW o \in Value, NEW k, NEW hit, RemoveObj(o, k, hit)
  PROVE  TypeOK' /\ Owned'
<1> DEFINE end == RemoveLoop(o, k, hit)
<1>1. end.nx \in [Value -> KeyNodes] /\ end.last \in KeyNodes /\ end.max \in Nat
  BY LoopTyped
<1>2. /\ next' = end.nx /\ last' = [last EXCEPT ![o] = end.last]
      /\ len' = [len EXCEPT ![o] = end.max] /\ ret' = TRUE
      /\ UNCHANGED <<used, top, held, what, valOf, key, freed>>
  BY DEF RemoveObj
<1> HIDE DEF end
<1> QED BY <1>1, <1>2 DEF TypeOK, Owned

LEMMA ReplaceTyped ==
  ASSUME TypeOK, Owned, NEW o \in Value, NEW k \in Keys, NEW v \in Value, NEW hit,
         ReplaceObj(o, k, v, hit)
  PROVE  TypeOK' /\ Owned'
<1> DEFINE n == Ring(o)[FirstMatch(o, k, hit)]
<1>1. CASE ret' = FALSE /\ UNCHANGED <<what, last, len, key, freed>>
  BY <1>1 DEF ReplaceObj, TypeOK, Owned
<1>2. CASE /\ IsObj(o) /\ HasMatch(o, k, hit) /\ SwapContent(valOf[n], v)
           /\ key' = [key EXCEPT ![n] = k] /\ freed' = freed \cup {n} /\ ret' = TRUE
  <2>1. n \in KeyNodes /\ valOf[n] \in Value
    BY <1>2, MatchOwned DEF TypeOK
  <2>2. UNCHANGED <<used, top, held, next, valOf>>
    BY DEF ReplaceObj
  <2> HIDE DEF n
  <2>3. /\ what' \in [Value -> Value] /\ last' \in [Value -> KeyNodes]
        /\ len' \in [Value -> Nat] /\ key' \in [KeyNodes -> Keys \cup {Unset}]
    BY <1>2, <2>1 DEF TypeOK, SwapContent, Swap
  <2> QED BY <1>2, <2>1, <2>2, <2>3 DEF TypeOK, Owned
<1> QED BY <1>1, <1>2 DEF ReplaceObj

LEMMA OtherTyped ==
  ASSUME TypeOK, Owned, NEW o \in Value, NEW k, NEW hit,
         CreateFree(o) \/ CleanObj(o) \/ GetPointer(o, k, hit)
  PROVE  TypeOK' /\ Owned'
<1>1. CASE CreateFree(o)
  BY <1>1 DEF CreateFree, TypeOK, Owned
<1>2. CASE CleanObj(o)
  BY <1>2 DEF CleanObj, TypeOK, Owned
<1>3. CASE GetPointer(o, k, hit)
  <2>1. valOf[Ring(o)[FirstMatch(o, k, hit)]] \in used
    BY <1>3, MatchOwned DEF GetPointer
  <2> QED BY <1>3, <2>1 DEF GetPointer, TypeOK, Owned
<1> QED BY <1>1, <1>2, <1>3

LEMMA TypeNext ==
  ASSUME TypeOK, Owned, [Next]_vars
  PROVE  TypeOK' /\ Owned'
<1>1. CASE UNCHANGED vars
  BY <1>1 DEF vars, TypeOK, Owned
<1> QED BY <1>1, AddTyped, RemoveTyped, ReplaceTyped, OtherTyped DEF Next

-----------------------------------------------------------------------------
(* Contents: each is in one node, and one not handed out is where it was   *)
(* born.                                                                   *)
Contents ==
  /\ \A v, w \in Value : what[v] = what[w] => v = w
  /\ \A c \in Value : \E v \in Value : what[v] = c
  /\ \A v \in Value \ used : what[v] = v

Typed == TypeOK /\ Owned /\ Contents

LEMMA SwapContents ==
  ASSUME Typed, NEW a \in used, NEW b \in used, what' = Swap(what, a, b), used' = used
  PROVE  Contents'
<1>1. /\ what \in [Value -> Value] /\ a \in Value /\ b \in Value /\ a \in used /\ b \in used
      /\ \A v, w \in Value : what[v] = what[w] => v = w
      /\ \A c \in Value : \E v \in Value : what[v] = c
      /\ \A v \in Value \ used : what[v] = v
  BY DEF Typed, TypeOK, Contents
<1>2. \A x \in Value : what'[x] = IF x = a THEN what[b] ELSE IF x = b THEN what[a] ELSE what[x]
  <2>1. \A x \in Value :
          Swap(what, a, b)[x] = IF x = a THEN what[b] ELSE IF x = b THEN what[a] ELSE what[x]
    BY <1>1, SMT DEF Swap
  <2> QED BY <2>1
<1>3. \A v, w \in Value : what'[v] = what'[w] => v = w
  BY <1>1, <1>2
<1>4. ASSUME NEW c \in Value PROVE \E v \in Value : what'[v] = c
  <2>1. PICK v \in Value : what[v] = c
    BY <1>1
  <2>2. what'[IF v = a THEN b ELSE IF v = b THEN a ELSE v] = c
    BY <1>1, <1>2, <2>1
  <2> QED BY <1>1, <2>2
<1>5. \A v \in Value \ used' : what'[v] = v
  BY <1>1, <1>2
<1> QED BY <1>3, <1>4, <1>5 DEF Contents

LEMMA SameContents ==
  ASSUME Contents, what' = what, used \subseteq used'
  PROVE  Contents'
BY DEF Contents

LEMMA ReplaceContents ==
  ASSUME Typed, NEW o \in Value, NEW k, NEW v \in Value, NEW hit, ReplaceObj(o, k, v, hit)
  PROVE  Contents'
<1> DEFINE n == Ring(o)[FirstMatch(o, k, hit)]
<1>1. CASE what' = what
  BY <1>1, SameContents DEF ReplaceObj, Typed
<1>2. CASE HasMatch(o, k, hit) /\ what' = Swap(what, valOf[n], v)
  <2>1. valOf[n] \in used /\ v \in used /\ used' = used
    BY <1>2, MatchOwned DEF ReplaceObj, Typed, Free, TypeOK
  <2> HIDE DEF n
  <2> QED BY <1>2, <2>1, SwapContents
<1> QED BY <1>1, <1>2 DEF ReplaceObj, SwapContent

LEMMA TypedNext ==
  ASSUME Typed, [Next]_vars
  PROVE  Typed'
<1>1. SUFFICES Contents'
  BY TypeNext DEF Typed
<1>2. ASSUME NEW o \in Value, NEW k, NEW v \in Value, NEW hit, ReplaceObj(o, k, v, hit)
      PROVE  Contents'
  BY <1>2, ReplaceContents
<1>3. CASE what' = what /\ used \subseteq used'
  BY <1>3, SameContents DEF Typed
<1>4. CASE UNCHANGED vars
  BY <1>3, <1>4 DEF vars
<1>5. ASSUME NEW v \in Value, CreateFree(v) \/ CleanObj(v)
      PROVE  Contents'
  BY <1>3, <1>5 DEF CreateFree, CleanObj
<1>6. ASSUME NEW o \in Value, NEW v \in Value, NEW k, NEW n,
             \/ CreateJsonMut(o, k, n, v) \/ JsonToMut(o, k, n, v)
             \/ Add(o, k, n, v) \/ Bind(o, k, n, v)
      PROVE  Contents'
  BY <1>3, <1>6 DEF CreateJsonMut, JsonToMut, Add, Bind
<1>7. ASSUME NEW o \in Value, NEW k, NEW hit, RemoveObj(o, k, hit) \/ GetPointer(o, k, hit)
      PROVE  Contents'
  BY <1>3, <1>7 DEF RemoveObj, GetPointer
<1> QED BY <1>2, <1>4, <1>5, <1>6, <1>7 DEF Next

LEMMA InitTyped ==
  ASSUME Init
  PROVE  Typed
<1>1. Root \in Value /\ 1 \in KeyNodes /\ 0 \in 0..PoolKeys
  BY NodesAssumption DEF Value, KeyNodes
<1>2. Contents
  BY DEF Init, Contents
<1> QED BY <1>1, <1>2 DEF Init, Typed, TypeOK, Owned

(* The pool owns every node an entry leads to, and each content is in one  *)
(* node, whatever the client does.                                         *)
THEOREM TypedAlways == Spec => []Typed
<1>1. Init => Typed
  BY InitTyped
<1>2. Typed /\ [Next]_vars => Typed'
  BY TypedNext
<1> QED BY <1>1, <1>2, PTL DEF Spec

(* Types of the fields of the nodes of mutable objects.                    *)
THEOREM TypeCorrect == Spec => []TypeOK
<1>1. Typed => TypeOK
  BY DEF Typed
<1> QED BY <1>1, TypedAlways, PTL

(* replaceObj loses no content and leaves none in two nodes, for any       *)
(* client: also for one that reads the bytes of released keys.             *)
THEOREM ContentsKept == Spec => []ContentKept
<1>1. Typed => ContentKept
  BY DEF Typed, Contents, ContentKept
<1> QED BY <1>1, TypedAlways, PTL

-----------------------------------------------------------------------------
(* The sequences the links represent, when the client never adds a key     *)
(* twice and reads no released byte.  Without that they represent none:    *)
(* remove steps over the entry after a match, and a second match there may *)
(* leave uni.ptr on a key node that is no longer linked.                   *)
Disciplined == DistinctKeys /\ ~ReadsFreed

Apart(s) ==
  \A o, p \in Value : \A i \in 1..Len(s[o]), j \in 1..Len(s[p]) :
    valOf[s[o][i]] = valOf[s[p][j]] => o = p /\ i = j

Listed(s, o) ==
  /\ Lists(s[o], next, valOf, last[o])
  /\ Len(s[o]) = len[o]
  /\ len[o] > 0 => IsObj(o)
  /\ \A i \in 1..Len(s[o]) : s[o][i] <= top /\ valOf[s[o][i]] \in used \ {Root}
  /\ \A i, j \in 1..Len(s[o]) : key[s[o][i]] = key[s[o][j]] => i = j

Rep(s) ==
  /\ s \in [Value -> Seq(KeyNodes)]
  /\ \A o \in Value : Listed(s, o)
  /\ Apart(s)

LEMMA RepRing ==
  ASSUME NEW s, Rep(s), NEW o \in Value
  PROVE  /\ Ring(o) = s[o] /\ s[o] \in Seq(KeyNodes)
         /\ Len(s[o]) = len[o] /\ len[o] \in Nat
         /\ \A n : n \in InRing(o) <=> \E i \in 1..Len(s[o]) : n = s[o][i]
<1>1. Lists(s[o], next, valOf, last[o]) /\ Len(s[o]) = len[o]
  BY DEF Rep, Listed
<1>2. s[o] \in Seq(KeyNodes) /\ Len(s[o]) \in Nat
  BY <1>1 DEF Lists
<1>3. [i \in 1..Len(s[o]) |-> WalkIn(next, valOf, last[o], i)] = s[o]
  BY <1>1, RingIn
<1>4. Ring(o) = [i \in 1..len[o] |-> WalkIn(next, valOf, last[o], i)]
  BY DEF Ring, Walk, WalkIn
<1>5. \A i : Walk(last[o], i) = WalkIn(next, valOf, last[o], i)
  BY DEF Walk, WalkIn
<1>6. \A i \in 1..Len(s[o]) : Walk(last[o], i) = s[o][i]
  BY <1>3, <1>5
<1> QED BY <1>1, <1>2, <1>3, <1>4, <1>6 DEF InRing

LEMMA RepLinked ==
  ASSUME NEW s, Rep(s), NEW v
  PROVE  Linked(v) <=> \E o \in Value : \E i \in 1..Len(s[o]) : valOf[s[o][i]] = v
<1>1. \A o \in Value : \A n : n \in InRing(o) <=> \E i \in 1..Len(s[o]) : n = s[o][i]
  BY RepRing
<1>2. ASSUME NEW o \in Value, NEW i \in 1..Len(s[o]) PROVE IsObj(o)
  <2>1. Len(s[o]) = len[o] /\ len[o] \in Nat /\ (len[o] > 0 => IsObj(o))
    BY RepRing DEF Rep, Listed
  <2> QED BY <2>1
<1> QED BY <1>1, <1>2 DEF Linked

LEMMA SameStep ==
  ASSUME NEW s, Rep(s), UNCHANGED <<what, top, next, last, len, valOf, key>>,
         used \subseteq used'
  PROVE  Rep(s)'
<1>1. ASSUME NEW o \in Value PROVE Listed(s, o)'
  <2>1. Listed(s, o)
    BY DEF Rep
  <2> QED BY <2>1 DEF Listed, IsObj
<1>2. Apart(s)'
  BY DEF Rep, Apart
<1> QED BY <1>1, <1>2 DEF Rep

(* An edit of the sequence of o that keeps the entries of the others.      *)
LEMMA EditStep ==
  ASSUME NEW s, Rep(s), NEW o \in Value, NEW r,
         Lists(r, next', valOf', last'[o]), Len(r) = len'[o], IsObj(o), what' = what,
         used \subseteq used', top \in Nat, top' \in Nat, top <= top',
         \A i \in 1..Len(r) : r[i] <= top' /\ valOf'[r[i]] \in used' \ {Root},
         \A i, j \in 1..Len(r) : key'[r[i]] = key'[r[j]] => i = j,
         \A p \in Value \ {o} :
           /\ last'[p] = last[p] /\ len'[p] = len[p]
           /\ \A i \in 1..Len(s[p]) :
                /\ valOf'[s[p][i]] = valOf[s[p][i]] /\ key'[s[p][i]] = key[s[p][i]]
                /\ next'[valOf[s[p][i]]] = next[valOf[s[p][i]]]
                /\ \A j \in 1..Len(r) : valOf'[r[j]] # valOf[s[p][i]]
  PROVE  Rep([s EXCEPT ![o] = r])'
<1> DEFINE z == [s EXCEPT ![o] = r]
<1>1. /\ z \in [Value -> Seq(KeyNodes)] /\ z[o] = r
      /\ \A p \in Value \ {o} : z[p] = s[p]
  BY DEF Rep, Lists
<1> HIDE DEF z
<1>2. ASSUME NEW p \in Value PROVE Listed(z, p)'
  <2>1. CASE p = o
    BY <1>1, <2>1 DEF Listed, IsObj
  <2>2. CASE p # o
    <3>1. Listed(s, p) /\ z[p] = s[p] /\ s[p] \in Seq(KeyNodes) /\ Len(s[p]) \in Nat
      BY <1>1, <2>2 DEF Rep
    <3>2. /\ last'[p] = last[p] /\ len'[p] = len[p]
          /\ \A i \in 1..Len(s[p]) :
               /\ valOf'[s[p][i]] = valOf[s[p][i]] /\ key'[s[p][i]] = key[s[p][i]]
               /\ next'[valOf[s[p][i]]] = next[valOf[s[p][i]]]
      BY <2>2
    <3>3. Lists(s[p], next', valOf', last'[p])
      <4>1. Lists(s[p], next, valOf, last[p])
        BY <3>1 DEF Listed
      <4>2. \A i, j \in 1..Len(s[p]) : valOf'[s[p][i]] = valOf'[s[p][j]] => i = j
        BY <3>2, <4>1 DEF Lists
      <4>3. \A i \in 1..Len(s[p]) :
              next'[valOf'[s[p][i]]] = IF i = Len(s[p]) THEN s[p][1] ELSE s[p][i + 1]
        BY <3>2, <4>1 DEF Lists, Cycle
      <4>4. Len(s[p]) > 0 => s[p][Len(s[p])] = last'[p]
        BY <3>2, <4>1 DEF Lists, Cycle
      <4> QED BY <3>1, <4>2, <4>3, <4>4 DEF Lists, Cycle
    <3>4. \A i \in 1..Len(s[p]) : s[p][i] <= top' /\ valOf'[s[p][i]] \in used' \ {Root}
      <4>1. \A i \in 1..Len(s[p]) : s[p][i] \in Nat
        BY <3>1, NodesAssumption DEF KeyNodes
      <4> QED BY <3>1, <3>2, <4>1 DEF Listed
    <3> QED BY <3>1, <3>2, <3>3, <3>4 DEF Listed, IsObj
  <2> QED BY <2>1, <2>2
<1>3. Apart(z)'
  <2> SUFFICES ASSUME NEW p \in Value, NEW q \in Value,
                      NEW i \in 1..Len(z[p]), NEW j \in 1..Len(z[q]),
                      valOf'[z[p][i]] = valOf'[z[q][j]]
               PROVE  p = q /\ i = j
    BY DEF Apart
  <2>1. CASE p = o /\ q = o
    BY <1>1, <2>1 DEF Lists
  <2>2. CASE p # o /\ q # o
    BY <1>1, <2>2 DEF Rep, Apart
  <2>3. CASE p = o /\ q # o
    BY <1>1, <2>3
  <2>4. CASE p # o /\ q = o
    BY <1>1, <2>4
  <2> QED BY <2>1, <2>2, <2>3, <2>4
<1> QED BY <1>1, <1>2, <1>3 DEF Rep, z

LEMMA AppendStep ==
  ASSUME Typed, Disciplined, NEW s, Rep(s), NEW o \in Value, IsObj(o), NEW k \in Keys,
         NEW n \in KeyNodes, NewKey(o, k, n), NEW v \in used' \ {Root}, v \in Value,
         ~Linked(v), LinkEntry(o, k, n, v), top' = n, what' = what, used \subseteq used'
  PROVE  Rep([s EXCEPT ![o] = Append(s[o], n)])'
<1> DEFINE L == Len(s[o])  r == Append(s[o], n)
<1>1. /\ next \in [Value -> KeyNodes] /\ valOf \in [KeyNodes -> Value]
      /\ last \in [Value -> KeyNodes] /\ len \in [Value -> Nat] /\ top \in Nat
      /\ DOMAIN key = KeyNodes
  BY DEF Typed, TypeOK
<1>2. s[o] \in Seq(KeyNodes) /\ L = len[o] /\ Lists(s[o], next, valOf, last[o]) /\ L \in Nat
  BY RepRing DEF Rep, Listed
<1>3. \A p \in Value : \A i \in 1..Len(s[p]) :
        /\ s[p][i] \in KeyNodes /\ s[p][i] # n /\ s[p][i] <= top
        /\ valOf[s[p][i]] # v /\ valOf[s[p][i]] \in Value
  <2> SUFFICES ASSUME NEW p \in Value, NEW i \in 1..Len(s[p])
               PROVE  /\ s[p][i] \in KeyNodes /\ s[p][i] # n /\ s[p][i] <= top
                      /\ valOf[s[p][i]] # v /\ valOf[s[p][i]] \in Value
    OBVIOUS
  <2>1. s[p][i] \in KeyNodes /\ s[p][i] <= top
    BY RepRing DEF Rep, Listed
  <2>2. n = top + 1
    BY DEF NewKey
  <2>3. valOf[s[p][i]] # v
    BY RepLinked
  <2>4. s[p][i] \in Nat
    BY <2>1, NodesAssumption DEF KeyNodes
  <2>5. s[p][i] # n
    <3>1. \A x \in Nat, y \in Nat : x <= y => x # y + 1
      OBVIOUS
    <3>2. top \in Nat
      BY <1>1
    <3> QED BY <2>1, <2>2, <2>4, <3>1, <3>2
  <2> QED BY <1>1, <2>1, <2>3, <2>5
<1>4. /\ valOf' = [valOf EXCEPT ![n] = v] /\ last' = [last EXCEPT ![o] = n]
      /\ len' = [len EXCEPT ![o] = len[o] + 1] /\ key' = [key EXCEPT ![n] = k]
      /\ next' = LinkedOn(next, valOf, last[o], s[o], n, v)
  BY <1>2 DEF LinkEntry, LinkedOn
<1>5. Lists(r, next', valOf', last'[o])
  <2>1. Lists(r, LinkedOn(next, valOf, last[o], s[o], n, v), [valOf EXCEPT ![n] = v], n)
    BY <1>1, <1>2, <1>3, AppendCycle
  <2>2. last'[o] = n
    BY <1>1, <1>4
  <2> QED BY <1>4, <2>1, <2>2
<1>6. r \in Seq(KeyNodes) /\ Len(r) = L + 1 /\ r[L + 1] = n /\ \A i \in 1..L : r[i] = s[o][i]
  BY <1>2
<1>7. Len(r) = len'[o]
  BY <1>1, <1>2, <1>4, <1>6
<1>8. \A i \in 1..L : key[s[o][i]] # k
  BY RepRing DEF NewKey, HasKey, Disciplined
<1>9. valOf'[n] = v /\ key'[n] = k
      /\ \A m \in KeyNodes \ {n} : valOf'[m] = valOf[m] /\ key'[m] = key[m]
  BY <1>1, <1>4
<1>10. top' \in Nat /\ top <= top'
  BY <1>1 DEF NewKey
<1> HIDE DEF r
<1>11. \A i \in 1..Len(r) : r[i] <= top' /\ valOf'[r[i]] \in used' \ {Root}
  <2> SUFFICES ASSUME NEW i \in 1..Len(r)
               PROVE  r[i] <= top' /\ valOf'[r[i]] \in used' \ {Root}
    OBVIOUS
  <2>1. CASE i = L + 1
    BY <1>6, <1>9, <1>10, <2>1
  <2>2. CASE i # L + 1
    <3>1. i \in 1..L /\ r[i] = s[o][i]
      BY <1>2, <1>6, <2>2
    <3>2. s[o][i] \in Nat
      BY <1>3, <3>1, NodesAssumption DEF KeyNodes
    <3>3. valOf[s[o][i]] \in used \ {Root}
      BY <3>1 DEF Rep, Listed
    <3>4. valOf'[r[i]] \in used' \ {Root}
      BY <1>1, <1>3, <1>9, <3>1, <3>3
    <3>5. s[o][i] <= top
      BY <1>3, <3>1
    <3>6. \A x, y, z \in Nat : x <= y /\ y <= z => x <= z
      OBVIOUS
    <3>7. r[i] <= top'
      BY <1>1, <1>10, <3>1, <3>2, <3>5, <3>6
    <3> QED BY <3>4, <3>7
  <2> QED BY <2>1, <2>2
<1>12. \A i, j \in 1..Len(r) : key'[r[i]] = key'[r[j]] => i = j
  <2>1. \A i \in 1..Len(r) : i = L + 1 \/ i \in 1..L
    BY <1>2, <1>6
  <2>2. \A i \in 1..L : key'[r[i]] = key[s[o][i]]
    BY <1>3, <1>6, <1>9
  <2>3. \A i, j \in 1..L : key[s[o][i]] = key[s[o][j]] => i = j
    BY DEF Rep, Listed
  <2> QED BY <1>6, <1>8, <1>9, <2>1, <2>2, <2>3
<1>13. ASSUME NEW p \in Value \ {o}
       PROVE  /\ last'[p] = last[p] /\ len'[p] = len[p]
              /\ \A i \in 1..Len(s[p]) :
                   /\ valOf'[s[p][i]] = valOf[s[p][i]] /\ key'[s[p][i]] = key[s[p][i]]
                   /\ next'[valOf[s[p][i]]] = next[valOf[s[p][i]]]
                   /\ \A j \in 1..Len(r) : valOf'[r[j]] # valOf[s[p][i]]
  <2>1. last'[p] = last[p] /\ len'[p] = len[p]
    BY <1>1, <1>4
  <2> SUFFICES ASSUME NEW i \in 1..Len(s[p])
               PROVE  /\ valOf'[s[p][i]] = valOf[s[p][i]] /\ key'[s[p][i]] = key[s[p][i]]
                      /\ next'[valOf[s[p][i]]] = next[valOf[s[p][i]]]
                      /\ \A j \in 1..Len(r) : valOf'[r[j]] # valOf[s[p][i]]
    BY <2>1
  <2>2. valOf'[s[p][i]] = valOf[s[p][i]] /\ key'[s[p][i]] = key[s[p][i]]
    BY <1>3, <1>9
  <2>3. \A j \in 1..L : valOf[s[o][j]] # valOf[s[p][i]]
    BY DEF Rep, Apart
  <2>4. next'[valOf[s[p][i]]] = next[valOf[s[p][i]]]
    <3>1. L > 0 => last[o] = s[o][L] /\ L \in 1..L
      BY <1>2 DEF Lists, Cycle
    <3>2. L > 0 => valOf[last[o]] # valOf[s[p][i]]
      BY <2>3, <3>1
    <3>3. valOf[s[p][i]] \in Value /\ valOf[s[p][i]] # v
      BY <1>3
    <3>4. CASE L = 0
      BY <1>1, <1>4, <3>3, <3>4 DEF LinkedOn
    <3>5. CASE L > 0
      <4>1. next' = [next EXCEPT ![valOf[last[o]]] = n, ![v] = next[valOf[last[o]]]]
        BY <1>4, <3>5 DEF LinkedOn
      <4> QED BY <1>1, <3>2, <3>3, <3>5, <4>1
    <3> QED BY <1>2, <3>4, <3>5
  <2>5. ASSUME NEW j \in 1..Len(r) PROVE valOf'[r[j]] # valOf[s[p][i]]
    <3>1. j = L + 1 \/ j \in 1..L
      BY <1>2, <1>6
    <3> QED BY <1>3, <1>6, <1>9, <2>3, <3>1
  <2> QED BY <2>2, <2>4, <2>5
<1>14. Rep([s EXCEPT ![o] = r])'
  BY <1>1, <1>5, <1>7, <1>10, <1>11, <1>12, <1>13, EditStep
<1> QED BY <1>14 DEF r

-----------------------------------------------------------------------------
(* What the loop of remove does to a cycle none or one of whose key nodes  *)
(* matches: the turns before the match walk the cycle, those after it walk *)
(* what is left of it.                                                     *)
Before(o, q, j) ==
  [idx |-> j, max |-> len[o], cur |-> At(q, j), nx |-> next, last |-> last[o]]

After(o, q, m, j) ==
  [idx |-> j - 1, max |-> len[o] - 1,
   cur |-> IF j = m THEN At(q, m + 1) ELSE At(Dropped(q, m), j),
   nx |-> LinksWithout(next, valOf, q, m), last |-> LastWithout(last[o], q, m)]

(* Turn j goes on, before a match and after one at m.                      *)
Skips(o, q, k, hit, j) == IterStep(Before(o, q, j - 1), k, hit) = Before(o, q, j)

SkipsOn(o, q, m, k, hit, j) == IterStep(After(o, q, m, j - 1), k, hit) = After(o, q, m, j)

LEMMA StepOver ==
  ASSUME NEW a, NEW b, NEW c, NEW f, NEW l, NEW k, NEW hit, ~Matches(f[valOf[c]], k, hit)
  PROVE  IterStep([idx |-> a, max |-> b, cur |-> c, nx |-> f, last |-> l], k, hit)
         = [idx |-> a + 1, max |-> b, cur |-> f[valOf[c]], nx |-> f, last |-> l]
BY DEF IterStep

LEMMA StepOut ==
  ASSUME NEW a, NEW b, NEW c, NEW f, NEW l, NEW k, NEW hit, Matches(f[valOf[c]], k, hit)
  PROVE  IterStep([idx |-> a, max |-> b, cur |-> c, nx |-> f, last |-> l], k, hit)
         = [idx |-> a, max |-> b - 1, cur |-> f[valOf[f[valOf[c]]]],
            nx |-> [f EXCEPT ![valOf[c]] = f[valOf[f[valOf[c]]]]],
            last |-> IF a + 1 = b THEN c ELSE l]
BY DEF IterStep

LEMMA BeforeStep ==
  ASSUME NEW s, Rep(s), NEW o \in Value, NEW k, NEW hit, NEW j \in 1..Len(s[o]),
         ~Matches(s[o][j], k, hit)
  PROVE  Skips(o, s[o], k, hit, j)
<1> DEFINE q == s[o]
<1>1. Lists(q, next, valOf, last[o]) /\ Len(q) = len[o] /\ len[o] \in Nat /\ Len(q) > 0
  BY RepRing DEF Rep, Listed
<1>2. next[valOf[At(q, j - 1)]] = At(q, (j - 1) + 1) /\ At(q, j) = q[j] /\ (j - 1) + 1 = j
  <2>1. j - 1 \in 0..Len(q) /\ (j - 1) + 1 = j
    BY <1>1
  <2> QED BY <1>1, <2>1, AtNext
<1>3. next[valOf[At(q, j - 1)]] = At(q, j) /\ ~Matches(next[valOf[At(q, j - 1)]], k, hit)
  BY <1>2
<1> HIDE DEF q
<1>4. IterStep([idx |-> j - 1, max |-> len[o], cur |-> At(q, j - 1), nx |-> next,
                last |-> last[o]], k, hit)
      = [idx |-> (j - 1) + 1, max |-> len[o], cur |-> next[valOf[At(q, j - 1)]],
         nx |-> next, last |-> last[o]]
  BY <1>3, StepOver
<1>5. Skips(o, q, k, hit, j)
  BY <1>2, <1>3, <1>4 DEF Before, Skips
<1> QED BY <1>5 DEF q

LEMMA MatchStep ==
  ASSUME NEW s, Rep(s), NEW o \in Value, NEW k, NEW hit, NEW m \in 1..Len(s[o]),
         Matches(s[o][m], k, hit)
  PROVE  IterStep(Before(o, s[o], m - 1), k, hit) = After(o, s[o], m, m)
<1> DEFINE q == s[o]  L == len[o]
<1>1. Lists(q, next, valOf, last[o]) /\ Len(q) = L /\ L \in Nat /\ Len(q) > 0
  BY RepRing DEF Rep, Listed
<1>2. /\ m - 1 \in 0..Len(q) /\ m \in 0..Len(q) /\ (m - 1) + 1 = m
      /\ ((m - 1) + 1 = L <=> m = Len(q))
  BY <1>1
<1>3. /\ next[valOf[At(q, m - 1)]] = At(q, m) /\ At(q, m) = q[m]
      /\ next[valOf[At(q, m)]] = At(q, m + 1)
  <2>1. next[valOf[At(q, m - 1)]] = At(q, (m - 1) + 1) /\ next[valOf[At(q, m)]] = At(q, m + 1)
    BY <1>1, <1>2, AtNext
  <2>2. At(q, m) = q[m]
    BY <1>1, AtNext
  <2> QED BY <1>2, <2>1, <2>2
<1>4. Matches(next[valOf[At(q, m - 1)]], k, hit)
  BY <1>3
<1> HIDE DEF q, L
<1>5. IterStep([idx |-> m - 1, max |-> L, cur |-> At(q, m - 1), nx |-> next,
                last |-> last[o]], k, hit)
      = [idx |-> m - 1, max |-> L - 1, cur |-> At(q, m + 1),
         nx |-> [next EXCEPT ![valOf[At(q, m - 1)]] = At(q, m + 1)],
         last |-> IF (m - 1) + 1 = L THEN At(q, m - 1) ELSE last[o]]
  <2>1. IterStep([idx |-> m - 1, max |-> L, cur |-> At(q, m - 1), nx |-> next,
                  last |-> last[o]], k, hit)
        = [idx |-> m - 1, max |-> L - 1,
           cur |-> next[valOf[next[valOf[At(q, m - 1)]]]],
           nx |-> [next EXCEPT ![valOf[At(q, m - 1)]] =
                                 next[valOf[next[valOf[At(q, m - 1)]]]]],
           last |-> IF (m - 1) + 1 = L THEN At(q, m - 1) ELSE last[o]]
    BY <1>4, StepOut
  <2> QED BY <1>3, <2>1
<1>6. IterStep(Before(o, q, m - 1), k, hit) = After(o, q, m, m)
  BY <1>2, <1>5 DEF Before, After, LinksWithout, LastWithout, L
<1> QED BY <1>6 DEF q

LEMMA AfterStep ==
  ASSUME Typed, NEW s, Rep(s), NEW o \in Value, NEW k, NEW hit, NEW m \in 1..Len(s[o]),
         \A i \in 1..Len(s[o]) \ {m} : ~Matches(s[o][i], k, hit),
         NEW j \in (m + 1)..Len(s[o])
  PROVE  SkipsOn(o, s[o], m, k, hit, j)
<1> DEFINE q == s[o]  r == Dropped(q, m)  L == len[o]
           nx == LinksWithout(next, valOf, q, m)  l == LastWithout(last[o], q, m)
<1>0. /\ Lists(q, next, valOf, last[o]) /\ Len(q) = L /\ L \in Nat
      /\ q \in Seq(KeyNodes)
  BY RepRing DEF Rep, Listed
<1>1. /\ Lists(q, next, valOf, last[o]) /\ Len(q) = L /\ L \in Nat /\ L > 1
      /\ q \in Seq(KeyNodes) /\ next \in [Value -> KeyNodes] /\ valOf \in [KeyNodes -> Value]
      /\ m \in 1..L /\ j \in (m + 1)..L
  <2>1. next \in [Value -> KeyNodes] /\ valOf \in [KeyNodes -> Value]
    BY DEF Typed, TypeOK
  <2>2. m \in 1..L /\ j \in (m + 1)..L
    BY <1>0
  <2> HIDE DEF L
  <2>3. L > 1
    BY <1>0, <2>2
  <2> QED BY <1>0, <2>1, <2>2, <2>3
<1>2. Lists(r, nx, valOf, l)
  BY <1>1, DropCycle
<1>3. /\ Len(r) = L - 1
      /\ \A i \in 1..(L - 1) :
           (IF i < m THEN i ELSE i + 1) \in 1..L \ {m} /\ r[i] = q[IF i < m THEN i ELSE i + 1]
  <2>1. m \in 1..Len(q) /\ Len(q) = L /\ q \in Seq(KeyNodes)
    BY <1>1
  <2> HIDE DEF q, L
  <2>2. /\ Len(r) = Len(q) - 1
        /\ \A i \in 1..(Len(q) - 1) :
             /\ (IF i < m THEN i ELSE i + 1) \in 1..Len(q) \ {m}
             /\ r[i] = q[IF i < m THEN i ELSE i + 1]
    BY <2>1, DroppedIs
  <2> QED BY <2>1, <2>2
<1>4. \A i \in 1..(L - 1) : ~Matches(r[i], k, hit)
  BY <1>1, <1>3
<1> HIDE DEF r, nx, l, L
<1>5. (IF j - 1 = m THEN At(q, m + 1) ELSE At(r, j - 1)) = At(r, j - 1)
  <2> SUFFICES ASSUME j - 1 = m PROVE At(q, m + 1) = At(r, m)
    OBVIOUS
  <2>1. m \in 1..(L - 1) /\ m + 1 # 0 /\ m + 1 # L + 1 /\ m # 0 /\ m # L /\ ~(m < m)
    BY <1>1
  <2>2. At(q, m + 1) = q[m + 1] /\ At(r, m) = r[m]
    <3>1. m # (L - 1) + 1
      BY <1>1, <2>1
    <3> QED BY <1>1, <1>3, <2>1, <3>1 DEF At
  <2>3. r[m] = q[m + 1]
    BY <1>3, <2>1
  <2> QED BY <2>2, <2>3
<1>6. nx[valOf[At(r, j - 1)]] = At(r, j)
  <2>1. j - 1 \in 0..Len(r) /\ (j - 1) + 1 = j /\ Len(r) > 0
    BY <1>1, <1>3
  <2>2. nx[valOf[At(r, j - 1)]] = At(r, (j - 1) + 1)
    BY <1>2, <2>1, AtNext
  <2> QED BY <2>1, <2>2
<1>7. ~Matches(At(r, j), k, hit)
  <2>1. At(r, j) = r[IF j = L THEN 1 ELSE j] /\ (IF j = L THEN 1 ELSE j) \in 1..(L - 1)
    <3>1. j # 0 /\ (j = Len(r) + 1 <=> j = L) /\ (IF j = L THEN 1 ELSE j) \in 1..(L - 1)
      BY <1>1, <1>3
    <3> QED BY <3>1 DEF At
  <2> QED BY <1>4, <2>1
<1>8. IterStep([idx |-> (j - 1) - 1, max |-> L - 1, cur |-> At(r, j - 1), nx |-> nx,
                last |-> l], k, hit)
      = [idx |-> ((j - 1) - 1) + 1, max |-> L - 1, cur |-> At(r, j), nx |-> nx, last |-> l]
  <2>1. ~Matches(nx[valOf[At(r, j - 1)]], k, hit)
    BY <1>6, <1>7
  <2>2. IterStep([idx |-> (j - 1) - 1, max |-> L - 1, cur |-> At(r, j - 1), nx |-> nx,
                  last |-> l], k, hit)
        = [idx |-> ((j - 1) - 1) + 1, max |-> L - 1, cur |-> nx[valOf[At(r, j - 1)]],
           nx |-> nx, last |-> l]
    BY <2>1, StepOver
  <2> QED BY <1>6, <2>2
<1>9. After(o, q, m, j - 1) = [idx |-> (j - 1) - 1, max |-> L - 1, cur |-> At(r, j - 1),
                               nx |-> nx, last |-> l]
  BY <1>5 DEF After, r, nx, l, L
<1>10. After(o, q, m, j) = [idx |-> ((j - 1) - 1) + 1, max |-> L - 1, cur |-> At(r, j),
                            nx |-> nx, last |-> l]
  <2>1. j # m /\ j - 1 = ((j - 1) - 1) + 1
    BY <1>1
  <2> QED BY <2>1 DEF After, r, nx, l, L
<1> QED BY <1>8, <1>9, <1>10 DEF SkipsOn

LEMMA LoopMisses ==
  ASSUME NEW s, Rep(s), NEW o \in Value, NEW k, NEW hit,
         \A i \in 1..Len(s[o]) : ~Matches(s[o][i], k, hit)
  PROVE  /\ RemoveLoop(o, k, hit).nx = next /\ RemoveLoop(o, k, hit).last = last[o]
         /\ RemoveLoop(o, k, hit).max = len[o]
<1>0. \A j \in 1..Len(s[o]) : Skips(o, s[o], k, hit, j)
  BY BeforeStep
<1> DEFINE q == s[o]  L == len[o]
           w == [j \in 0..L |-> IF j = 0 THEN Began(o) ELSE Before(o, q, j)]
<1>1. Lists(q, next, valOf, last[o]) /\ Len(q) = L /\ L \in Nat
  BY RepRing DEF Rep, Listed
<1>2. Upto(w, L) /\ w[0] = Began(o)
  BY <1>1 DEF Upto
<1>3. ASSUME NEW j \in 1..L PROVE w[j] = Turn(Removing(k, hit), j, w[j - 1])
  <2>1. w[j] = Before(o, q, j)
    BY <1>1
  <2>2. w[j - 1] = Before(o, q, j - 1)
    <3>1. CASE j = 1
      <4>1. At(q, 0) = last[o]
        BY <1>1, AtNext
      <4> QED BY <1>1, <3>1, <4>1 DEF Before, Began
    <3>2. CASE j # 1
      BY <1>1, <3>2
    <3> QED BY <3>1, <3>2
  <2>3. IterStep(Before(o, q, j - 1), k, hit) = Before(o, q, j)
    <3>1. Skips(o, q, k, hit, j)
      BY <1>0, <1>1
    <3> QED BY <3>1 DEF Skips
  <2>4. Turn(Removing(k, hit), j, Before(o, q, j - 1)) = IterStep(Before(o, q, j - 1), k, hit)
    BY DEF Turn, Removing
  <2> QED BY <2>1, <2>2, <2>3, <2>4
<1>4. w[L].nx = next /\ w[L].last = last[o] /\ w[L].max = L
  BY <1>1 DEF Before, Began
<1> HIDE DEF w, L
<1>5. Trace(w, Removing(k, hit), Began(o), L)
  BY <1>1, <1>2, <1>3, TraceIs
<1>6. RemoveLoop(o, k, hit) = w[L]
  BY <1>1, <1>5, LoopTrace DEF L
<1> QED BY <1>4, <1>6 DEF L

LEMMA LoopDrops ==
  ASSUME Typed, NEW s, Rep(s), NEW o \in Value, NEW k, NEW hit, NEW m \in 1..Len(s[o]),
         Matches(s[o][m], k, hit),
         \A i \in 1..Len(s[o]) \ {m} : ~Matches(s[o][i], k, hit)
  PROVE  /\ RemoveLoop(o, k, hit).nx = LinksWithout(next, valOf, s[o], m)
         /\ RemoveLoop(o, k, hit).last = LastWithout(last[o], s[o], m)
         /\ RemoveLoop(o, k, hit).max = len[o] - 1
<1>0. /\ \A j \in 1..(m - 1) : Skips(o, s[o], k, hit, j)
      /\ IterStep(Before(o, s[o], m - 1), k, hit) = After(o, s[o], m, m)
      /\ \A j \in (m + 1)..Len(s[o]) : SkipsOn(o, s[o], m, k, hit, j)
  <2>1. Len(s[o]) \in Nat
    BY RepRing
  <2>2. \A j \in 1..(m - 1) : j \in 1..Len(s[o]) /\ ~Matches(s[o][j], k, hit)
    BY <2>1
  <2>3. \A j \in 1..(m - 1) : Skips(o, s[o], k, hit, j)
    BY <2>2, BeforeStep
  <2>4. IterStep(Before(o, s[o], m - 1), k, hit) = After(o, s[o], m, m)
    BY MatchStep
  <2>5. \A j \in (m + 1)..Len(s[o]) : SkipsOn(o, s[o], m, k, hit, j)
    BY AfterStep
  <2> QED BY <2>3, <2>4, <2>5
<1> DEFINE q == s[o]  L == len[o]
           w == [j \in 0..L |-> IF j = 0 THEN Began(o)
                                ELSE IF j < m THEN Before(o, q, j) ELSE After(o, q, m, j)]
<1>1. Lists(q, next, valOf, last[o]) /\ Len(q) = L /\ L \in Nat /\ m \in 1..L
  BY RepRing DEF Rep, Listed
<1>2. Upto(w, L) /\ w[0] = Began(o)
  BY <1>1 DEF Upto
<1>3. ASSUME NEW j \in 1..L PROVE w[j] = Turn(Removing(k, hit), j, w[j - 1])
  <2>1. j <= m => w[j - 1] = Before(o, q, j - 1)
    <3>1. CASE j = 1
      <4>1. At(q, 0) = last[o]
        BY <1>1, AtNext
      <4> QED BY <1>1, <3>1, <4>1 DEF Before, Began
    <3>2. CASE j # 1
      BY <1>1, <3>2
    <3> QED BY <3>1, <3>2
  <2>2. j > m => w[j - 1] = After(o, q, m, j - 1)
    BY <1>1
  <2>3. w[j] = IF j < m THEN Before(o, q, j) ELSE After(o, q, m, j)
    BY <1>1
  <2>4. Turn(Removing(k, hit), j, w[j - 1]) = IterStep(w[j - 1], k, hit)
    BY DEF Turn, Removing
  <2> HIDE DEF w
  <2>5. CASE j < m
    <3>1. IterStep(Before(o, q, j - 1), k, hit) = Before(o, q, j)
      BY <1>0, <1>1, <2>5 DEF Skips
    <3> QED BY <1>1, <2>1, <2>3, <2>4, <2>5, <3>1
  <2>6. CASE j = m
    <3>1. IterStep(Before(o, q, m - 1), k, hit) = After(o, q, m, m)
      BY <1>0
    <3> QED BY <1>1, <2>1, <2>3, <2>4, <2>6, <3>1
  <2>7. CASE j > m
    <3>1. j \in (m + 1)..Len(s[o])
      BY <1>1, <2>7
    <3>2. IterStep(After(o, q, m, j - 1), k, hit) = After(o, q, m, j)
      BY <1>0, <3>1 DEF SkipsOn
    <3> QED BY <1>1, <2>2, <2>3, <2>4, <2>7, <3>2
  <2> QED BY <1>1, <2>5, <2>6, <2>7
<1>4. w[L] = After(o, q, m, L)
  BY <1>1
<1>5. /\ w[L].nx = LinksWithout(next, valOf, q, m) /\ w[L].max = L - 1
      /\ w[L].last = LastWithout(last[o], q, m)
  BY <1>4 DEF After
<1> HIDE DEF w, L
<1>6. Trace(w, Removing(k, hit), Began(o), L)
  BY <1>1, <1>2, <1>3, TraceIs
<1>7. RemoveLoop(o, k, hit) = w[L]
  BY <1>1, <1>6, LoopTrace DEF L
<1> QED BY <1>5, <1>7 DEF L

-----------------------------------------------------------------------------
(* Each action edits the sequences.                                        *)
IInv == Typed /\ \E s : Rep(s)

(* No released key node is read.                                           *)
LEMMA Reads ==
  ASSUME Disciplined, NEW s, Rep(s), NEW o \in Value, Defined(o), NEW k, NEW hit
  PROVE  \A i \in 1..Len(s[o]) : Matches(s[o][i], k, hit) <=> key[s[o][i]] = k
<1>1. FreedIn(o) = {}
  BY DEF Disciplined, Defined
<1>2. ASSUME NEW i \in 1..Len(s[o]) PROVE s[o][i] \notin freed
  <2>1. s[o][i] \in InRing(o)
    BY RepRing
  <2> QED BY <1>1, <2>1 DEF FreedIn
<1> QED BY <1>2 DEF Matches

LEMMA DropStep ==
  ASSUME Typed, NEW s, Rep(s), NEW o \in Value, IsObj(o), NEW m \in 1..Len(s[o]),
         next' = LinksWithout(next, valOf, s[o], m),
         last' = [last EXCEPT ![o] = LastWithout(last[o], s[o], m)],
         len' = [len EXCEPT ![o] = len[o] - 1],
         UNCHANGED <<used, top, what, valOf, key>>
  PROVE  Rep([s EXCEPT ![o] = Dropped(s[o], m)])'
<1> DEFINE q == s[o]  r == Dropped(q, m)  L == Len(q)
<1>1. /\ next \in [Value -> KeyNodes] /\ valOf \in [KeyNodes -> Value]
      /\ last \in [Value -> KeyNodes] /\ len \in [Value -> Nat]
      /\ top \in 0..PoolKeys
  BY DEF Typed, TypeOK
<1>2. /\ q \in Seq(KeyNodes) /\ L = len[o] /\ L \in Nat /\ Lists(q, next, valOf, last[o])
      /\ m \in 1..L
  BY RepRing DEF Rep, Listed
<1>3. Lists(r, next', valOf', last'[o])
  <2>1. Lists(r, LinksWithout(next, valOf, q, m), valOf, LastWithout(last[o], q, m))
    BY <1>1, <1>2, DropCycle
  <2>2. last'[o] = LastWithout(last[o], q, m)
    BY <1>1
  <2> QED BY <2>1, <2>2
<1>4. Len(r) = L - 1 /\ \A i \in 1..(L - 1) :
        (IF i < m THEN i ELSE i + 1) \in 1..L \ {m} /\ r[i] = q[IF i < m THEN i ELSE i + 1]
  <2> HIDE DEF q
  <2>1. q \in Seq(KeyNodes) /\ m \in 1..Len(q)
    BY <1>2
  <2> QED BY <2>1, DroppedIs
<1> HIDE DEF r
<1>5. Len(r) = len'[o]
  BY <1>1, <1>2, <1>4
<1>6. \A i \in 1..Len(r) : r[i] <= top' /\ valOf'[r[i]] \in used' \ {Root}
  <2>1. \A i \in 1..L : q[i] <= top /\ valOf[q[i]] \in used \ {Root}
    BY DEF Rep, Listed
  <2> HIDE DEF q, L
  <2> QED BY <1>4, <2>1
<1>7. \A i, j \in 1..Len(r) : key'[r[i]] = key'[r[j]] => i = j
  <2>1. \A i, j \in 1..L : key[q[i]] = key[q[j]] => i = j
    BY DEF Rep, Listed
  <2> HIDE DEF q, L
  <2> SUFFICES ASSUME NEW i \in 1..Len(r), NEW j \in 1..Len(r), key'[r[i]] = key'[r[j]]
               PROVE  i = j
    OBVIOUS
  <2>2. (IF i < m THEN i ELSE i + 1) = (IF j < m THEN j ELSE j + 1)
    BY <1>4, <2>1
  <2>3. i \in 1..(L - 1) /\ j \in 1..(L - 1)
    BY <1>4
  <2> QED BY <1>2, <2>2, <2>3
<1>8. ASSUME NEW p \in Value \ {o}
      PROVE  /\ last'[p] = last[p] /\ len'[p] = len[p]
             /\ \A i \in 1..Len(s[p]) :
                  /\ valOf'[s[p][i]] = valOf[s[p][i]] /\ key'[s[p][i]] = key[s[p][i]]
                  /\ next'[valOf[s[p][i]]] = next[valOf[s[p][i]]]
                  /\ \A j \in 1..Len(r) : valOf'[r[j]] # valOf[s[p][i]]
  <2>1. last'[p] = last[p] /\ len'[p] = len[p]
    BY <1>1
  <2> SUFFICES ASSUME NEW i \in 1..Len(s[p])
               PROVE  /\ next'[valOf[s[p][i]]] = next[valOf[s[p][i]]]
                      /\ \A j \in 1..Len(r) : valOf'[r[j]] # valOf[s[p][i]]
    BY <2>1
  <2>2. \A j \in 1..L : valOf[q[j]] # valOf[s[p][i]]
    BY DEF Rep, Apart
  <2>3. valOf[s[p][i]] \in Value
    <3>1. s[p][i] \in KeyNodes
      BY RepRing
    <3> QED BY <1>1, <3>1
  <2>4. \E j \in 1..L : At(q, m - 1) = q[j]
    <3>1. At(q, m - 1) = IF m = 1 THEN q[L] ELSE q[m - 1]
      BY <1>2 DEF At
    <3>2. (IF m = 1 THEN L ELSE m - 1) \in 1..L
      BY <1>2
    <3> QED BY <3>1, <3>2
  <2> HIDE DEF q, L
  <2>5. next'[valOf[s[p][i]]] = next[valOf[s[p][i]]]
    BY <1>1, <2>2, <2>3, <2>4 DEF LinksWithout, q
  <2>6. \A j \in 1..Len(r) : valOf'[r[j]] # valOf[s[p][i]]
    BY <1>4, <2>2
  <2> QED BY <2>5, <2>6
<1>9. Rep([s EXCEPT ![o] = r])'
  <2>1. used \subseteq used' /\ top' \in Nat /\ top <= top'
    BY <1>1
  <2> QED BY <1>1, <1>3, <1>5, <1>6, <1>7, <1>8, <2>1, EditStep
<1> QED BY <1>9 DEF r

LEMMA RemoveStep ==
  ASSUME Typed, Disciplined, NEW s, Rep(s), NEW o \in Value, NEW k, NEW hit,
         RemoveObj(o, k, hit)
  PROVE  \/ (\A i \in 1..Len(s[o]) : key[s[o][i]] # k) /\ Rep(s)'
         \/ \E m \in 1..Len(s[o]) :
              key[s[o][m]] = k /\ Rep([s EXCEPT ![o] = Dropped(s[o], m)])'
<1>1. /\ next' = RemoveLoop(o, k, hit).nx
      /\ last' = [last EXCEPT ![o] = RemoveLoop(o, k, hit).last]
      /\ len' = [len EXCEPT ![o] = RemoveLoop(o, k, hit).max]
      /\ IsObj(o) /\ Defined(o) /\ UNCHANGED <<used, top, what, valOf, key>>
  BY DEF RemoveObj, Receiver
<1>2. \A i \in 1..Len(s[o]) : Matches(s[o][i], k, hit) <=> key[s[o][i]] = k
  BY <1>1, Reads
<1>3. CASE \A i \in 1..Len(s[o]) : key[s[o][i]] # k
  <2>1. /\ RemoveLoop(o, k, hit).nx = next /\ RemoveLoop(o, k, hit).last = last[o]
        /\ RemoveLoop(o, k, hit).max = len[o]
    BY <1>2, <1>3, LoopMisses
  <2>2. next' = next /\ last' = last /\ len' = len
    BY <1>1, <2>1 DEF Typed, TypeOK
  <2>3. Rep(s)'
    BY <1>1, <2>2, SameStep
  <2> QED BY <1>3, <2>3
<1>4. ASSUME NEW m \in 1..Len(s[o]), key[s[o][m]] = k
      PROVE  Rep([s EXCEPT ![o] = Dropped(s[o], m)])'
  <2>1. \A i, j \in 1..Len(s[o]) : key[s[o][i]] = key[s[o][j]] => i = j
    BY DEF Rep, Listed
  <2>2. \A i \in 1..Len(s[o]) \ {m} : ~Matches(s[o][i], k, hit)
    BY <1>2, <1>4, <2>1
  <2>3. Matches(s[o][m], k, hit)
    BY <1>2, <1>4
  <2>4. /\ RemoveLoop(o, k, hit).nx = LinksWithout(next, valOf, s[o], m)
        /\ RemoveLoop(o, k, hit).last = LastWithout(last[o], s[o], m)
        /\ RemoveLoop(o, k, hit).max = len[o] - 1
    BY <2>2, <2>3, LoopDrops
  <2>5. /\ next' = LinksWithout(next, valOf, s[o], m)
        /\ last' = [last EXCEPT ![o] = LastWithout(last[o], s[o], m)]
        /\ len' = [len EXCEPT ![o] = len[o] - 1]
    BY <1>1, <2>4
  <2> QED BY <1>1, <2>5, DropStep
<1> QED BY <1>3, <1>4

LEMMA CleanStep ==
  ASSUME Typed, NEW s, Rep(s), NEW o \in Value, CleanObj(o)
  PROVE  Rep([s EXCEPT ![o] = << >>])'
<1> DEFINE r == << >>
<1>1. /\ IsObj(o) /\ len' = [len EXCEPT ![o] = 0] /\ len \in [Value -> Nat] /\ top \in Nat
      /\ UNCHANGED <<used, top, what, next, last, valOf, key>>
  BY DEF CleanObj, Receiver, Typed, TypeOK
<1>2. r \in Seq(KeyNodes) /\ Len(r) = 0 /\ 1..Len(r) = {}
  BY SMT
<1> HIDE DEF r
<1>3. Lists(r, next', valOf', last'[o]) /\ Len(r) = len'[o]
  BY <1>1, <1>2 DEF Lists, Cycle
<1>4. /\ used \subseteq used' /\ top' \in Nat /\ top <= top'
      /\ \A p \in Value \ {o} : last'[p] = last[p] /\ len'[p] = len[p]
  BY <1>1
<1>5. Rep([s EXCEPT ![o] = r])'
  BY <1>1, <1>2, <1>3, <1>4, EditStep
<1> QED BY <1>5 DEF r

LEMMA SwapStep ==
  ASSUME Typed, NEW s, Rep(s), NEW a \in used, NEW b \in used, SwapContent(a, b),
         UNCHANGED <<used, top, next, valOf, key>>
  PROVE  Rep(Swap(s, a, b))'
<1> DEFINE z == Swap(s, a, b)  to(x) == IF x = a THEN b ELSE IF x = b THEN a ELSE x
<1>1. /\ a \in Value /\ b \in Value /\ s \in [Value -> Seq(KeyNodes)]
      /\ what \in [Value -> Value] /\ last \in [Value -> KeyNodes] /\ len \in [Value -> Nat]
  BY DEF Typed, TypeOK, Rep
<1>2. \A x \in Value : to(x) \in Value
  BY <1>1
<1>3. z \in [Value -> Seq(KeyNodes)] /\ \A x \in Value : z[x] = s[to(x)]
  BY <1>1 DEF Swap
<1>4. \A x \in Value : what'[x] = what[to(x)] /\ last'[x] = last[to(x)] /\ len'[x] = len[to(x)]
  BY <1>1, <1>2 DEF SwapContent, Swap
<1>5. \A x, y \in Value : to(x) = to(y) => x = y
  OBVIOUS
<1> HIDE DEF to, z
<1>6. ASSUME NEW x \in Value PROVE Listed(z, x)'
  <2>1. Listed(s, to(x))
    BY <1>2 DEF Rep
  <2> QED BY <1>3, <1>4, <2>1 DEF Listed, IsObj
<1>7. Apart(z)'
  <2> SUFFICES ASSUME NEW p \in Value, NEW q \in Value,
                      NEW i \in 1..Len(z[p]), NEW j \in 1..Len(z[q]),
                      valOf'[z[p][i]] = valOf'[z[q][j]]
               PROVE  p = q /\ i = j
    BY DEF Apart
  <2>1. to(p) = to(q) /\ i = j
    BY <1>2, <1>3 DEF Rep, Apart
  <2> QED BY <1>5, <2>1
<1> QED BY <1>3, <1>6, <1>7 DEF Rep, z

LEMMA FirstIs ==
  ASSUME Typed, Disciplined, NEW s, Rep(s), NEW o \in Value, Defined(o), NEW k, NEW hit
  PROVE  /\ HasMatch(o, k, hit) <=> \E i \in 1..Len(s[o]) : key[s[o][i]] = k
         /\ HasMatch(o, k, hit) =>
              /\ FirstMatch(o, k, hit) \in 1..Len(s[o])
              /\ key[s[o][FirstMatch(o, k, hit)]] = k
              /\ Ring(o)[FirstMatch(o, k, hit)] = s[o][FirstMatch(o, k, hit)]
<1>1. \A i \in 1..Len(s[o]) : Matches(s[o][i], k, hit) <=> key[s[o][i]] = k
  BY Reads
<1>2. Ring(o) = s[o] /\ Len(s[o]) = len[o]
      /\ \A n : n \in InRing(o) <=> \E i \in 1..Len(s[o]) : n = s[o][i]
  BY RepRing
<1>3. HasMatch(o, k, hit) <=> \E i \in 1..Len(s[o]) : key[s[o][i]] = k
  BY <1>1, <1>2 DEF HasMatch
<1>4. HasMatch(o, k, hit) =>
        /\ FirstMatch(o, k, hit) \in 1..len[o]
        /\ Matches(Ring(o)[FirstMatch(o, k, hit)], k, hit)
  BY FirstMatchIs DEF Typed
<1> QED BY <1>1, <1>2, <1>3, <1>4

LEMMA ReplaceStep ==
  ASSUME Typed, Disciplined, NEW s, Rep(s), NEW o \in Value, NEW k, NEW v \in Value, NEW hit,
         ReplaceObj(o, k, v, hit)
  PROVE  \/ Rep(s)' /\ what' = what /\ key' = key
            /\ (IsObj(o) => \A i \in 1..Len(s[o]) : key[s[o][i]] # k)
         \/ \E i \in 1..Len(s[o]), w \in used :
              /\ w = valOf[s[o][i]] /\ key[s[o][i]] = k /\ IsObj(o) /\ v \in used
              /\ what' = Swap(what, w, v) /\ key' = key
              /\ Rep(Swap(s, w, v))'
<1>1. Defined(o) /\ v \in used /\ UNCHANGED <<used, top, next, valOf>>
  BY DEF ReplaceObj, Free, Typed, TypeOK
<1>2. /\ HasMatch(o, k, hit) <=> \E i \in 1..Len(s[o]) : key[s[o][i]] = k
      /\ HasMatch(o, k, hit) =>
           /\ FirstMatch(o, k, hit) \in 1..Len(s[o])
           /\ key[s[o][FirstMatch(o, k, hit)]] = k
           /\ Ring(o)[FirstMatch(o, k, hit)] = s[o][FirstMatch(o, k, hit)]
  BY <1>1, FirstIs
<1>3. CASE (~IsObj(o) \/ ~HasMatch(o, k, hit)) /\ UNCHANGED <<what, last, len, key>>
  <2>1. Rep(s)'
    BY <1>1, <1>3, SameStep
  <2> QED BY <1>2, <1>3, <2>1
<1>4. CASE /\ IsObj(o) /\ HasMatch(o, k, hit)
           /\ SwapContent(valOf[Ring(o)[FirstMatch(o, k, hit)]], v)
           /\ key' = [key EXCEPT ![Ring(o)[FirstMatch(o, k, hit)]] = k]
  <2>1. PICK i \in 1..Len(s[o]) : i = FirstMatch(o, k, hit) /\ key[s[o][i]] = k
    BY <1>2, <1>4
  <2>0. PICK w : w = valOf[s[o][i]]
    OBVIOUS
  <2>2. SwapContent(w, v) /\ key' = [key EXCEPT ![s[o][i]] = k]
    BY <1>2, <1>4, <2>0, <2>1
  <2>3. key' = key
    BY <2>1, <2>2 DEF Typed, TypeOK
  <2>4. w \in used
    BY <2>0 DEF Rep, Listed
  <2>5. Rep(Swap(s, w, v))'
    <3>1. UNCHANGED <<used, top, next, valOf, key>> /\ SwapContent(w, v)
      BY <1>1, <2>2, <2>3
    <3> QED BY <1>1, <2>4, <3>1, SwapStep
  <2>6. what' = Swap(what, w, v)
    BY <2>2 DEF SwapContent
  <2> QED BY <1>1, <1>4, <2>0, <2>1, <2>3, <2>4, <2>5, <2>6
<1> QED BY <1>3, <1>4 DEF ReplaceObj

LEMMA AddStep ==
  ASSUME Typed, Disciplined, NEW s, Rep(s), NEW o \in Value, NEW k \in Keys,
         NEW n \in KeyNodes, NEW v \in Value,
         \/ CreateJsonMut(o, k, n, v) \/ JsonToMut(o, k, n, v)
         \/ Add(o, k, n, v) \/ Bind(o, k, n, v)
  PROVE  Rep([s EXCEPT ![o] = Append(s[o], n)])'
<1>1. Root \in used /\ used \subseteq Value /\ held \subseteq used
  BY DEF Typed, TypeOK, Owned
<1>2. ASSUME NEW x \in Value \ used PROVE x # Root /\ ~Linked(x) /\ what[x] = x
  <2>1. \A p \in Value : \A i \in 1..Len(s[p]) : valOf[s[p][i]] \in used
    BY DEF Rep, Listed
  <2>2. ~Linked(x)
    BY <2>1, RepLinked
  <2> QED BY <1>1, <2>2 DEF Typed, Contents
<1>3. CASE CreateJsonMut(o, k, n, v)
  <2>1. v \in used' \ {Root} /\ ~Linked(v) /\ used \subseteq used'
    BY <1>2, <1>3 DEF CreateJsonMut
  <2> QED BY <1>3, <2>1, AppendStep DEF CreateJsonMut, Receiver
<1>4. CASE JsonToMut(o, k, n, v)
  <2>1. v \in used' \ {Root} /\ ~Linked(v) /\ used \subseteq used' /\ IsObj(o)
    BY <1>2, <1>4 DEF JsonToMut, Value, IsObj
  <2> QED BY <1>4, <2>1, AppendStep DEF JsonToMut
<1>5. CASE Add(o, k, n, v)
  <2>1. v \in used' \ {Root} /\ ~Linked(v) /\ used \subseteq used'
    BY <1>2, <1>5 DEF Add, Value
  <2> QED BY <1>5, <2>1, AppendStep DEF Add, Receiver
<1>6. CASE Bind(o, k, n, v)
  <2>1. v \in used' \ {Root} /\ ~Linked(v) /\ used \subseteq used'
    BY <1>1, <1>6 DEF Bind, Free
  <2> QED BY <1>6, <2>1, AppendStep DEF Bind, Receiver
<1> QED BY <1>3, <1>4, <1>5, <1>6

LEMMA OtherStep ==
  ASSUME NEW s, Rep(s), NEW o, NEW k, NEW hit, CreateFree(o) \/ GetPointer(o, k, hit)
  PROVE  Rep(s)'
BY SameStep DEF CreateFree, GetPointer

LEMMA InitStep ==
  ASSUME Init
  PROVE  Rep([o \in Value |-> << >>])
<1> DEFINE s == [o \in Value |-> << >>]
<1>1. /\ s \in [Value -> Seq(KeyNodes)]
      /\ \A o \in Value : s[o] = << >> /\ s[o] \in Seq(KeyNodes) /\ Len(s[o]) = 0
  BY SMT
<1>2. \A o \in Value : len[o] = 0
  BY DEF Init
<1> HIDE DEF s
<1>3. 1..0 = {}
  BY SMT
<1>4. \A o \in Value : Listed(s, o)
  BY <1>1, <1>2, <1>3 DEF Listed, Lists, Cycle
<1>5. Apart(s)
  BY <1>1, <1>3 DEF Apart
<1> QED BY <1>1, <1>4, <1>5 DEF Rep, s

LEMMA NextStep ==
  ASSUME Disciplined, IInv, [Next]_vars
  PROVE  IInv'
<1>1. PICK s : Rep(s)
  BY DEF IInv
<1>2. Typed
  BY DEF IInv
<1>3. SUFFICES \E z : Rep(z)'
  BY <1>2, TypedNext DEF IInv
<1>4. ASSUME NEW v \in Value, CreateFree(v) \/ CleanObj(v) PROVE \E z : Rep(z)'
  BY <1>1, <1>2, <1>4, OtherStep, CleanStep
<1>5. ASSUME NEW o \in Value, NEW v \in Value, NEW k \in Keys, NEW n \in KeyNodes,
             \/ CreateJsonMut(o, k, n, v) \/ JsonToMut(o, k, n, v)
             \/ Add(o, k, n, v) \/ Bind(o, k, n, v)
      PROVE  \E z : Rep(z)'
  BY <1>1, <1>2, <1>5, AddStep
<1>6. ASSUME NEW o \in Value, NEW k, NEW hit, RemoveObj(o, k, hit) \/ GetPointer(o, k, hit)
      PROVE  \E z : Rep(z)'
  BY <1>1, <1>2, <1>6, RemoveStep, OtherStep
<1>7. ASSUME NEW o \in Value, NEW k, NEW v \in Value, NEW hit, ReplaceObj(o, k, v, hit)
      PROVE  \E z : Rep(z)'
  BY <1>1, <1>2, <1>7, ReplaceStep
<1>8. CASE UNCHANGED vars
  BY <1>1, <1>8, SameStep DEF vars
<1> QED BY <1>4, <1>5, <1>6, <1>7, <1>8 DEF Next

(* For such a client the links always represent one sequence of entries    *)
(* for each object, apart from each other, whatever was added, removed,    *)
(* bound, cleared or exchanged before.                                     *)
THEOREM Invariance ==
  ASSUME Disciplined
  PROVE  Spec => []IInv
<1>1. Init => IInv
  <2>1. Init => Typed
    BY InitTyped
  <2> QED BY <2>1, InitStep DEF IInv
<1>2. IInv /\ [Next]_vars => IInv'
  BY NextStep
<1> QED BY <1>1, <1>2, PTL DEF Spec

(* The entries of an object are a closed cycle of as many keys as its tag  *)
(* says (yyjson.h:2622), through key nodes the pool handed out.            *)
THEOREM RingsClosed ==
  ASSUME Disciplined
  PROVE  Spec => []RingClosed
<1>1. IInv => RingClosed
  <2> SUFFICES ASSUME NEW s, Rep(s), NEW o \in Value, len[o] > 0
               PROVE  /\ Ring(o)[len[o]] = last[o]
                      /\ \A i, j \in 1..len[o] : Ring(o)[i] = Ring(o)[j] => i = j
                      /\ \A i \in 1..len[o] : Ring(o)[i] <= top
    BY DEF IInv, RingClosed
  <2>1. Ring(o) = s[o] /\ Len(s[o]) = len[o]
    BY RepRing
  <2>2. Listed(s, o)
    BY DEF Rep
  <2> QED BY <2>1, <2>2 DEF Listed, Lists, Cycle
<1> QED BY <1>1, Invariance, PTL

(* No value node is the value of two entries, and the root is the value of *)
(* none.                                                                   *)
THEOREM OwnersUnique ==
  ASSUME Disciplined
  PROVE  Spec => []OneOwner
<1>1. IInv => OneOwner
  <2> SUFFICES ASSUME NEW s, Rep(s) PROVE OneOwner
    BY DEF IInv
  <2>1. \A o \in Value : Len(s[o]) = len[o] /\ \A i \in 1..len[o] : Walk(last[o], i) = s[o][i]
    <3> SUFFICES ASSUME NEW o \in Value
                 PROVE  Len(s[o]) = len[o] /\ \A i \in 1..len[o] : Walk(last[o], i) = s[o][i]
      OBVIOUS
    <3>1. Len(s[o]) = len[o] /\ Ring(o) = s[o]
      BY RepRing
    <3> QED BY <3>1 DEF Ring
  <2>2. ~Linked(Root)
    BY RepLinked DEF Rep, Listed
  <2>3. ASSUME NEW o \in Value, NEW p \in Value, NEW i \in 1..len[o], NEW j \in 1..len[p],
               valOf[Walk(last[o], i)] = valOf[Walk(last[p], j)]
        PROVE  o = p /\ i = j
    BY <2>1, <2>3 DEF Rep, Apart
  <2> QED BY <2>2, <2>3 DEF OneOwner
<1> QED BY <1>1, Invariance, PTL

LEMMA RepRingNext ==
  ASSUME NEW s, Rep(s)', NEW o \in Value
  PROVE  /\ Ring(o)' = s[o] /\ s[o] \in Seq(KeyNodes) /\ Len(s[o]) = len'[o]
         /\ \A n : n \in InRing(o)' <=> \E i \in 1..Len(s[o]) : n = s[o][i]
<1>1. Lists(s[o], next', valOf', last'[o]) /\ Len(s[o]) = len'[o]
  BY DEF Rep, Listed
<1>2. s[o] \in Seq(KeyNodes) /\ Len(s[o]) \in Nat
  BY <1>1 DEF Lists
<1>3. [i \in 1..Len(s[o]) |-> WalkIn(next', valOf', last'[o], i)] = s[o]
  BY <1>1, RingIn
<1>4. Ring(o)' = [i \in 1..len'[o] |-> WalkIn(next', valOf', last'[o], i)]
  BY DEF Ring, Walk, WalkIn
<1>5. InRing(o)' = {WalkIn(next', valOf', last'[o], i) : i \in 1..len'[o]}
  BY DEF InRing, Walk, WalkIn
<1>6. \A i \in 1..Len(s[o]) : WalkIn(next', valOf', last'[o], i) = s[o][i]
  BY <1>3
<1> QED BY <1>1, <1>2, <1>3, <1>4, <1>5, <1>6

(* After removeObj no entry of the receiver has the key (yyjson.h:2016),   *)
(* though the loop steps over the entry after the one it takes out.        *)
THEOREM KeysRemoved ==
  ASSUME Disciplined
  PROVE  Spec => RemovesAll
<1>1. ASSUME IInv, NEW o \in Value, NEW k \in Keys, RemoveObj(o, k, {})
      PROVE  ~HasKey(o, k)'
  <2>1. PICK s : Rep(s)
    BY <1>1 DEF IInv
  <2>2. key' = key
    BY <1>1 DEF RemoveObj
  <2>3. CASE (\A i \in 1..Len(s[o]) : key[s[o][i]] # k) /\ Rep(s)'
    <3>1. \A n : n \in InRing(o)' <=> \E i \in 1..Len(s[o]) : n = s[o][i]
      BY <2>3, RepRingNext
    <3> QED BY <2>2, <2>3, <3>1 DEF HasKey
  <2>4. ASSUME NEW m \in 1..Len(s[o]), key[s[o][m]] = k,
               Rep([s EXCEPT ![o] = Dropped(s[o], m)])'
        PROVE  ~HasKey(o, k)'
    <3> DEFINE z == [s EXCEPT ![o] = Dropped(s[o], m)]
    <3>1. z[o] = Dropped(s[o], m) /\ Rep(z)'
      BY <2>1, <2>4 DEF Rep
    <3> HIDE DEF z
    <3>2. \A n : n \in InRing(o)' <=> \E i \in 1..Len(z[o]) : n = z[o][i]
      BY <3>1, RepRingNext
    <3>3. s[o] \in Seq(KeyNodes)
      BY <2>1 DEF Rep
    <3>4. /\ Len(z[o]) = Len(s[o]) - 1
          /\ \A i \in 1..(Len(s[o]) - 1) :
               /\ (IF i < m THEN i ELSE i + 1) \in 1..Len(s[o]) \ {m}
               /\ z[o][i] = s[o][IF i < m THEN i ELSE i + 1]
      <4>1. /\ Len(Dropped(s[o], m)) = Len(s[o]) - 1
            /\ \A i \in 1..(Len(s[o]) - 1) :
                 /\ (IF i < m THEN i ELSE i + 1) \in 1..Len(s[o]) \ {m}
                 /\ Dropped(s[o], m)[i] = s[o][IF i < m THEN i ELSE i + 1]
        BY <3>3, DroppedIs
      <4> QED BY <3>1, <4>1
    <3>5. \A i \in 1..Len(s[o]) \ {m} : key[s[o][i]] # k
      BY <2>1, <2>4 DEF Rep, Listed
    <3>6. \A i \in 1..Len(z[o]) : key[z[o][i]] # k
      BY <3>4, <3>5
    <3> QED BY <2>2, <3>2, <3>6 DEF HasKey
  <2>5. \/ (\A i \in 1..Len(s[o]) : key[s[o][i]] # k) /\ Rep(s)'
        \/ \E m \in 1..Len(s[o]) :
             key[s[o][m]] = k /\ Rep([s EXCEPT ![o] = Dropped(s[o], m)])'
    BY <1>1, <2>1, RemoveStep DEF IInv
  <2> QED BY <2>3, <2>4, <2>5
<1>2. IInv => \A o \in Value, k \in Keys : RemoveObj(o, k, {}) => ~HasKey(o, k)'
  BY <1>1
<1> QED BY <1>2, Invariance, PTL DEF RemovesAll

-----------------------------------------------------------------------------
(* MutObj implements JsonObjects.  What the links represent is what the    *)
(* refinement maps seqs to, before and after a step.                       *)
Listing(q, ky, vo) == [i \in 1..Len(q) |-> <<ky[q[i]], vo[q[i]]>>]

Seqs == [c \in Objs |-> EntriesOf(c)]

LEMMA EntriesAre ==
  ASSUME Typed, NEW s, Rep(s), NEW x \in Value, NEW c, c = what[x]
  PROVE  EntriesOf(c) = Listing(s[x], key, valOf)
<1> DEFINE g == CHOOSE v \in Value : what[v] = c
<1>1. g = x
  BY DEF Typed, Contents
<1>2. EntriesOf(c) = Entries(g)
  BY DEF EntriesOf
<1> HIDE DEF g
<1>3. EntriesOf(c) = Entries(x)
  BY <1>1, <1>2
<1>4. Ring(x) = s[x] /\ Len(s[x]) = len[x]
  BY RepRing
<1>5. Entries(x) = [i \in 1..len[x] |-> <<key[Ring(x)[i]], valOf[Ring(x)[i]]>>]
  BY DEF Entries
<1> QED BY <1>3, <1>4, <1>5 DEF Listing

LEMMA EntriesNext ==
  ASSUME Typed', NEW s, Rep(s)', NEW x \in Value, NEW c, c = what'[x]
  PROVE  EntriesOf(c)' = Listing(s[x], key', valOf')
<1> DEFINE g == CHOOSE v \in Value : what'[v] = c
<1>1. g = x
  BY DEF Typed, Contents
<1>2. EntriesOf(c)'
      = [i \in 1..len'[g] |->
           <<key'[[j \in 1..len'[g] |-> WalkIn(next', valOf', last'[g], j)][i]],
             valOf'[[j \in 1..len'[g] |-> WalkIn(next', valOf', last'[g], j)][i]]>>]
  BY DEF EntriesOf, Entries, Ring, Walk, WalkIn
<1> HIDE DEF g
<1>3. Len(s[x]) = len'[x] /\ Lists(s[x], next', valOf', last'[x])
  BY DEF Rep, Listed
<1>4. [j \in 1..Len(s[x]) |-> WalkIn(next', valOf', last'[x], j)] = s[x]
  BY <1>3, RingIn
<1> QED BY <1>1, <1>2, <1>3, <1>4 DEF Listing

LEMMA SeqsAre ==
  ASSUME Typed, NEW s, Rep(s)
  PROVE  /\ Seqs = [c \in Objs |-> Seqs[c]]
         /\ \A x \in Value : what[x] \in Objs => Seqs[what[x]] = Listing(s[x], key, valOf)
<1>1. ASSUME NEW x \in Value, NEW c \in Objs, c = what[x]
      PROVE  Seqs[c] = Listing(s[x], key, valOf)
  BY <1>1, EntriesAre DEF Seqs
<1>2. ASSUME NEW x \in Value, what[x] \in Objs
      PROVE  Seqs[what[x]] = Listing(s[x], key, valOf)
  <2>1. PICK c \in Objs : c = what[x]
    BY <1>2
  <2> QED BY <1>1, <2>1
<1> QED BY <1>2 DEF Seqs

LEMMA SeqsNext ==
  ASSUME Typed', NEW s, Rep(s)'
  PROVE  /\ Seqs' = [c \in Objs |-> Seqs'[c]]
         /\ \A x \in Value : what'[x] \in Objs => Seqs'[what'[x]] = Listing(s[x], key', valOf')
<1>1. ASSUME NEW x \in Value, NEW c \in Objs, c = what'[x]
      PROVE  Seqs'[c] = Listing(s[x], key', valOf')
  <2>1. EntriesOf(c)' = Listing(s[x], key', valOf')
    BY <1>1, EntriesNext
  <2>2. Seqs' = [d \in Objs |-> EntriesOf(d)']
    BY DEF Seqs
  <2> QED BY <2>1, <2>2
<1>2. ASSUME NEW x \in Value, what'[x] \in Objs
      PROVE  Seqs'[what'[x]] = Listing(s[x], key', valOf')
  <2>1. PICK c \in Objs : c = what'[x]
    BY <1>2
  <2> QED BY <1>1, <2>1
<1>3. Seqs' = [d \in Objs |-> EntriesOf(d)']
  BY DEF Seqs
<1> QED BY <1>2, <1>3

LEMMA SeqsKept ==
  ASSUME Typed, Typed', NEW s, Rep(s), NEW z, Rep(z)', UNCHANGED <<key, valOf>>,
         \/ what' = what /\ z = s
         \/ \E a, b \in Value : what' = Swap(what, a, b) /\ z = Swap(s, a, b)
  PROVE  Seqs' = Seqs
<1>1. \A x \in Value : \E y \in Value : what'[y] = what[x] /\ z[y] = s[x]
  <2>1. CASE what' = what /\ z = s
    BY <2>1
  <2>2. ASSUME NEW a \in Value, NEW b \in Value, what' = Swap(what, a, b), z = Swap(s, a, b)
        PROVE  \A x \in Value : \E y \in Value : what'[y] = what[x] /\ z[y] = s[x]
    <3>1. what \in [Value -> Value] /\ s \in [Value -> Seq(KeyNodes)]
      BY DEF Typed, TypeOK, Rep
    <3>2. \A y \in Value :
            /\ what'[y] = IF y = a THEN what[b] ELSE IF y = b THEN what[a] ELSE what[y]
            /\ z[y] = IF y = a THEN s[b] ELSE IF y = b THEN s[a] ELSE s[y]
      BY <2>2, <3>1 DEF Swap
    <3> QED BY <3>2
  <2> QED BY <2>1, <2>2
<1>2. ASSUME NEW c \in Objs PROVE Seqs'[c] = Seqs[c]
  <2>1. PICK x \in Value : what[x] = c
    BY DEF Typed, Contents, Value
  <2>2. PICK y \in Value : what'[y] = c /\ z[y] = s[x]
    BY <1>1, <2>1
  <2>3. Seqs[c] = Listing(s[x], key, valOf)
    BY <2>1, SeqsAre
  <2>4. Seqs'[c] = Listing(z[y], key', valOf')
    BY <2>2, SeqsNext
  <2> QED BY <2>2, <2>3, <2>4
<1>3. Seqs = [c \in Objs |-> Seqs[c]] /\ Seqs' = [c \in Objs |-> Seqs'[c]]
  BY SeqsAre, SeqsNext
<1> QED BY <1>2, <1>3

LEMMA SeqsEdited ==
  ASSUME Typed, Typed', NEW s, Rep(s), NEW o \in Value, IsObj(o), NEW r,
         Rep([s EXCEPT ![o] = r])', what' = what,
         \A x \in Value \ {o} : \A i \in 1..Len(s[x]) :
           key'[s[x][i]] = key[s[x][i]] /\ valOf'[s[x][i]] = valOf[s[x][i]]
  PROVE  Seqs' = [Seqs EXCEPT ![what[o]] = Listing(r, key', valOf')]
<1> DEFINE z == [s EXCEPT ![o] = r]
<1>1. Rep(z)' /\ z[o] = r /\ \A x \in Value \ {o} : z[x] = s[x]
  BY DEF Rep
<1> HIDE DEF z
<1>2. ASSUME NEW c \in Objs
      PROVE  Seqs'[c] = IF c = what[o] THEN Listing(r, key', valOf') ELSE Seqs[c]
  <2>1. PICK x \in Value : what[x] = c
    BY DEF Typed, Contents, Value
  <2>2. Seqs[c] = Listing(s[x], key, valOf)
    BY <2>1, SeqsAre
  <2>3. Seqs'[c] = Listing(z[x], key', valOf')
    BY <1>1, <2>1, SeqsNext
  <2>4. CASE x = o
    BY <1>1, <2>1, <2>3, <2>4
  <2>5. CASE x # o
    <3>1. c # what[o]
      BY <2>1, <2>5 DEF Typed, Contents
    <3>2. Listing(s[x], key', valOf') = Listing(s[x], key, valOf)
      BY <2>5 DEF Listing
    <3> QED BY <1>1, <2>2, <2>3, <2>5, <3>1, <3>2
  <2> QED BY <2>4, <2>5
<1>3. Seqs = [c \in Objs |-> Seqs[c]] /\ Seqs' = [c \in Objs |-> Seqs'[c]]
  BY <1>1, SeqsAre, SeqsNext
<1>4. what[o] \in Objs
  BY DEF IsObj
<1> QED BY <1>2, <1>3, <1>4

-----------------------------------------------------------------------------
(* The edits of entries JsonObjects makes are those of sequences of keys.  *)
LEMMA ListingAppend ==
  ASSUME NEW q \in Seq(KeyNodes), NEW n \in KeyNodes, NEW ky, NEW vo, NEW ky1, NEW vo1,
         \A i \in 1..Len(q) : ky1[q[i]] = ky[q[i]] /\ vo1[q[i]] = vo[q[i]]
  PROVE  Listing(Append(q, n), ky1, vo1) = Append(Listing(q, ky, vo), <<ky1[n], vo1[n]>>)
<1> DEFINE r == Append(q, n)  e == Listing(q, ky, vo)  L == Len(q)
           S == {<<ky[q[i]], vo[q[i]]>> : i \in 1..L} \cup {<<ky1[n], vo1[n]>>}
<1>1. L \in Nat /\ Len(r) = L + 1 /\ r[L + 1] = n /\ \A i \in 1..L : r[i] = q[i]
  OBVIOUS
<1>2. e \in Seq(S) /\ Len(e) = L /\ \A i \in 1..L : e[i] = <<ky[q[i]], vo[q[i]]>>
  BY <1>1 DEF Listing
<1>3. <<ky1[n], vo1[n]>> \in S
  OBVIOUS
<1> HIDE DEF e, r, S, L
<1> DEFINE a == Append(e, <<ky1[n], vo1[n]>>)
<1>4. /\ a = [i \in 1..(L + 1) |-> a[i]] /\ a[L + 1] = <<ky1[n], vo1[n]>>
      /\ \A i \in 1..L : a[i] = e[i]
  BY <1>1, <1>2, <1>3
<1>5. Listing(r, ky1, vo1) = [i \in 1..(L + 1) |-> <<ky1[r[i]], vo1[r[i]]>>]
  BY <1>1 DEF Listing
<1>6. ASSUME NEW i \in 1..(L + 1) PROVE a[i] = <<ky1[r[i]], vo1[r[i]]>>
  <2>1. CASE i = L + 1
    BY <1>1, <1>4, <2>1
  <2>2. CASE i # L + 1
    <3>1. i \in 1..L
      BY <1>1, <2>2
    <3>2. ky1[q[i]] = ky[q[i]] /\ vo1[q[i]] = vo[q[i]]
      BY <3>1 DEF L
    <3> QED BY <1>1, <1>2, <1>4, <3>1, <3>2
  <2> QED BY <2>1, <2>2
<1> HIDE DEF a
<1>7. a = Listing(r, ky1, vo1)
  BY <1>4, <1>5, <1>6
<1> QED BY <1>7 DEF a, r, e

LEMMA FilterTrace ==
  ASSUME NEW e, NEW k, Len(e) \in Nat, NEW w, Trace(w, Keeping(e, k), << >>, Len(e))
  PROVE  Promise!WithoutKey(e, k) = w[Len(e)]
<1> DEFINE Is(g) == g = [i \in 0..Len(e) |->
                          IF i = 0 THEN << >>
                          ELSE IF e[i][1] = k THEN g[i - 1] ELSE Append(g[i - 1], e[i])]
           f == CHOOSE g : Is(g)
<1>1. \A j, x : Turn(Keeping(e, k), j, x) = IF e[j][1] = k THEN x ELSE Append(x, e[j])
  BY DEF Turn, Keeping, Kept
<1>2. Is(w)
  BY <1>1 DEF Trace
<1>3. Is(f)
  BY <1>2
<1>4. Promise!WithoutKey(e, k) = f[Len(e)]
  BY DEF Promise!WithoutKey
<1> HIDE DEF f
<1>5. Trace(f, Keeping(e, k), << >>, Len(e))
  BY <1>1, <1>3 DEF Trace
<1> QED BY <1>4, <1>5, TraceUnique

(* The first i entries but the one at m.                                   *)
Spared(e, m, i) ==
  [j \in 1..(IF i < m THEN i ELSE i - 1) |-> IF j < m THEN e[j] ELSE e[j + 1]]

LEMMA SparedGrows ==
  ASSUME NEW S, NEW e \in Seq(S), NEW m \in 1..(Len(e) + 1), NEW i \in 1..Len(e)
  PROVE  /\ i = m => Spared(e, m, i) = Spared(e, m, i - 1)
         /\ i # m => Spared(e, m, i) = Append(Spared(e, m, i - 1), e[i])
<1> DEFINE L == Len(e)  b == Spared(e, m, i - 1)  B == IF i - 1 < m THEN i - 1 ELSE (i - 1) - 1
<1>1. L \in Nat /\ m \in 1..(L + 1) /\ i \in 1..L /\ \A j \in 1..L : e[j] \in S
  OBVIOUS
<1> HIDE DEF L
<1>2. i = m => Spared(e, m, i) = b
  <2> SUFFICES ASSUME i = m PROVE Spared(e, m, i) = b
    OBVIOUS
  <2>1. ~(i < m) /\ i - 1 < m
    BY <1>1
  <2> QED BY <2>1 DEF Spared
<1>3. i # m => Spared(e, m, i) = Append(b, e[i])
  <2> SUFFICES ASSUME i # m PROVE Spared(e, m, i) = Append(b, e[i])
    OBVIOUS
  <2>1. B \in Nat /\ B <= L - 1 /\ (IF i < m THEN i ELSE i - 1) = B + 1
    BY <1>1
  <2>2. b = [j \in 1..B |-> IF j < m THEN e[j] ELSE e[j + 1]]
    BY DEF Spared
  <2>3. Spared(e, m, i) = [j \in 1..(B + 1) |-> IF j < m THEN e[j] ELSE e[j + 1]]
    BY <2>1 DEF Spared
  <2>4. B + 1 < m => B + 1 = i
    BY <1>1
  <2>5. ~(B + 1 < m) => (B + 1) + 1 = i
    BY <1>1
  <2> HIDE DEF b, B
  <2>6. \A j \in 1..B : (IF j < m THEN e[j] ELSE e[j + 1]) \in S
    BY <1>1, <2>1
  <2>7. b \in Seq(S) /\ Len(b) = B
    BY <2>1, <2>2, <2>6
  <2>8. /\ Append(b, e[i]) = [j \in 1..(B + 1) |-> Append(b, e[i])[j]]
        /\ Append(b, e[i])[B + 1] = e[i]
        /\ \A j \in 1..B : Append(b, e[i])[j] = b[j]
    BY <1>1, <2>1, <2>7
  <2>9. ASSUME NEW j \in 1..(B + 1)
        PROVE  Append(b, e[i])[j] = IF j < m THEN e[j] ELSE e[j + 1]
    <3>1. CASE j = B + 1
      BY <2>4, <2>5, <2>8, <3>1
    <3>2. CASE j # B + 1
      <4>1. j \in 1..B
        BY <2>1, <3>2
      <4> QED BY <2>2, <2>8, <4>1
    <3> QED BY <3>1, <3>2
  <2> QED BY <2>3, <2>8, <2>9
<1> QED BY <1>2, <1>3 DEF b

LEMMA FilterIs ==
  ASSUME NEW S, NEW e \in Seq(S), NEW m \in 1..(Len(e) + 1), NEW k,
         \A i \in 1..Len(e) : e[i][1] = k <=> i = m
  PROVE  Promise!WithoutKey(e, k) = Spared(e, m, Len(e))
<1> DEFINE w == [i \in 0..Len(e) |-> Spared(e, m, i)]  L == Len(e)
<1>1. L \in Nat /\ m \in 1..(L + 1) /\ \A i \in 1..L : e[i][1] = k <=> i = m
  OBVIOUS
<1>2. Upto(w, L) /\ \A i \in 0..L : w[i] = Spared(e, m, i)
  BY DEF Upto
<1>3. w[0] = << >>
  <2>1. Spared(e, m, 0) = [j \in 1..0 |-> IF j < m THEN e[j] ELSE e[j + 1]]
    BY <1>1 DEF Spared
  <2>2. 1..0 = {}
    OBVIOUS
  <2>3. Spared(e, m, 0) = << >>
    BY <2>1, <2>2
  <2> QED BY <1>1, <1>2, <2>3
<1>4. \A i \in 1..L : /\ i = m => Spared(e, m, i) = Spared(e, m, i - 1)
                      /\ i # m => Spared(e, m, i) = Append(Spared(e, m, i - 1), e[i])
  BY SparedGrows
<1> HIDE DEF w
<1>5. ASSUME NEW i \in 1..L PROVE w[i] = Turn(Keeping(e, k), i, w[i - 1])
  <2>1. Turn(Keeping(e, k), i, w[i - 1]) = IF e[i][1] = k THEN w[i - 1] ELSE Append(w[i - 1], e[i])
    BY DEF Turn, Keeping, Kept
  <2>2. w[i] = Spared(e, m, i) /\ w[i - 1] = Spared(e, m, i - 1)
    BY <1>1, <1>2
  <2> QED BY <1>1, <1>4, <2>1, <2>2
<1>6. Trace(w, Keeping(e, k), << >>, L)
  <2> HIDE DEF L
  <2> QED BY <1>1, <1>2, <1>3, <1>5, TraceIs
<1>7. w[L] = Spared(e, m, L)
  BY <1>1, <1>2
<1> QED BY <1>1, <1>6, <1>7, FilterTrace

LEMMA ListingFilter ==
  ASSUME NEW q \in Seq(KeyNodes), NEW ky, NEW vo, NEW k
  PROVE  /\ (\A i \in 1..Len(q) : ky[q[i]] # k) =>
              Promise!WithoutKey(Listing(q, ky, vo), k) = Listing(q, ky, vo)
         /\ \A m \in 1..Len(q) :
              (\A i \in 1..Len(q) : ky[q[i]] = k <=> i = m) =>
                Promise!WithoutKey(Listing(q, ky, vo), k) = Listing(Dropped(q, m), ky, vo)
<1> DEFINE e == Listing(q, ky, vo)  L == Len(q)  S == {<<ky[q[i]], vo[q[i]]>> : i \in 1..L}
<1>1. L \in Nat /\ \A i \in 1..L : q[i] \in KeyNodes
  OBVIOUS
<1>2. /\ e \in Seq(S) /\ Len(e) = L /\ e = [i \in 1..L |-> e[i]]
      /\ \A i \in 1..L : e[i] = <<ky[q[i]], vo[q[i]]>> /\ e[i][1] = ky[q[i]]
  BY <1>1 DEF Listing
<1> HIDE DEF e, S
<1>3. ASSUME \A i \in 1..L : ky[q[i]] # k
      PROVE  Promise!WithoutKey(e, k) = e
  <2>1. \A i \in 1..Len(e) : e[i][1] = k <=> i = L + 1
    BY <1>1, <1>2, <1>3
  <2>2. L + 1 \in 1..(Len(e) + 1)
    BY <1>1, <1>2
  <2>3. Promise!WithoutKey(e, k) = Spared(e, L + 1, Len(e))
    BY <1>2, <2>1, <2>2, FilterIs
  <2>4. Spared(e, L + 1, Len(e)) = [j \in 1..L |-> IF j < L + 1 THEN e[j] ELSE e[j + 1]]
    <3>1. L < L + 1
      BY <1>1
    <3>2. (IF Len(e) < L + 1 THEN Len(e) ELSE Len(e) - 1) = L
      BY <1>2, <3>1
    <3> QED BY <3>2 DEF Spared
  <2>5. \A j \in 1..L : j < L + 1
    BY <1>1
  <2> QED BY <1>2, <2>3, <2>4, <2>5
<1>4. ASSUME NEW m \in 1..L, \A i \in 1..L : ky[q[i]] = k <=> i = m
      PROVE  Promise!WithoutKey(e, k) = Listing(Dropped(q, m), ky, vo)
  <2>1. \A i \in 1..Len(e) : e[i][1] = k <=> i = m
    BY <1>2, <1>4
  <2>2. m \in 1..(Len(e) + 1) /\ ~(L < m)
    BY <1>1, <1>2
  <2>3. Promise!WithoutKey(e, k) = Spared(e, m, Len(e))
    BY <1>2, <2>1, <2>2, FilterIs
  <2>4. Spared(e, m, Len(e)) = [j \in 1..(L - 1) |-> IF j < m THEN e[j] ELSE e[j + 1]]
    BY <1>2, <2>2 DEF Spared
  <2>5. Len(Dropped(q, m)) = L - 1 /\ \A i \in 1..(L - 1) :
          (IF i < m THEN i ELSE i + 1) \in 1..L \ {m}
          /\ Dropped(q, m)[i] = q[IF i < m THEN i ELSE i + 1]
    BY DroppedIs
  <2>6. ASSUME NEW j \in 1..(L - 1)
        PROVE  (IF j < m THEN e[j] ELSE e[j + 1])
               = <<ky[Dropped(q, m)[j]], vo[Dropped(q, m)[j]]>>
    <3> DEFINE at == IF j < m THEN j ELSE j + 1
    <3>1. at \in 1..L /\ Dropped(q, m)[j] = q[at] /\ (IF j < m THEN e[j] ELSE e[j + 1]) = e[at]
      BY <2>5
    <3> HIDE DEF at
    <3> QED BY <1>2, <3>1
  <2> QED BY <2>3, <2>4, <2>5, <2>6 DEF Listing
<1> QED BY <1>3, <1>4 DEF e, L

-----------------------------------------------------------------------------
(* Each action on the links is an action on the entries.                   *)
LEMMA PlacedIs ==
  ASSUME Typed, NEW s, Rep(s), NEW v
  PROVE  Promise!IsPlaced(v) <=> Linked(v)
<1>1. ASSUME NEW x \in Value, NEW c \in Objs, c = what[x]
      PROVE  /\ Seqs[c] = Listing(s[x], key, valOf)
             /\ (\E e \in Promise!ToSet(Seqs[c]) : e[2] = v)
                  <=> \E i \in 1..Len(s[x]) : valOf[s[x][i]] = v
  <2>1. Seqs[c] = Listing(s[x], key, valOf)
    BY <1>1, SeqsAre
  <2>2. /\ DOMAIN Seqs[c] = 1..Len(s[x])
        /\ \A i \in 1..Len(s[x]) : Seqs[c][i] = <<key[s[x][i]], valOf[s[x][i]]>>
    BY <2>1 DEF Listing
  <2> QED BY <2>1, <2>2 DEF Promise!ToSet
<1>2. Promise!IsPlaced(v) <=> \E c \in Objs : \E e \in Promise!ToSet(Seqs[c]) : e[2] = v
  BY DEF Promise!IsPlaced, Seqs
<1>3. \A c \in Objs : \E x \in Value : what[x] = c
  BY DEF Typed, Contents, Value
<1>4. ASSUME NEW x \in Value, NEW i \in 1..Len(s[x]) PROVE what[x] \in Objs
  <2>1. Len(s[x]) = len[x] /\ len[x] \in Nat /\ (len[x] > 0 => IsObj(x))
    BY RepRing DEF Rep, Listed
  <2> QED BY <2>1 DEF IsObj
<1>5. Linked(v) <=> \E o \in Value : \E i \in 1..Len(s[o]) : valOf[s[o][i]] = v
  BY RepLinked
<1> QED BY <1>1, <1>2, <1>3, <1>4, <1>5

LEMMA FreeMaps ==
  ASSUME Typed, NEW s, Rep(s), NEW v \in Free
  PROVE  v \in Promise!Free
BY PlacedIs DEF Promise!Free, Free

LEMMA CreateMaps ==
  ASSUME Typed, Typed', NEW s, Rep(s), NEW v \in Value, CreateFree(v)
  PROVE  Promise!Create(v)
<1>1. Rep(s)' /\ UNCHANGED <<key, valOf, what>>
  BY OtherStep DEF CreateFree
<1>2. Seqs' = Seqs
  BY <1>1, SeqsKept
<1> QED BY <1>2 DEF Promise!Create, CreateFree, Seqs

LEMMA LinkMaps ==
  ASSUME Typed, Typed', NEW s, Rep(s), NEW o \in Value, IsObj(o), NEW k \in Keys,
         NEW n \in KeyNodes, NewKey(o, k, n), NEW v \in Value, LinkEntry(o, k, n, v),
         what' = what, Rep([s EXCEPT ![o] = Append(s[o], n)])'
  PROVE  Promise!AddEntry(o, k, v)
<1> DEFINE r == Append(s[o], n)
<1>1. \A x \in Value : \A i \in 1..Len(s[x]) :
        key'[s[x][i]] = key[s[x][i]] /\ valOf'[s[x][i]] = valOf[s[x][i]]
  <2> SUFFICES ASSUME NEW x \in Value, NEW i \in 1..Len(s[x])
               PROVE  key'[s[x][i]] = key[s[x][i]] /\ valOf'[s[x][i]] = valOf[s[x][i]]
    OBVIOUS
  <2>1. /\ s[x][i] \in KeyNodes /\ s[x][i] <= top
        /\ n = top + 1 /\ top \in 0..PoolKeys
    <3>1. s[x][i] \in KeyNodes /\ s[x][i] <= top
      BY RepRing DEF Rep, Listed
    <3> QED BY <3>1 DEF NewKey, Typed, TypeOK
  <2>2. s[x][i] \in Nat /\ top \in Nat
    BY <2>1, NodesAssumption DEF KeyNodes
  <2>3. s[x][i] # n
    <3>1. \A y \in Nat, z \in Nat : y <= z => y # z + 1
      OBVIOUS
    <3> QED BY <2>1, <2>2, <3>1
  <2> QED BY <2>1, <2>3 DEF LinkEntry, Typed, TypeOK
<1>2. key'[n] = k /\ valOf'[n] = v
  BY DEF LinkEntry, Typed, TypeOK
<1>3. Seqs' = [Seqs EXCEPT ![what[o]] = Listing(r, key', valOf')]
  <2>1. Rep([s EXCEPT ![o] = r])'
    OBVIOUS
  <2>2. \A x \in Value \ {o} : \A i \in 1..Len(s[x]) :
          key'[s[x][i]] = key[s[x][i]] /\ valOf'[s[x][i]] = valOf[s[x][i]]
    BY <1>1
  <2> HIDE DEF r
  <2> QED BY <2>1, <2>2, SeqsEdited
<1>4. Listing(r, key', valOf') = Append(Listing(s[o], key, valOf), <<k, v>>)
  <2>1. s[o] \in Seq(KeyNodes)
    BY RepRing
  <2>2. Listing(r, key', valOf') = Append(Listing(s[o], key, valOf), <<key'[n], valOf'[n]>>)
    <3>1. PICK q, ky, vo, ky1, vo1 :
            q = s[o] /\ ky = key /\ vo = valOf /\ ky1 = key' /\ vo1 = valOf'
      OBVIOUS
    <3>2. q \in Seq(KeyNodes) /\ \A i \in 1..Len(q) :
            ky1[q[i]] = ky[q[i]] /\ vo1[q[i]] = vo[q[i]]
      BY <1>1, <2>1, <3>1
    <3>3. Listing(Append(q, n), ky1, vo1) = Append(Listing(q, ky, vo), <<ky1[n], vo1[n]>>)
      BY <3>2, ListingAppend
    <3> QED BY <3>1, <3>3
  <2> QED BY <1>2, <2>2
<1>5. Seqs[what[o]] = Listing(s[o], key, valOf)
  BY SeqsAre DEF IsObj
<1>6. Seqs' = [Seqs EXCEPT ![what[o]] = Append(Seqs[what[o]], <<k, v>>)]
  BY <1>3, <1>4, <1>5
<1> QED BY <1>6 DEF Promise!AddEntry, Seqs

LEMMA AddMaps ==
  ASSUME Typed, Typed', Disciplined, NEW s, Rep(s), NEW o \in Value, NEW k \in Keys,
         NEW n \in KeyNodes, NEW v \in Value,
         \/ CreateJsonMut(o, k, n, v) \/ JsonToMut(o, k, n, v)
         \/ Add(o, k, n, v) \/ Bind(o, k, n, v)
  PROVE  \/ Promise!CreateBound(o, k, v) \/ Promise!CreateFilled(o, k, v)
         \/ Promise!AddScalar(o, k, v) \/ Promise!Bind(o, k, v)
<1>1. Rep([s EXCEPT ![o] = Append(s[o], n)])'
  BY AddStep
<1>2. CASE CreateJsonMut(o, k, n, v)
  <2>1. Promise!AddEntry(o, k, v) /\ Promise!HoldsObject(o)
    BY <1>1, <1>2, LinkMaps DEF CreateJsonMut, Receiver, IsObj, Promise!HoldsObject
  <2> QED BY <1>2, <2>1 DEF CreateJsonMut, Promise!CreateBound
<1>3. CASE JsonToMut(o, k, n, v)
  <2>1. IsObj(o) /\ o # v /\ what' = what
    BY <1>3, NodesAssumption DEF JsonToMut, IsObj, Typed, Contents, Value
  <2>2. Promise!AddEntry(o, k, v)
    BY <1>1, <1>3, <2>1, LinkMaps DEF JsonToMut
  <2> QED BY <1>3, <2>1, <2>2 DEF JsonToMut, Promise!CreateFilled
<1>4. CASE Add(o, k, n, v)
  <2>1. Promise!AddEntry(o, k, v) /\ Promise!HoldsObject(o)
    BY <1>1, <1>4, LinkMaps DEF Add, Receiver, IsObj, Promise!HoldsObject
  <2> QED BY <1>4, <2>1 DEF Add, Promise!AddScalar
<1>5. CASE Bind(o, k, n, v)
  <2>1. Promise!AddEntry(o, k, v) /\ Promise!HoldsObject(o)
    BY <1>1, <1>5, LinkMaps DEF Bind, Receiver, IsObj, Promise!HoldsObject
  <2>2. v \in Promise!Free
    BY <1>5, FreeMaps DEF Bind
  <2> QED BY <1>5, <2>1, <2>2 DEF Bind, Promise!Bind
<1> QED BY <1>2, <1>3, <1>4, <1>5

LEMMA RemoveMaps ==
  ASSUME Typed, Typed', Disciplined, NEW s, Rep(s), NEW o \in Value, NEW k, NEW hit,
         RemoveObj(o, k, hit)
  PROVE  Promise!RemoveAll(o, k)
<1>1. /\ IsObj(o) /\ o \in held /\ ret' = TRUE
      /\ UNCHANGED <<used, held, what, valOf, key>>
  BY DEF RemoveObj, Receiver
<1>2. s[o] \in Seq(KeyNodes) /\ \A i, j \in 1..Len(s[o]) : key[s[o][i]] = key[s[o][j]] => i = j
  BY RepRing DEF Rep, Listed
<1>3. Seqs[what[o]] = Listing(s[o], key, valOf) /\ Seqs = [c \in Objs |-> Seqs[c]]
  BY <1>1, SeqsAre DEF IsObj
<1>4. Seqs' = [Seqs EXCEPT ![what[o]] = Promise!WithoutKey(Seqs[what[o]], k)]
  <2>1. CASE (\A i \in 1..Len(s[o]) : key[s[o][i]] # k) /\ Rep(s)'
    <3>1. Promise!WithoutKey(Listing(s[o], key, valOf), k) = Listing(s[o], key, valOf)
      BY <1>2, <2>1, ListingFilter
    <3>2. Seqs' = Seqs
      BY <1>1, <2>1, SeqsKept
    <3> QED BY <1>3, <3>1, <3>2
  <2>2. ASSUME NEW m \in 1..Len(s[o]), key[s[o][m]] = k,
               Rep([s EXCEPT ![o] = Dropped(s[o], m)])'
        PROVE  Seqs' = [Seqs EXCEPT ![what[o]] = Promise!WithoutKey(Seqs[what[o]], k)]
    <3>1. \A i \in 1..Len(s[o]) : key[s[o][i]] = k <=> i = m
      BY <1>2, <2>2
    <3>2. Promise!WithoutKey(Listing(s[o], key, valOf), k)
          = Listing(Dropped(s[o], m), key, valOf)
      BY <1>2, <3>1, ListingFilter
    <3>3. Seqs' = [Seqs EXCEPT ![what[o]] = Listing(Dropped(s[o], m), key', valOf')]
      BY <1>1, <2>2, SeqsEdited
    <3>4. Listing(Dropped(s[o], m), key', valOf') = Listing(Dropped(s[o], m), key, valOf)
      BY <1>1
    <3> QED BY <1>3, <3>2, <3>3, <3>4
  <2>3. \/ (\A i \in 1..Len(s[o]) : key[s[o][i]] # k) /\ Rep(s)'
        \/ \E m \in 1..Len(s[o]) :
             key[s[o][m]] = k /\ Rep([s EXCEPT ![o] = Dropped(s[o], m)])'
    BY RemoveStep
  <2> QED BY <2>1, <2>2, <2>3
<1> QED BY <1>1, <1>4
    DEF Promise!RemoveAll, Promise!HoldsObject, Promise!Answer, IsObj, Seqs

LEMMA CleanMaps ==
  ASSUME Typed, Typed', NEW s, Rep(s), NEW o \in Value, CleanObj(o)
  PROVE  Promise!Clear(o)
<1>1. /\ IsObj(o) /\ o \in held /\ ret' = TRUE
      /\ UNCHANGED <<used, held, what, valOf, key>>
  BY DEF CleanObj, Receiver
<1>2. Seqs' = [Seqs EXCEPT ![what[o]] = Listing(<< >>, key', valOf')]
  <2>1. PICK r : r = << >>
    OBVIOUS
  <2>2. Rep([s EXCEPT ![o] = r])'
    BY <2>1, CleanStep
  <2>3. Seqs' = [Seqs EXCEPT ![what[o]] = Listing(r, key', valOf')]
    BY <1>1, <2>2, SeqsEdited
  <2> QED BY <2>1, <2>3
<1>3. Listing(<< >>, key', valOf') = << >>
  <2>1. Len(<< >>) = 0 /\ 1..0 = {}
    OBVIOUS
  <2> QED BY <2>1 DEF Listing
<1> QED BY <1>1, <1>2, <1>3
    DEF Promise!Clear, Promise!HoldsObject, Promise!Answer, IsObj, Seqs

LEMMA PointerMaps ==
  ASSUME Typed, Typed', Disciplined, NEW s, Rep(s), NEW o \in Value, NEW k, NEW hit,
         GetPointer(o, k, hit)
  PROVE  \E v \in Value : Promise!Lookup(v)
<1>1. /\ Defined(o) /\ HasMatch(o, k, hit)
      /\ UNCHANGED <<used, what, valOf, key, ret>>
      /\ held' = held \cup {valOf[Ring(o)[FirstMatch(o, k, hit)]]}
  BY DEF GetPointer
<1>2. PICK i \in 1..Len(s[o]) : Ring(o)[FirstMatch(o, k, hit)] = s[o][i]
  BY <1>1, FirstIs
<1>3. PICK v : v = valOf[s[o][i]]
  OBVIOUS
<1>4. v \in Value /\ Linked(v) /\ held' = held \cup {v}
  <2>1. s[o][i] \in KeyNodes
    BY RepRing
  <2> QED BY <1>1, <1>2, <1>3, <2>1, RepLinked DEF Typed, TypeOK
<1>5. Promise!IsPlaced(v)
  BY <1>4, PlacedIs
<1>6. Seqs' = Seqs
  BY <1>1, OtherStep, SeqsKept
<1> QED BY <1>1, <1>4, <1>5, <1>6 DEF Promise!Lookup, Seqs

LEMMA ReplaceMaps ==
  ASSUME Typed, Typed', Disciplined, NEW s, Rep(s), NEW o \in Value, NEW k, NEW v \in Value,
         NEW hit, ReplaceObj(o, k, v, hit)
  PROVE  Promise!Replace(o, k, v) \/ Promise!Refuse(o, k)
<1>1. o \in held /\ v \in Promise!Free /\ UNCHANGED <<used, held, valOf>>
  BY FreeMaps DEF ReplaceObj
<1> DEFINE e == Listing(s[o], key, valOf)  L == Len(s[o])
<1>2. /\ s[o] \in Seq(KeyNodes) /\ L \in Nat
      /\ \A i, j \in 1..L : key[s[o][i]] = key[s[o][j]] => i = j
  BY RepRing DEF Rep, Listed
<1>3. IsObj(o) => Seqs[what[o]] = e
  BY SeqsAre DEF IsObj
<1>4. DOMAIN e = 1..L /\ Len(e) = L /\ \A i \in 1..L : e[i] = <<key[s[o][i]], valOf[s[o][i]]>>
  BY <1>2 DEF Listing
<1> HIDE DEF e
<1>5. CASE /\ Rep(s)' /\ what' = what /\ key' = key
           /\ (IsObj(o) => \A i \in 1..L : key[s[o][i]] # k)
  <2>1. Seqs' = Seqs
    BY <1>1, <1>5, SeqsKept
  <2>2. IsObj(o) => \A x \in Promise!ToSet(Seqs[what[o]]) : x[1] # k
    BY <1>3, <1>4, <1>5 DEF Promise!ToSet
  <2>3. ~IsObj(o) \/ ~HasMatch(o, k, hit)
    BY <1>5, FirstIs DEF ReplaceObj
  <2>4. ret' = FALSE
    BY <2>3 DEF ReplaceObj
  <2> QED BY <1>1, <1>5, <2>1, <2>2, <2>4
      DEF Promise!Refuse, Promise!Answer, IsObj, Seqs
<1>6. ASSUME NEW m \in 1..L, NEW w, w = valOf[s[o][m]],
             key[s[o][m]] = k, IsObj(o), w \in used, v \in used,
             what' = Swap(what, w, v), key' = key, Rep(Swap(s, w, v))'
      PROVE  Promise!Replace(o, k, v)
  <2>1. Seqs' = Seqs
    BY <1>1, <1>6, SeqsKept DEF Typed, TypeOK
  <2>2. {i \in 1..Len(e) : e[i][1] = k} = {m}
    BY <1>2, <1>4, <1>6
  <2>3. Promise!SelectInSeq(e, LAMBDA x : x[1] = k) = m
    BY <1>2, <2>2 DEF Promise!SelectInSeq, Promise!Min
  <2>4. m # 0 /\ e[m][2] = w
    BY <1>4, <1>6
  <2>5. ret' = TRUE
    BY <1>6, FirstIs DEF ReplaceObj
  <2> QED BY <1>1, <1>3, <1>6, <2>1, <2>3, <2>4, <2>5
      DEF Promise!Replace, Promise!HoldsObject, Promise!Answer, IsObj, Seqs, Swap
<1>7. \/ Rep(s)' /\ what' = what /\ key' = key
         /\ (IsObj(o) => \A i \in 1..L : key[s[o][i]] # k)
      \/ \E i \in 1..L, w \in used :
           /\ w = valOf[s[o][i]] /\ key[s[o][i]] = k /\ IsObj(o) /\ v \in used
           /\ what' = Swap(what, w, v) /\ key' = key
           /\ Rep(Swap(s, w, v))'
  BY ReplaceStep
<1> QED BY <1>5, <1>6, <1>7

LEMMA InitMaps ==
  ASSUME Init
  PROVE  Promise!Init
<1>1. Typed /\ Rep([o \in Value |-> << >>])
  BY InitTyped, InitStep
<1>2. ASSUME NEW c \in Objs PROVE EntriesOf(c) = << >>
  <2>1. PICK x \in Value : what[x] = c
    BY <1>1 DEF Typed, Contents, Value
  <2>2. PICK r : r = << >> /\ [o \in Value |-> << >>][x] = r
    OBVIOUS
  <2>3. EntriesOf(c) = Listing(r, key, valOf)
    BY <1>1, <2>1, <2>2, EntriesAre
  <2>4. Len(<< >>) = 0 /\ 1..0 = {}
    OBVIOUS
  <2> QED BY <2>2, <2>3, <2>4 DEF Listing
<1>3. Seqs = [c \in Objs |-> << >>]
  BY <1>2 DEF Seqs
<1> QED BY <1>3 DEF Init, Promise!Init, Promise!Place, Value, Seqs

LEMMA NextMaps ==
  ASSUME Disciplined, IInv, [Next]_vars
  PROVE  [Promise!Next]_(Promise!vars)
<1>1. PICK s : Rep(s)
  BY DEF IInv
<1>2. Typed /\ Typed' /\ Value = Promise!Place
  BY TypedNext DEF IInv, Value, Promise!Place
<1>3. ASSUME NEW v \in Value, CreateFree(v) PROVE Promise!Next
  <2>1. Promise!Create(v)
    BY <1>1, <1>2, <1>3, CreateMaps
  <2> QED BY <1>2, <2>1 DEF Promise!Next
<1>4. ASSUME NEW v \in Value, CleanObj(v) PROVE Promise!Next
  <2>1. Promise!Clear(v)
    BY <1>1, <1>2, <1>4, CleanMaps
  <2> QED BY <1>2, <2>1 DEF Promise!Next
<1>5. ASSUME NEW o \in Value, NEW v \in Value, NEW k \in Keys, NEW n \in KeyNodes,
             \/ CreateJsonMut(o, k, n, v) \/ JsonToMut(o, k, n, v)
             \/ Add(o, k, n, v) \/ Bind(o, k, n, v)
      PROVE  Promise!Next
  <2>1. \/ Promise!CreateBound(o, k, v) \/ Promise!CreateFilled(o, k, v)
        \/ Promise!AddScalar(o, k, v) \/ Promise!Bind(o, k, v)
    BY <1>1, <1>2, <1>5, AddMaps
  <2> QED BY <1>2, <2>1 DEF Promise!Next
<1>6. ASSUME NEW o \in Value, NEW k \in Keys, NEW hit, RemoveObj(o, k, hit)
      PROVE  Promise!Next
  <2>1. Promise!RemoveAll(o, k)
    BY <1>1, <1>2, <1>6, RemoveMaps
  <2> QED BY <1>2, <2>1 DEF Promise!Next
<1>7. ASSUME NEW o \in Value, NEW k \in Keys, NEW hit, GetPointer(o, k, hit)
      PROVE  Promise!Next
  <2>1. \E v \in Value : Promise!Lookup(v)
    BY <1>1, <1>2, <1>7, PointerMaps
  <2> QED BY <1>2, <2>1 DEF Promise!Next
<1>8. ASSUME NEW o \in Value, NEW k \in Keys, NEW v \in Value, NEW hit,
             ReplaceObj(o, k, v, hit)
      PROVE  Promise!Next
  <2>1. Promise!Replace(o, k, v) \/ Promise!Refuse(o, k)
    BY <1>1, <1>2, <1>8, ReplaceMaps
  <2> QED BY <1>2, <2>1 DEF Promise!Next
<1>9. CASE UNCHANGED vars
  <2>1. UNCHANGED <<used, held, what, next, last, len, valOf, key, ret, top>>
    BY <1>9 DEF vars
  <2>2. Seqs' = Seqs
    BY <1>1, <1>2, <2>1, SameStep, SeqsKept
  <2> QED BY <2>1, <2>2 DEF Promise!vars, Seqs
<1> QED BY <1>3, <1>4, <1>5, <1>6, <1>7, <1>8, <1>9 DEF Next

(* Driven through the natives by such a client, the linked key and value   *)
(* nodes are the sequences of entries a user of JsonMutObject thinks of,   *)
(* with the same answers, also where replaceObj exchanges contents.        *)
THEOREM ObjectsImplemented ==
  ASSUME Disciplined
  PROVE  Spec => ImplementsObjects
<1>1. Init => Promise!Init
  BY InitMaps
<1>2. IInv /\ [Next]_vars => [Promise!Next]_(Promise!vars)
  BY NextMaps
<1> QED BY <1>1, <1>2, Invariance, PTL DEF Spec, ImplementsObjects, Promise!Spec
=============================================================================
