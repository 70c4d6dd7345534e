--------------------------- MODULE MutArr_proofs ---------------------------
(***************************************************************************)
(* Proofs about MutArr, for any nodes, positions and ranges.               *)
(*                                                                         *)
(* The invariant says that some function from arrays to sequences of nodes *)
(* is what the pointers represent.  Each action is shown to leave such a   *)
(* function: the one before with the sequence of the receiver edited.      *)
(***************************************************************************)
EXTENDS MutArr, FiniteSetTheorems, SequenceTheorems, WellFoundedInduction, TLAPS

LEMMA Smallest ==
  ASSUME NEW T, T \subseteq Nat, T # {}
  PROVE  \E x \in T : \A y \in T : x <= y
<1>1. PICK x \in T : \A y \in T : ~(<<y, x>> \in OpToRel(<, Nat))
  BY NatLessThanWellFounded, WFMin, Zenon
<1>2. ASSUME NEW y \in T PROVE x <= y
  <2>1. ~(<<y, x>> \in {ss \in Nat \X Nat : ss[1] < ss[2]})
    BY <1>1 DEF OpToRel
  <2> QED BY <2>1
<1> QED BY <1>2

-----------------------------------------------------------------------------
(* Walk, with the function next as a parameter.                            *)
WalkIn(nx, n, k) ==
  LET w[j \in 0..k] == IF j = 0 THEN n ELSE nx[w[j - 1]] IN w[k]

Succ(nx, n) == nx[n]

(* w lists the nodes on the way.                                           *)
Trace(w, nx, n, k) == w = [j \in 0..k |-> IF j = 0 THEN n ELSE Succ(nx, w[j - 1])]

Upto(w, k) == w = [j \in 0..k |-> w[j]]

LEMMA TraceIs ==
  ASSUME NEW nx, NEW n, NEW k \in Nat, NEW w, Upto(w, k),
         w[0] = n, \A j \in 1..k : w[j] = Succ(nx, w[j - 1])
  PROVE  Trace(w, nx, n, k)
<1>1. \A j \in 0..k : w[j] = IF j = 0 THEN n ELSE Succ(nx, w[j - 1])
  OBVIOUS
<1> QED BY <1>1 DEF Trace, Upto

LEMMA TraceSteps ==
  ASSUME NEW nx, NEW n, NEW k \in Nat, NEW w, Trace(w, nx, n, k)
  PROVE  w[0] = n /\ \A j \in 1..k : w[j] = Succ(nx, w[j - 1])
BY DEF Trace

LEMMA TraceExists ==
  ASSUME NEW nx, NEW n, NEW k \in Nat
  PROVE  \E w : Trace(w, nx, n, k)
<1> DEFINE T == {m \in Nat : ~\E w : Trace(w, nx, n, m)}
<1> SUFFICES ASSUME T # {} PROVE FALSE
  OBVIOUS
<1>1. PICK m \in T : \A y \in T : m <= y
  BY Smallest
<1>2. CASE m = 0
  <2>1. Trace([j \in 0..0 |-> n], nx, n, 0)
    BY DEF Trace
  <2> QED BY <1>2, <2>1
<1>3. CASE m # 0
  <2>1. m - 1 \in Nat /\ m - 1 \notin T
    BY <1>1, <1>3
  <2>2. PICK w : Trace(w, nx, n, m - 1)
    BY <2>1
  <2> DEFINE v == [j \in 0..m |-> IF j < m THEN w[j] ELSE Succ(nx, w[m - 1])]
  <2>3. w[0] = n /\ \A j \in 1..(m - 1) : w[j] = Succ(nx, w[j - 1])
    BY <2>1, <2>2, TraceSteps
  <2>4. v[0] = n /\ \A j \in 1..m : v[j] = Succ(nx, v[j - 1])
    BY <1>3, <2>1, <2>3
  <2>5. Upto(v, m)
    BY DEF Upto
  <2> HIDE DEF v
  <2>6. Trace(v, nx, n, m)
    BY <2>4, <2>5, TraceIs
  <2> QED BY <2>6
<1> QED BY <1>2, <1>3

LEMMA TraceUnique ==
  ASSUME NEW nx, NEW n, NEW k \in Nat, NEW v, NEW w, Trace(v, nx, n, k), Trace(w, nx, n, k)
  PROVE  v[k] = w[k]
<1> DEFINE T == {m \in 0..k : v[m] # w[m]}
<1> SUFFICES ASSUME T # {} PROVE FALSE
  OBVIOUS
<1>1. PICK m \in T : \A y \in T : m <= y
  <2>1. T \subseteq Nat
    OBVIOUS
  <2> HIDE DEF T
  <2> QED BY <2>1, Smallest
<1>2. /\ v[0] = n /\ \A j \in 1..k : v[j] = Succ(nx, v[j - 1])
      /\ w[0] = n /\ \A j \in 1..k : w[j] = Succ(nx, w[j - 1])
  BY TraceSteps
<1>3. m \in 1..k /\ v[m] # w[m]
  BY <1>2
<1>4. v[m - 1] = w[m - 1]
  BY <1>1, <1>3
<1> QED BY <1>2, <1>3, <1>4

LEMMA WalkTrace ==
  ASSUME NEW nx, NEW n, NEW k \in Nat, NEW w, Trace(w, nx, n, k)
  PROVE  WalkIn(nx, n, k) = w[k]
<1> DEFINE f == CHOOSE g : Trace(g, nx, n, k)
<1>1. Trace(f, nx, n, k)
  BY TraceExists
<1>2. WalkIn(nx, n, k) = f[k]
  BY DEF WalkIn, Trace, Succ
<1> HIDE DEF f
<1> QED BY <1>1, <1>2, TraceUnique

LEMMA WalkStep ==
  ASSUME NEW nx, NEW n, NEW k \in Nat
  PROVE  WalkIn(nx, n, 0) = n /\ WalkIn(nx, n, k + 1) = Succ(nx, WalkIn(nx, n, k))
<1>1. WalkIn(nx, n, 0) = n
  <2>1. PICK w : Trace(w, nx, n, 0)
    BY TraceExists
  <2>2. w[0] = n /\ WalkIn(nx, n, 0) = w[0]
    BY <2>1, TraceSteps, WalkTrace
  <2> QED BY <2>2
<1>2. PICK w : Trace(w, nx, n, k + 1)
  BY TraceExists
<1>3. w[0] = n /\ \A j \in 1..(k + 1) : w[j] = Succ(nx, w[j - 1])
  <2> DEFINE m == k + 1
  <2>1. m \in Nat /\ Trace(w, nx, n, m)
    BY <1>2
  <2>2. m = k + 1
    OBVIOUS
  <2> HIDE DEF m
  <2>3. w[0] = n /\ \A j \in 1..m : w[j] = Succ(nx, w[j - 1])
    BY <2>1, TraceSteps
  <2> QED BY <2>2, <2>3
<1> DEFINE v == [j \in 0..k |-> w[j]]
<1>4. Upto(v, k) /\ v[0] = n /\ \A j \in 1..k : v[j] = Succ(nx, v[j - 1])
  BY <1>3 DEF Upto
<1>5. v[k] = w[k] /\ w[k + 1] = Succ(nx, w[k])
  BY <1>3
<1> HIDE DEF v
<1>6. Trace(v, nx, n, k)
  BY <1>4, TraceIs
<1>7. WalkIn(nx, n, k) = v[k] /\ WalkIn(nx, n, k + 1) = w[k + 1]
  BY <1>2, <1>6, WalkTrace
<1> QED BY <1>1, <1>5, <1>7

-----------------------------------------------------------------------------
(* Sequences of nodes without repetition, and the cycles they stand for.   *)
Distinct(s) ==
  s \in Seq(Node) /\ \A i, j \in 1..Len(s) : s[i] = s[j] => i = j

Ring(s, nx, l) ==
  /\ Len(s) > 0 => s[Len(s)] = l
  /\ \A i \in 1..Len(s) : nx[s[i]] = IF i = Len(s) THEN s[1] ELSE s[i + 1]

(* Position 0 is the last node, from which uni.ptr starts.                 *)
At(s, i) == IF i = 0 THEN s[Len(s)] ELSE IF i = Len(s) + 1 THEN s[1] ELSE s[i]

LEMMA WalkRing ==
  ASSUME NEW s, Distinct(s), Len(s) > 0, NEW nx, NEW l, Ring(s, nx, l),
         NEW i \in 0..Len(s), NEW k \in Nat, i + k <= Len(s) + 1
  PROVE  WalkIn(nx, At(s, i), k) = At(s, i + k)
<1> DEFINE T == {m \in 0..k : WalkIn(nx, At(s, i), m) # At(s, i + m)}
<1> SUFFICES ASSUME T # {} PROVE FALSE
  OBVIOUS
<1>1. PICK m \in T : \A y \in T : m <= y
  <2>1. T \subseteq Nat
    OBVIOUS
  <2> HIDE DEF T
  <2> QED BY <2>1, Smallest
<1>0. Len(s) \in Nat
  BY DEF Distinct
<1>2. WalkIn(nx, At(s, i), 0) = At(s, i)
  BY WalkStep
<1>3. m # 0 /\ m - 1 \in Nat /\ m <= k
  BY <1>1, <1>2
<1>4. WalkIn(nx, At(s, i), m - 1) = At(s, i + (m - 1))
  BY <1>1, <1>3
<1>5. WalkIn(nx, At(s, i), m) = nx[WalkIn(nx, At(s, i), m - 1)]
  <2>1. \A j \in Nat : WalkIn(nx, At(s, i), j + 1) = nx[WalkIn(nx, At(s, i), j)]
    BY WalkStep DEF Succ
  <2>2. (m - 1) + 1 = m
    BY <1>3
  <2> QED BY <1>3, <2>1, <2>2
<1>6. \A j \in 0..Len(s) : nx[At(s, j)] = At(s, j + 1)
  BY <1>0 DEF Ring, At
<1>7. i + (m - 1) \in 0..Len(s) /\ (i + (m - 1)) + 1 = i + m
  BY <1>0, <1>3
<1> QED BY <1>1, <1>4, <1>5, <1>6, <1>7

-----------------------------------------------------------------------------
(* The three edits of a cycle.  prev is the node idx steps from the last.  *)
Inserted(s, idx, v) ==
  [i \in 1..(Len(s) + 1) |-> IF i <= idx THEN s[i] ELSE IF i = idx + 1 THEN v ELSE s[i - 1]]

Replaced(s, idx, v) == [i \in 1..Len(s) |-> IF i = idx + 1 THEN v ELSE s[i]]

Without(s, idx, cnt) ==
  [i \in 1..(Len(s) - cnt) |-> IF i <= idx THEN s[i] ELSE s[i + cnt]]

(* The elements of r come from s or are v.                                 *)
Within(r, s, v) ==
  \A i \in 1..Len(r) : r[i] = v \/ \E j \in 1..Len(s) : r[i] = s[j]

LEMMA AtNode ==
  ASSUME NEW s, Distinct(s), Len(s) > 0, NEW i \in 0..(Len(s) + 1)
  PROVE  At(s, i) \in Node
BY DEF Distinct, At

LEMMA InsertRing ==
  ASSUME NEW s, Distinct(s), NEW nx \in [Node -> Node], NEW l, Ring(s, nx, l),
         NEW v \in Node, \A j \in 1..Len(s) : s[j] # v, NEW idx \in 0..Len(s),
         Len(s) > 0
  PROVE  /\ Distinct(Inserted(s, idx, v)) /\ Len(Inserted(s, idx, v)) = Len(s) + 1
         /\ Within(Inserted(s, idx, v), s, v)
         /\ Ring(Inserted(s, idx, v), [nx EXCEPT ![At(s, idx)] = v, ![v] = nx[At(s, idx)]],
                 IF idx = Len(s) THEN v ELSE l)
<1> DEFINE L == Len(s)  r == Inserted(s, idx, v)  p == At(s, idx)
           nx1 == [nx EXCEPT ![p] = v, ![v] = nx[p]]
<1>1. L \in Nat /\ L > 0 /\ idx \in 0..L /\ s \in Seq(Node)
  BY DEF Distinct
<1>2. p \in Node /\ p # v /\ nx[p] = At(s, idx + 1)
  <2>1. p \in Node
    BY <1>1, AtNode
  <2>2. p # v /\ nx[p] = At(s, idx + 1)
    BY <1>1 DEF At, Ring
  <2> QED BY <2>1, <2>2
<1>3. \A n \in Node : nx1[n] = IF n = v THEN At(s, idx + 1) ELSE IF n = p THEN v ELSE nx[n]
  BY <1>2
<1>4. /\ r \in Seq(Node) /\ Len(r) = L + 1
      /\ \A i \in 1..(L + 1) : r[i] = IF i <= idx THEN s[i] ELSE IF i = idx + 1 THEN v ELSE s[i - 1]
  BY <1>1 DEF Inserted
<1> HIDE DEF r, L
<1>5. Distinct(r) /\ Within(r, s, v)
  <2>1. \A i, j \in 1..L : s[i] = s[j] => i = j
    BY DEF Distinct, L
  <2>2. \A j \in 1..L : s[j] # v
    BY DEF L
  <2>3. ASSUME NEW i \in 1..(L + 1), NEW j \in 1..(L + 1), r[i] = r[j] PROVE i = j
    <3>1. ASSUME NEW k \in 1..(L + 1), k # idx + 1
          PROVE  (IF k <= idx THEN k ELSE k - 1) \in 1..L /\ r[k] = s[IF k <= idx THEN k ELSE k - 1]
      BY <1>1, <1>4, <3>1
    <3>2. r[idx + 1] = v
      BY <1>1, <1>4
    <3>3. CASE i # idx + 1 /\ j # idx + 1
      <4>1. (IF i <= idx THEN i ELSE i - 1) = (IF j <= idx THEN j ELSE j - 1)
        BY <2>1, <2>3, <3>1, <3>3
      <4> QED BY <1>1, <3>3, <4>1
    <3>4. CASE i = idx + 1 /\ j # idx + 1
      BY <2>2, <2>3, <3>1, <3>2, <3>4
    <3>5. CASE i # idx + 1 /\ j = idx + 1
      BY <2>2, <2>3, <3>1, <3>2, <3>5
    <3> QED BY <3>3, <3>4, <3>5
  <2>4. ASSUME NEW i \in 1..(L + 1) PROVE r[i] = v \/ \E j \in 1..L : r[i] = s[j]
    BY <1>1, <1>4
  <2> QED BY <1>4, <2>3, <2>4 DEF Distinct, Within, L
<1>6. Ring(r, nx1, IF idx = L THEN v ELSE l)
  <2>0. s[L] = l /\ \A i \in 1..L : nx[s[i]] = IF i = L THEN s[1] ELSE s[i + 1]
    BY <1>1 DEF Ring, L
  <2>1. r[L + 1] = IF idx = L THEN v ELSE l
    BY <1>1, <1>4, <2>0
  <2>2. ASSUME NEW i \in 1..(L + 1)
        PROVE  nx1[r[i]] = IF i = L + 1 THEN r[1] ELSE r[i + 1]
    <3>0. \A k, j \in 1..L : s[k] = s[j] => k = j
      BY DEF Distinct, L
    <3>1. \A j \in 1..L : s[j] # v /\ s[j] \in Node
      BY <1>1 DEF L
    <3>2. p = IF idx = 0 THEN s[L] ELSE s[idx]
      BY <1>1 DEF At, L
    <3>3. At(s, idx + 1) = IF idx = L THEN s[1] ELSE s[idx + 1]
      BY <1>1 DEF At, L
    <3> HIDE DEF nx1, p
    <3>4. CASE i <= idx
      <4>1. r[i] = s[i] /\ i \in 1..L /\ nx1[s[i]] = IF s[i] = p THEN v ELSE nx[s[i]]
        BY <1>1, <1>3, <1>4, <3>1, <3>4
      <4>2. s[i] = p <=> i = idx
        BY <1>1, <3>0, <3>2, <3>4
      <4> QED BY <1>1, <1>4, <2>0, <3>4, <4>1, <4>2
    <3>5. CASE i = idx + 1
      <4>1. nx1[r[i]] = At(s, idx + 1)
        BY <1>1, <1>3, <1>4, <3>5
      <4> QED BY <1>1, <1>4, <3>3, <3>5, <4>1
    <3>6. CASE i > idx + 1
      <4>1. r[i] = s[i - 1] /\ i - 1 \in 1..L
            /\ nx1[s[i - 1]] = IF s[i - 1] = p THEN v ELSE nx[s[i - 1]]
        BY <1>1, <1>3, <1>4, <3>1, <3>6
      <4>2. s[i - 1] = p <=> idx = 0 /\ i = L + 1
        BY <1>1, <3>0, <3>2, <3>6, <4>1
      <4>3. CASE i <= L
        <5>1. nx1[r[i]] = nx[s[i - 1]]
          BY <1>1, <4>1, <4>2, <4>3
        <5>2. nx[s[i - 1]] = s[i]
          BY <1>1, <2>0, <3>6, <4>1, <4>3
        <5>3. r[i + 1] = s[i] /\ i # L + 1
          <6>1. i + 1 \in 1..(L + 1) /\ ~(i + 1 <= idx) /\ i + 1 # idx + 1 /\ (i + 1) - 1 = i
            BY <1>1, <3>6, <4>3
          <6> QED BY <1>4, <4>3, <6>1
        <5> QED BY <5>1, <5>2, <5>3
      <4>4. CASE i = L + 1 /\ idx = 0
        BY <1>1, <1>4, <4>1, <4>2, <4>4
      <4>5. CASE i = L + 1 /\ idx # 0
        <5>1. nx1[r[i]] = s[1]
          BY <1>1, <2>0, <4>1, <4>2, <4>5
        <5> QED BY <1>1, <1>4, <4>5, <5>1
      <4> QED BY <1>1, <4>3, <4>4, <4>5
    <3> QED BY <1>1, <3>4, <3>5, <3>6
  <2> QED BY <1>4, <2>1, <2>2 DEF Ring
<1> QED BY <1>4, <1>5, <1>6 DEF L, r

LEMMA ReplaceRing ==
  ASSUME NEW s, Distinct(s), NEW nx \in [Node -> Node], NEW l, Ring(s, nx, l),
         NEW v \in Node, \A j \in 1..Len(s) : s[j] # v, NEW idx \in 0..(Len(s) - 1),
         Len(s) > 1
  PROVE  /\ Distinct(Replaced(s, idx, v)) /\ Len(Replaced(s, idx, v)) = Len(s)
         /\ Within(Replaced(s, idx, v), s, v)
         /\ Ring(Replaced(s, idx, v),
                 [nx EXCEPT ![At(s, idx)] = v, ![v] = nx[nx[At(s, idx)]]],
                 IF nx[At(s, idx)] = l THEN v ELSE l)
<1> DEFINE L == Len(s)  r == Replaced(s, idx, v)  p == At(s, idx)
           nx1 == [nx EXCEPT ![p] = v, ![v] = nx[nx[p]]]
<1>1. L \in Nat /\ L > 1 /\ idx \in 0..(L - 1) /\ s \in Seq(Node)
  BY DEF Distinct
<1>2. /\ \A k, j \in 1..L : s[k] = s[j] => k = j
      /\ \A j \in 1..L : s[j] # v /\ s[j] \in Node
      /\ s[L] = l /\ \A i \in 1..L : nx[s[i]] = IF i = L THEN s[1] ELSE s[i + 1]
  BY <1>1 DEF Distinct, Ring
<1>3. p = IF idx = 0 THEN s[L] ELSE s[idx]
  BY <1>1 DEF At
<1>4. nx[p] = s[idx + 1] /\ p \in Node /\ p # v /\ idx + 1 \in 1..L
  BY <1>1, <1>2, <1>3
<1>5. nx[nx[p]] = IF idx + 1 = L THEN s[1] ELSE s[idx + 2]
  BY <1>1, <1>2, <1>4
<1>6. \A n \in Node : nx1[n] = IF n = v THEN nx[nx[p]] ELSE IF n = p THEN v ELSE nx[n]
  BY <1>4
<1>7. /\ r \in Seq(Node) /\ Len(r) = L
      /\ \A i \in 1..L : r[i] = IF i = idx + 1 THEN v ELSE s[i]
  BY <1>1 DEF Replaced
<1> HIDE DEF r, L, nx1, p
<1>8. Distinct(r) /\ Within(r, s, v)
  <2>1. \A i, j \in 1..L : r[i] = r[j] => i = j
    BY <1>2, <1>7
  <2>2. ASSUME NEW i \in 1..L PROVE r[i] = v \/ \E j \in 1..L : r[i] = s[j]
    BY <1>7
  <2> QED BY <1>7, <2>1, <2>2 DEF Distinct, Within, L
<1>9. Ring(r, nx1, IF nx[p] = l THEN v ELSE l)
  <2>1. r[L] = IF nx[p] = l THEN v ELSE l
    BY <1>1, <1>2, <1>4, <1>7
  <2>2. ASSUME NEW i \in 1..L PROVE nx1[r[i]] = IF i = L THEN r[1] ELSE r[i + 1]
    <3>1. CASE i = idx + 1
      <4>1. nx1[r[i]] = nx[nx[p]]
        BY <1>2, <1>6, <1>7, <3>1
      <4>2. CASE i = L
        BY <1>1, <1>5, <1>7, <3>1, <4>1, <4>2
      <4>3. CASE i # L
        <5>1. i + 1 \in 1..L /\ i + 1 # idx + 1 /\ i + 1 = idx + 2
          BY <1>1, <3>1, <4>3
        <5> QED BY <1>5, <1>7, <3>1, <4>1, <4>3, <5>1
      <4> QED BY <4>2, <4>3
    <3>2. CASE i # idx + 1
      <4>1. nx1[r[i]] = IF s[i] = p THEN v ELSE nx[s[i]]
        BY <1>2, <1>6, <1>7, <3>2
      <4>2. s[i] = p <=> i = (IF idx = 0 THEN L ELSE idx)
        BY <1>1, <1>2, <1>3
      <4>3. CASE i = L
        BY <1>1, <1>2, <1>7, <3>2, <4>1, <4>2, <4>3
      <4>4. CASE i # L
        <5>1. i + 1 \in 1..L /\ (i + 1 = idx + 1 <=> i = idx)
          BY <1>1, <4>4
        <5>2. s[i] = p <=> i = idx
          BY <1>1, <4>2, <4>4
        <5> QED BY <1>2, <1>7, <4>1, <4>4, <5>1, <5>2
      <4> QED BY <4>3, <4>4
    <3> QED BY <3>1, <3>2
  <2> QED BY <1>7, <2>1, <2>2 DEF Ring
<1> QED BY <1>7, <1>8, <1>9 DEF L, r, nx1, p

(* The links and the last node when cnt elements after the idx first go.   *)
CutLinks(nx, s, idx, cnt) == [nx EXCEPT ![At(s, idx)] = At(s, idx + cnt + 1)]
CutLast(l, s, idx, cnt) == IF idx + cnt = Len(s) THEN At(s, idx) ELSE l

LEMMA CutRing ==
  ASSUME NEW s, Distinct(s), NEW nx \in [Node -> Node], NEW l, Ring(s, nx, l),
         NEW idx \in Nat, NEW cnt \in Nat, idx + cnt <= Len(s), 0 < cnt, cnt < Len(s)
  PROVE  /\ Distinct(Without(s, idx, cnt)) /\ Len(Without(s, idx, cnt)) = Len(s) - cnt
         /\ \A v : Within(Without(s, idx, cnt), s, v)
         /\ Ring(Without(s, idx, cnt), CutLinks(nx, s, idx, cnt), CutLast(l, s, idx, cnt))
<1> DEFINE L == Len(s)  r == Without(s, idx, cnt)  p == At(s, idx)  q == At(s, idx + cnt + 1)
           nx1 == [nx EXCEPT ![p] = q]
<1>1. L \in Nat /\ L > 1 /\ idx \in 0..(L - 1) /\ s \in Seq(Node) /\ idx + cnt <= L /\ cnt < L
      /\ L - cnt \in 1..L
  BY DEF Distinct
<1>2. /\ \A k, j \in 1..L : s[k] = s[j] => k = j
      /\ \A j \in 1..L : s[j] \in Node
      /\ s[L] = l /\ \A i \in 1..L : nx[s[i]] = IF i = L THEN s[1] ELSE s[i + 1]
  BY <1>1 DEF Distinct, Ring
<1>3. p = (IF idx = 0 THEN s[L] ELSE s[idx]) /\ p \in Node
  BY <1>1, <1>2 DEF At
<1>4. q = IF idx + cnt = L THEN s[1] ELSE s[idx + cnt + 1]
  BY <1>1 DEF At
<1>5. \A n \in Node : nx1[n] = IF n = p THEN q ELSE nx[n]
  BY <1>3
<1>6. /\ r \in Seq(Node) /\ Len(r) = L - cnt
      /\ \A i \in 1..(L - cnt) : r[i] = IF i <= idx THEN s[i] ELSE s[i + cnt]
  BY <1>1 DEF Without
<1> HIDE DEF r, L, nx1, p, q
<1> DEFINE at(i) == IF i <= idx THEN i ELSE i + cnt
<1>7. \A i \in 1..(L - cnt) : at(i) \in 1..L /\ r[i] = s[at(i)]
  BY <1>1, <1>6
<1>8. Distinct(r) /\ \A v : Within(r, s, v)
  <2>1. ASSUME NEW i \in 1..(L - cnt), NEW j \in 1..(L - cnt), r[i] = r[j] PROVE i = j
    <3>1. at(i) \in 1..L /\ at(j) \in 1..L /\ s[at(i)] = s[at(j)]
      BY <1>7, <2>1
    <3> HIDE DEF at
    <3>2. at(i) = at(j)
      BY <1>2, <3>1
    <3> QED BY <1>1, <3>2 DEF at
  <2> QED BY <1>6, <1>7, <2>1 DEF Distinct, Within, L
<1>9. Ring(r, nx1, IF idx + cnt = L THEN p ELSE l)
  <2>1. r[L - cnt] = IF idx + cnt = L THEN p ELSE l
    <3>1. CASE idx + cnt = L
      <4>1. L - cnt = idx /\ idx # 0
        BY <1>1, <3>1
      <4> QED BY <1>1, <1>3, <1>6, <3>1, <4>1
    <3>2. CASE idx + cnt # L
      <4>1. ~(L - cnt <= idx) /\ (L - cnt) + cnt = L
        BY <1>1, <3>2
      <4>2. r[L - cnt] = s[(L - cnt) + cnt]
        BY <1>1, <1>6, <4>1
      <4>3. s[(L - cnt) + cnt] = s[L]
        BY <4>1
      <4> QED BY <1>2, <3>2, <4>2, <4>3
    <3> QED BY <3>1, <3>2
  <2>2. ASSUME NEW i \in 1..(L - cnt) PROVE nx1[r[i]] = IF i = L - cnt THEN r[1] ELSE r[i + 1]
    <3>1. nx1[r[i]] = IF s[at(i)] = p THEN q ELSE nx[s[at(i)]]
      BY <1>2, <1>5, <1>7
    <3>2. s[at(i)] = p <=> at(i) = (IF idx = 0 THEN L ELSE idx)
      BY <1>1, <1>2, <1>3, <1>7
    <3>3. r[1] = IF idx = 0 THEN s[1 + cnt] ELSE s[1]
      <4>1. 1 \in 1..(L - cnt) /\ (1 <= idx <=> idx # 0)
        BY <1>1
      <4> QED BY <1>6, <4>1
    <3>4. CASE i < idx
      <4>1. i + 1 \in 1..(L - cnt) /\ i + 1 <= idx /\ at(i) = i /\ i # L /\ i # L - cnt
        BY <1>1, <3>4
      <4>2. s[at(i)] # p
        BY <1>1, <3>2, <3>4, <4>1
      <4> QED BY <1>1, <1>2, <1>6, <3>1, <4>1, <4>2
    <3>5. CASE i = idx
      <4>1. nx1[r[i]] = q
        BY <1>1, <3>1, <3>2, <3>5
      <4>2. CASE idx + cnt = L
        BY <1>1, <1>4, <3>3, <3>5, <4>1, <4>2
      <4>3. CASE idx + cnt # L
        <5>1. i # L - cnt /\ i + 1 \in 1..(L - cnt) /\ ~(i + 1 <= idx) /\ (i + 1) + cnt = idx + cnt + 1
          BY <1>1, <3>5, <4>3
        <5> QED BY <1>4, <1>6, <4>1, <4>3, <5>1
      <4> QED BY <4>2, <4>3
    <3>6. CASE i > idx
      <4>1. at(i) = i + cnt /\ i + cnt \in 1..L
        BY <1>1, <3>6
      <4>2. CASE i = L - cnt
        <5>1. at(i) = L
          BY <1>1, <4>1, <4>2
        <5>2. CASE idx = 0
          BY <1>1, <1>4, <3>1, <3>2, <3>3, <4>2, <5>1, <5>2
        <5>3. CASE idx # 0
          BY <1>1, <1>2, <3>1, <3>2, <3>3, <4>2, <5>1, <5>3
        <5> QED BY <5>2, <5>3
      <4>3. CASE i # L - cnt
        <5>1. i + 1 \in 1..(L - cnt) /\ ~(i + 1 <= idx) /\ (i + 1) + cnt = (i + cnt) + 1 /\ i + cnt # L
          BY <1>1, <3>6, <4>3
        <5>2. s[at(i)] # p
          BY <1>1, <3>2, <3>6, <4>1, <5>1
        <5> QED BY <1>2, <1>6, <3>1, <4>1, <4>3, <5>1, <5>2
      <4> QED BY <4>2, <4>3
    <3> QED BY <1>1, <3>4, <3>5, <3>6
  <2> QED BY <1>1, <1>6, <2>1, <2>2 DEF Ring
<1> QED BY <1>6, <1>8, <1>9 DEF L, r, nx1, p, q, CutLinks, CutLast

LEMMA AloneRing ==
  ASSUME NEW v \in Node, NEW nx \in [Node -> Node]
  PROVE  Distinct(<<v>>) /\ Len(<<v>>) = 1 /\ Ring(<<v>>, [nx EXCEPT ![v] = v], v)
BY DEF Distinct, Ring

LEMMA EmptyRing ==
  ASSUME NEW nx, NEW l
  PROVE  Distinct(<< >>) /\ Len(<< >>) = 0 /\ Ring(<< >>, nx, l)
BY DEF Distinct, Ring

-----------------------------------------------------------------------------
(* s is what the pointers of the document represent.                       *)
Apart(s) ==
  \A a, b \in Arrays : \A i \in 1..Len(s[a]), j \in 1..Len(s[b]) :
    s[a][i] = s[b][j] => a = b /\ i = j

Rep(s) ==
  /\ s \in [Arrays -> Seq(Node)] /\ Apart(s)
  /\ \A a \in Arrays :
       /\ Distinct(s[a]) /\ Ring(s[a], next, last[a]) /\ Len(s[a]) = len[a]
       /\ \A i \in 1..Len(s[a]) : s[a][i] \in used \ {Root}

IInv == TypeOK /\ \E s : Rep(s)

Edited(s, a, r) == [s EXCEPT ![a] = r]

LEMMA WalkIs ==
  ASSUME NEW s, Rep(s), NEW a \in Arrays, len[a] > 0,
         NEW i \in 0..len[a], NEW k \in Nat, i + k <= len[a] + 1
  PROVE  /\ last[a] = At(s[a], 0)
         /\ Walk(At(s[a], i), k) = At(s[a], i + k)
<1>1. Distinct(s[a]) /\ Ring(s[a], next, last[a]) /\ Len(s[a]) = len[a]
  BY DEF Rep
<1>2. last[a] = At(s[a], 0)
  BY <1>1 DEF Ring, At
<1>3. WalkIn(next, At(s[a], i), k) = At(s[a], i + k)
  BY <1>1, WalkRing
<1> QED BY <1>2, <1>3 DEF Walk, WalkIn

(* The elements the serialiser finds are the sequence.                     *)
LEMMA ElemsAre ==
  ASSUME TypeOK, NEW s, Rep(s), NEW a \in Arrays
  PROVE  Elems(a) = s[a]
<1>1. len[a] \in Nat /\ Len(s[a]) = len[a] /\ s[a] \in Seq(Node)
  BY DEF TypeOK, Rep
<1>2. ASSUME NEW i \in 1..len[a] PROVE Walk(last[a], i) = s[a][i]
  <2>1. len[a] > 0 /\ 0 \in 0..len[a] /\ i \in Nat /\ 0 + i <= len[a] + 1
    BY <1>1
  <2>2. last[a] = At(s[a], 0) /\ Walk(At(s[a], 0), i) = At(s[a], 0 + i)
    BY <2>1, WalkIs
  <2>3. At(s[a], 0 + i) = s[a][i]
    BY <1>1 DEF At
  <2> QED BY <2>2, <2>3
<1>3. Elems(a) = [i \in 1..len[a] |-> s[a][i]]
  BY <1>2 DEF Elems
<1> QED BY <1>1, <1>3

LEMMA LinkedAre ==
  ASSUME TypeOK, NEW s, Rep(s), NEW v, ~Linked(v)
  PROVE  \A a \in Arrays : \A i \in 1..Len(s[a]) : s[a][i] # v
<1>1. \A a \in Arrays : Elems(a) = s[a]
  BY ElemsAre
<1> QED BY <1>1 DEF Linked, Rep

LEMMA FreeNode ==
  ASSUME TypeOK, NEW s, Rep(s), NEW v \in Free
  PROVE  /\ v \in Node /\ v \in used \ {Root}
         /\ \A a \in Arrays : \A i \in 1..Len(s[a]) : s[a][i] # v
BY LinkedAre DEF Free, TypeOK

(* One array is edited and the others are left alone.                      *)
LEMMA EditOne ==
  ASSUME TypeOK, NEW s, Rep(s), NEW a \in Arrays, NEW r, NEW v,
         Distinct(r), Within(r, s[a], v),
         Len(r) > 0 => v \in used' \ {Root}
                       /\ \A b \in Arrays \ {a} : \A j \in 1..Len(s[b]) : s[b][j] # v,
         Ring(r, next', last'[a]), len'[a] = Len(r), used \subseteq used',
         \A b \in Arrays \ {a} :
           /\ last'[b] = last[b] /\ len'[b] = len[b]
           /\ \A j \in 1..Len(s[b]) : next'[s[b][j]] = next[s[b][j]]
  PROVE  Rep(Edited(s, a, r))'
<1> DEFINE z == Edited(s, a, r)
<1>1. z \in [Arrays -> Seq(Node)] /\ z[a] = r /\ \A b \in Arrays \ {a} : z[b] = s[b]
  BY DEF Edited, Rep, Distinct
<1>2. r \in Seq(Node) /\ \A b \in Arrays : s[b] \in Seq(Node)
  BY DEF Rep, Distinct
<1> HIDE DEF z
<1>3. ASSUME NEW i \in 1..Len(r), NEW b \in Arrays \ {a}, NEW j \in 1..Len(s[b])
      PROVE  r[i] # s[b][j]
  <2>1. Len(r) > 0
    BY <1>2
  <2>2. r[i] = v \/ \E k \in 1..Len(s[a]) : r[i] = s[a][k]
    BY DEF Within
  <2> QED BY <2>1, <2>2 DEF Rep, Apart
<1>4. Apart(z)
  <2>1. \A i, j \in 1..Len(r) : r[i] = r[j] => i = j
    BY DEF Distinct
  <2>2. Apart(s)
    BY DEF Rep
  <2> QED BY <1>1, <1>3, <2>1, <2>2 DEF Apart
<1>5. ASSUME NEW b \in Arrays
      PROVE  /\ Distinct(z[b]) /\ Ring(z[b], next', last'[b]) /\ Len(z[b]) = len'[b]
             /\ \A i \in 1..Len(z[b]) : z[b][i] \in used' \ {Root}
  <2>1. CASE b = a
    <3>1. ASSUME NEW i \in 1..Len(r) PROVE r[i] \in used' \ {Root}
      <4>1. Len(r) > 0
        BY <1>2
      <4>2. r[i] = v \/ \E k \in 1..Len(s[a]) : r[i] = s[a][k]
        BY DEF Within
      <4> QED BY <4>1, <4>2 DEF Rep
    <3> QED BY <1>1, <2>1, <3>1
  <2>2. CASE b # a
    <3>1. /\ Distinct(s[b]) /\ Ring(s[b], next, last[b]) /\ Len(s[b]) = len[b]
          /\ \A i \in 1..Len(s[b]) : s[b][i] \in used \ {Root}
      BY DEF Rep
    <3>2. Ring(s[b], next', last'[b])
      BY <2>2, <3>1 DEF Ring
    <3> QED BY <1>1, <2>2, <3>1, <3>2
  <2> QED BY <2>1, <2>2
<1> QED BY <1>1, <1>4, <1>5 DEF Rep, z

-----------------------------------------------------------------------------
Links == /\ next' \in [Node -> Node] /\ last' \in [Arrays -> Node] /\ len' \in [Arrays -> Nat]

(* The ways a node comes to stand behind idx elements of an array.         *)
LEMMA InsertStep ==
  ASSUME TypeOK, NEW s, Rep(s), NEW a \in Arrays, NEW v \in Node,
         v \in used' \ {Root}, used \subseteq used',
         \A b \in Arrays : \A j \in 1..Len(s[b]) : s[b][j] # v,
         NEW idx \in 0..len[a], InsertAtIdx(a, v, idx)
  PROVE  Rep(Edited(s, a, Inserted(s[a], idx, v)))' /\ Links
<1> DEFINE q == s[a]  L == len[a]  r == Inserted(q, idx, v)
           l == IF idx = L THEN v ELSE last[a]
           nx == IF L = 0 THEN [next EXCEPT ![v] = v]
                 ELSE [next EXCEPT ![At(q, idx)] = v, ![v] = next[At(q, idx)]]
<1>1. /\ Distinct(q) /\ Ring(q, next, last[a]) /\ Len(q) = L /\ L \in Nat
      /\ next \in [Node -> Node] /\ last \in [Arrays -> Node] /\ len \in [Arrays -> Nat]
  BY DEF TypeOK, Rep
<1>2. next' = nx /\ last' = [last EXCEPT ![a] = l] /\ len' = [len EXCEPT ![a] = L + 1]
  <2>1. len' = [len EXCEPT ![a] = L + 1]
    BY <1>1 DEF InsertAtIdx, LinkLast
  <2>2. CASE L = 0
    BY <1>1, <2>1, <2>2 DEF InsertAtIdx, LinkLast, Alone
  <2>3. CASE L > 0 /\ idx = L
    <3>1. At(q, L) = last[a]
      BY <1>1, <2>3 DEF At, Ring
    <3> QED BY <1>1, <2>1, <2>3, <3>1 DEF InsertAtIdx, LinkLast, PutAfter
  <2>4. CASE L > 0 /\ idx < L
    <3>1. idx \in Nat /\ 0 \in 0..L /\ 0 + idx <= L + 1 /\ 0 + idx = idx
      BY <1>1
    <3>2. last[a] = At(q, 0) /\ Walk(At(q, 0), idx) = At(q, 0 + idx)
      BY <2>4, <3>1, WalkIs
    <3>3. Walk(last[a], idx) = At(q, idx)
      BY <3>1, <3>2
    <3>4. [last EXCEPT ![a] = last[a]] = last
      BY <1>1
    <3> QED BY <1>1, <2>1, <2>4, <3>3, <3>4 DEF InsertAtIdx, PutAfter
  <2> QED BY <1>1, <2>2, <2>3, <2>4
<1>3. Distinct(r) /\ Len(r) = L + 1 /\ Within(r, q, v) /\ Ring(r, nx, l)
  <2>1. CASE L = 0
    <3>1. r = <<v>> /\ l = v
      BY <1>1, <2>1 DEF Inserted
    <3>2. Within(<<v>>, q, v)
      BY DEF Within
    <3>3. nx = [next EXCEPT ![v] = v] /\ L + 1 = 1
      BY <2>1
    <3> HIDE DEF nx, r, l
    <3> QED BY <1>1, <3>1, <3>2, <3>3, AloneRing
  <2>2. CASE L > 0
    <3>1. idx \in 0..Len(q) /\ Len(q) > 0 /\ \A j \in 1..Len(q) : q[j] # v
      BY <1>1, <2>2
    <3>2. /\ Distinct(Inserted(q, idx, v)) /\ Len(Inserted(q, idx, v)) = Len(q) + 1
          /\ Within(Inserted(q, idx, v), q, v)
          /\ Ring(Inserted(q, idx, v), [next EXCEPT ![At(q, idx)] = v, ![v] = next[At(q, idx)]],
                  IF idx = Len(q) THEN v ELSE last[a])
      <4> HIDE DEF q
      <4> QED BY <1>1, <3>1, InsertRing
    <3> QED BY <1>1, <2>2, <3>2
  <2> QED BY <1>1, <2>1, <2>2
<1>4. At(q, idx) \in {q[i] : i \in 1..L} \/ L = 0
  BY <1>1 DEF At, Distinct
<1>5. /\ \A n \in Node : n # v /\ n # At(q, idx) => nx[n] = next[n]
      /\ nx \in [Node -> Node]
  <2>1. L > 0 => At(q, idx) \in Node
    BY <1>1, AtNode
  <2> QED BY <1>1, <2>1
<1>6. L = 0 => \A n \in Node : n # v => nx[n] = next[n]
  BY <1>1
<1> HIDE DEF nx, r, l
<1>7. ASSUME NEW b \in Arrays \ {a}, NEW j \in 1..Len(s[b])
      PROVE  next'[s[b][j]] = next[s[b][j]]
  <2>1. s[b][j] \in Node /\ s[b][j] # v
    BY DEF Rep
  <2>2. \A i \in 1..L : s[b][j] # q[i]
    BY <1>1 DEF Rep, Apart
  <2> QED BY <1>2, <1>4, <1>5, <1>6, <2>1, <2>2
<1>8. last'[a] = l /\ len'[a] = Len(r) /\ \A b \in Arrays \ {a} : last'[b] = last[b] /\ len'[b] = len[b]
  BY <1>1, <1>2, <1>3
<1>9. Rep(Edited(s, a, r))'
  BY <1>2, <1>3, <1>7, <1>8, EditOne
<1>10. l \in Node
  BY <1>1 DEF l
<1> QED BY <1>1, <1>2, <1>5, <1>9, <1>10 DEF r, Links

LEMMA ReplaceStep ==
  ASSUME TypeOK, NEW s, Rep(s), NEW a \in Arrays, NEW v \in Free,
         NEW idx \in 0..(len[a] - 1), ReplaceAtIdx(a, v, idx), len' = len, used' = used
  PROVE  Rep(Edited(s, a, Replaced(s[a], idx, v)))' /\ Links
<1> DEFINE q == s[a]  L == len[a]  r == Replaced(q, idx, v)  p == At(q, idx)
           l == IF L > 1 THEN IF next[p] = last[a] THEN v ELSE last[a] ELSE v
           nx == IF L > 1 THEN [next EXCEPT ![p] = v, ![v] = next[next[p]]]
                 ELSE [next EXCEPT ![v] = v]
<1>1. /\ Distinct(q) /\ Ring(q, next, last[a]) /\ Len(q) = L /\ L \in Nat /\ L > 0
      /\ next \in [Node -> Node] /\ last \in [Arrays -> Node] /\ len \in [Arrays -> Nat]
  BY DEF TypeOK, Rep
<1>2. /\ v \in Node /\ v \in used \ {Root}
      /\ \A b \in Arrays : \A j \in 1..Len(s[b]) : s[b][j] # v
  BY FreeNode
<1>3. p \in Node /\ p \in {q[i] : i \in 1..L}
  BY <1>1 DEF At, Distinct
<1>4. Walk(last[a], idx) = p
  <2>1. idx \in Nat /\ 0 \in 0..L /\ 0 + idx <= L + 1 /\ 0 + idx = idx
    BY <1>1
  <2>2. last[a] = At(q, 0) /\ Walk(At(q, 0), idx) = At(q, 0 + idx)
    BY <1>1, <2>1, WalkIs
  <2> QED BY <2>1, <2>2
<1>5. next' = nx /\ last' = [last EXCEPT ![a] = l]
  <2>1. [last EXCEPT ![a] = last[a]] = last
    BY <1>1
  <2> HIDE DEF p
  <2> QED BY <1>1, <1>4, <2>1 DEF ReplaceAtIdx, Alone
<1>6. Distinct(r) /\ Len(r) = L /\ Within(r, q, v) /\ Ring(r, nx, l)
  <2>1. CASE L = 1
    <3>1. r = <<v>>
      BY <1>1, <2>1 DEF Replaced
    <3>2. Within(<<v>>, q, v)
      BY DEF Within
    <3>3. nx = [next EXCEPT ![v] = v] /\ l = v
      BY <2>1
    <3> HIDE DEF nx, r, l
    <3> QED BY <1>1, <1>2, <2>1, <3>1, <3>2, <3>3, AloneRing
  <2>2. CASE L > 1
    BY <1>1, <1>2, <2>2, ReplaceRing
  <2> QED BY <1>1, <2>1, <2>2
<1>7. nx \in [Node -> Node] /\ l \in Node /\ \A n \in Node : n # v /\ n # p => nx[n] = next[n]
  <2> HIDE DEF p
  <2> QED BY <1>1, <1>2, <1>3
<1> HIDE DEF nx, r, l, p
<1>8. ASSUME NEW b \in Arrays \ {a}, NEW j \in 1..Len(s[b])
      PROVE  next'[s[b][j]] = next[s[b][j]]
  <2>1. s[b][j] \in Node /\ s[b][j] # v
    BY <1>2 DEF Rep
  <2>2. \A i \in 1..L : s[b][j] # q[i]
    BY <1>1 DEF Rep, Apart
  <2> QED BY <1>3, <1>5, <1>7, <2>1, <2>2
<1>9. last'[a] = l /\ len'[a] = Len(r) /\ \A b \in Arrays \ {a} : last'[b] = last[b] /\ len'[b] = len[b]
  BY <1>1, <1>5, <1>6
<1>10. Rep(Edited(s, a, r))'
  BY <1>2, <1>5, <1>6, <1>8, <1>9, EditOne
<1> QED BY <1>1, <1>5, <1>7, <1>10 DEF r, Links

LEMMA NextAt ==
  ASSUME TypeOK, NEW s, Rep(s), NEW a \in Arrays, len[a] > 0, NEW i \in 0..len[a]
  PROVE  next[At(s[a], i)] = At(s[a], i + 1)
<1>1. Len(s[a]) = len[a] /\ len[a] \in Nat /\ Ring(s[a], next, last[a])
  BY DEF TypeOK, Rep
<1>2. CASE i = 0
  <2>1. At(s[a], 0) = s[a][len[a]] /\ At(s[a], 1) = s[a][1] /\ len[a] \in 1..len[a]
    BY <1>1 DEF At
  <2> QED BY <1>1, <1>2, <2>1 DEF Ring
<1>3. CASE i # 0
  <2>1. At(s[a], i) = s[a][i] /\ i \in 1..len[a]
    BY <1>1, <1>3 DEF At
  <2>2. At(s[a], i + 1) = IF i = len[a] THEN s[a][1] ELSE s[a][i + 1]
    BY <1>1, <2>1 DEF At
  <2> QED BY <1>1, <2>1, <2>2 DEF Ring
<1> QED BY <1>2, <1>3

(* Cutting cnt elements out of a cycle, but not all of them.               *)
LEMMA CutStep ==
  ASSUME TypeOK, NEW s, Rep(s), NEW a \in Arrays, NEW idx \in Nat, NEW cnt \in Nat,
         idx + cnt <= len[a], 0 < cnt, cnt < len[a],
         next' = [next EXCEPT ![At(s[a], idx)] = At(s[a], idx + cnt + 1)],
         last' = IF idx + cnt = len[a] THEN [last EXCEPT ![a] = At(s[a], idx)] ELSE last,
         len' = [len EXCEPT ![a] = len[a] - cnt], used' = used
  PROVE  Rep(Edited(s, a, Without(s[a], idx, cnt)))' /\ Links
<1> DEFINE q == s[a]  L == len[a]  r == Without(q, idx, cnt)  p == At(q, idx)
           l == IF idx + cnt = L THEN p ELSE last[a]
<1>1. /\ Distinct(q) /\ Ring(q, next, last[a]) /\ Len(q) = L /\ L \in Nat /\ L > 0
      /\ next \in [Node -> Node] /\ last \in [Arrays -> Node] /\ len \in [Arrays -> Nat]
      /\ q \in Seq(Node)
  BY DEF TypeOK, Rep, Distinct
<1>2. p \in Node /\ p \in {q[i] : i \in 1..L}
  <2>1. (IF idx = 0 THEN L ELSE idx) \in 1..L
    BY <1>1
  <2>2. p = q[IF idx = 0 THEN L ELSE idx]
    BY <1>1 DEF At
  <2> QED BY <1>1, <2>1, <2>2
<1>3. At(q, idx + cnt + 1) \in Node
  BY <1>1, AtNode
<1>4. /\ Distinct(r) /\ Len(r) = L - cnt /\ \A v : Within(r, q, v)
      /\ Ring(r, next', l)
  <2>1. idx + cnt <= Len(q) /\ cnt < Len(q)
    BY <1>1
  <2>2. /\ Distinct(r) /\ Len(r) = Len(q) - cnt /\ \A v : Within(r, q, v)
        /\ Ring(r, CutLinks(next, q, idx, cnt), CutLast(last[a], q, idx, cnt))
    <3>1. /\ idx \in Nat /\ cnt \in Nat /\ 0 < cnt /\ Distinct(q)
          /\ next \in [Node -> Node] /\ Ring(q, next, last[a])
      BY <1>1
    <3> HIDE DEF q
    <3> QED BY <2>1, <3>1, CutRing
  <2>3. next' = CutLinks(next, q, idx, cnt) /\ l = CutLast(last[a], q, idx, cnt)
    BY <1>1 DEF CutLinks, CutLast
  <2> QED BY <1>1, <2>2, <2>3
<1>5. last' = [last EXCEPT ![a] = l] /\ l \in Node
  <2>1. [last EXCEPT ![a] = last[a]] = last
    BY <1>1
  <2>2. CASE idx + cnt = L
    <3>1. l = p
      BY <2>2
    <3> QED BY <1>2, <2>2, <3>1
  <2>3. CASE idx + cnt # L
    <3>1. l = last[a]
      BY <2>3
    <3> QED BY <1>1, <2>1, <2>3, <3>1
  <2> QED BY <2>2, <2>3
<1>6. L - cnt \in Nat
  BY <1>1
<1> HIDE DEF r, p, l
<1>7. q[1] \in used \ {Root} /\ \A b \in Arrays \ {a} : \A j \in 1..Len(s[b]) : s[b][j] # q[1]
  <2>1. 1 \in 1..Len(q)
    BY <1>1
  <2> QED BY <2>1 DEF Rep, Apart
<1>8. ASSUME NEW b \in Arrays \ {a}, NEW j \in 1..Len(s[b])
      PROVE  next'[s[b][j]] = next[s[b][j]]
  <2>1. s[b][j] \in Node
    BY DEF Rep
  <2>2. \A i \in 1..L : s[b][j] # q[i]
    BY <1>1 DEF Rep, Apart
  <2> QED BY <1>1, <1>2, <2>1, <2>2 DEF p
<1>9. last'[a] = l /\ len'[a] = Len(r) /\ \A b \in Arrays \ {a} : last'[b] = last[b] /\ len'[b] = len[b]
  BY <1>1, <1>4, <1>5
<1>10. Rep(Edited(s, a, r))'
  BY <1>4, <1>7, <1>8, <1>9, EditOne
<1> QED BY <1>1, <1>3, <1>5, <1>6, <1>10 DEF r, Links

LEMMA EmptyStep ==
  ASSUME TypeOK, NEW s, Rep(s), NEW a \in Arrays, UNCHANGED <<used, next, last>>,
         len' = [len EXCEPT ![a] = 0]
  PROVE  Rep(Edited(s, a, << >>))' /\ Links
<1>1. Distinct(<< >>) /\ Len(<< >>) = 0 /\ Ring(<< >>, next', last'[a])
  BY EmptyRing
<1>2. Within(<< >>, s[a], Root)
  BY DEF Within
<1>3. len \in [Arrays -> Nat] /\ last \in [Arrays -> Node] /\ next \in [Node -> Node]
  BY DEF TypeOK
<1>4. len'[a] = Len(<< >>) /\ \A b \in Arrays \ {a} : last'[b] = last[b] /\ len'[b] = len[b]
  BY <1>1, <1>3
<1>5. /\ ~(Len(<< >>) > 0) /\ used \subseteq used'
      /\ \A b \in Arrays \ {a} : \A j \in 1..Len(s[b]) : next'[s[b][j]] = next[s[b][j]]
  OBVIOUS
<1>6. ASSUME NEW r, r = << >> PROVE Rep(Edited(s, a, r))'
  BY <1>1, <1>2, <1>4, <1>5, <1>6, EditOne
<1> QED BY <1>3, <1>6 DEF Links

LEMMA SameStep ==
  ASSUME TypeOK, NEW s, Rep(s), used \subseteq used', UNCHANGED <<next, last, len>>
  PROVE  Rep(s)' /\ Links
BY DEF TypeOK, Rep, Ring, Links

-----------------------------------------------------------------------------
(* The actions.                                                            *)
LEMMA RefuseStep ==
  ASSUME TypeOK, NEW s, Rep(s), Refuse
  PROVE  TypeOK' /\ Rep(s)'
<1>1. Rep(s)' /\ Links
  BY SameStep DEF Refuse
<1> QED BY <1>1 DEF Refuse, TypeOK, Links

LEMMA CreateStep ==
  ASSUME TypeOK, NEW s, Rep(s), NEW v \in Node, NEW a \in Arrays,
         CreateFree(v) \/ CreateJsonMut(a, v)
  PROVE  TypeOK' /\ Rep(s)'
<1>1. UNCHANGED <<next, last, len, ret>> /\ used' = used \cup {v} /\ held' = held \cup {v}
  BY DEF CreateFree, CreateJsonMut
<1>2. Rep(s)' /\ Links
  BY <1>1, SameStep
<1> QED BY <1>1, <1>2 DEF TypeOK, Links

LEMMA LastType ==
  ASSUME TypeOK, NEW s, Rep(s), NEW a \in Arrays
  PROVE  len[a] \in 0..len[a] /\ len[a] \in Nat /\ Len(s[a]) = len[a] /\ s[a] \in Seq(Node)
BY DEF TypeOK, Rep

LEMMA AddStep ==
  ASSUME TypeOK, NEW s, Rep(s), NEW a \in Arrays, NEW v \in Node, AddArr(a, v)
  PROVE  TypeOK' /\ Rep(Edited(s, a, Inserted(s[a], Len(s[a]), v)))'
<1>1. v \in Node /\ v # Root /\ v \notin used /\ used' = used \cup {v}
      /\ InsertAtIdx(a, v, len[a]) /\ UNCHANGED <<held, ret>>
  BY NodesAssumption DEF AddArr, InsertAtIdx, Node
<1>2. \A b \in Arrays : \A j \in 1..Len(s[b]) : s[b][j] # v
  BY <1>1 DEF Rep
<1>3. Rep(Edited(s, a, Inserted(s[a], Len(s[a]), v)))' /\ Links
  <2>1. len[a] \in 0..len[a]
    BY LastType
  <2>2. v \in used' \ {Root} /\ used \subseteq used' /\ InsertAtIdx(a, v, len[a])
    BY <1>1
  <2>3. Len(s[a]) \in 0..len[a] /\ InsertAtIdx(a, v, Len(s[a]))
    BY <2>1, <2>2, LastType
  <2> QED BY <1>2, <2>2, <2>3, InsertStep
<1> QED BY <1>1, <1>3 DEF TypeOK, Links

LEMMA InsertType ==
  ASSUME TypeOK, NEW s, Rep(s), NEW a \in Arrays, NEW v \in Node, v \in Free,
         NEW idx \in 0..len[a], InsertAtIdx(a, v, idx),
         UNCHANGED <<used, held>>, ret' \in BOOLEAN
  PROVE  TypeOK' /\ Rep(Edited(s, a, Inserted(s[a], idx, v)))'
<1>1. v \in used \ {Root} /\ \A b \in Arrays : \A j \in 1..Len(s[b]) : s[b][j] # v
  BY FreeNode
<1>2. Rep(Edited(s, a, Inserted(s[a], idx, v)))' /\ Links
  BY <1>1, InsertStep
<1> QED BY <1>2 DEF TypeOK, Links

LEMMA BindStep ==
  ASSUME TypeOK, NEW s, Rep(s), NEW a \in Arrays, NEW v \in Node,
         Bind(a, v) \/ AppendArr(a, v)
  PROVE  TypeOK' /\ Rep(Edited(s, a, Inserted(s[a], Len(s[a]), v)))'
<1>1. v \in Free /\ InsertAtIdx(a, v, len[a]) /\ UNCHANGED <<used, held>> /\ ret' \in BOOLEAN
  BY DEF Bind, AppendArr, InsertAtIdx, Done, TypeOK
<1>2. len[a] \in 0..len[a]
  BY LastType
<1>3. Len(s[a]) \in 0..len[a] /\ InsertAtIdx(a, v, Len(s[a]))
  BY <1>1, <1>2, LastType
<1> QED BY <1>1, <1>3, InsertType

LEMMA PrependStep ==
  ASSUME TypeOK, NEW s, Rep(s), NEW a \in Arrays, NEW v \in Node, PrependArr(a, v)
  PROVE  TypeOK' /\ Rep(Edited(s, a, Inserted(s[a], 0, v)))'
<1>1. v \in Free /\ UNCHANGED <<used, held>> /\ ret' \in BOOLEAN /\ 0 \in 0..len[a]
  BY LastType DEF PrependArr, Done
<1>2. InsertAtIdx(a, v, 0)
  <2>1. CASE len[a] = 0
    BY <2>1 DEF PrependArr, InsertAtIdx, LinkLast
  <2>2. CASE len[a] # 0
    <3>1. Walk(last[a], 0) = last[a]
      <4>1. WalkIn(next, last[a], 0) = last[a]
        BY WalkStep
      <4> QED BY <4>1 DEF Walk, WalkIn
    <3> QED BY <2>2, <3>1 DEF PrependArr, InsertAtIdx
  <2> QED BY <2>1, <2>2
<1> QED BY <1>1, <1>2, InsertType

LEMMA SizeTNat == \A i \in Int : SizeT(i) \in Nat
<1>1. ASSUME NEW i \in Int, NEW m \in Nat \ {0} PROVE i % m \in Nat
  OBVIOUS
<1> QED BY <1>1, SizeAssumption DEF SizeT

LEMMA InsertArrStep ==
  ASSUME TypeOK, NEW s, Rep(s), NEW a \in Arrays, NEW v \in Node, NEW i \in Indexes,
         InsertArr(a, v, i)
  PROVE  /\ TypeOK'
         /\ \/ Refuse /\ SizeT(i) > len[a] /\ Rep(s)'
            \/ SizeT(i) <= len[a] /\ Rep(Edited(s, a, Inserted(s[a], SizeT(i), v)))'
<1>1. CASE SizeT(i) > len[a] /\ Refuse
  BY <1>1, RefuseStep
<1>2. CASE SizeT(i) <= len[a] /\ InsertAtIdx(a, v, SizeT(i)) /\ Done
  <2>1. SizeT(i) \in 0..len[a]
    BY <1>2, SizeTNat, IndexesAssumption, LastType
  <2>2. v \in Free /\ UNCHANGED <<used, held>> /\ ret' \in BOOLEAN
    BY <1>2 DEF InsertArr, Done
  <2> QED BY <1>2, <2>1, <2>2, InsertType
<1> QED BY <1>1, <1>2 DEF InsertArr

LEMMA ReplaceArrStep ==
  ASSUME TypeOK, NEW s, Rep(s), NEW a \in Arrays, NEW v \in Node, NEW i \in Indexes,
         ReplaceArr(a, v, i)
  PROVE  /\ TypeOK'
         /\ \/ Refuse /\ SizeT(i) >= len[a] /\ Rep(s)'
            \/ SizeT(i) < len[a] /\ Rep(Edited(s, a, Replaced(s[a], SizeT(i), v)))'
<1>1. CASE SizeT(i) >= len[a] /\ Refuse
  BY <1>1, RefuseStep
<1>2. CASE SizeT(i) < len[a] /\ ReplaceAtIdx(a, v, SizeT(i)) /\ len' = len /\ Done
  <2>1. SizeT(i) \in 0..(len[a] - 1)
    BY <1>2, SizeTNat, IndexesAssumption, LastType
  <2>2. v \in Free /\ UNCHANGED <<used, held>> /\ ret' \in BOOLEAN
    BY <1>2 DEF ReplaceArr, Done
  <2>3. Rep(Edited(s, a, Replaced(s[a], SizeT(i), v)))' /\ Links
    BY <1>2, <2>1, <2>2, ReplaceStep
  <2> QED BY <1>2, <2>2, <2>3 DEF TypeOK, Links
<1> QED BY <1>1, <1>2 DEF ReplaceArr

LEMMA CutType ==
  ASSUME TypeOK, NEW s, Rep(s), NEW a \in Arrays, NEW idx \in Nat, NEW cnt \in Nat,
         idx + cnt <= len[a], 0 < cnt, cnt < len[a],
         next' = [next EXCEPT ![At(s[a], idx)] = At(s[a], idx + cnt + 1)],
         last' = IF idx + cnt = len[a] THEN [last EXCEPT ![a] = At(s[a], idx)] ELSE last,
         len' = [len EXCEPT ![a] = len[a] - cnt], Done
  PROVE  TypeOK' /\ Rep(Edited(s, a, Without(s[a], idx, cnt)))'
<1>1. UNCHANGED <<used, held>> /\ ret' = TRUE
  BY DEF Done
<1>2. Rep(Edited(s, a, Without(s[a], idx, cnt)))' /\ Links
  BY <1>1, CutStep
<1> QED BY <1>1, <1>2 DEF TypeOK, Links

LEMMA EmptyType ==
  ASSUME TypeOK, NEW s, Rep(s), NEW a \in Arrays, UNCHANGED <<next, last>>,
         len' = [len EXCEPT ![a] = 0], Done
  PROVE  TypeOK' /\ Rep(Edited(s, a, << >>))'
<1>1. UNCHANGED <<used, held>> /\ ret' = TRUE
  BY DEF Done
<1>2. Rep(Edited(s, a, << >>))' /\ Links
  BY <1>1, EmptyStep
<1> QED BY <1>1, <1>2 DEF TypeOK, Links

LEMMA WithoutAll ==
  ASSUME NEW q, q \in Seq(Node), Len(q) > 0
  PROVE  Without(q, 0, Len(q)) = << >>
<1>1. Len(q) - Len(q) = 0 /\ 1..0 = {}
  OBVIOUS
<1> QED BY <1>1 DEF Without

(* Removing one element, at an index or at either end.                     *)
LEMMA RemoveStep ==
  ASSUME TypeOK, NEW s, Rep(s), NEW a \in Arrays, NEW idx \in 0..(len[a] - 1),
         RemoveAtIdx(a, idx), Done
  PROVE  TypeOK' /\ Rep(Edited(s, a, Without(s[a], idx, 1)))'
<1> DEFINE q == s[a]  L == len[a]  p == At(q, idx)
<1>1. L \in Nat /\ L > 0 /\ Len(q) = L /\ q \in Seq(Node) /\ Distinct(q) /\ Ring(q, next, last[a])
  BY DEF TypeOK, Rep
<1>2. len' = [len EXCEPT ![a] = L - 1]
  BY DEF RemoveAtIdx
<1>3. CASE L = 1
  <2>1. UNCHANGED <<next, last>> /\ len' = [len EXCEPT ![a] = 0]
    BY <1>2, <1>3 DEF RemoveAtIdx
  <2>2. idx = 0 /\ Without(q, 0, 1) = << >>
    <3>1. Len(q) = 1 /\ idx = 0
      BY <1>1, <1>3
    <3>2. Without(q, 0, Len(q)) = << >>
      BY <1>1, WithoutAll
    <3> QED BY <3>1, <3>2
  <2> QED BY <2>1, <2>2, EmptyType
<1>4. CASE L > 1
  <2>1. Walk(last[a], idx) = p
    <3>1. idx \in Nat /\ 0 \in 0..L /\ 0 + idx <= L + 1 /\ 0 + idx = idx
      BY <1>1
    <3>2. last[a] = At(q, 0) /\ Walk(At(q, 0), idx) = At(q, 0 + idx)
      BY <1>1, <3>1, WalkIs
    <3> QED BY <3>1, <3>2
  <2>2. next[p] = At(q, idx + 1) /\ next[At(q, idx + 1)] = At(q, (idx + 1) + 1)
    <3>1. idx \in 0..len[a] /\ idx + 1 \in 0..len[a]
      BY <1>1
    <3> QED BY <1>1, <3>1, NextAt
  <2>3. At(q, idx + 1) = last[a] <=> idx + 1 = L
    <3>1. At(q, idx + 1) = q[idx + 1] /\ idx + 1 \in 1..L /\ L \in 1..L
      BY <1>1 DEF At
    <3>2. q[L] = last[a] /\ \A i, j \in 1..L : q[i] = q[j] => i = j
      BY <1>1 DEF Ring, Distinct
    <3> QED BY <3>1, <3>2
  <2> HIDE DEF p
  <2>4. next' = [next EXCEPT ![p] = At(q, (idx + 1) + 1)]
        /\ last' = IF idx + 1 = L THEN [last EXCEPT ![a] = p] ELSE last
    BY <1>4, <2>1, <2>2, <2>3 DEF RemoveAtIdx
  <2>5. idx \in Nat /\ 1 \in Nat /\ idx + 1 <= L /\ 0 < 1 /\ 1 < L
    BY <1>1, <1>4
  <2> QED BY <1>2, <2>4, <2>5, CutType DEF p
<1> QED BY <1>1, <1>3, <1>4

LEMMA RemoveArrStep ==
  ASSUME TypeOK, NEW s, Rep(s), NEW a \in Arrays, NEW i \in Indexes, RemoveArr(a, i)
  PROVE  /\ TypeOK'
         /\ \/ Refuse /\ SizeT(i) >= len[a] /\ Rep(s)'
            \/ SizeT(i) < len[a] /\ Rep(Edited(s, a, Without(s[a], SizeT(i), 1)))'
<1>1. CASE SizeT(i) >= len[a] /\ Refuse
  BY <1>1, RefuseStep
<1>2. CASE SizeT(i) < len[a] /\ RemoveAtIdx(a, SizeT(i)) /\ Done
  <2>1. SizeT(i) \in 0..(len[a] - 1)
    BY <1>2, SizeTNat, IndexesAssumption, LastType
  <2> QED BY <1>2, <2>1, RemoveStep
<1> QED BY <1>1, <1>2 DEF RemoveArr

LEMMA RemoveFirstStep ==
  ASSUME TypeOK, NEW s, Rep(s), NEW a \in Arrays, RemoveArrFirst(a)
  PROVE  /\ TypeOK'
         /\ \/ Refuse /\ len[a] = 0 /\ Rep(s)'
            \/ len[a] > 0 /\ Rep(Edited(s, a, Without(s[a], 0, 1)))'
<1>1. CASE len[a] = 0 /\ Refuse
  BY <1>1, RefuseStep
<1>2. CASE len[a] > 0
  <2>1. 0 \in 0..(len[a] - 1) /\ Done /\ len' = [len EXCEPT ![a] = len[a] - 1]
    BY <1>2, LastType DEF RemoveArrFirst
  <2>2. Walk(last[a], 0) = last[a]
    <3>1. WalkIn(next, last[a], 0) = last[a]
      BY WalkStep
    <3> QED BY <3>1 DEF Walk, WalkIn
  <2>3. CASE len[a] = 1
    <3>1. RemoveAtIdx(a, 0)
      BY <1>2, <2>1, <2>2, <2>3 DEF RemoveArrFirst, RemoveAtIdx
    <3> QED BY <1>2, <2>1, <3>1, RemoveStep
  <2>4. CASE len[a] > 1
    <3>1. next[last[a]] # last[a]
      <4>1. Distinct(s[a]) /\ Ring(s[a], next, last[a]) /\ Len(s[a]) = len[a] /\ len[a] \in Nat
        BY DEF TypeOK, Rep
      <4>2. last[a] = s[a][len[a]] /\ next[last[a]] = s[a][1]
        BY <2>4, <4>1 DEF Ring
      <4> QED BY <2>4, <4>1, <4>2 DEF Distinct
    <3>2. RemoveAtIdx(a, 0)
      BY <1>2, <2>1, <2>2, <2>4, <3>1 DEF RemoveArrFirst, RemoveAtIdx
    <3> QED BY <1>2, <2>1, <3>2, RemoveStep
  <2> QED BY <1>2, <2>3, <2>4, LastType
<1> QED BY <1>1, <1>2, LastType DEF RemoveArrFirst

LEMMA RemoveLastStep ==
  ASSUME TypeOK, NEW s, Rep(s), NEW a \in Arrays, RemoveArrLast(a)
  PROVE  /\ TypeOK'
         /\ \/ Refuse /\ len[a] = 0 /\ Rep(s)'
            \/ len[a] > 0 /\ Rep(Edited(s, a, Without(s[a], Len(s[a]) - 1, 1)))'
<1>1. CASE len[a] = 0 /\ Refuse
  BY <1>1, RefuseStep
<1>2. CASE len[a] > 0
  <2>1. len[a] - 1 \in 0..(len[a] - 1) /\ Done /\ len' = [len EXCEPT ![a] = len[a] - 1]
    BY <1>2, LastType DEF RemoveArrLast
  <2>2. Distinct(s[a]) /\ Ring(s[a], next, last[a]) /\ Len(s[a]) = len[a] /\ len[a] \in Nat
    BY DEF TypeOK, Rep
  <2>3. len[a] > 1 => next[Walk(last[a], len[a] - 1)] = last[a]
    <3> SUFFICES ASSUME len[a] > 1 PROVE next[Walk(last[a], len[a] - 1)] = last[a]
      OBVIOUS
    <3>1. len[a] - 1 \in Nat /\ 0 \in 0..len[a] /\ 0 + (len[a] - 1) <= len[a] + 1
          /\ 0 + (len[a] - 1) = len[a] - 1 /\ (len[a] - 1) + 1 = len[a] /\ len[a] - 1 \in 0..len[a]
      BY <2>2
    <3>2. last[a] = At(s[a], 0) /\ Walk(At(s[a], 0), len[a] - 1) = At(s[a], 0 + (len[a] - 1))
      BY <1>2, <3>1, WalkIs
    <3>3. next[At(s[a], len[a] - 1)] = At(s[a], (len[a] - 1) + 1)
      BY <1>2, <3>1, NextAt
    <3>4. At(s[a], len[a]) = last[a]
      BY <2>2, <1>2 DEF At, Ring
    <3> QED BY <3>1, <3>2, <3>3, <3>4
  <2>4. RemoveAtIdx(a, len[a] - 1)
    BY <1>2, <2>1, <2>3 DEF RemoveArrLast, RemoveAtIdx
  <2>5. Len(s[a]) - 1 \in 0..(len[a] - 1) /\ RemoveAtIdx(a, Len(s[a]) - 1)
    BY <2>1, <2>2, <2>4
  <2> QED BY <1>2, <2>1, <2>5, RemoveStep
<1> QED BY <1>1, <1>2, LastType DEF RemoveArrLast

LEMMA SizeTSame == \A i \in Nat : i < SizeMod => SizeT(i) = i
<1>1. ASSUME NEW i \in Nat, NEW m \in Nat, i < m PROVE i % m = i
  BY <1>1, Z3
<1> QED BY <1>1, SizeAssumption DEF SizeT

LEMMA RemoveRangeStep ==
  ASSUME TypeOK, NEW s, Rep(s), NEW a \in Arrays, NEW r \in Ranges,
         RemoveArrRange(a, r[1], r[2])
  PROVE  /\ TypeOK'
         /\ \/ Refuse /\ r[1] + r[2] > len[a] /\ Rep(s)'
            \/ r[1] + r[2] <= len[a] /\ r[2] = 0 /\ Done /\ Rep(s)'
            \/ r[1] + r[2] <= len[a] /\ Rep(Edited(s, a, Without(s[a], r[1], r[2])))'
<1> DEFINE i == r[1]  n == r[2]  q == s[a]
<1>1. i \in Nat /\ n \in Nat /\ SizeT(i) = i /\ SizeT(n) = n /\ SizeT(i + n) = i + n
  <2>1. i \in Nat /\ n \in Nat /\ i + n \in Nat /\ i < SizeMod /\ n < SizeMod /\ i + n < SizeMod
    <3>1. r \in Nat \X Nat /\ r[1] + r[2] < SizeMod
      BY RangesAssumption
    <3>2. SizeMod \in Nat
      BY SizeAssumption
    <3> QED BY <3>1, <3>2
  <2> HIDE DEF i, n
  <2> QED BY <2>1, SizeTSame
<1> HIDE DEF i, n
<1>2. RemoveArrRange(a, i, n)
  BY DEF i, n
<1>3. /\ len[a] \in Nat /\ Len(q) = len[a] /\ q \in Seq(Node)
      /\ next \in [Node -> Node] /\ last \in [Arrays -> Node] /\ len \in [Arrays -> Nat]
  BY DEF TypeOK, Rep
<1>4. CASE i + n > len[a]
  <2>1. Refuse
    BY <1>1, <1>2, <1>3, <1>4 DEF RemoveArrRange
  <2> QED BY <1>4, <2>1, RefuseStep DEF i, n
<1>5. CASE i + n <= len[a]
  <2>1. CASE Refuse /\ ~(i + n <= len[a])
    BY <1>5, <2>1
  <2>2. /\ len' = [len EXCEPT ![a] = len[a] - n] /\ Done
        /\ IF n = 0 \/ n = len[a] THEN UNCHANGED <<next, last>> ELSE CutRange(a, i, n)
    BY <1>1, <1>2, <1>3, <1>5 DEF RemoveArrRange
  <2>3. CASE n = 0
    <3>1. UNCHANGED <<next, last, used, held>> /\ len' = len /\ ret' = TRUE
      BY <1>3, <2>2, <2>3 DEF Done
    <3>2. Rep(s)' /\ Links
      BY <3>1, SameStep
    <3>3. TypeOK'
      BY <3>1, <3>2 DEF TypeOK, Links
    <3> QED BY <1>5, <2>2, <2>3, <3>2, <3>3 DEF i, n
  <2>4. CASE n # 0 /\ n = len[a]
    <3>1. UNCHANGED <<next, last>> /\ len' = [len EXCEPT ![a] = 0] /\ i = 0 /\ Len(q) > 0
      <4>1. i = 0 /\ len[a] - n = 0 /\ Len(q) > 0
        BY <1>1, <1>3, <1>5, <2>4
      <4> QED BY <2>2, <2>4, <4>1
    <3>2. TypeOK' /\ Rep(Edited(s, a, << >>))'
      BY <2>2, <3>1, EmptyType
    <3>3. Without(q, i, n) = << >>
      <4>1. Without(q, 0, Len(q)) = << >>
        BY <1>3, <3>1, WithoutAll
      <4> QED BY <1>3, <2>4, <3>1, <4>1
    <3>4. Rep(Edited(s, a, Without(q, i, n)))'
      BY <3>2, <3>3
    <3> QED BY <1>5, <3>2, <3>4 DEF i, n
  <2>5. CASE n # 0 /\ n # len[a]
    <3>1. CutRange(a, i, n) /\ 0 < n /\ n < len[a] /\ len[a] > 0
      BY <1>1, <1>3, <1>5, <2>2, <2>5
    <3>2. /\ i \in 0..len[a] /\ 0 \in 0..len[a] /\ 0 + i <= len[a] + 1 /\ 0 + i = i
          /\ n + 1 \in Nat /\ i + (n + 1) <= len[a] + 1 /\ i + (n + 1) = i + n + 1
      BY <1>1, <1>3, <1>5
    <3>3. last[a] = At(q, 0) /\ Walk(At(q, 0), i) = At(q, 0 + i)
      BY <1>1, <3>1, <3>2, WalkIs
    <3>4. Walk(last[a], i) = At(q, i)
      BY <3>2, <3>3
    <3>5. Walk(At(q, i), n + 1) = At(q, i + (n + 1))
      BY <1>1, <3>1, <3>2, WalkIs
    <3>6. Walk(At(q, i), n + 1) = At(q, i + n + 1)
      BY <3>2, <3>5
    <3>7. next' = [next EXCEPT ![At(q, i)] = At(q, i + n + 1)]
          /\ last' = IF i + n = len[a] THEN [last EXCEPT ![a] = At(q, i)] ELSE last
      BY <3>1, <3>4, <3>6 DEF CutRange
    <3>8. TypeOK' /\ Rep(Edited(s, a, Without(q, i, n)))'
      BY <1>1, <1>5, <2>2, <3>1, <3>7, CutType
    <3> QED BY <1>5, <3>8 DEF i, n
  <2> QED BY <2>3, <2>4, <2>5
<1> QED BY <1>1, <1>3, <1>4, <1>5

LEMMA CleanStep ==
  ASSUME TypeOK, NEW s, Rep(s), NEW a \in Arrays, CleanArr(a)
  PROVE  TypeOK' /\ Rep(Edited(s, a, << >>))'
BY EmptyType DEF CleanArr

LEMMA InitStep ==
  ASSUME Init
  PROVE  IInv
<1> DEFINE s == [a \in Arrays |-> << >>]
<1>1. TypeOK
  BY NodesAssumption DEF Init, TypeOK, Node
<1>2. \A a \in Arrays : s[a] = << >>
  OBVIOUS
<1>3. s \in [Arrays -> Seq(Node)]
  OBVIOUS
<1> HIDE DEF s
<1>4. ASSUME NEW a \in Arrays
      PROVE  Distinct(s[a]) /\ Ring(s[a], next, last[a]) /\ Len(s[a]) = 0
  BY <1>2, EmptyRing
<1>5. Rep(s)
  <2>1. \A a \in Arrays : 1..Len(s[a]) = {}
    <3>1. 1..0 = {}
      OBVIOUS
    <3> QED BY <1>4, <3>1
  <2>2. \A a \in Arrays : len[a] = 0
    BY DEF Init
  <2> QED BY <1>3, <1>4, <2>1, <2>2 DEF Rep, Apart
<1> QED BY <1>1, <1>5 DEF IInv

LEMMA NextStep ==
  ASSUME IInv, [Next]_vars
  PROVE  IInv'
<1>1. PICK s : Rep(s)
  BY DEF IInv
<1>2. TypeOK
  BY DEF IInv
<1>3. SUFFICES TypeOK' /\ \E z : Rep(z)'
  BY DEF IInv
<1>4. ASSUME NEW v \in Node, CreateFree(v) PROVE TypeOK' /\ Rep(s)'
  BY <1>1, <1>2, <1>4, CreateStep, NodesAssumption
<1>5. ASSUME NEW a \in Arrays, NEW v \in Node,
             \/ CreateJsonMut(a, v) \/ AddArr(a, v)
             \/ Bind(a, v) \/ AppendArr(a, v) \/ PrependArr(a, v)
      PROVE  TypeOK' /\ \E z : Rep(z)'
  BY <1>1, <1>2, <1>5, CreateStep, AddStep, BindStep, PrependStep
<1>6. ASSUME NEW a \in Arrays, NEW v \in Node, NEW i \in Indexes,
             InsertArr(a, v, i) \/ ReplaceArr(a, v, i)
      PROVE  TypeOK' /\ \E z : Rep(z)'
  BY <1>1, <1>2, <1>6, InsertArrStep, ReplaceArrStep
<1>7. ASSUME NEW a \in Arrays, NEW i \in Indexes, RemoveArr(a, i)
      PROVE  TypeOK' /\ \E z : Rep(z)'
  BY <1>1, <1>2, <1>7, RemoveArrStep
<1>8. ASSUME NEW a \in Arrays, RemoveArrFirst(a) \/ RemoveArrLast(a) \/ CleanArr(a)
      PROVE  TypeOK' /\ \E z : Rep(z)'
  BY <1>1, <1>2, <1>8, RemoveFirstStep, RemoveLastStep, CleanStep
<1>9. ASSUME NEW a \in Arrays, NEW r \in Ranges, RemoveArrRange(a, r[1], r[2])
      PROVE  TypeOK' /\ \E z : Rep(z)'
  BY <1>1, <1>2, <1>9, RemoveRangeStep
<1>10. CASE UNCHANGED vars
  <2>1. UNCHANGED <<used, held, next, last, len, ret>>
    BY <1>10 DEF vars
  <2>2. Rep(s)' /\ Links
    BY <1>1, <1>2, <2>1, SameStep
  <2> QED BY <1>2, <2>1, <2>2 DEF TypeOK, Links
<1> QED BY <1>4, <1>5, <1>6, <1>7, <1>8, <1>9, <1>10 DEF Next

(* The pointers of a document always represent sequences of nodes, one for *)
(* each array, apart from each other.                                      *)
THEOREM Invariance == Spec => []IInv
BY InitStep, NextStep, PTL DEF Spec

(* Types of the links, lengths and handles of mutable arrays.              *)
THEOREM TypeCorrect == Spec => []TypeOK
<1>1. IInv => TypeOK
  BY DEF IInv
<1> QED BY <1>1, Invariance, PTL

(* The elements of an array are a closed cycle of as many nodes as its tag *)
(* says (yyjson.h:2622), after any calls on any number of arrays.          *)
THEOREM RingsClosed == Spec => []RingClosed
<1>1. IInv => RingClosed
  <2> SUFFICES ASSUME TypeOK, NEW s, Rep(s), NEW a \in Arrays, len[a] > 0
               PROVE  /\ Elems(a)[len[a]] = last[a]
                      /\ \A i, j \in 1..len[a] : Elems(a)[i] = Elems(a)[j] => i = j
                      /\ \A i \in 1..len[a] : Elems(a)[i] \in used
    BY DEF IInv, RingClosed
  <2>1. Elems(a) = s[a]
    BY ElemsAre
  <2>2. Len(s[a]) = len[a] /\ Distinct(s[a]) /\ Ring(s[a], next, last[a])
        /\ \A i \in 1..len[a] : s[a][i] \in used
    BY DEF Rep
  <2> QED BY <2>1, <2>2 DEF Distinct, Ring
<1> QED BY <1>1, Invariance, PTL

(* No value is an element of two arrays, and the root is an element of     *)
(* none.                                                                   *)
THEOREM OwnersUnique == Spec => []OneOwner
<1>1. IInv => OneOwner
  <2> SUFFICES ASSUME TypeOK, NEW s, Rep(s) PROVE OneOwner
    BY DEF IInv
  <2>1. \A a \in Arrays : Elems(a) = s[a] /\ Len(s[a]) = len[a]
    BY ElemsAre DEF Rep
  <2>2. ~Linked(Root)
    BY <2>1 DEF Rep, Linked
  <2> QED BY <2>1, <2>2 DEF Rep, Apart, OneOwner
<1> QED BY <1>1, Invariance, PTL

-----------------------------------------------------------------------------
(* MutArr implements JsonArrays.  The edits of this module are those of    *)
(* sequences.                                                              *)
LEMMA Joined ==
  ASSUME NEW S, NEW w \in Seq(S), NEW y \in Seq(S), NEW r \in Seq(S),
         Len(r) = Len(w) + Len(y), \A i \in 1..Len(w) : r[i] = w[i],
         \A j \in 1..Len(y) : r[Len(w) + j] = y[j]
  PROVE  r = w \o y
<1> DEFINE m == Len(w)  n == Len(y)
<1>0. /\ m \in Nat /\ n \in Nat /\ Len(r) = m + n
      /\ \A i \in 1..m : r[i] = w[i]
      /\ \A j \in 1..n : r[m + j] = y[j]
  OBVIOUS
<1>1. /\ w \o y \in Seq(S) /\ Len(w \o y) = m + n
      /\ \A i \in 1..(m + n) : (w \o y)[i] = IF i <= m THEN w[i] ELSE y[i - m]
  <2>1. /\ w \o y \in Seq(S) /\ Len(w \o y) = Len(w) + Len(y)
        /\ \A i \in 1..(Len(w) + Len(y)) :
             (w \o y)[i] = IF i <= Len(w) THEN w[i] ELSE y[i - Len(w)]
    BY ConcatProperties
  <2> QED BY <2>1
<1> HIDE DEF m, n
<1>2. ASSUME NEW i \in 1..(m + n) PROVE r[i] = (w \o y)[i]
  <2>1. CASE i <= m
    <3>1. i \in 1..m
      BY <1>0, <2>1
    <3> QED BY <1>0, <1>1, <2>1, <3>1
  <2>2. CASE i > m
    <3>1. i - m \in 1..n /\ m + (i - m) = i
      BY <1>0, <2>2
    <3>2. r[i] = y[i - m]
      BY <1>0, <3>1
    <3>3. (w \o y)[i] = y[i - m]
      BY <1>0, <1>1, <2>2
    <3> QED BY <3>2, <3>3
  <2> QED BY <1>0, <2>1, <2>2
<1>3. Len(r) = Len(w \o y) /\ \A i \in 1..Len(r) : r[i] = (w \o y)[i]
  BY <1>0, <1>1, <1>2
<1> QED BY <1>1, <1>3, SeqEqual

LEMMA InsertedIs ==
  ASSUME NEW q \in Seq(Node), NEW v \in Node, NEW idx \in 0..Len(q)
  PROVE  /\ Inserted(q, idx, v) = Promise!InsertAt(q, idx + 1, v)
         /\ idx = Len(q) => Inserted(q, idx, v) = Append(q, v)
         /\ idx = 0 => Inserted(q, idx, v) = <<v>> \o q
<1> DEFINE r == Inserted(q, idx, v)  L == Len(q)
           x == SubSeq(q, 1, idx)  y == SubSeq(q, idx + 1, L)
<1>1. /\ L \in Nat /\ idx \in Nat /\ idx <= L /\ r \in Seq(Node) /\ Len(r) = L + 1
      /\ \A i \in 1..(L + 1) : r[i] = IF i <= idx THEN q[i] ELSE IF i = idx + 1 THEN v ELSE q[i - 1]
  BY DEF Inserted
<1>2. x \in Seq(Node) /\ Len(x) = idx /\ \A i \in 1..idx : x[i] = q[i]
  BY <1>1
<1>3. y \in Seq(Node) /\ Len(y) = L - idx /\ \A i \in 1..(L - idx) : y[i] = q[idx + i]
  BY <1>1
<1>4. L = Len(q) /\ q \in Seq(Node)
  OBVIOUS
<1> HIDE DEF r, L, x, y
<1>5. r = (x \o <<v>>) \o y
  <2> DEFINE w == x \o <<v>>
  <2>1. w \in Seq(Node) /\ Len(w) = idx + 1 /\ \A i \in 1..idx : w[i] = q[i]
    BY <1>1, <1>2
  <2>2. w[idx + 1] = v
    <3>1. <<v>> \in Seq(Node) /\ Len(<<v>>) = 1 /\ <<v>>[1] = v
      OBVIOUS
    <3>2. \A i \in 1..(Len(x) + Len(<<v>>)) :
            w[i] = IF i <= Len(x) THEN x[i] ELSE <<v>>[i - Len(x)]
      BY <1>2, <3>1, ConcatProperties
    <3>3. idx + 1 \in 1..(idx + 1) /\ ~(idx + 1 <= idx) /\ (idx + 1) - idx = 1
      BY <1>1
    <3> QED BY <1>2, <3>1, <3>2, <3>3
  <2> HIDE DEF w
  <2>3. ASSUME NEW i \in 1..(idx + 1) PROVE r[i] = w[i]
    <3>1. i \in 1..(L + 1) /\ (i <= idx => i \in 1..idx)
      BY <1>1
    <3>2. CASE i <= idx
      BY <1>1, <2>1, <3>1, <3>2
    <3>3. CASE i = idx + 1
      BY <1>1, <2>2, <3>1, <3>3
    <3> QED BY <1>1, <3>2, <3>3
  <2>4. ASSUME NEW j \in 1..(L - idx) PROVE r[(idx + 1) + j] = y[j]
    <3>1. /\ (idx + 1) + j \in 1..(L + 1) /\ ~((idx + 1) + j <= idx)
          /\ (idx + 1) + j # idx + 1 /\ ((idx + 1) + j) - 1 = idx + j
      BY <1>1
    <3>2. r[(idx + 1) + j] = q[idx + j]
      BY <1>1, <3>1
    <3> QED BY <1>3, <3>2
  <2>5. r \in Seq(Node) /\ w \in Seq(Node) /\ y \in Seq(Node)
    BY <1>1, <1>3, <2>1
  <2>6. Len(r) = Len(w) + Len(y)
    BY <1>1, <1>3, <2>1
  <2>7. r = w \o y
    <3>1. \A i \in 1..Len(w) : r[i] = w[i]
      BY <2>1, <2>3
    <3>2. \A j \in 1..Len(y) : r[Len(w) + j] = y[j]
      BY <1>3, <2>1, <2>4
    <3> QED BY <2>5, <2>6, <3>1, <3>2, Joined
  <2> QED BY <2>7 DEF w
<1>6. r = Promise!InsertAt(q, idx + 1, v)
  <2>1. (idx + 1) - 1 = idx
    BY <1>1
  <2> QED BY <1>5, <2>1 DEF Promise!InsertAt, x, y, L
<1>7. idx = L => r = Append(q, v)
  <2> SUFFICES ASSUME idx = L PROVE r = Append(q, v)
    OBVIOUS
  <2>1. /\ Append(q, v) \in Seq(Node) /\ Len(Append(q, v)) = L + 1
        /\ \A i \in 1..L : Append(q, v)[i] = q[i]
        /\ Append(q, v)[L + 1] = v
    BY <1>4
  <2>2. ASSUME NEW i \in 1..(L + 1) PROVE r[i] = Append(q, v)[i]
    <3>1. CASE i = L + 1
      BY <1>1, <2>1, <3>1
    <3>2. CASE i # L + 1
      <4>1. i \in 1..L /\ i <= idx
        BY <1>1, <3>2
      <4> QED BY <1>1, <2>1, <4>1
    <3> QED BY <3>1, <3>2
  <2> QED BY <1>1, <2>1, <2>2, SeqEqual
<1>8. idx = 0 => r = <<v>> \o q
  <2> SUFFICES ASSUME idx = 0 PROVE r = <<v>> \o q
    OBVIOUS
  <2>1. <<v>> \in Seq(Node) /\ Len(<<v>>) = 1 /\ \A i \in 1..1 : r[i] = <<v>>[i]
    BY <1>1
  <2>2. ASSUME NEW j \in 1..L PROVE r[1 + j] = q[j]
    <3>1. 1 + j \in 1..(L + 1) /\ ~(1 + j <= idx) /\ 1 + j # idx + 1 /\ (1 + j) - 1 = j
      BY <1>1
    <3> QED BY <1>1, <3>1
  <2>3. 1 \in Nat /\ Len(r) = 1 + L
    BY <1>1
  <2> QED BY <1>1, <1>4, <2>1, <2>2, <2>3, Joined
<1> QED BY <1>6, <1>7, <1>8 DEF r, L

LEMMA ReplacedIs ==
  ASSUME NEW q \in Seq(Node), NEW v \in Node, NEW idx \in 0..(Len(q) - 1)
  PROVE  Replaced(q, idx, v) = Promise!ReplaceAt(q, idx + 1, v)
<1> DEFINE L == Len(q)
<1>1. DOMAIN q = 1..L /\ L \in Nat /\ idx + 1 \in 1..L
  OBVIOUS
<1> HIDE DEF L
<1>2. Promise!ReplaceAt(q, idx + 1, v) = [i \in 1..L |-> IF i = idx + 1 THEN v ELSE q[i]]
  BY <1>1 DEF Promise!ReplaceAt
<1> QED BY <1>2 DEF Replaced, L

LEMMA WithoutIs ==
  ASSUME NEW q \in Seq(Node), NEW idx \in Nat, NEW cnt \in Nat, idx + cnt <= Len(q)
  PROVE  /\ Without(q, idx, cnt) = SubSeq(q, 1, idx) \o SubSeq(q, idx + cnt + 1, Len(q))
         /\ cnt = 0 => Without(q, idx, cnt) = q
<1> DEFINE r == Without(q, idx, cnt)  L == Len(q)
           x == SubSeq(q, 1, idx)  y == SubSeq(q, idx + cnt + 1, L)
<1>1. /\ L \in Nat /\ L - cnt \in Nat /\ idx + cnt <= L /\ r \in Seq(Node) /\ Len(r) = L - cnt
      /\ \A i \in 1..(L - cnt) : r[i] = IF i <= idx THEN q[i] ELSE q[i + cnt]
  BY DEF Without
<1>2. x \in Seq(Node) /\ Len(x) = idx /\ \A i \in 1..idx : x[i] = q[i]
  BY <1>1
<1>3. y \in Seq(Node) /\ Len(y) = L - (idx + cnt)
      /\ \A i \in 1..(L - (idx + cnt)) : y[i] = q[(idx + cnt) + i]
  BY <1>1
<1>4. L = Len(q) /\ q \in Seq(Node)
  OBVIOUS
<1> HIDE DEF r, L, x, y
<1>5. r = x \o y
  <2>1. ASSUME NEW i \in 1..idx PROVE r[i] = x[i]
    <3>1. i \in 1..(L - cnt) /\ i <= idx
      BY <1>1
    <3> QED BY <1>1, <1>2, <3>1
  <2>2. ASSUME NEW j \in 1..(L - (idx + cnt)) PROVE r[idx + j] = y[j]
    <3>1. idx + j \in 1..(L - cnt) /\ ~(idx + j <= idx) /\ (idx + j) + cnt = (idx + cnt) + j
      BY <1>1
    <3>2. r[idx + j] = q[(idx + cnt) + j]
      BY <1>1, <3>1
    <3> QED BY <1>3, <3>2
  <2>3. r \in Seq(Node) /\ x \in Seq(Node) /\ y \in Seq(Node)
    BY <1>1, <1>2, <1>3
  <2>4. Len(r) = Len(x) + Len(y)
    BY <1>1, <1>2, <1>3
  <2>5. \A i \in 1..Len(x) : r[i] = x[i]
    BY <1>2, <2>1
  <2>6. \A j \in 1..Len(y) : r[Len(x) + j] = y[j]
    BY <1>2, <1>3, <2>2
  <2> QED BY <2>3, <2>4, <2>5, <2>6, Joined
<1>6. cnt = 0 => r = q
  <2> SUFFICES ASSUME cnt = 0 PROVE r = q
    OBVIOUS
  <2>0. L \in Nat
    BY <1>1
  <2>1. Len(r) = L
    BY <1>1
  <2>2. ASSUME NEW i \in 1..L PROVE r[i] = q[i]
    <3>1. L - cnt = L /\ i + cnt = i
      BY <2>0
    <3> QED BY <1>1, <3>1
  <2> QED BY <1>1, <1>4, <2>1, <2>2, SeqEqual
<1> QED BY <1>5, <1>6 DEF r, x, y, L

-----------------------------------------------------------------------------
(* What the pointers represent is what the refinement maps seqs to, before *)
(* and after a step.                                                       *)
LEMMA ElemsIn ==
  ASSUME NEW nx, NEW l, NEW q, Distinct(q), Ring(q, nx, l)
  PROVE  [i \in 1..Len(q) |-> WalkIn(nx, l, i)] = q
<1>1. Len(q) \in Nat /\ q \in Seq(Node)
  BY DEF Distinct
<1>2. ASSUME NEW i \in 1..Len(q) PROVE WalkIn(nx, l, i) = q[i]
  <2>1. Len(q) > 0 /\ 0 \in 0..Len(q) /\ i \in Nat /\ 0 + i <= Len(q) + 1 /\ 0 + i = i
    BY <1>1
  <2>2. WalkIn(nx, At(q, 0), i) = At(q, 0 + i)
    BY <2>1, WalkRing
  <2>3. At(q, 0) = l /\ At(q, i) = q[i]
    BY <1>1, <2>1 DEF At, Ring
  <2> QED BY <2>1, <2>2, <2>3
<1> QED BY <1>1, <1>2

LEMMA SeqsAre ==
  ASSUME TypeOK, NEW s, Rep(s)
  PROVE  [a \in Arrays |-> Elems(a)] = s
<1>1. s \in [Arrays -> Seq(Node)] /\ \A a \in Arrays : Elems(a) = s[a]
  BY ElemsAre DEF Rep
<1> QED BY <1>1

LEMMA SeqsNext ==
  ASSUME NEW s, Rep(s)'
  PROVE  [a \in Arrays |-> Elems(a)'] = s
<1>1. /\ s \in [Arrays -> Seq(Node)]
      /\ \A a \in Arrays : Distinct(s[a]) /\ Ring(s[a], next', last'[a]) /\ Len(s[a]) = len'[a]
  BY DEF Rep
<1>2. ASSUME NEW a \in Arrays PROVE Elems(a)' = s[a]
  <2>1. [i \in 1..Len(s[a]) |-> WalkIn(next', last'[a], i)] = s[a]
    BY <1>1, ElemsIn
  <2>2. [i \in 1..len'[a] |-> WalkIn(next', last'[a], i)] = s[a]
    BY <1>1, <2>1
  <2> QED BY <2>2 DEF Elems, Walk, WalkIn
<1> QED BY <1>1, <1>2

(* No array is longer than the pool.                                       *)
LEMMA LenBound ==
  ASSUME TypeOK, NEW s, Rep(s), NEW a \in Arrays
  PROVE  len[a] <= Cardinality(Node)
<1>1. len[a] \in Nat /\ Len(s[a]) = len[a] /\ Distinct(s[a])
  BY DEF TypeOK, Rep
<1> DEFINE f == [i \in 1..len[a] |-> s[a][i]]
<1>2. f \in [1..len[a] -> Node]
  BY <1>1 DEF Distinct
<1>3. f \in Injection(1..len[a], Node)
  BY <1>1, <1>2 DEF Distinct, Injection, IsInjective
<1>4. Cardinality(1..len[a]) <= Cardinality(Node)
  <2> HIDE DEF f
  <2> QED BY <1>3, PoolAssumption, FS_Injection
<1>5. Cardinality(1..len[a]) = len[a]
  BY <1>1, FS_Interval
<1> QED BY <1>4, <1>5

LEMMA SizeTWraps ==
  ASSUME TypeOK, NEW s, Rep(s), NEW a \in Arrays, NEW i \in Indexes
  PROVE  /\ i >= 0 => SizeT(i) = i
         /\ i < 0 => SizeT(i) > len[a]
<1>1. /\ i \in Int /\ SizeMod \in Nat \ {0} /\ len[a] \in Nat /\ Cardinality(Node) \in Nat
      /\ i < SizeMod /\ i + SizeMod > Cardinality(Node) /\ len[a] <= Cardinality(Node)
  BY IndexesAssumption, SizeAssumption, PoolAssumption, LenBound, LastType, FS_CardinalityType
<1>2. ASSUME NEW j \in Int, NEW m \in Nat, j < 0, j + m >= 0 PROVE j % m = j + m
  BY <1>2, Z3
<1>3. i < 0 => SizeT(i) = i + SizeMod
  BY <1>1, <1>2 DEF SizeT
<1> QED BY <1>1, <1>3, SizeTSame

-----------------------------------------------------------------------------
(* Each action of the pointers is an action of the sequences.              *)
Seqs == [a \in Arrays |-> Elems(a)]

LEMMA FreeMaps ==
  ASSUME TypeOK, NEW s, Rep(s), NEW v \in Free
  PROVE  v \in Promise!Free /\ v \in Promise!Value
<1>1. /\ v \in Node /\ v \in held /\ v # Root
      /\ \A a \in Arrays : \A i \in 1..Len(s[a]) : s[a][i] # v
  BY FreeNode DEF Free
<1>2. \A a \in Arrays : s[a] \in Seq(Node) /\ [b \in Arrays |-> Elems(b)][a] = s[a]
  BY SeqsAre DEF Rep
<1>3. ~Promise!Placed(v)
  BY <1>1, <1>2 DEF Promise!Placed, Promise!ToSet
<1> QED BY <1>1, <1>3 DEF Promise!Free, Promise!Value, Node

LEMMA EditMaps ==
  ASSUME TypeOK, NEW s, Rep(s), NEW a \in Arrays, NEW r, Rep(Edited(s, a, r))',
         ret' = TRUE, UNCHANGED <<used, held>>
  PROVE  Promise!Edit(a, r)
<1>1. Seqs = s /\ Seqs' = [s EXCEPT ![a] = r]
  BY SeqsAre, SeqsNext DEF Seqs, Edited
<1> QED BY <1>1 DEF Promise!Edit, Seqs

LEMMA RefuseMaps ==
  ASSUME TypeOK, NEW s, Rep(s), Rep(s)', Refuse
  PROVE  Promise!Refuse
<1>1. Seqs = s /\ Seqs' = s
  BY SeqsAre, SeqsNext DEF Seqs
<1> QED BY <1>1 DEF Promise!Refuse, Refuse, Seqs

LEMMA FreshMaps ==
  ASSUME TypeOK, NEW s, Rep(s), NEW a \in Arrays, NEW v \in Node
  PROVE  /\ CreateFree(v) \/ CreateJsonMut(a, v) => Promise!Create(v)
         /\ AddArr(a, v) => Promise!AddFresh(a, v)
<1>1. s[a] \in Seq(Node) /\ Len(s[a]) \in 0..Len(s[a]) /\ Seqs = s
  <2>1. s[a] \in Seq(Node)
    BY DEF Rep
  <2>2. Len(s[a]) \in 0..Len(s[a])
    BY <2>1
  <2> QED BY <2>1, <2>2, SeqsAre DEF Seqs
<1>2. ASSUME CreateFree(v) \/ CreateJsonMut(a, v) PROVE Promise!Create(v)
  <2>1. Seqs' = s
    BY <1>2, CreateStep, SeqsNext DEF Seqs
  <2> QED BY <1>1, <1>2, <2>1 DEF CreateFree, CreateJsonMut, Promise!Create, Seqs
<1>3. ASSUME AddArr(a, v) PROVE Promise!AddFresh(a, v)
  <2>1. Seqs' = Edited(s, a, Inserted(s[a], Len(s[a]), v))
    BY <1>3, AddStep, SeqsNext DEF Seqs
  <2>2. Inserted(s[a], Len(s[a]), v) = Append(s[a], v)
    BY <1>1, InsertedIs
  <2> QED BY <1>1, <1>3, <2>1, <2>2 DEF AddArr, Promise!AddFresh, Seqs, Edited
<1> QED BY <1>2, <1>3

LEMMA LinkMaps ==
  ASSUME TypeOK, NEW s, Rep(s), NEW a \in Arrays, NEW v \in Node
  PROVE  /\ Bind(a, v) => Promise!Bind(a, v)
         /\ AppendArr(a, v) => Promise!AppendTo(a, v)
         /\ PrependArr(a, v) => Promise!Prepend(a, v)
<1>1. /\ s[a] \in Seq(Node) /\ Len(s[a]) \in 0..Len(s[a]) /\ 0 \in 0..Len(s[a])
      /\ Seqs = s
  <2>1. s[a] \in Seq(Node)
    BY DEF Rep
  <2>2. Len(s[a]) \in 0..Len(s[a]) /\ 0 \in 0..Len(s[a])
    BY <2>1
  <2> QED BY <2>1, <2>2, SeqsAre DEF Seqs
<1>2. v \in Free => v \in Promise!Free
  BY FreeMaps
<1>3. /\ v \in Free => Inserted(s[a], Len(s[a]), v) = Append(s[a], v)
      /\ v \in Free => Inserted(s[a], 0, v) = <<v>> \o s[a]
  BY <1>1, InsertedIs
<1>4. ASSUME Bind(a, v) PROVE Promise!Bind(a, v)
  <2>1. Seqs' = Edited(s, a, Inserted(s[a], Len(s[a]), v)) /\ v \in Free
    BY <1>4, BindStep, SeqsNext DEF Seqs, Bind
  <2> QED BY <1>1, <1>2, <1>3, <1>4, <2>1 DEF Bind, Promise!Bind, Seqs, Edited
<1>5. ASSUME AppendArr(a, v) PROVE Promise!AppendTo(a, v)
  <2>1. Promise!Edit(a, Inserted(s[a], Len(s[a]), v)) /\ v \in Free
    BY <1>5, BindStep, EditMaps DEF AppendArr, Done
  <2> QED BY <1>1, <1>2, <1>3, <2>1 DEF Promise!AppendTo, Seqs
<1>6. ASSUME PrependArr(a, v) PROVE Promise!Prepend(a, v)
  <2>1. Promise!Edit(a, Inserted(s[a], 0, v)) /\ v \in Free
    BY <1>6, PrependStep, EditMaps DEF PrependArr, Done
  <2> QED BY <1>1, <1>2, <1>3, <2>1 DEF Promise!Prepend, Seqs
<1> QED BY <1>4, <1>5, <1>6

LEMMA InsertMaps ==
  ASSUME TypeOK, NEW s, Rep(s), NEW a \in Arrays, NEW v \in Node, NEW i \in Indexes,
         InsertArr(a, v, i)
  PROVE  Promise!Insert(a, v, i)
<1>1. /\ s[a] \in Seq(Node) /\ Len(s[a]) = len[a] /\ len[a] \in Nat /\ Seqs = s /\ v \in Free
      /\ i \in Int
  BY SeqsAre, LastType, IndexesAssumption DEF Seqs, InsertArr
<1>2. v \in Promise!Free
  BY <1>1, FreeMaps
<1>3. (i >= 0 => SizeT(i) = i) /\ (i < 0 => SizeT(i) > len[a])
  BY SizeTWraps
<1>4. CASE i \in 0..len[a]
  <2>1. SizeT(i) = i /\ ~(SizeT(i) > len[a])
    BY <1>1, <1>3, <1>4
  <2>2. Rep(Edited(s, a, Inserted(s[a], i, v)))' /\ Done
    BY <2>1, InsertArrStep DEF InsertArr
  <2>3. Promise!Edit(a, Inserted(s[a], i, v))
    BY <2>2, EditMaps DEF Done
  <2>4. Inserted(s[a], i, v) = Promise!InsertAt(s[a], i + 1, v)
    BY <1>1, <1>4, InsertedIs
  <2> QED BY <1>1, <1>2, <1>4, <2>3, <2>4 DEF Promise!Insert, Seqs
<1>5. CASE i \notin 0..len[a]
  <2>1. SizeT(i) > len[a]
    BY <1>1, <1>3, <1>5
  <2>2. ~(SizeT(i) <= len[a])
    BY <1>1, <2>1, SizeTNat, SMTT(30)
  <2>3. Refuse /\ Rep(s)'
    BY <2>2, InsertArrStep DEF InsertArr
  <2>4. Promise!Refuse
    BY <2>3, RefuseMaps
  <2> QED BY <1>1, <1>2, <1>5, <2>4 DEF Promise!Insert, Seqs
<1> QED BY <1>4, <1>5

LEMMA ReplaceMaps ==
  ASSUME TypeOK, NEW s, Rep(s), NEW a \in Arrays, NEW v \in Node, NEW i \in Indexes,
         ReplaceArr(a, v, i)
  PROVE  Promise!Replace(a, v, i)
<1>1. /\ s[a] \in Seq(Node) /\ Len(s[a]) = len[a] /\ len[a] \in Nat /\ Seqs = s /\ v \in Free
      /\ i \in Int /\ DOMAIN s[a] = 1..len[a]
  BY SeqsAre, LastType, IndexesAssumption DEF Seqs, ReplaceArr
<1>2. v \in Promise!Free
  BY <1>1, FreeMaps
<1>3. (i >= 0 => SizeT(i) = i) /\ (i < 0 => SizeT(i) > len[a])
  BY SizeTWraps
<1>4. CASE i \in 0..(len[a] - 1)
  <2>1. SizeT(i) = i /\ ~(SizeT(i) >= len[a]) /\ i + 1 \in DOMAIN s[a]
    BY <1>1, <1>3, <1>4
  <2>2. Rep(Edited(s, a, Replaced(s[a], i, v)))' /\ Done
    BY <2>1, ReplaceArrStep DEF ReplaceArr
  <2>3. Promise!Edit(a, Replaced(s[a], i, v))
    BY <2>2, EditMaps DEF Done
  <2>4. Replaced(s[a], i, v) = Promise!ReplaceAt(s[a], i + 1, v)
    BY <1>1, <1>4, ReplacedIs
  <2> QED BY <1>1, <1>2, <2>1, <2>3, <2>4 DEF Promise!Replace, Seqs
<1>5. CASE i \notin 0..(len[a] - 1)
  <2>1. SizeT(i) >= len[a] /\ i + 1 \notin DOMAIN s[a]
    <3>1. i < 0 \/ i >= len[a]
      BY <1>1, <1>5
    <3>2. i + 1 \notin 1..len[a]
      BY <1>1, <3>1
    <3>3. SizeT(i) \in Nat
      BY <1>1, SizeTNat
    <3> QED BY <1>1, <1>3, <3>1, <3>2, <3>3
  <2>2. ~(SizeT(i) < len[a])
    BY <1>1, <2>1, SizeTNat, SMTT(30)
  <2>3. Refuse /\ Rep(s)'
    BY <2>2, ReplaceArrStep DEF ReplaceArr
  <2>4. Promise!Refuse
    BY <2>3, RefuseMaps
  <2> QED BY <1>1, <1>2, <2>1, <2>4 DEF Promise!Replace, Seqs
<1> QED BY <1>4, <1>5

LEMMA RemoveOneMaps ==
  ASSUME TypeOK, NEW s, Rep(s), NEW a \in Arrays, NEW i \in Nat, i < Len(s[a]),
         Rep(Edited(s, a, Without(s[a], i, 1)))', Done
  PROVE  Promise!RemoveOne(a, i)
<1>1. s[a] \in Seq(Node) /\ Seqs = s /\ DOMAIN s[a] = 1..Len(s[a]) /\ Len(s[a]) \in Nat
  BY SeqsAre, LastType DEF Seqs
<1>2. Promise!Edit(a, Without(s[a], i, 1))
  BY EditMaps DEF Done
<1>3. i + 1 \in DOMAIN s[a] /\ i + 1 <= Len(s[a]) /\ (i + 1) - 1 = i /\ 1 \in Nat
  BY <1>1
<1>4. Without(s[a], i, 1) = Promise!RemoveAt(s[a], i + 1)
  <2>1. Without(s[a], i, 1) = SubSeq(s[a], 1, i) \o SubSeq(s[a], i + 1 + 1, Len(s[a]))
    BY <1>1, <1>3, WithoutIs
  <2> QED BY <1>3, <2>1 DEF Promise!RemoveAt
<1> QED BY <1>1, <1>2, <1>3, <1>4 DEF Promise!RemoveOne, Seqs

LEMMA RemoveMaps ==
  ASSUME TypeOK, NEW s, Rep(s), NEW a \in Arrays, NEW i \in Indexes, RemoveArr(a, i)
  PROVE  Promise!RemoveOne(a, i)
<1>1. /\ s[a] \in Seq(Node) /\ Len(s[a]) = len[a] /\ len[a] \in Nat /\ Seqs = s
      /\ i \in Int /\ DOMAIN s[a] = 1..len[a]
  BY SeqsAre, LastType, IndexesAssumption DEF Seqs
<1>2. (i >= 0 => SizeT(i) = i) /\ (i < 0 => SizeT(i) > len[a])
  BY SizeTWraps
<1>3. CASE i \in 0..(len[a] - 1)
  <2>1. SizeT(i) = i /\ ~(SizeT(i) >= len[a]) /\ i \in Nat /\ i < Len(s[a])
    BY <1>1, <1>2, <1>3
  <2>2. Rep(Edited(s, a, Without(s[a], i, 1)))' /\ Done
    BY <2>1, RemoveArrStep DEF RemoveArr
  <2> QED BY <2>1, <2>2, RemoveOneMaps
<1>4. CASE i \notin 0..(len[a] - 1)
  <2>1. i < 0 \/ i >= len[a]
    BY <1>1, <1>4
  <2>2. SizeT(i) \in Nat
    BY <1>1, SizeTNat
  <2>3. ~(SizeT(i) < len[a]) /\ i + 1 \notin 1..len[a]
    BY <1>1, <1>2, <2>1, <2>2
  <2>4. Refuse /\ Rep(s)'
    BY <2>3, RemoveArrStep DEF RemoveArr
  <2>5. Promise!Refuse
    BY <2>4, RefuseMaps
  <2> QED BY <1>1, <2>3, <2>5 DEF Promise!RemoveOne, Seqs
<1> QED BY <1>3, <1>4

LEMMA FirstMaps ==
  ASSUME TypeOK, NEW s, Rep(s), NEW a \in Arrays, RemoveArrFirst(a)
  PROVE  Promise!RemoveOne(a, 0)
<1>1. s[a] \in Seq(Node) /\ Len(s[a]) = len[a] /\ len[a] \in Nat /\ Seqs = s
  BY SeqsAre, LastType DEF Seqs
<1>2. CASE len[a] > 0
  <2>1. Rep(Edited(s, a, Without(s[a], 0, 1)))' /\ Done
    BY <1>1, <1>2, RemoveFirstStep DEF RemoveArrFirst
  <2> QED BY <1>1, <1>2, <2>1, RemoveOneMaps
<1>3. CASE len[a] = 0
  <2>1. Refuse /\ Rep(s)'
    BY <1>1, <1>3, RemoveFirstStep DEF RemoveArrFirst
  <2>2. Promise!Refuse /\ 0 + 1 \notin DOMAIN s[a]
    BY <1>1, <1>3, <2>1, RefuseMaps
  <2> QED BY <1>1, <2>2 DEF Promise!RemoveOne, Seqs
<1> QED BY <1>1, <1>2, <1>3

LEMMA LastMaps ==
  ASSUME TypeOK, NEW s, Rep(s), NEW a \in Arrays, RemoveArrLast(a)
  PROVE  Promise!RemoveLast(a)
<1>1. s[a] \in Seq(Node) /\ Len(s[a]) = len[a] /\ len[a] \in Nat /\ Seqs = s
  BY SeqsAre, LastType DEF Seqs
<1>2. CASE len[a] > 0
  <2>1. Rep(Edited(s, a, Without(s[a], Len(s[a]) - 1, 1)))' /\ Done
    BY <1>1, <1>2, RemoveLastStep DEF RemoveArrLast
  <2>2. Promise!Edit(a, Without(s[a], Len(s[a]) - 1, 1))
    BY <2>1, EditMaps DEF Done
  <2>3. Without(s[a], Len(s[a]) - 1, 1) = Promise!Front(s[a])
    <3>1. [i \in 1..(Len(s[a]) - 1) |-> IF i <= Len(s[a]) - 1 THEN s[a][i] ELSE s[a][i + 1]]
          = SubSeq(s[a], 1, Len(s[a]) - 1)
      BY <1>1, <1>2
    <3> QED BY <3>1 DEF Without, Promise!Front
  <2>4. s[a] # << >>
    BY <1>1, <1>2
  <2> QED BY <1>1, <2>2, <2>3, <2>4 DEF Promise!RemoveLast, Seqs
<1>3. CASE len[a] = 0
  <2>1. Refuse /\ Rep(s)'
    BY <1>1, <1>3, RemoveLastStep DEF RemoveArrLast
  <2>2. Promise!Refuse /\ s[a] = << >>
    BY <1>1, <1>3, <2>1, RefuseMaps
  <2> QED BY <1>1, <2>2 DEF Promise!RemoveLast, Seqs
<1> QED BY <1>1, <1>2, <1>3

LEMMA RangeMaps ==
  ASSUME TypeOK, NEW s, Rep(s), NEW a \in Arrays, NEW r \in Ranges,
         RemoveArrRange(a, r[1], r[2])
  PROVE  Promise!RemoveRange(a, r[1], r[2])
<1>1. /\ s[a] \in Seq(Node) /\ Len(s[a]) = len[a] /\ len[a] \in Nat /\ Seqs = s
      /\ r[1] \in Nat /\ r[2] \in Nat
  BY SeqsAre, LastType, RangesAssumption DEF Seqs
<1>2. CASE r[1] + r[2] > len[a]
  <2>1. Refuse /\ Rep(s)'
    BY <1>1, <1>2, RemoveRangeStep
  <2>2. Promise!Refuse
    BY <2>1, RefuseMaps
  <2> QED BY <1>1, <1>2, <2>2 DEF Promise!RemoveRange, Seqs
<1>3. CASE r[1] + r[2] <= len[a]
  <2>1. Rep(Edited(s, a, Without(s[a], r[1], r[2])))' /\ Done
    <3>1. CASE r[2] = 0 /\ Done /\ Rep(s)'
      <4>1. Without(s[a], r[1], r[2]) = s[a]
        BY <1>1, <1>3, <3>1, WithoutIs
      <4>2. Edited(s, a, s[a]) = s
        BY DEF Edited, Rep
      <4>3. Rep(Edited(s, a, s[a]))'
        BY <3>1, <4>2
      <4> QED BY <3>1, <4>1, <4>3
    <3>2. CASE Rep(Edited(s, a, Without(s[a], r[1], r[2])))'
      <4>1. Done
        <5>1. r[1] + r[2] < SizeMod /\ SizeMod \in Nat
          BY RangesAssumption, SizeAssumption
        <5>2. /\ SizeT(r[1]) = r[1] /\ SizeT(r[2]) = r[2]
              /\ SizeT(r[1] + r[2]) = r[1] + r[2]
          BY <1>1, <5>1, SizeTSame
        <5>3. ~(SizeT(SizeT(r[1]) + SizeT(r[2])) > len[a])
          BY <1>1, <1>3, <5>2
        <5> QED BY <5>3 DEF RemoveArrRange
      <4> QED BY <3>2, <4>1
    <3> QED BY <1>1, <1>3, <3>1, <3>2, RemoveRangeStep
  <2>2. Promise!Edit(a, Without(s[a], r[1], r[2]))
    BY <2>1, EditMaps DEF Done
  <2>3. Without(s[a], r[1], r[2])
        = SubSeq(s[a], 1, r[1]) \o SubSeq(s[a], r[1] + r[2] + 1, Len(s[a]))
    BY <1>1, <1>3, WithoutIs
  <2> QED BY <1>1, <1>3, <2>2, <2>3 DEF Promise!RemoveRange, Seqs
<1> QED BY <1>1, <1>2, <1>3

LEMMA CleanMaps ==
  ASSUME TypeOK, NEW s, Rep(s), NEW a \in Arrays, CleanArr(a)
  PROVE  Promise!Clear(a)
<1>1. Rep(Edited(s, a, << >>))' /\ Done
  BY CleanStep DEF CleanArr
<1> QED BY <1>1, EditMaps DEF Promise!Clear, Done

LEMMA InitMaps ==
  ASSUME Init
  PROVE  Promise!Init
<1>1. ASSUME NEW a \in Arrays PROVE Elems(a) = << >>
  <2>1. len[a] = 0 /\ 1..0 = {}
    BY DEF Init
  <2> QED BY <2>1 DEF Elems
<1>2. Seqs = [a \in Arrays |-> << >>]
  BY <1>1 DEF Seqs
<1> QED BY <1>2 DEF Init, Promise!Init, Seqs

LEMMA NextMaps ==
  ASSUME IInv, [Next]_vars
  PROVE  [Promise!Next]_(Promise!vars)
<1>1. PICK s : Rep(s)
  BY DEF IInv
<1>2. TypeOK /\ Node = Promise!Value /\ Root \in Arrays
  BY NodesAssumption DEF IInv, Node, Promise!Value
<1>3. ASSUME NEW a \in Arrays, NEW v \in Node,
             CreateFree(v) \/ CreateJsonMut(a, v) \/ AddArr(a, v)
      PROVE  Promise!Next
  <2>1. Promise!Create(v) \/ Promise!AddFresh(a, v)
    BY <1>1, <1>2, <1>3, FreshMaps
  <2> QED BY <1>2, <2>1 DEF Promise!Next
<1>4. ASSUME NEW a \in Arrays, NEW v \in Node,
             Bind(a, v) \/ AppendArr(a, v) \/ PrependArr(a, v)
      PROVE  Promise!Next
  <2>1. Promise!Bind(a, v) \/ Promise!AppendTo(a, v) \/ Promise!Prepend(a, v)
    BY <1>1, <1>2, <1>4, LinkMaps
  <2> QED BY <1>2, <2>1 DEF Promise!Next
<1>5. ASSUME NEW a \in Arrays, NEW v \in Node, NEW i \in Indexes,
             InsertArr(a, v, i) \/ ReplaceArr(a, v, i)
      PROVE  Promise!Next
  <2>1. Promise!Insert(a, v, i) \/ Promise!Replace(a, v, i)
    BY <1>1, <1>2, <1>5, InsertMaps, ReplaceMaps
  <2> QED BY <1>2, <2>1 DEF Promise!Next
<1>6. ASSUME NEW a \in Arrays, NEW i \in Indexes, RemoveArr(a, i)
      PROVE  Promise!Next
  <2>1. Promise!RemoveOne(a, i)
    BY <1>1, <1>2, <1>6, RemoveMaps
  <2> QED BY <2>1 DEF Promise!Next
<1>7. ASSUME NEW a \in Arrays, RemoveArrFirst(a) \/ RemoveArrLast(a) \/ CleanArr(a)
      PROVE  Promise!Next
  <2>1. Promise!RemoveOne(a, 0) \/ Promise!RemoveLast(a) \/ Promise!Clear(a)
    BY <1>1, <1>2, <1>7, FirstMaps, LastMaps, CleanMaps
  <2> QED BY <2>1 DEF Promise!Next
<1>8. ASSUME NEW a \in Arrays, NEW r \in Ranges, RemoveArrRange(a, r[1], r[2])
      PROVE  Promise!Next
  <2>1. Promise!RemoveRange(a, r[1], r[2])
    BY <1>1, <1>2, <1>8, RangeMaps
  <2> QED BY <2>1 DEF Promise!Next
<1>9. CASE UNCHANGED vars
  <2>1. UNCHANGED <<used, held, next, last, len, ret>>
    BY <1>9 DEF vars
  <2>2. Seqs = s /\ Seqs' = s
    BY <1>1, <1>2, <2>1, SameStep, SeqsAre, SeqsNext DEF Seqs
  <2> QED BY <2>1, <2>2 DEF Promise!vars, Seqs
<1> QED BY <1>2, <1>3, <1>4, <1>5, <1>6, <1>7, <1>8, <1>9 DEF Next

(* The pointer surgery of yyjson, driven through the natives, edits the    *)
(* sequences a user of JsonMutArr thinks of, and the booleans say whether  *)
(* it did.                                                                 *)
THEOREM ArraysImplemented == Spec => ImplementsArrays
<1>1. Init => Promise!Init
  BY InitMaps
<1>2. IInv /\ [Next]_vars => [Promise!Next]_(Promise!vars)
  BY NextMaps
<1> QED BY <1>1, <1>2, Invariance, PTL DEF Spec, ImplementsArrays, Promise!Spec

(* Each method of JsonMutArr does the edit it was called for, of the array,*)
(* with the value and at the place it was given, or refuses where that     *)
(* edit is refused: also for the negative positions of a jint.             *)
THEOREM EachItsEdit == Spec => EditsAsCalled
<1>1. ASSUME IInv, NEW a \in Arrays PROVE AsCalled(a)
  <2>1. PICK s : TypeOK /\ Rep(s)
    BY <1>1 DEF IInv
  <2>2. \A v \in Node : AddArr(a, v) => Promise!AddFresh(a, v)
    BY <2>1, FreshMaps
  <2>3. \A v \in Node :
          /\ Bind(a, v) => Promise!Bind(a, v)
          /\ AppendArr(a, v) => Promise!AppendTo(a, v)
          /\ PrependArr(a, v) => Promise!Prepend(a, v)
    BY <2>1, LinkMaps
  <2>4. \A v \in Node, i \in Indexes :
          /\ InsertArr(a, v, i) => Promise!Insert(a, v, i)
          /\ ReplaceArr(a, v, i) => Promise!Replace(a, v, i)
    BY <2>1, InsertMaps, ReplaceMaps
  <2>5. \A i \in Indexes : RemoveArr(a, i) => Promise!RemoveOne(a, i)
    BY <2>1, RemoveMaps
  <2>6. \A r \in Ranges :
          RemoveArrRange(a, r[1], r[2]) => Promise!RemoveRange(a, r[1], r[2])
    BY <2>1, RangeMaps
  <2>7. /\ RemoveArrFirst(a) => Promise!RemoveOne(a, 0)
        /\ RemoveArrLast(a) => Promise!RemoveLast(a)
        /\ CleanArr(a) => Promise!Clear(a)
    BY <2>1, FirstMaps, LastMaps, CleanMaps
  <2> QED BY <2>2, <2>3, <2>4, <2>5, <2>6, <2>7 DEF AsCalled
<1>2. IInv => [\A a \in Arrays : AsCalled(a)]_vars
  BY <1>1
<1> QED BY <1>2, Invariance, PTL DEF EditsAsCalled
=============================================================================
