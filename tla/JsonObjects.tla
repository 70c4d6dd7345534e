---------------------------- MODULE JsonObjects ----------------------------
(***************************************************************************)
(* What a user of JsonMut.JsonMutObject is promised: an object is a        *)
(* sequence of key/value entries, new entries go to the end, removeObj     *)
(* takes out every entry of a key (yyjson.h:2016), replaceObj gives the    *)
(* first entry of a key the value passed.                                  *)
(*                                                                         *)
(* A Java handle names a place that holds a value.  replaceObj exchanges   *)
(* the values of two places, so the handle the client passed names the     *)
(* value that was taken out.  'value' keeps who names what; an object's    *)
(* entries belong to the object, not to the place it is in.                *)
(***************************************************************************)
EXTENDS Naturals, SequencesExt

CONSTANTS
  Objs,       \* places born with an object in them, and those objects
  Items,      \* places born with another value
  Keys,       \* key strings
  Root        \* the place of the document's root object

VARIABLES
  seqs,       \* the entries <<key, place>> of each object
  value,      \* the value in each place
  used, held, ret

vars == <<seqs, value, used, held, ret>>

Place == Objs \cup Items

IsPlaced(p) == \E c \in Objs : \E e \in ToSet(seqs[c]) : e[2] = p

Free == {p \in held : p # Root /\ ~IsPlaced(p)}

HoldsObject(p) == p \in held /\ value[p] \in Objs

Init ==
  /\ seqs = [c \in Objs |-> <<>>]
  /\ value = [p \in Place |-> p]
  /\ used = {Root}
  /\ held = {Root}
  /\ ret = FALSE

AddEntry(p, k, q) ==
  seqs' = [seqs EXCEPT ![value[p]] = Append(@, <<k, q>>)]

Create(q) ==
  /\ q \notin used
  /\ used' = used \cup {q} /\ held' = held \cup {q}
  /\ UNCHANGED <<seqs, value, ret>>

CreateBound(p, k, q) ==
  /\ HoldsObject(p) /\ q \notin used
  /\ used' = used \cup {q} /\ held' = held \cup {q}
  /\ UNCHANGED <<value, ret>>
  /\ AddEntry(p, k, q)

CreateFilled(p, k, q) ==
  /\ p \notin used /\ q \notin used /\ p # q
  /\ used' = used \cup {p, q} /\ held' = held \cup {p}
  /\ UNCHANGED <<value, ret>>
  /\ AddEntry(p, k, q)

AddScalar(p, k, q) ==
  /\ HoldsObject(p) /\ q \notin used
  /\ used' = used \cup {q}
  /\ UNCHANGED <<held, value, ret>>
  /\ AddEntry(p, k, q)

Bind(p, k, q) ==
  /\ HoldsObject(p)
  /\ UNCHANGED <<value, used, held, ret>>
  /\ q \in Free /\ AddEntry(p, k, q)

(* A value reached by path gets a handle.                                  *)
Lookup(q) ==
  /\ held' = held \cup {q}
  /\ UNCHANGED <<value, used, ret>>
  /\ IsPlaced(q) /\ UNCHANGED seqs

(* Every boolean method: what it answers, and no value made.               *)
Answer(r) == ret' = r /\ UNCHANGED <<used, held>>

(* The entries of s whose key is not k, in their order.                    *)
WithoutKey(s, k) ==
  LET kept[i \in 0..Len(s)] ==
        IF i = 0 THEN << >>
        ELSE IF s[i][1] = k THEN kept[i - 1] ELSE Append(kept[i - 1], s[i])
  IN kept[Len(s)]

RemoveAll(p, k) ==
  /\ HoldsObject(p) /\ Answer(TRUE) /\ UNCHANGED value
  /\ seqs' = [seqs EXCEPT ![value[p]] = WithoutKey(@, k)]

Clear(p) ==
  /\ HoldsObject(p) /\ Answer(TRUE) /\ UNCHANGED value
  /\ seqs' = [seqs EXCEPT ![value[p]] = <<>>]

Replace(p, k, q) ==
  /\ HoldsObject(p) /\ Answer(TRUE) /\ q \in Free
  /\ LET s == seqs[value[p]]
         i == SelectInSeq(s, LAMBDA e : e[1] = k)
     IN /\ i # 0
        /\ value' = [value EXCEPT ![s[i][2]] = value[q], ![q] = value[s[i][2]]]
  /\ UNCHANGED seqs

(* No such key, or the receiver's place no longer holds an object.         *)
Refuse(p, k) ==
  /\ p \in held /\ Answer(FALSE) /\ UNCHANGED value
  /\ value[p] \in Objs => \A e \in ToSet(seqs[value[p]]) : e[1] # k
  /\ UNCHANGED seqs

Next ==
  \/ \E q \in Place : Create(q) \/ Lookup(q)
  \/ \E p \in Place, k \in Keys :
       \/ \E q \in Place : \/ CreateBound(p, k, q) \/ CreateFilled(p, k, q)
                           \/ AddScalar(p, k, q)
                           \/ Bind(p, k, q) \/ Replace(p, k, q)
       \/ RemoveAll(p, k) \/ Refuse(p, k)
  \/ \E p \in Place : Clear(p)

Spec == Init /\ [][Next]_vars
=============================================================================
