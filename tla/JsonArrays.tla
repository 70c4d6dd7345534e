----------------------------- MODULE JsonArrays -----------------------------
(***************************************************************************)
(* What a user of JsonMut.JsonMutArr is promised: every array of the       *)
(* document is a sequence of values, every call edits the sequence of its  *)
(* receiver at the given position or refuses and changes nothing, and the  *)
(* boolean it returns says which of the two happened.                      *)
(*                                                                         *)
(* Addresses, next pointers and cached lengths do not appear here: MutArr  *)
(* is the module of the code and is shown to implement this one.           *)
(***************************************************************************)
EXTENDS Integers, SequencesExt

CONSTANTS
  Arrays,     \* values that are arrays
  Items,      \* values of every other type
  Root,       \* the array at the root of the document
  Indexes,    \* positions the client passes (jint)
  Ranges      \* <<start, count>> pairs the client passes to removeArrRange

VARIABLES
  seqs,       \* the elements of each array, in order
  used,       \* values that exist in the document's pool
  held,       \* values the client has a Java object for
  ret         \* what the last boolean method returned

vars == <<seqs, used, held, ret>>

Value == Arrays \cup Items

Placed(v) == \E a \in Arrays : v \in ToSet(seqs[a])

(* Values the client may put somewhere: it holds them, they are nowhere.   *)
Free == {v \in held : v # Root /\ ~Placed(v)}

Init ==
  /\ seqs = [a \in Arrays |-> <<>>]
  /\ used = {Root}
  /\ held = {Root}
  /\ ret = FALSE

-----------------------------------------------------------------------------
(* A void method that builds a value the client keeps a handle of.         *)
Create(v) ==
  /\ v \notin used
  /\ used' = used \cup {v}
  /\ held' = held \cup {v}
  /\ UNCHANGED <<seqs, ret>>

(* A void method that builds a value at the end of an array.               *)
AddFresh(a, v) ==
  /\ v \notin used
  /\ used' = used \cup {v}
  /\ seqs' = [seqs EXCEPT ![a] = Append(@, v)]
  /\ UNCHANGED <<held, ret>>

(* bind is void, the other edits answer TRUE.                              *)
Edit(a, s) ==
  /\ seqs' = [seqs EXCEPT ![a] = s]
  /\ ret' = TRUE
  /\ UNCHANGED <<used, held>>

Refuse ==
  /\ ret' = FALSE
  /\ UNCHANGED <<seqs, used, held>>

Bind(a, v) ==
  /\ v \in Free
  /\ seqs' = [seqs EXCEPT ![a] = Append(@, v)]
  /\ UNCHANGED <<used, held, ret>>

AppendTo(a, v) == v \in Free /\ Edit(a, Append(seqs[a], v))

Prepend(a, v) == v \in Free /\ Edit(a, <<v>> \o seqs[a])

Insert(a, v, i) ==
  /\ v \in Free
  /\ \/ i \in 0..Len(seqs[a]) /\ Edit(a, InsertAt(seqs[a], i + 1, v))
     \/ i \notin 0..Len(seqs[a]) /\ Refuse

Replace(a, v, i) ==
  /\ v \in Free
  /\ \/ i + 1 \in DOMAIN seqs[a] /\ Edit(a, ReplaceAt(seqs[a], i + 1, v))
     \/ i + 1 \notin DOMAIN seqs[a] /\ Refuse

RemoveOne(a, i) ==
  \/ i + 1 \in DOMAIN seqs[a] /\ Edit(a, RemoveAt(seqs[a], i + 1))
  \/ i + 1 \notin DOMAIN seqs[a] /\ Refuse

RemoveLast(a) ==
  \/ seqs[a] # <<>> /\ Edit(a, Front(seqs[a]))
  \/ seqs[a] = <<>> /\ Refuse

RemoveRange(a, i, n) ==
  \/ /\ i >= 0 /\ n >= 0 /\ i + n <= Len(seqs[a])
     /\ Edit(a, SubSeq(seqs[a], 1, i) \o SubSeq(seqs[a], i + n + 1, Len(seqs[a])))
  \/ ~(i >= 0 /\ n >= 0 /\ i + n <= Len(seqs[a])) /\ Refuse

Clear(a) == Edit(a, <<>>)

Next ==
  \/ \E v \in Value : Create(v)
  \/ \E a \in Arrays :
       \/ \E v \in Value :
            \/ AddFresh(a, v) \/ Bind(a, v) \/ AppendTo(a, v) \/ Prepend(a, v)
            \/ \E i \in Indexes : Insert(a, v, i) \/ Replace(a, v, i)
       \/ \E i \in Indexes \cup {0} : RemoveOne(a, i)
       \/ RemoveLast(a)
       \/ \E r \in Ranges : RemoveRange(a, r[1], r[2])
       \/ Clear(a)

Spec == Init /\ [][Next]_vars
=============================================================================
