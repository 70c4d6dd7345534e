------------------------------ MODULE MCMutObj ------------------------------
(* Instances of MutObj for TLC. *)
EXTENDS MutObj, TLC

CONSTANTS O0, O1, S1, S2, a, b, c

MCObjs == {O0, O1}
MCItems == {S1, S2}
MCKeys == {a, b, c}
MCEditing == {"createJsonMut", "add", "removeObj"}
MCSymmetry == Permutations(MCItems) \cup Permutations(MCKeys)
=============================================================================
