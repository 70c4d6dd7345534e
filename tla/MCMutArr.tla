------------------------------ MODULE MCMutArr ------------------------------
(* Instances of MutArr for TLC. *)
EXTENDS MutArr, TLC

CONSTANTS A0, A1, S1, S2

MCArrays == {A0, A1}
MCItems == {S1, S2}
MCIndexes == -1..3
MCRanges == (0..2) \X (0..2)
MCSymmetry == Permutations(MCItems)
=============================================================================
