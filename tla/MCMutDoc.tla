------------------------------ MODULE MCMutDoc ------------------------------
(* Instance of MutDoc for TLC. *)
EXTENDS MutDoc

CONSTANTS T1, T2

MCThreads == {T1, T2}
=============================================================================
