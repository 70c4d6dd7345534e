---------------------------- MODULE MCClassInit ----------------------------
(* Instance of ClassInit for TLC. *)
EXTENDS ClassInit

CONSTANTS T1, T2

MCThreads == {T1, T2}
=============================================================================
