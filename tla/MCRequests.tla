----------------------------- MODULE MCRequests -----------------------------
(* Instance of Requests for TLC. *)
EXTENDS Requests

CONSTANTS T1, T2

MCThreads == {T1, T2}
=============================================================================
