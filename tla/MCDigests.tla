----------------------------- MODULE MCDigests -----------------------------
(* Instances of Digests for TLC. *)
EXTENDS Digests

CONSTANTS T1, T2, B1, B2

MCThreads == {T1, T2}
MCBlocks == {B1, B2}
MCTexts == {"string", "other"}
=============================================================================
