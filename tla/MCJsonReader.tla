---------------------------- MODULE MCJsonReader ----------------------------
(* One document for TLC:                                                   *)
(*   {"x": {"x": 1}, "y": [2, {"x": 3, "y": [4]}]}                         *)
EXTENDS JsonReader, TLC

CONSTANTS R, A, L, E, M, S1, S2, S3, S4, X, Y, I0, I1

MCNodes == {R, A, L, E, M, S1, S2, S3, S4}
MCArrays == {L, M}
MCFields == {X, Y}
MCChild ==
  [n \in MCNodes |->
     CASE n = R -> X :> A @@ Y :> L
       [] n = A -> X :> S1
       [] n = L -> I0 :> S2 @@ I1 :> E
       [] n = E -> X :> S3 @@ Y :> M
       [] n = M -> I0 :> S4
       [] OTHER -> <<>>]
MCElems == L :> <<I0, I1>> @@ M :> <<I0>>
MCPaths == {<<X>>, <<Y>>, <<Y, I1>>}
=============================================================================
