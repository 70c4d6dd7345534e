----------------------------- MODULE MCMapping -----------------------------
(* Instances of Mapping for TLC: ints of 2 bits, longs of 3. *)
EXTENDS Mapping

CONSTANTS T1, T2, D1, D2

MCThreads == {T1, T2}
MCDocs == {D1, D2}

Scalars ==
  {<<"INT", n>> : n \in {-2, -1, 1}} \cup {<<"LONG", n>> : n \in {-4, -1, 0, 3}}
    \cup {<<"DOUBLE", d>> : d \in {-4, -1, 2, 4}} \cup {<<"DOUBLE", NonFinite>>}
    \cup {<<"BOOLEAN", b>> : b \in BOOLEAN} \cup {<<"STRING", "s">>}

ScalarFields ==
  {<<x[1], x>> : x \in Scalars}
    \cup {<<c, Null>> : c \in Written} \cup {<<"SHORT", <<"SHORT", 1>>>>}

Lists ==
  {<<"LIST", q>> : q \in {<< >>, <<<<"LONG", -1>>, <<"BYTE", 1>>, <<"INT", 1>>>>,
                          <<<<"STRING", "s">>, <<"SHORT", 1>>>>,
                          <<<<"BOOLEAN", TRUE>>, Null>>, <<<<"DOUBLE", NonFinite>>>>}}
    \cup {<<"LIST", Null>>, <<"SET", Null>>, <<"OTHER", Null>>,
          <<"SET", {<<"INT", -1>>, <<"LONG", -4>>, <<"DOUBLE", 2>>}>>,
          <<"SET", {<<"CHAR", "x">>, <<"STRING", "s">>}>>}

MCObjects ==
  {<< >>} \cup [{"f"} -> ScalarFields \cup Lists]
    \cup [{"f", "g"} -> {<<"LONG", <<"LONG", -1>>>>, <<"INT", Null>>, <<"LIST", <<<<"INT", -2>>>>>>}]
MCNames == {"f", "g"}
=============================================================================
