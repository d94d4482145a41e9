--------------------------- MODULE MCLogConsumer ---------------------------
(* Instances of LogConsumer for TLC. *)
EXTENDS LogConsumer

CONSTANTS c1, c2, p1

OneMember  == {c1}
TwoMembers == {c1, c2}
OneLog     == {p1}

\* The second record of every partition does not decode.
SecondIsCorrupt == {r \in Record : r[2] = 2}
NoneIsCorrupt   == {}
=============================================================================
