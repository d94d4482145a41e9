----------------------------- MODULE MCKeyCache -----------------------------
(* Instances of KeyCache for TLC. *)
EXTENDS KeyCache, TLC

CONSTANTS p1, k1, k2, proxy, ingest, q1, q2, a1

OneProject  == {p1}
OneKey      == {k1}
TwoKeys     == {k1, k2}
AllKeysOfP1 == [k \in Key |-> p1]
Gateway     == {proxy}
Both        == {proxy, ingest}
TwoRequests == {q1, q2}
OneRequest  == {q1}
OneAdmin    == {a1}
=============================================================================
