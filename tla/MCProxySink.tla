---------------------------- MODULE MCProxySink ----------------------------
(* Instances of ProxySink for TLC. *)
EXTENDS ProxySink, TLC

CONSTANTS r1, r2, r3, w1, w2

ThreeRequests == {r1, r2, r3}
Workers       == {w1, w2}
BadEncoding   == {r1}
=============================================================================
