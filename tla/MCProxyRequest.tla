--------------------------- MODULE MCProxyRequest ---------------------------
(* Instances of ProxyRequest for TLC. *)
EXTENDS ProxyRequest, TLC

CONSTANTS r1, r2

TwoRequests == {r1, r2}
=============================================================================
