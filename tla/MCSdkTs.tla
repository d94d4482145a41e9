------------------------------ MODULE MCSdkTs ------------------------------
(* Instances of SdkTs for TLC. *)
EXTENDS SdkTs

CONSTANTS c1, c2, r1, p1, p2

OneCall    == {c1}
TwoCalls   == {c1, c2}
OneRequest == {r1}
TwoPaths   == {p1, p2}

\* Calls that differ for the SDK.
FourAsks ==
  {[via |-> "capture", input |-> "string",   body |-> TRUE],
   [via |-> "capture", input |-> "relative", body |-> FALSE],
   [via |-> "proxy",   input |-> "string",   body |-> TRUE],
   [via |-> "proxy",   input |-> "request",  body |-> TRUE]}

\* Node 20 without any patch of the host: the runtime the README names.
Node20 == [key |-> TRUE, sampling |-> FALSE, batch |-> 2, buffer |-> 3,
           capture |-> {}, ignore |-> {}, bigint |-> FALSE, webcrypto |-> TRUE,
           duplex |-> TRUE, wrapped |-> FALSE]
Node20Only == {Node20}

\* A host that taught BigInt to write itself, and one change of it each.
Patched == [Node20 EXCEPT !.bigint = TRUE]
Hosts ==
  {Node20, Patched,
   [Patched EXCEPT !.key = FALSE],
   [Patched EXCEPT !.sampling = TRUE, !.capture = {p1, BadPattern}, !.duplex = FALSE],
   [Patched EXCEPT !.batch = 3, !.buffer = 1, !.capture = {BadPattern}],
   [Patched EXCEPT !.webcrypto = FALSE],
   [Patched EXCEPT !.wrapped = TRUE, !.ignore = {p1, p2}]}
=============================================================================
