---------------------------- MODULE MCStreamCopy ----------------------------
(* Instances of StreamCopy for TLC. *)
EXTENDS StreamCopy, TLC
=============================================================================
