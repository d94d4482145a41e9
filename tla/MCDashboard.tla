----------------------------- MODULE MCDashboard -----------------------------
(* Small instances of every page. *)
EXTENDS Dashboard, TLC, FiniteSets

CONSTANTS k1, k2, p1, p2

MCEvent    == 1 .. 5
MCInstant  == {0, 60}
MCPresets  == {"24h"}
MCBucket   ==
  {[at |-> 0, ok |-> 1, e4 |-> 0, e5 |-> 1, p50 |-> 1, p95 |-> 2, p99 |-> 2, max |-> 3],
   [at |-> 60, ok |-> 2, e4 |-> 1, e5 |-> 0, p50 |-> 0, p95 |-> 1, p99 |-> 1, max |-> 1]}
MCKey      == {k1, k2}
MCProject  == {p1, p2}
MCDays     == {0, 5, 30}
MCOffered  == {30}

Symmetric == Permutations(MCKey) \cup Permutations(MCProject)
=============================================================================
