--------------------------- MODULE RequestContract --------------------------
(***************************************************************************)
(* What proxy-gateway promises about the record of a request, without      *)
(* handlers, buffers or upstreams: every request is answered at most once, *)
(* and its event, offered to the sink at most once and never before the    *)
(* answer, carries the status the caller was given.                        *)
(***************************************************************************)
CONSTANTS Request, Status, NoStatus

VARIABLES
  answer,  \* the status handed to the ResponseWriter
  record   \* the status in the event handed to the sink

vars == <<answer, record>>

Init ==
  /\ answer = [r \in Request |-> NoStatus]
  /\ record = [r \in Request |-> NoStatus]

Answer(r) ==
  /\ answer[r] = NoStatus
  /\ \E s \in Status : answer' = [answer EXCEPT ![r] = s]
  /\ UNCHANGED record

Record(r) ==
  /\ answer[r] # NoStatus
  /\ record[r] = NoStatus
  /\ record' = [record EXCEPT ![r] = answer[r]]
  /\ UNCHANGED answer

Next == \E r \in Request : Answer(r) \/ Record(r)

Spec == Init /\ [][Next]_vars
=============================================================================
