----------------------------- MODULE ProxySink -----------------------------
(***************************************************************************)
(* The event path of proxy-gateway, from the end of a request to Kafka:    *)
(* a bounded channel filled by request handlers that never block, a pool   *)
(* of workers that drain it into the franz-go producer, and main's         *)
(* shutdown sequence with its deferred calls.                              *)
(*                                                                         *)
(* A request handler is its request, and the request stands for the event  *)
(* it emits.  External: the producer client (it buffers up to MaxBuffered  *)
(* records, Produce waits for room or for its context, an unacknowledged   *)
(* batch is sent again because idempotent writes are off), net/http's      *)
(* Shutdown, and the Postgres pool, whose Close waits for every connection *)
(* that a lookup holds.                                                    *)
(***************************************************************************)
EXTENDS Naturals, Sequences, FiniteSets

CONSTANTS
  Request,      \* the requests the gateway may serve, one event each
  Worker,       \* the goroutines Sink.Run starts
  NoEvent,      \* a worker with nothing in hand
  BufferSize,   \* capacity of Sink.ch
  MaxBuffered,  \* MaxBufferedRecords of the producer client
  Unencodable,  \* requests whose event proto.Marshal rejects (invalid UTF-8)
  MaxFaults     \* bound: acknowledgements lost by the broker

ASSUME ConstantsAssumption ==
  /\ NoEvent \notin Request
  /\ IsFiniteSet(Request)
  /\ BufferSize \in Nat \ {0}
  /\ MaxBuffered \in Nat \ {0}
  /\ MaxFaults \in Nat
  /\ Unencodable \subseteq Request

VARIABLES
  handler,   \* [Request -> HandlerState]
  ch,        \* Seq(Request): the channel
  worker,    \* [Worker -> {"run", "done"}]
  hand,      \* [Worker -> Request \cup {NoEvent}]: event a worker is producing
  buffer,    \* SUBSET Request: records in the producer client
  topic,     \* [Request -> Nat]: copies in the Kafka topic
  failed,    \* SUBSET Request: events whose produce callback got an error
  overflow,  \* SUBSET Request: the events Sink.dropped counts
  ctxDone,   \* BOOLEAN: the signal context is done
  main,      \* where main is, in MainState
  expired,   \* BOOLEAN: shutdownCtx has timed out
  faults

vars == <<handler, ch, worker, hand, buffer, topic, failed,
          overflow, ctxDone, main, expired, faults>>

\* A request comes in, may look its key up in Postgres, waits for its upstream,
\* and emits its event.
HandlerState == {"new", "arrived", "lookup", "busy", "emit", "done"}

InFlight(r) == handler[r] \notin {"new", "done"}

\* In "close" the producer is closed and main waits in pool.Close.
MainState == {"serve", "drain", "flush", "close", "exit"}

mainVars == <<ctxDone, main, expired>>

Running == main # "exit"

Init ==
  /\ handler  = [r \in Request |-> "new"]
  /\ ch       = <<>>
  /\ worker   = [w \in Worker |-> "run"]
  /\ hand     = [w \in Worker |-> NoEvent]
  /\ buffer   = {}
  /\ topic    = [r \in Request |-> 0]
  /\ failed   = {}
  /\ overflow = {}
  /\ ctxDone  = FALSE
  /\ main     = "serve"
  /\ expired  = FALSE
  /\ faults   = 0

-----------------------------------------------------------------------------
(* Handlers.  A request is taken until Shutdown closes the listener, also  *)
(* in the window in which the context is already done.                     *)

Accept(r) ==
  /\ main = "serve"
  /\ handler[r] = "new"
  /\ handler' = [handler EXCEPT ![r] = "arrived"]
  /\ UNCHANGED <<ch, worker, hand, buffer, topic, failed,
                 overflow, mainVars, faults>>

\* ValidateAPIKey.Execute: a cached key, a refusal, or a lookup, which holds a
\* connection until Postgres answers; a closed pool refuses the lookup.
Validate(r) ==
  /\ Running
  /\ handler[r] = "arrived"
  /\ \E next \in {"busy", "emit", "lookup"} :
       /\ next = "lookup" => main # "close"
       /\ handler' = [handler EXCEPT ![r] = next]
  /\ UNCHANGED <<ch, worker, hand, buffer, topic, failed, overflow,
                 mainVars, faults>>

\* GetByHash has its row or an error and gives the connection back.
LookedUp(r) ==
  /\ Running
  /\ handler[r] = "lookup"
  /\ \E next \in {"busy", "emit"} : handler' = [handler EXCEPT ![r] = next]
  /\ UNCHANGED <<ch, worker, hand, buffer, topic, failed, overflow,
                 mainVars, faults>>

\* The upstream has answered: nothing makes it.
Answered(r) ==
  /\ Running
  /\ handler[r] = "busy"
  /\ handler' = [handler EXCEPT ![r] = "emit"]
  /\ UNCHANGED <<ch, worker, hand, buffer, topic, failed, overflow,
                 mainVars, faults>>

\* Mutant of Enqueue: a plain channel send, which waits for room.
EnqueueBlocking(r) ==
  /\ Running
  /\ handler[r] = "emit"
  /\ Len(ch) < BufferSize
  /\ ch' = Append(ch, r)
  /\ handler' = [handler EXCEPT ![r] = "done"]
  /\ UNCHANGED <<worker, hand, buffer, topic, failed,
                 overflow, mainVars, faults>>

\* Sink.Enqueue, the last thing a request does: send or drop, never wait.
Enqueue(r) ==
  /\ Running
  /\ handler[r] = "emit"
  /\ IF Len(ch) < BufferSize
     THEN ch' = Append(ch, r) /\ UNCHANGED overflow
     ELSE overflow' = overflow \cup {r} /\ UNCHANGED ch
  /\ handler' = [handler EXCEPT ![r] = "done"]
  /\ UNCHANGED <<worker, hand, buffer, topic, failed, mainVars, faults>>

-----------------------------------------------------------------------------
(* Workers. *)

\* Mutant of WorkerTake: the event is read but not removed.
WorkerPeek(w) ==
  /\ Running
  /\ worker[w] = "run"
  /\ hand[w] = NoEvent
  /\ ch # <<>>
  /\ hand' = [hand EXCEPT ![w] = Head(ch)]
  /\ UNCHANGED <<handler, ch, worker, buffer, topic, failed,
                 overflow, mainVars, faults>>

\* The select takes an event, also when the context is done and both cases
\* are ready.
WorkerTake(w) ==
  /\ Running
  /\ worker[w] = "run"
  /\ hand[w] = NoEvent
  /\ ch # <<>>
  /\ hand' = [hand EXCEPT ![w] = Head(ch)]
  /\ ch'   = Tail(ch)
  /\ UNCHANGED <<handler, worker, buffer, topic, failed,
                 overflow, mainVars, faults>>

\* Mutant of WorkerProduce: a record that does not fit is forgotten.
WorkerProduceNoWait(w) ==
  /\ Running
  /\ hand[w] # NoEvent
  /\ \/ /\ hand[w] \in Unencodable
        /\ failed' = failed \cup {hand[w]}
        /\ UNCHANGED buffer
     \/ /\ hand[w] \notin Unencodable
        /\ buffer' = IF Cardinality(buffer) < MaxBuffered
                     THEN buffer \cup {hand[w]} ELSE buffer
        /\ UNCHANGED failed
  /\ hand' = [hand EXCEPT ![w] = NoEvent]
  /\ UNCHANGED <<handler, ch, worker, topic, overflow,
                 mainVars, faults>>

\* Producer.Produce: an event that does not marshal goes to the callback; one
\* that does is buffered once there is room, or fails when the context of the
\* worker ends the wait or the client is closed.  The callback only logs.
WorkerProduce(w) ==
  /\ Running
  /\ hand[w] # NoEvent
  /\ \/ /\ \/ hand[w] \in Unencodable
           \/ ctxDone /\ Cardinality(buffer) >= MaxBuffered
           \/ main = "close"
        /\ failed' = failed \cup {hand[w]}
        /\ UNCHANGED buffer
     \/ /\ hand[w] \notin Unencodable
        /\ Cardinality(buffer) < MaxBuffered
        /\ main # "close"
        /\ buffer' = buffer \cup {hand[w]}
        /\ UNCHANGED failed
  /\ hand' = [hand EXCEPT ![w] = NoEvent]
  /\ UNCHANGED <<handler, ch, worker, topic, overflow,
                 mainVars, faults>>

WorkerExit(w) ==
  /\ Running
  /\ worker[w] = "run"
  /\ hand[w] = NoEvent
  /\ ctxDone
  /\ worker' = [worker EXCEPT ![w] = "done"]
  /\ UNCHANGED <<handler, ch, hand, buffer, topic, failed,
                 overflow, mainVars, faults>>

-----------------------------------------------------------------------------
(* The producer client and the broker. *)

\* The broker appends the record; with leader acks and no idempotence the
\* client sends it again if it does not see the acknowledgement.
Deliver(r) ==
  /\ Running
  /\ r \in buffer
  /\ topic'  = [topic EXCEPT ![r] = @ + 1]
  /\ buffer' = buffer \ {r}
  /\ UNCHANGED <<handler, ch, worker, hand, failed, overflow,
                 mainVars, faults>>

DeliverUnacknowledged(r) ==
  /\ Running
  /\ r \in buffer
  /\ faults < MaxFaults
  /\ topic'  = [topic EXCEPT ![r] = @ + 1]
  /\ faults' = faults + 1
  /\ UNCHANGED <<handler, ch, worker, hand, buffer, failed,
                 overflow, mainVars>>

\* A record is produced with the worker's context: once that is done the
\* client may fail it instead of sending it.
FailBuffered(r) ==
  /\ Running
  /\ r \in buffer
  /\ ctxDone
  /\ failed' = failed \cup {r}
  /\ buffer' = buffer \ {r}
  /\ UNCHANGED <<handler, ch, worker, hand, topic, overflow,
                 mainVars, faults>>

-----------------------------------------------------------------------------
(* main. *)

Sigterm ==
  /\ ~ctxDone
  /\ ctxDone' = TRUE
  /\ UNCHANGED <<handler, ch, worker, hand, buffer, topic,
                 failed, overflow, main, expired, faults>>

\* mainSrv.Shutdown: close the listener ...
CloseListener ==
  /\ main = "serve"
  /\ ctxDone
  /\ main' = "drain"
  /\ UNCHANGED <<handler, ch, worker, hand, buffer, topic,
                 failed, overflow, ctxDone, expired, faults>>

\* Mutant of Drained: requests in flight are waited for without a deadline.
DrainedAll ==
  /\ main = "drain"
  /\ \A r \in Request : ~InFlight(r)
  /\ main' = "flush"
  /\ UNCHANGED <<handler, ch, worker, hand, buffer, topic,
                 failed, overflow, ctxDone, expired, faults>>

\* ... and wait for the requests in flight or for shutdownCtx.
Drained ==
  /\ main = "drain"
  /\ expired \/ \A r \in Request : ~InFlight(r)
  /\ main' = "flush"
  /\ UNCHANGED <<handler, ch, worker, hand, buffer, topic,
                 failed, overflow, ctxDone, expired, faults>>

\* The ten seconds cover the drain and the flush together.
ShutdownTimeout ==
  /\ main \in {"drain", "flush"}
  /\ ~expired
  /\ expired' = TRUE
  /\ UNCHANGED <<handler, ch, worker, hand, buffer, topic,
                 failed, overflow, ctxDone, main, faults>>

\* prod.Flush returns when the client holds no record or shutdownCtx is done.
\* Of the deferred calls, prod.Close comes first: what is still buffered fails.
Flushed ==
  /\ main = "flush"
  /\ expired \/ buffer = {}
  /\ main'   = "close"
  /\ failed' = failed \cup buffer
  /\ buffer' = {}
  /\ UNCHANGED <<handler, ch, worker, hand, topic, overflow, ctxDone,
                 expired, faults>>

\* pool.Close returns when no request holds a connection; then the process
\* ends with what is left in the channel and the workers.
Exit ==
  /\ main = "close"
  /\ \A r \in Request : handler[r] # "lookup"
  /\ main' = "exit"
  /\ UNCHANGED <<handler, ch, worker, hand, buffer, topic, failed,
                 overflow, ctxDone, expired, faults>>

-----------------------------------------------------------------------------

WorkerStep(w) == WorkerTake(w) \/ WorkerProduce(w) \/ WorkerExit(w)

MainStep == CloseListener \/ Drained \/ ShutdownTimeout \/ Flushed \/ Exit

Next ==
  \/ \E r \in Request :
       \/ Accept(r) \/ Validate(r) \/ LookedUp(r) \/ Answered(r) \/ Enqueue(r)
       \/ Deliver(r) \/ DeliverUnacknowledged(r) \/ FailBuffered(r)
  \/ \E w \in Worker : WorkerStep(w)
  \/ Sigterm
  \/ MainStep

Spec == Init /\ [][Next]_vars

\* Handlers and main are scheduled and the shutdown timer fires.  Nothing is
\* assumed of the workers (Produce may hold them), of the broker, of Postgres
\* and of the upstreams, and no signal has to come.
Fairness ==
  /\ \A r \in Request : WF_vars(Enqueue(r))
  /\ WF_vars(MainStep)

FairSpec == Spec /\ Fairness

\* Workers that are scheduled, and a broker that keeps answering.
WorkersRun    == \A w \in Worker : WF_vars(WorkerStep(w))
BrokerAnswers == \A r \in Request : WF_vars(Deliver(r))

\* Postgres answers or breaks every lookup.
PostgresAnswers == \A r \in Request : WF_vars(LookedUp(r))

-----------------------------------------------------------------------------
(* Properties. *)

\* Every variable has its type; the channel and the client keep their bounds.
TypeOK ==
  /\ handler  \in [Request -> HandlerState]
  /\ ch       \in Seq(Request) /\ Len(ch) <= BufferSize
  /\ worker   \in [Worker -> {"run", "done"}]
  /\ hand     \in [Worker -> Request \cup {NoEvent}]
  /\ buffer   \subseteq Request
  /\ topic    \in [Request -> Nat]
  /\ failed   \subseteq Request
  /\ overflow \subseteq Request
  /\ ctxDone  \in BOOLEAN
  /\ main     \in MainState
  /\ expired  \in BOOLEAN
  /\ faults   \in 0..MaxFaults

Queued(r)    == \E i \in DOMAIN ch : ch[i] = r
InHand(r)    == \E w \in Worker : hand[w] = r
Delivered(r) == topic[r] >= 1

\* The event of a finished request is somewhere: on its way, in Kafka, reported
\* to the produce callback, or found the channel full; at no point of the hand-over
\* from handler to channel to worker to client does it disappear, not even
\* while the gateway shuts down.
EventHasAFate ==
  \A r \in Request : handler[r] = "done" =>
    Queued(r) \/ InHand(r) \/ r \in buffer \/ Delivered(r)
      \/ r \in failed \/ r \in overflow

\* An event is in one place of the pipeline at a time, and never both dropped
\* and forwarded: nothing is produced twice except by the client's own retry.
OnePlaceAtATime ==
  \A r \in Request :
    /\ Cardinality({i \in DOMAIN ch : ch[i] = r})
         + Cardinality({w \in Worker : hand[w] = r})
         + (IF r \in buffer THEN 1 ELSE 0)
         + (IF r \in failed THEN 1 ELSE 0)
         + (IF r \in overflow THEN 1 ELSE 0) <= 1
    /\ topic[r] <= 1 + faults

\* A request that has its answer ends without waiting for Kafka, for a worker
\* or for another request, however full the pipeline is: no fairness of the
\* broker is used.
HandlersNeverWait ==
  \A r \in Request : handler[r] = "emit" ~> (handler[r] = "done" \/ main = "exit")

\* After a signal the gateway gets as far as closing its Postgres pool even if
\* the broker is gone and requests hang, since the deadline covers both waits.
\* The close has no deadline: that the process ends takes a Postgres that answers
\* the lookups in progress, or connections that break.
ShutdownEnds ==
  /\ ctxDone ~> main \in {"close", "exit"}
  /\ PostgresAnswers => (ctxDone ~> main = "exit")

\* With workers that run and a broker that answers, an event that was queued
\* reaches Kafka or the produce callback, unless the gateway is told to stop
\* first.
QueuedIsProduced ==
  WorkersRun /\ BrokerAnswers =>
    \A r \in Request : Queued(r) ~> (Delivered(r) \/ r \in failed \/ ctxDone)
=============================================================================
