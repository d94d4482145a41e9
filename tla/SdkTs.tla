------------------------------- MODULE SdkTs -------------------------------
(***************************************************************************)
(* The TypeScript SDK inside a host application: the ingest Client with    *)
(* its buffer, timer and batches, the express middleware that captures     *)
(* inbound requests, captureFetch, which wraps outbound calls, and the     *)
(* proxy mode, which sends them through the gateway.                       *)
(*                                                                         *)
(* The runtime is single threaded: code runs to its next await, so an      *)
(* action is the code between two of them.  An event is the number of the  *)
(* Client.capture call that made it; its contents are abstracted.          *)
(* External: the runtime's fetch, its webcrypto and its BigInt, the        *)
(* network and the answers of ingest-api.                                  *)
(***************************************************************************)
EXTENDS Naturals, Sequences, FiniteSets, SequencesExt

CONSTANTS
  Call,        \* outbound calls of the application
  Request,     \* inbound requests it serves
  NoCall,      \* the caller of a POST the client itself makes
  Path,        \* paths of inbound requests
  BadPattern,  \* a route pattern that is not a regular expression
  Configs,     \* the configurations and runtimes considered
  Asks,        \* the outbound calls considered
  MaxEvents    \* bound: calls of Client.capture that get past the sampling

\* What loadConfig yields and what the host runtime is like.
Config ==
  [key       : BOOLEAN,   \* an API key is set
   sampling  : BOOLEAN,   \* sampleRate < 1
   batch     : Nat \ {0}, \* batchSize
   buffer    : Nat \ {0}, \* bufferSize
   capture   : SUBSET (Path \cup {BadPattern}),
   ignore    : SUBSET (Path \cup {BadPattern}),
   bigint    : BOOLEAN,   \* JSON.stringify can write a BigInt: the host gave it a toJSON
   webcrypto : BOOLEAN,   \* globalThis.crypto exists (not in Node 18)
   duplex    : BOOLEAN,   \* fetch refuses a stream without duplex (Node)
   wrapped   : BOOLEAN]   \* globalThis.fetch = captureFetch(client, globalThis.fetch)

\* The ways to call out, and what is sent.  A "relative" url has no scheme.
Ask == [via   : {"capture", "proxy"},
        input : {"string", "relative", "request"},
        body  : BOOLEAN]

ASSUME ConstantsAssumption ==
  /\ NoCall \notin Call
  /\ BadPattern \notin Path
  /\ IsFiniteSet(Call) /\ IsFiniteSet(Request)
  /\ Configs \subseteq Config
  /\ Asks \subseteq Ask
  /\ MaxEvents \in Nat

VARIABLES
  cfg,        \* chosen once
  alive,      \* BOOLEAN: the process runs
  timer,      \* BOOLEAN: the flush interval is set
  buf,        \* Client.buf
  dropped,    \* Client.dropped
  events,     \* Nat: events made so far
  net,        \* the fetches in progress, of the application and of flush
  asked,      \* [Call -> what the application asked for]
  got,        \* [Call -> what its promise came to]
  http,       \* [Request -> the inbound request and what the middleware did]
  proxyCfg,   \* proxy.ts _cfg
  stored,     \* history: events ingest-api accepted
  refused,    \* history: events of batches answered with another status
  netFailed,  \* history: events of batches whose fetch failed
  abandoned,  \* history: events in the buffer when the process ended
  promised    \* history: events made before the last close()

sdkVars  == <<timer, buf, dropped, events>>
history  == <<stored, refused, netFailed, abandoned, promised>>
vars     == <<cfg, alive, sdkVars, net, asked, got, http, proxyCfg, history>>

Event == 1 .. MaxEvents

\* A fetch in progress.  layer: it goes through captureFetch.  stage: where
\* it is: reading the request's body, at the runtime's fetch, or reading the
\* answer's body.  bad: the runtime's fetch rejects the arguments.
Fetch == [call : Call \cup {NoCall}, batch : SUBSET Event, layer : BOOLEAN,
          stage : {"body", "base", "reading"}, bad : BOOLEAN, endless : BOOLEAN]

IdleRequest == [stage |-> "idle", captured |-> FALSE, attached |-> FALSE,
                body |-> "wire", ended |-> FALSE, last |-> "none", ends |-> 0]

\* The events a running client still has.
Held == IF alive THEN Range(buf) \cup UNION {f.batch : f \in net} ELSE {}

Init ==
  /\ cfg \in Configs
  /\ alive = TRUE
  /\ timer = cfg.key
  /\ buf = <<>>
  /\ dropped = 0
  /\ events = 0
  /\ net = {}
  /\ asked = [c \in Call |-> [via |-> "capture", input |-> "string", body |-> FALSE]]
  /\ got = [c \in Call |-> "none"]
  /\ http = [r \in Request |-> IdleRequest]
  /\ proxyCfg = "unread"
  /\ stored = {} /\ refused = {} /\ netFailed = {} /\ abandoned = {}
  /\ promised = 0

-----------------------------------------------------------------------------
(* The ingest client. *)

\* Mutant of NewEvent: the first event has no number yet.
NewEventFromZero == events

\* cryptoHex16: an event gets an identity of its own.
NewEvent == events + 1

\* envRoutes: a pattern that does not compile is left out.
EnvRoutes(patterns) == patterns \ {BadPattern}

RouteAllowed(p) ==
  /\ p \notin EnvRoutes(cfg.ignore)
  /\ \/ EnvRoutes(cfg.capture) = {}
     \/ p \in EnvRoutes(cfg.capture)

\* Mutant of Posts: the oldest event of a batch is left out.
PostsWithoutFirst(batch) ==
  {[call |-> NoCall, batch |-> Range(Tail(b)), layer |-> cfg.wrapped,
    stage |-> IF cfg.wrapped THEN "body" ELSE "base",
    bad |-> FALSE, endless |-> FALSE] : b \in {x \in {batch} : cfg.bigint}}

\* The POST of a batch, if JSON.stringify can write its timestamps.  A global
\* fetch that is wrapped takes it through captureFetch.
Posts(batch) ==
  {[call |-> NoCall, batch |-> Range(b), layer |-> cfg.wrapped,
    stage |-> IF cfg.wrapped THEN "body" ELSE "base",
    bad |-> FALSE, endless |-> FALSE] : b \in {x \in {batch} : cfg.bigint}}

\* Mutant of Unwritten: the payload is written outside the try.
UnwrittenUncounted(batch) == 0

\* What the catch of flush adds to dropped at once: stringify threw.
Unwritten(batch) == IF cfg.bigint THEN 0 ELSE Len(batch)

\* flush(): the batch leaves the buffer before anything can fail.  The
\* fetches in progress become others and the new POST.
Flush(batch, others, counted) ==
  /\ buf' = <<>>
  /\ net' = others \cup Posts(batch)
  /\ dropped' = dropped + counted + Unwritten(batch)

\* capture(), with the fetches others in progress and counted drops to add.
\* Without webcrypto normalize throws after the overflow has been handled.
Capture(others, counted) ==
  \/ /\ ~cfg.key \/ cfg.sampling
     /\ net' = others
     /\ dropped' = dropped + counted
     /\ UNCHANGED <<buf, events>>
  \/ /\ cfg.key
     /\ events < MaxEvents
     /\ events' = events + 1
     /\ LET full == Len(buf) >= cfg.buffer
            room == IF full THEN Tail(buf) ELSE buf
            next == Append(room, NewEvent)
            lost == counted + (IF full THEN 1 ELSE 0)
        IN  IF cfg.webcrypto /\ Len(next) >= cfg.batch
            THEN Flush(next, others, lost)
            ELSE /\ buf' = IF cfg.webcrypto THEN next ELSE room
                 /\ net' = others
                 /\ dropped' = dropped + lost

\* Mutant of FailOpen: what capture throws reaches the caller.
Unprotected(outcome) ==
  IF cfg.key /\ ~cfg.webcrypto THEN "sdkError" ELSE outcome

\* safeCapture: what capture throws stays here.
FailOpen(outcome) == outcome

\* Mutant of Tick: only a full batch is sent.
TickWhenFull ==
  /\ alive /\ timer
  /\ Len(buf) >= cfg.batch
  /\ Flush(buf, net, 0)
  /\ UNCHANGED <<cfg, alive, timer, events, asked, got, http, proxyCfg, history>>

\* The interval fires.
Tick ==
  /\ alive /\ timer
  /\ buf # <<>>
  /\ Flush(buf, net, 0)
  /\ UNCHANGED <<cfg, alive, timer, events, asked, got, http, proxyCfg, history>>

Close ==
  /\ alive
  /\ timer' = FALSE
  /\ IF buf = <<>> \/ ~cfg.key THEN UNCHANGED <<buf, net, dropped>>
                               ELSE Flush(buf, net, 0)
  /\ promised' = events
  /\ UNCHANGED <<cfg, alive, events, asked, got, http, proxyCfg,
                 stored, refused, netFailed, abandoned>>

\* The process ends by itself once nothing holds it: the interval is unref'd,
\* an open connection is not.
Exit ==
  /\ alive
  /\ net = {}
  /\ \A r \in Request : http[r].stage # "open"
  /\ alive' = FALSE
  /\ abandoned' = Range(buf)
  /\ UNCHANGED <<cfg, sdkVars, net, asked, got, http, proxyCfg,
                 stored, refused, netFailed, promised>>

-----------------------------------------------------------------------------
(* Outbound calls. *)

Fetching(c, layer, bad) ==
  [call |-> c, batch |-> {}, layer |-> layer,
   stage |-> IF layer THEN "body" ELSE "base", bad |-> bad, endless |-> FALSE]

\* captureFetch up to its first await: toURL throws on a relative url.
CaptureFetch(c) ==
  /\ alive /\ got[c] = "none"
  /\ \E a \in Asks :
       /\ a.via = "capture"
       /\ asked' = [asked EXCEPT ![c] = a]
       /\ IF a.input = "relative"
          THEN /\ got' = [got EXCEPT ![c] = "sdkError"]
               /\ UNCHANGED net
          ELSE /\ got' = [got EXCEPT ![c] = "pending"]
               /\ net' = net \cup {Fetching(c, TRUE, FALSE)}
  /\ UNCHANGED <<cfg, alive, sdkVars, http, proxyCfg, history>>

\* ensure(): the environment is read once, at the first call.
Ensured == IF proxyCfg = "unread" THEN "env" ELSE proxyCfg
HasKey(config) == config = "configured" \/ cfg.key

\* proxy.fetch: the body of a Request is handed on as a stream.
ProxyFetch(c) ==
  /\ alive /\ got[c] = "none"
  /\ \E a \in Asks :
       /\ a.via = "proxy"
       /\ asked' = [asked EXCEPT ![c] = a]
       /\ proxyCfg' = Ensured
       /\ IF ~HasKey(Ensured) \/ a.input = "relative"
          THEN /\ got' = [got EXCEPT ![c] = "sdkError"]
               /\ UNCHANGED net
          ELSE /\ got' = [got EXCEPT ![c] = "pending"]
               /\ net' = net \cup {Fetching(c, cfg.wrapped,
                                     a.input = "request" /\ a.body /\ cfg.duplex)}
  /\ UNCHANGED <<cfg, alive, sdkVars, http, history>>

Configure ==
  /\ alive
  /\ proxyCfg # "configured"
  /\ proxyCfg' = "configured"
  /\ UNCHANGED <<cfg, alive, sdkVars, net, asked, got, http, history>>

\* readReqBody is done and the runtime's fetch is called.
SendBase(f) ==
  /\ alive /\ f.stage = "body"
  /\ net' = (net \ {f}) \cup {[f EXCEPT !.stage = "base"]}
  /\ UNCHANGED <<cfg, alive, sdkVars, asked, got, http, proxyCfg, history>>

\* What the promise of an application's call comes to; flush awaits its own.
Settle(f, outcome) ==
  got' = IF f.call = NoCall THEN got ELSE [got EXCEPT ![f.call] = outcome]

\* The runtime's fetch rejects: captureFetch records the failure and throws
\* it on; flush drops its batch, which ingest-api may have stored.
FetchFails(f) ==
  /\ alive /\ f.stage = "base"
  /\ IF f.layer
     THEN Capture(net \ {f}, Cardinality(f.batch))
     ELSE /\ net' = net \ {f}
          /\ dropped' = dropped + Cardinality(f.batch)
          /\ UNCHANGED <<buf, events>>
  /\ Settle(f, IF f.bad THEN "sdkError"
               ELSE IF f.layer THEN FailOpen("rejected") ELSE "rejected")
  /\ netFailed' = netFailed \cup f.batch
  /\ \E arrived \in {{}, f.batch} : stored' = stored \cup arrived
  /\ UNCHANGED <<cfg, alive, timer, asked, http, proxyCfg, refused, abandoned, promised>>

\* The runtime's fetch resolves, whatever the status.  captureFetch then
\* reads the whole body of a clone before it gives the answer to the caller.
FetchAnswers(f) ==
  /\ alive /\ f.stage = "base" /\ ~f.bad
  /\ \E accepted \in BOOLEAN :
       /\ stored'  = IF accepted THEN stored \cup f.batch ELSE stored
       /\ refused' = IF accepted THEN refused ELSE refused \cup f.batch
  /\ IF f.layer
     THEN /\ \E endless \in {FALSE, f.call # NoCall} :
               net' = (net \ {f}) \cup
                        {[f EXCEPT !.stage = "reading", !.endless = endless]}
          /\ UNCHANGED got
     ELSE /\ net' = net \ {f}
          /\ Settle(f, "answer")
  /\ UNCHANGED <<cfg, alive, sdkVars, asked, http, proxyCfg,
                 netFailed, abandoned, promised>>

\* The clone has been read, or could not be.
FetchRead(f) ==
  /\ alive /\ f.stage = "reading" /\ ~f.endless
  /\ Capture(net \ {f}, 0)
  /\ Settle(f, FailOpen("answer"))
  /\ UNCHANGED <<cfg, alive, timer, asked, http, proxyCfg, history>>

-----------------------------------------------------------------------------
(* Inbound requests through expressMiddleware. *)

\* The middleware installs itself and calls next(); the application attaches
\* its own body reader before next() returns, or later.
Arrive(r) ==
  /\ alive /\ http[r].stage = "idle"
  /\ \E p \in Path, attached \in BOOLEAN :
       http' = [http EXCEPT ![r] =
                 [@ EXCEPT !.stage = "open", !.captured = RouteAllowed(p),
                           !.attached = attached]]
  /\ UNCHANGED <<cfg, alive, sdkVars, net, asked, got, proxyCfg, history>>

Attach(r) ==
  /\ alive /\ http[r].stage = "open" /\ ~http[r].attached
  /\ http' = [http EXCEPT ![r].attached = TRUE]
  /\ UNCHANGED <<cfg, alive, sdkVars, net, asked, got, proxyCfg, history>>

\* The body of the request arrives: the listener of the middleware, or that
\* of the application, makes the stream flow.
BodyArrives(r) ==
  /\ alive /\ http[r].stage = "open"
  /\ http[r].captured \/ http[r].attached
  /\ http[r].body = "wire"
  /\ http' = [http EXCEPT ![r].body = IF http[r].attached THEN "read" ELSE "missed"]
  /\ UNCHANGED <<cfg, alive, sdkVars, net, asked, got, proxyCfg, history>>

\* The application calls res.end, once or twice, without an argument, with a
\* chunk, or with a callback only.  Buffer.from(callback) throws before the
\* original end is reached.
End(r) ==
  /\ alive /\ http[r].stage = "open" /\ http[r].ends < 2
  /\ \E arg \in {"none", "chunk", "callback"} :
       LET throws == http[r].captured /\ arg = "callback"
           ended  == IF throws THEN http[r].ended ELSE TRUE
       IN  /\ http' = [http EXCEPT ![r].ends = @ + 1, ![r].last = arg,
                                   ![r].ended = ended]
           /\ IF http[r].captured /\ ~throws
              THEN Capture(net, 0)
              ELSE UNCHANGED <<buf, net, dropped, events>>
  /\ UNCHANGED <<cfg, alive, timer, asked, got, proxyCfg, history>>

\* The connection of an ended response closes; one that was never ended stays.
Finish(r) ==
  /\ alive /\ http[r].stage = "open" /\ http[r].ended
  /\ http' = [http EXCEPT ![r].stage = "closed"]
  /\ UNCHANGED <<cfg, alive, sdkVars, net, asked, got, proxyCfg, history>>

-----------------------------------------------------------------------------
FetchStep(f) ==
  SendBase(f) \/ FetchFails(f) \/ FetchAnswers(f) \/ FetchRead(f)

RequestStep(r) ==
  Arrive(r) \/ Attach(r) \/ BodyArrives(r) \/ End(r) \/ Finish(r)

Next ==
  \/ Tick \/ Close \/ Exit \/ Configure
  \/ \E f \in net : FetchStep(f)
  \/ \E c \in Call : CaptureFetch(c) \/ ProxyFetch(c)
  \/ \E r \in Request : RequestStep(r)

Spec == Init /\ [][Next]_vars

\* A running event loop fires its timer, and each fetch answers or fails.
FairSpec ==
  /\ Spec
  /\ WF_vars(Tick)
  /\ \A c \in Call  : WF_vars(\E f \in net : f.call = c /\ FetchStep(f))
  /\ \A e \in Event : WF_vars(\E f \in net : e \in f.batch /\ FetchStep(f))

-----------------------------------------------------------------------------
\* Every variable is in its range.
TypeOK ==
  /\ cfg \in Config
  /\ alive \in BOOLEAN /\ timer \in BOOLEAN
  /\ buf \in Seq(Event)
  /\ dropped \in Nat
  /\ events \in 0 .. MaxEvents
  /\ net \subseteq Fetch
  /\ asked \in [Call -> Ask]
  /\ got \in [Call -> {"none", "pending", "answer", "rejected", "sdkError"}]
  /\ http \in [Request ->
       [stage : {"idle", "open", "closed"}, captured : BOOLEAN, attached : BOOLEAN,
        body : {"wire", "read", "missed"}, ended : BOOLEAN,
        last : {"none", "chunk", "callback"}, ends : 0 .. 2]]
  /\ proxyCfg \in {"unread", "env", "configured"}
  /\ stored \subseteq Event /\ refused \subseteq Event
  /\ netFailed \subseteq Event /\ abandoned \subseteq Event
  /\ promised \in 0 .. MaxEvents

\* Events the client made and neither holds nor brought to ingest-api.
Lost == (1 .. events) \ (Held \cup stored)

\* An event is lost only if ingest-api refused its batch, which is not sent
\* again, the fetch failed, the buffer is smaller than a batch, the runtime
\* cannot make or write an event, or the process ended with the event made
\* after the last close().
LossHasACause ==
  \A e \in Lost :
    \/ e \in refused \cup netFailed
    \/ e \in abandoned /\ e > promised
    \/ cfg.batch > cfg.buffer
    \/ ~cfg.bigint \/ ~cfg.webcrypto

\* droppedCount has every event that fell out of a full buffer or whose fetch
\* failed (it may have been stored all the same), and has it once.  It is not
\* the number of events lost: a batch that is answered, whatever the status,
\* is neither sent again nor counted, and what the end of the process takes
\* is not counted either.
DropsAreCountedOnce ==
  cfg.webcrypto =>
    dropped = Cardinality(netFailed \cup (Lost \ (refused \cup abandoned)))

\* Whatever happens to its events, the SDK leaves the application alone where
\* it is used as its examples use it: a call with an absolute url, in proxy
\* mode with a key and no body to stream, comes to what the network made of
\* it; res.end with nothing or a chunk ends the answer; and the body of a
\* request that is not captured is there for its reader.
CaptureIsInvisible ==
  /\ \A c \in Call :
       /\ asked[c].input # "relative"
       /\ asked[c].via = "proxy" =>
            cfg.key /\ ~(asked[c].input = "request" /\ asked[c].body /\ cfg.duplex)
       => got[c] # "sdkError"
  /\ \A r \in Request :
       /\ http[r].ends > 0 /\ http[r].last # "callback" => http[r].ended
       /\ http[r].ends > 0 /\ ~http[r].captured => http[r].ended
       /\ http[r].body = "missed" => http[r].captured

\* While the interval is set, an event leaves the client; and a call returns,
\* unless captureFetch is reading an answer that does not end.
NothingIsHeldForEver ==
  /\ \A e \in Event :
       (e \in Held /\ timer /\ ~cfg.wrapped) ~> (e \notin Held \/ ~timer \/ ~alive)
  /\ \A c \in Call :
       (got[c] = "pending" /\ ~cfg.wrapped) ~>
         (got[c] # "pending" \/ \E f \in net : f.call = c /\ f.endless)

\* What the documentation promises: an event of a running process that
\* ingest-api can be reached for, and does not refuse, lands there.
EventsLandInIngest == Lost \subseteq refused \cup netFailed \cup abandoned
=============================================================================
