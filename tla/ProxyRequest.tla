---------------------------- MODULE ProxyRequest ----------------------------
(***************************************************************************)
(* ProxyHandler.ServeHTTP and ProxyRequest.Execute: requests on their way  *)
(* through proxy-gateway, the capture buffers they take from one pool, the *)
(* goroutine of the transport that sends a request body, and the events.   *)
(*                                                                         *)
(* A byte is represented by the request it came from.  A pooled buffer is  *)
(* memory and a length: Reset sets the length and keeps the memory, and a  *)
(* write first moves the length and then fills the bytes, so a reader that *)
(* nothing orders after the write can see what the memory held before.     *)
(* StreamCopy has the inside of the copy of a streaming response.          *)
(***************************************************************************)
EXTENDS Naturals, Sequences

CONSTANTS
  Request,         \* requests
  NoByte,          \* what fresh memory holds
  UpstreamStatus,  \* the status of a response
  BodyCap,         \* bytes captured of a body
  MaxBuffers       \* bound: buffers the pool ever makes

ASSUME ConstantsAssumption ==
  /\ NoByte \notin Request
  /\ UpstreamStatus \in Nat \ {0}
  /\ BodyCap \in Nat /\ MaxBuffers \in Nat

VARIABLES
  pc,       \* [Request -> PC]: where the handler is
  outcome,  \* [Request -> Outcome \cup {"none"}]
  answer,   \* [Request -> Nat]: status handed to the client, 0 before
  event,    \* [Request -> Event]: what Enqueue was given, NoEvent before
  reqBuf,   \* [Request -> 0..MaxBuffers]: the buffer cappedReq points to
  resBuf,   \* [Request -> 0..MaxBuffers]
  pool,     \* SUBSET 1..made: buffers in the pool
  made,     \* buffers New has made
  mem,      \* [1..MaxBuffers -> [1..BodyCap -> Byte]]
  len,      \* [1..MaxBuffers -> 0..BodyCap]
  sender,   \* [Request -> the transport's goroutine that reads the body]
  at,       \* [Request -> 0..BodyCap]: where the sender's write goes
  late,     \* history: requests whose sender wrote after the release
  raced     \* history: requests whose event was built during such a write

vars == <<pc, outcome, answer, event, reqBuf, resBuf, pool, made, mem, len,
          sender, at, late, raced>>

handlerVars == <<pc, outcome, answer>>
eventVars   == <<event, raced>>
holdVars    == <<reqBuf, resBuf, pool, made>>
senderVars  == <<sender, at, late>>

Byte == Request \cup {NoByte}

-----------------------------------------------------------------------------
(* How a request can end. *)

\* The errors of ParseTarget and ValidateAPIKey.Execute, by the tag of mapErr.
AuthError == {"target_missing", "target_invalid", "target_unsafe",
              "invalid_api_key", "revoked_api_key", "target_not_allowed",
              "internal_error"}

Outcome == AuthError \cup {"rate_limited", "bad_request", "bad_gateway",
                           "upstream"}

\* The status of the audit event.
MapErr(err) ==
  CASE err \in {"invalid_api_key", "revoked_api_key"}   -> 401
    [] err \in {"target_missing", "target_invalid"}     -> 400
    [] err \in {"target_not_allowed", "target_unsafe"}  -> 403
    [] OTHER                                            -> 500

\* Mutant of WriteError: the new sentinel was added to mapErr only.
WriteErrorMissesCase(err) ==
  CASE err \in {"invalid_api_key", "revoked_api_key"}   -> 401
    [] err \in {"target_missing", "target_invalid"}     -> 400
    [] err = "target_not_allowed"                       -> 403
    [] OTHER                                            -> 500

\* The status of the answer, chosen by a switch of its own.
WriteError(err) ==
  CASE err \in {"invalid_api_key", "revoked_api_key"}   -> 401
    [] err = "target_missing"                           -> 400
    [] err = "target_invalid"                           -> 400
    [] err = "target_not_allowed"                       -> 403
    [] err = "target_unsafe"                            -> 403
    [] OTHER                                            -> 500

\* The status that ServeHTTP (rate limit) and Execute pass to both.
PlainStatus(o) ==
  CASE o = "rate_limited"    -> 429
    [] o = "bad_request"     -> 400
    [] o = "bad_gateway"     -> 502
    [] o = "upstream"        -> UpstreamStatus

Status == {400, 401, 403, 429, 500, 502, UpstreamStatus}

-----------------------------------------------------------------------------
(* Buffers and slices. *)

Content(b) == SubSeq(mem[b], 1, len[b])

\* A byte slice: bytes of its own, or (buf # 0) a window on a pooled buffer.
Own(s) == [buf |-> 0, val |-> s]
NoBody == Own(<<>>)

\* What a reader of the slice sees now.
Read(slice) ==
  IF slice.buf = 0 THEN slice.val
                   ELSE SubSeq(mem[slice.buf], 1, Len(slice.val))

\* Mutant of NormalizedBody: the slice of the buffer is handed on.
NormalizedBodyAlias(b) == [buf |-> b, val |-> Content(b)]

\* normalizeCapturedBody: an empty capture is handed back as it is; another is
\* copied or decoded into bytes of its own.  The placeholder that stands for a
\* binary or undecodable body has no byte of the capture and is left out.
NormalizedBody(b) ==
  IF len[b] = 0 THEN [buf |-> b, val |-> <<>>] ELSE Own(Content(b))

NoEvent == [status |-> 0, req |-> NoBody, res |-> NoBody]

\* Where streamCopy and io.Copy run.
Copying == {"stream", "sized"}

\* Between Get and the deferred Put.
Holding == {"trip", "emit", "release"} \cup Copying

PC == {"new", "reject", "done", "closed"} \cup Holding

Init ==
  /\ pc       = [r \in Request |-> "new"]
  /\ outcome  = [r \in Request |-> "none"]
  /\ answer   = [r \in Request |-> 0]
  /\ event    = [r \in Request |-> NoEvent]
  /\ reqBuf   = [r \in Request |-> 0]
  /\ resBuf   = [r \in Request |-> 0]
  /\ pool     = {}
  /\ made     = 0
  /\ mem      = [b \in 1..MaxBuffers |-> [i \in 1..BodyCap |-> NoByte]]
  /\ len      = [b \in 1..MaxBuffers |-> 0]
  /\ sender   = [r \in Request |-> "none"]
  /\ at       = [r \in Request |-> 0]
  /\ late     = {}
  /\ raced    = {}
-----------------------------------------------------------------------------
(* The handler. *)

\* ServeHTTP refuses the request: the answer is written first.
Refuse(r) ==
  /\ pc[r] = "new"
  /\ \E o \in AuthError \cup {"rate_limited"} :
       /\ outcome' = [outcome EXCEPT ![r] = o]
       /\ answer'  = [answer EXCEPT ![r] =
                        IF o \in AuthError THEN WriteError(o) ELSE PlainStatus(o)]
  /\ pc' = [pc EXCEPT ![r] = "reject"]
  /\ UNCHANGED <<eventVars, holdVars, mem, len, senderVars>>

\* Mutant of EmitAuthFailure: a rate-limited request is not recorded.
EmitAuthFailureNotLimited(r) ==
  /\ pc[r] = "reject"
  /\ IF outcome[r] = "rate_limited"
     THEN UNCHANGED event
     ELSE event' = [event EXCEPT ![r] =
                      [status |-> MapErr(outcome[r]), req |-> NoBody, res |-> NoBody]]
  /\ pc' = [pc EXCEPT ![r] = "done"]
  /\ UNCHANGED <<outcome, answer, raced, holdVars, mem, len,
                 senderVars>>

\* Then the audit event, which has no bodies, is handed to the sink.
EmitAuthFailure(r) ==
  /\ pc[r] = "reject"
  /\ LET status == IF outcome[r] \in AuthError THEN MapErr(outcome[r])
                                               ELSE PlainStatus(outcome[r])
     IN  event' = [event EXCEPT ![r] =
                     [status |-> status, req |-> NoBody, res |-> NoBody]]
  /\ pc' = [pc EXCEPT ![r] = "done"]
  /\ UNCHANGED <<outcome, answer, raced, holdVars, mem, len,
                 senderVars>>

\* Mutant of TakeBuffers: one buffer for both sides.
TakeBuffersOnce(r) ==
  \E b \in pool \cup {made + 1} :
    /\ b <= MaxBuffers
    /\ reqBuf' = [reqBuf EXCEPT ![r] = b]
    /\ resBuf' = [resBuf EXCEPT ![r] = b]
    /\ pool'   = pool \ {b}
    /\ made'   = made + (IF b = made + 1 THEN 1 ELSE 0)

\* bufPool.Get, twice: buffers of the pool or new ones.
TakeBuffers(r) ==
  \E b \in pool \cup {made + 1} : \E c \in (pool \cup {made + 1, made + 2}) \ {b} :
    /\ c = made + 2 => b = made + 1
    /\ {b, c} \subseteq 1..MaxBuffers
    /\ reqBuf' = [reqBuf EXCEPT ![r] = b]
    /\ resBuf' = [resBuf EXCEPT ![r] = c]
    /\ pool'   = pool \ {b, c}
    /\ made'   = made + (IF b = made + 1 THEN 1 ELSE 0)
                      + (IF c \in {made + 1, made + 2} THEN 1 ELSE 0)

\* Execute takes its buffers; a method or URL that makes no request ends it.
BadRequest(r) ==
  /\ pc[r] = "new"
  /\ TakeBuffers(r)
  /\ outcome' = [outcome EXCEPT ![r] = "bad_request"]
  /\ answer'  = [answer EXCEPT ![r] = PlainStatus("bad_request")]
  /\ pc'      = [pc EXCEPT ![r] = "emit"]
  /\ UNCHANGED <<eventVars, mem, len, senderVars>>

\* Execute takes its buffers and calls RoundTrip, which reads the body through
\* the TeeReader in a goroutine of its own.
Forward(r) ==
  /\ pc[r] = "new"
  /\ TakeBuffers(r)
  /\ sender' = [sender EXCEPT ![r] = "read"]
  /\ pc'     = [pc EXCEPT ![r] = "trip"]
  /\ UNCHANGED <<outcome, answer, eventVars, mem, len, at, late>>

\* Mutant of RoundTripFails: the buffers are also put back here.
RoundTripFailsReleases(r) ==
  /\ pc[r] = "trip"
  /\ outcome' = [outcome EXCEPT ![r] = "bad_gateway"]
  /\ answer'  = [answer EXCEPT ![r] = PlainStatus("bad_gateway")]
  /\ pc'      = [pc EXCEPT ![r] = "emit"]
  /\ pool'    = pool \cup {reqBuf[r], resBuf[r]}
  /\ UNCHANGED <<eventVars, reqBuf, resBuf, made, mem, len, senderVars>>

\* No connection, a timeout, a broken response, or a client that went away.
RoundTripFails(r) ==
  /\ pc[r] = "trip"
  /\ outcome' = [outcome EXCEPT ![r] = "bad_gateway"]
  /\ answer'  = [answer EXCEPT ![r] = PlainStatus("bad_gateway")]
  /\ pc'      = [pc EXCEPT ![r] = "emit"]
  /\ UNCHANGED <<eventVars, holdVars, mem, len, senderVars>>

\* The response headers, also before the request body has been sent; the
\* status goes to the client at once.
RoundTripReturns(r) ==
  /\ pc[r] = "trip"
  /\ outcome' = [outcome EXCEPT ![r] = "upstream"]
  /\ answer'  = [answer EXCEPT ![r] = PlainStatus("upstream")]
  /\ \E kind \in Copying : pc' = [pc EXCEPT ![r] = kind]
  /\ UNCHANGED <<eventVars, holdVars, mem, len, senderVars>>

\* A part of the body was written to the client and is captured up to the cap.
CopyChunk(r) ==
  LET b == resBuf[r]
  IN  /\ pc[r] \in Copying
      /\ len[b] < BodyCap
      /\ len' = [len EXCEPT ![b] = @ + 1]
      /\ mem' = [mem EXCEPT ![b][len[b] + 1] = r]
      /\ UNCHANGED <<handlerVars, eventVars, holdVars, senderVars>>

\* The body ended, the upstream broke, the client left or, for a stream, the
\* watchdog cancelled.
EndCopy(r) ==
  /\ pc[r] \in Copying
  /\ pc' = [pc EXCEPT ![r] = "emit"]
  /\ UNCHANGED <<outcome, answer, eventVars, holdVars, mem, len, senderVars>>

\* emit hands the event to the sink.
Emit(r) ==
  /\ pc[r] = "emit"
  /\ event' = [event EXCEPT ![r] =
                 [status |-> PlainStatus(outcome[r]),
                  req    |-> NormalizedBody(reqBuf[r]),
                  res    |-> NormalizedBody(resBuf[r])]]
  /\ raced' = IF sender[r] = "fill" THEN raced \cup {r} ELSE raced
  /\ pc'    = [pc EXCEPT ![r] = "release"]
  /\ UNCHANGED <<outcome, answer, holdVars, mem, len, senderVars>>

\* The deferred calls: the body is closed, the upstream cancelled, the buffers
\* are reset and put back.
Release(r) ==
  /\ pc[r] = "release"
  /\ len'  = [len EXCEPT ![reqBuf[r]] = 0, ![resBuf[r]] = 0]
  /\ pool' = pool \cup {reqBuf[r], resBuf[r]}
  /\ pc'   = [pc EXCEPT ![r] = "done"]
  /\ UNCHANGED <<outcome, answer, eventVars, reqBuf, resBuf, made, mem,
                 senderVars>>

-----------------------------------------------------------------------------
(* The transport's sender, net/http, and a worker of the sink. *)

Released(r) == pc[r] \in {"done", "closed"}

\* Read of the TeeReader: bytes of r.Body, which net/http closes only after the
\* handler has returned.
SenderReads(r) ==
  /\ sender[r] = "read"
  /\ pc[r] # "closed"
  /\ sender' = [sender EXCEPT ![r] = "grow"]
  /\ UNCHANGED <<handlerVars, eventVars, holdVars, mem, len, at, late>>

\* cappedWriter.Write, first half: what the cap leaves room for is reserved.
SenderGrows(r) ==
  LET b == reqBuf[r]
  IN  /\ sender[r] = "grow"
      /\ IF len[b] < BodyCap
         THEN /\ len'    = [len EXCEPT ![b] = @ + 1]
              /\ at'     = [at EXCEPT ![r] = len[b] + 1]
              /\ sender' = [sender EXCEPT ![r] = "fill"]
              /\ late'   = IF Released(r) THEN late \cup {r} ELSE late
         ELSE /\ sender' = [sender EXCEPT ![r] = "read"]
              /\ UNCHANGED <<len, at, late>>
      /\ UNCHANGED <<handlerVars, eventVars, holdVars, mem>>

\* Second half: the bytes are copied.
SenderFills(r) ==
  /\ sender[r] = "fill"
  /\ mem'    = [mem EXCEPT ![reqBuf[r]][at[r]] = r]
  /\ at'     = [at EXCEPT ![r] = 0]
  /\ sender' = [sender EXCEPT ![r] = "read"]
  /\ late'   = IF Released(r) THEN late \cup {r} ELSE late
  /\ UNCHANGED <<handlerVars, eventVars, holdVars, len>>

\* The body is sent, or its connection or the body was closed.
SenderStops(r) ==
  /\ sender[r] = "read"
  /\ sender' = [sender EXCEPT ![r] = "done"]
  /\ UNCHANGED <<handlerVars, eventVars, holdVars, mem, len, at, late>>

\* finishRequest closes the body after the handler.
CloseBody(r) ==
  /\ pc[r] = "done"
  /\ pc' = [pc EXCEPT ![r] = "closed"]
  /\ UNCHANGED <<outcome, answer, eventVars, holdVars, mem, len, senderVars>>

\* What a worker of the sink that marshals the event of r now, some time after
\* Enqueue, reads as bodies.
BytesOf(slice) == {Read(slice)[i] : i \in 1..Len(slice.val)}

Marshalled(r) == BytesOf(event[r].req) \cup BytesOf(event[r].res)

-----------------------------------------------------------------------------

ServeHTTP(r) ==
  \/ Refuse(r) \/ EmitAuthFailure(r)
  \/ BadRequest(r) \/ Forward(r)
  \/ RoundTripFails(r) \/ RoundTripReturns(r)
  \/ CopyChunk(r) \/ EndCopy(r)
  \/ Emit(r) \/ Release(r)

Sender(r) == SenderReads(r) \/ SenderGrows(r) \/ SenderFills(r) \/ SenderStops(r)

Next == \E r \in Request : ServeHTTP(r) \/ Sender(r) \/ CloseBody(r)

Spec == Init /\ [][Next]_vars

\* A handler with nothing to wait for goes on.  Nothing is assumed of the upstream,
\* of the sender, and of the copy of a response: w.Write has no deadline, an
\* upstream may send for ever, and the watchdog may be switched off.
Fairness ==
  \A r \in Request : WF_vars(EmitAuthFailure(r) \/ Emit(r) \/ Release(r))

FairSpec == Spec /\ Fairness

\* Every response ends or breaks, and so does the client's connection: for a stream
\* see StreamEnds of StreamCopy, a sized body has no watchdog.
CopiesEnd == \A r \in Request : WF_vars(EndCopy(r))

-----------------------------------------------------------------------------
(* Properties. *)

\* Every variable has its type; a handler has two different buffers from Get to
\* Put, and a sender at work has a place to write to.
TypeOK ==
  /\ pc \in [Request -> PC]
  /\ outcome \in [Request -> Outcome \cup {"none"}]
  /\ answer \in [Request -> Status \cup {0}]
  /\ event \in [Request -> [status : Status \cup {0},
                            req : [buf : 0..MaxBuffers, val : Seq(Byte)],
                            res : [buf : 0..MaxBuffers, val : Seq(Byte)]]]
  /\ reqBuf \in [Request -> 0..MaxBuffers]
  /\ resBuf \in [Request -> 0..MaxBuffers]
  /\ made \in 0..MaxBuffers
  /\ pool \subseteq 1..made
  /\ mem \in [1..MaxBuffers -> [1..BodyCap -> Byte]]
  /\ len \in [1..MaxBuffers -> 0..BodyCap]
  /\ sender \in [Request -> {"none", "read", "grow", "fill", "done"}]
  /\ at \in [Request -> 0..BodyCap]
  /\ late \subseteq Request
  /\ raced \subseteq Request
  /\ \A r \in Request :
       /\ pc[r] \in Holding =>
            reqBuf[r] \in 1..made /\ resBuf[r] \in 1..made /\ reqBuf[r] # resBuf[r]
       /\ sender[r] # "none" => reqBuf[r] \in 1..made
       /\ sender[r] = "fill" => at[r] \in 1..BodyCap

\* No buffer is in the hands of two handlers, or of one and of the pool: every
\* path through Execute, with its early returns, puts a buffer back once.
Held(r) == IF pc[r] \in Holding THEN {reqBuf[r], resBuf[r]} ELSE {}

BuffersAreExclusive ==
  \A r \in Request :
    /\ Held(r) \cap pool = {}
    /\ \A q \in Request \ {r} : Held(r) \cap Held(q) = {}

\* A byte of another request gets into an event for two reasons only: a sender
\* that outlived its handler wrote into a buffer that this request had by then,
\* or the event was built while this request's own sender was in the middle of
\* a write.  In particular the worker that marshals the event later, when the
\* buffers belong to others, reads none of theirs.
ForeignBytesHaveACause ==
  \A r \in Request :
    Marshalled(r) \subseteq {r, NoByte}
      \/ r \in raced
      \/ \E s \in late \ {r} : reqBuf[s] \in {reqBuf[r], resBuf[r]}

\* Every request is answered at most once, and recorded at most once with the
\* status of the answer: the promise of RequestContract.
Contract == INSTANCE RequestContract WITH
  NoStatus <- 0,
  record   <- [r \in Request |-> event[r].status]

RecordedIsAnswered == Contract!Spec

\* A request that was answered gets its event, whether it was refused, failed
\* or went through, unless its handler stays in the copy of the response for ever:
\* nothing else holds an event up.  With copies that end, every request gets it.
AnsweredIsRecorded ==
  /\ \A r \in Request :
       answer[r] # 0 ~> (event[r].status # 0 \/ [](pc[r] \in Copying))
  /\ CopiesEnd => \A r \in Request : answer[r] # 0 ~> event[r].status # 0
=============================================================================
