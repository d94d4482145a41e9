------------------------- MODULE ProxyRequest_proof -------------------------
(***************************************************************************)
(* Safety of ProxyRequest for every set of requests, every cap and every   *)
(* number of buffers: the buffers, the bytes in the events, and that every *)
(* request keeps to RequestContract.                                       *)
(***************************************************************************)
EXTENDS ProxyRequest, SequenceTheorems, TLAPS

Refusal == AuthError \cup {"rate_limited"}

RefusalStatus(o) == IF o \in AuthError THEN WriteError(o) ELSE PlainStatus(o)

\* Where a handler is says what it has told its client and the sink.
HandlerInv ==
  \A r \in Request :
    /\ pc[r] \in {"new", "trip"} => answer[r] = 0
    /\ pc[r] \in {"new", "reject", "trip", "stream", "sized", "emit"} =>
         event[r].status = 0
    /\ pc[r] = "reject" => outcome[r] \in Refusal /\ answer[r] = RefusalStatus(outcome[r])
    /\ pc[r] \in {"stream", "sized", "emit"} =>
         /\ outcome[r] \in {"bad_request", "bad_gateway", "upstream"}
         /\ answer[r] = PlainStatus(outcome[r])

IInv == TypeOK /\ BuffersAreExclusive /\ HandlerInv

-----------------------------------------------------------------------------
(* Statuses and slices. *)

\* The two switches over the errors agree, and every status is one.
LEMMA Statuses ==
  /\ \A o \in AuthError : MapErr(o) = WriteError(o) /\ MapErr(o) \in Status \ {0}
  /\ \A o \in {"rate_limited", "bad_request", "bad_gateway", "upstream"} :
       PlainStatus(o) \in Status \ {0}
<1>1. ASSUME NEW o \in AuthError
      PROVE  MapErr(o) = WriteError(o) /\ MapErr(o) \in Status \ {0}
  <2>1. CASE o \in {"invalid_api_key", "revoked_api_key"}
    BY <2>1 DEF MapErr, WriteError, Status
  <2>2. CASE o \in {"target_missing", "target_invalid"}
    BY <2>2 DEF MapErr, WriteError, Status
  <2>3. CASE o \in {"target_not_allowed", "target_unsafe"}
    BY <2>3 DEF MapErr, WriteError, Status
  <2>4. CASE o = "internal_error"
    BY <2>4 DEF MapErr, WriteError, Status
  <2> QED
    BY <2>1, <2>2, <2>3, <2>4 DEF AuthError
<1>2. ASSUME NEW o \in {"rate_limited", "bad_request", "bad_gateway", "upstream"}
      PROVE  PlainStatus(o) \in Status \ {0}
  BY ConstantsAssumption DEF PlainStatus, Status
<1> QED
  BY <1>1, <1>2

\* A sequence of the bytes of a buffer.
LEMMA ContentType ==
  ASSUME TypeOK, NEW b \in 1..MaxBuffers
  PROVE  /\ Content(b) \in Seq(Byte)
         /\ Len(Content(b)) = len[b]
         /\ \A i \in 1..len[b] : Content(b)[i] = mem[b][i]
<1>1. len[b] \in Nat /\ len[b] <= BodyCap
  BY ConstantsAssumption DEF TypeOK
<1>2. \A i \in 1..len[b] : mem[b][i] \in Byte
  BY <1>1, ConstantsAssumption DEF TypeOK
<1> DEFINE s == mem[b]
           n == len[b]
<1>3. /\ SubSeq(s, 1, n) \in Seq(Byte)
      /\ Len(SubSeq(s, 1, n)) = IF 1 <= n THEN n - 1 + 1 ELSE 0
      /\ \A i \in 1..(n - 1 + 1) : SubSeq(s, 1, n)[i] = s[1 + i - 1]
  <2> HIDE DEF s
  <2>1. \A i \in 1..n : s[i] \in Byte
    BY <1>2 DEF s
  <2>2. n \in Int
    BY <1>1
  <2> HIDE DEF n
  <2> QED
    BY <2>1, <2>2, SubSeqProperties
<1> QED
  BY <1>1, <1>3 DEF Content

Slice == [buf : 0..MaxBuffers, val : Seq(Byte)]

\* What emit makes of a buffer.
LEMMA NormalizedBodyType ==
  ASSUME TypeOK, NEW b \in 1..MaxBuffers
  PROVE  NormalizedBody(b) \in Slice
<1>1. <<>> \in Seq(Byte) /\ b \in 0..MaxBuffers /\ 0 \in 0..MaxBuffers
  BY ConstantsAssumption
<1> QED
  BY <1>1, ContentType DEF NormalizedBody, Own, Slice

\* The body of an audit event is a slice.
LEMMA NoBodyType == NoBody \in Slice
BY ConstantsAssumption DEF NoBody, Own, Slice

-----------------------------------------------------------------------------
(* Getting and putting back buffers. *)

\* Two different buffers, of the pool or new, which leave the pool.
Taken(r, b, c) ==
  /\ b # c
  /\ {b, c} \cap pool' = {}
  /\ \A d \in {b, c} : d \in pool \/ d > made
  /\ reqBuf' = [reqBuf EXCEPT ![r] = b]
  /\ resBuf' = [resBuf EXCEPT ![r] = c]
  /\ pool' = pool \ {b, c}
  /\ made <= made' /\ made' \in 0..MaxBuffers

\* bufPool.Get, twice: two different buffers, in the pool or not made before.
LEMMA TakeBuffersEffect ==
  ASSUME TypeOK, NEW r \in Request, TakeBuffers(r)
  PROVE  \E b, c \in 1..made' : Taken(r, b, c)
<1>1. PICK b \in pool \cup {made + 1}, c \in pool \cup {made + 1, made + 2} :
        /\ c # b
        /\ c = made + 2 => b = made + 1
        /\ {b, c} \subseteq 1..MaxBuffers
        /\ reqBuf' = [reqBuf EXCEPT ![r] = b]
        /\ resBuf' = [resBuf EXCEPT ![r] = c]
        /\ pool' = pool \ {b, c}
        /\ made' = made + (IF b = made + 1 THEN 1 ELSE 0)
                        + (IF c \in {made + 1, made + 2} THEN 1 ELSE 0)
  BY DEF TakeBuffers
<1>2. made \in Nat /\ pool \subseteq 1..made /\ made <= MaxBuffers /\ MaxBuffers \in Nat
  BY ConstantsAssumption DEF TypeOK
<1>3. b \in Nat /\ c \in Nat /\ b <= MaxBuffers /\ c <= MaxBuffers
  BY <1>1, <1>2
<1>4. b \in 1..made' /\ c \in 1..made' /\ made <= made' /\ made' \in 0..MaxBuffers
  <2>1. CASE b = made + 1 /\ c = made + 2
    BY <1>1, <1>2, <1>3, <2>1
  <2>2. CASE b = made + 1 /\ c \in pool
    BY <1>1, <1>2, <1>3, <2>2
  <2>3. CASE b \in pool /\ c = made + 1
    BY <1>1, <1>2, <1>3, <2>3
  <2>4. CASE b \in pool /\ c \in pool
    BY <1>1, <1>2, <1>3, <2>4
  <2> QED
    BY <1>1, <1>2, <2>1, <2>2, <2>3, <2>4
<1>5. \A d \in {b, c} : d \in pool \/ d > made
  BY <1>1, <1>2
<1>6. b # c /\ {b, c} \cap pool' = {}
  BY <1>1
<1>7. Taken(r, b, c)
  BY <1>1, <1>4, <1>5, <1>6 DEF Taken
<1> QED
  BY <1>4, <1>7

-----------------------------------------------------------------------------
(* Type correctness. *)

\* A step that takes buffers and moves the handler.
LEMMA TakeType ==
  ASSUME TypeOK, NEW r \in Request, TakeBuffers(r), pc[r] = "new",
         NEW p \in Holding, pc' = [pc EXCEPT ![r] = p],
         sender' \in [Request -> {"none", "read", "grow", "fill", "done"}],
         \A q \in Request : sender'[q] = sender[q] \/ (q = r /\ sender'[q] = "read"),
         outcome' \in [Request -> Outcome \cup {"none"}],
         answer' \in [Request -> Status \cup {0}],
         UNCHANGED <<event, mem, len, at, late, raced>>
  PROVE  TypeOK'
<1>1. PICK b, c \in 1..made' : Taken(r, b, c)
  BY TakeBuffersEffect
<1>2. made \in Nat /\ made' \in Nat /\ pool \subseteq 1..made
  BY <1>1, ConstantsAssumption DEF TypeOK, Taken
<1>3. /\ reqBuf' \in [Request -> 0..MaxBuffers]
      /\ resBuf' \in [Request -> 0..MaxBuffers]
  BY <1>1, <1>2, ConstantsAssumption, SMTT(30) DEF TypeOK, Taken
<1>4. pool' \subseteq 1..made'
  BY <1>1, <1>2 DEF Taken
<1>5. ASSUME NEW q \in Request
      PROVE  /\ pc'[q] \in Holding =>
                  reqBuf'[q] \in 1..made' /\ resBuf'[q] \in 1..made' /\ reqBuf'[q] # resBuf'[q]
             /\ sender'[q] # "none" => reqBuf'[q] \in 1..made'
             /\ sender'[q] = "fill" => at'[q] \in 1..BodyCap
  <2>1. CASE q = r
    BY <1>1, <2>1 DEF TypeOK, Taken
  <2>2. CASE q # r
    <3>1. /\ pc'[q] = pc[q] /\ sender'[q] = sender[q] /\ at'[q] = at[q]
          /\ reqBuf'[q] = reqBuf[q] /\ resBuf'[q] = resBuf[q]
      BY <1>1, <2>2 DEF TypeOK, Taken
    <3>2. \A d \in 1..made : d \in 1..made'
      BY <1>1, <1>2 DEF Taken
    <3> QED
      BY <3>1, <3>2 DEF TypeOK
  <2> QED
    BY <2>1, <2>2
<1>6. pc' \in [Request -> PC]
  BY DEF TypeOK, PC
<1> QED
  BY <1>1, <1>3, <1>4, <1>5, <1>6 DEF TypeOK, Taken

\* Every action of handlers, senders and the server keeps the types.
LEMMA NextType == TypeOK /\ HandlerInv /\ [Next]_vars => TypeOK'
<1> SUFFICES ASSUME TypeOK, HandlerInv, [Next]_vars PROVE TypeOK'
  OBVIOUS
<1> USE ConstantsAssumption
<1>1. CASE UNCHANGED vars
  BY <1>1 DEF TypeOK, vars
<1>2. ASSUME NEW r \in Request, Refuse(r) PROVE TypeOK'
  <2>1. PICK o \in Refusal :
          /\ outcome' = [outcome EXCEPT ![r] = o]
          /\ answer'  = [answer EXCEPT ![r] = RefusalStatus(o)]
    BY <1>2 DEF Refuse, Refusal, RefusalStatus
  <2>2. RefusalStatus(o) \in Status /\ o \in Outcome
    BY <2>1, Statuses DEF Refusal, RefusalStatus, Outcome
  <2>3. /\ answer' \in [Request -> Status \cup {0}]
        /\ outcome' \in [Request -> Outcome \cup {"none"}]
        /\ pc' \in [Request -> PC]
    BY <1>2, <2>1, <2>2 DEF Refuse, TypeOK, PC
  <2> QED
    BY <1>2, <2>3 DEF Refuse, TypeOK, eventVars, holdVars, senderVars, Holding, Copying
<1>3. ASSUME NEW r \in Request, EmitAuthFailure(r) PROVE TypeOK'
  <2>1. outcome[r] \in Refusal
    BY <1>3 DEF EmitAuthFailure, HandlerInv
  <2> DEFINE s == IF outcome[r] \in AuthError THEN MapErr(outcome[r])
                                              ELSE PlainStatus(outcome[r])
  <2>2. s \in Status
    BY <2>1, Statuses DEF Refusal
  <2>3. event' = [event EXCEPT ![r] = [status |-> s, req |-> NoBody, res |-> NoBody]]
    BY <1>3 DEF EmitAuthFailure
  <2> HIDE DEF s
  <2>4. event' \in [Request -> [status : Status \cup {0}, req : Slice, res : Slice]]
    BY <2>2, <2>3, NoBodyType DEF TypeOK, Slice
  <2>5. pc' \in [Request -> PC]
    BY <1>3 DEF EmitAuthFailure, TypeOK, PC
  <2> QED
    BY <1>3, <2>4, <2>5
    DEF EmitAuthFailure, TypeOK, Slice, holdVars, senderVars, Holding, Copying
<1>4. ASSUME NEW r \in Request, BadRequest(r) PROVE TypeOK'
  <2>1. /\ outcome' \in [Request -> Outcome \cup {"none"}]
        /\ answer' \in [Request -> Status \cup {0}]
    BY <1>4, Statuses DEF BadRequest, TypeOK, Outcome
  <2> QED
    BY <1>4, <2>1, TakeType DEF BadRequest, TypeOK, Holding, eventVars, senderVars
<1>5. ASSUME NEW r \in Request, Forward(r) PROVE TypeOK'
  <2>1. sender' \in [Request -> {"none", "read", "grow", "fill", "done"}]
    BY <1>5 DEF Forward, TypeOK
  <2>2. \A q \in Request : sender'[q] = sender[q] \/ (q = r /\ sender'[q] = "read")
    BY <1>5 DEF Forward, TypeOK
  <2> QED
    BY <1>5, <2>1, <2>2, TakeType DEF Forward, TypeOK, Holding, eventVars
<1>6. ASSUME NEW r \in Request, RoundTripFails(r) \/ RoundTripReturns(r) PROVE TypeOK'
  <2>1. PICK o \in {"bad_gateway", "upstream"} :
          /\ outcome' = [outcome EXCEPT ![r] = o]
          /\ answer'  = [answer EXCEPT ![r] = PlainStatus(o)]
    BY <1>6 DEF RoundTripFails, RoundTripReturns
  <2>5. PlainStatus(o) \in Status /\ o \in Outcome
    BY Statuses DEF Outcome
  <2>6. /\ outcome' \in [Request -> Outcome \cup {"none"}]
        /\ answer' \in [Request -> Status \cup {0}]
    BY <2>1, <2>5 DEF TypeOK
  <2>2. PICK p \in Holding : pc' = [pc EXCEPT ![r] = p]
    BY <1>6 DEF RoundTripFails, RoundTripReturns, Holding
  <2>3. pc[r] \in Holding /\ pc' \in [Request -> PC]
    BY <1>6, <2>2 DEF RoundTripFails, RoundTripReturns, Holding, PC, TypeOK
  <2>4. UNCHANGED <<event, raced, reqBuf, resBuf, pool, made, mem, len, sender, at, late>>
    BY <1>6 DEF RoundTripFails, RoundTripReturns, eventVars, holdVars, senderVars
  <2> QED
    BY <2>2, <2>3, <2>4, <2>6 DEF TypeOK
<1>7. ASSUME NEW r \in Request, CopyChunk(r) PROVE TypeOK'
  <2> DEFINE b == resBuf[r]
  <2>1. b \in 1..MaxBuffers /\ len[b] \in Nat /\ len[b] + 1 \in 1..BodyCap
    BY <1>7, SMTT(30) DEF CopyChunk, TypeOK, Holding
  <2>2. len' \in [1..MaxBuffers -> 0..BodyCap]
    BY <1>7, <2>1 DEF CopyChunk, TypeOK
  <2>3. mem' \in [1..MaxBuffers -> [1..BodyCap -> Byte]]
    BY <1>7, <2>1 DEF CopyChunk, TypeOK, Byte
  <2> QED
    BY <1>7, <2>2, <2>3
    DEF CopyChunk, TypeOK, handlerVars, eventVars, holdVars, senderVars
<1>8. ASSUME NEW r \in Request, EndCopy(r) PROVE TypeOK'
  <2>1. pc[r] \in Holding /\ pc' \in [Request -> PC]
    BY <1>8 DEF EndCopy, Holding, PC, TypeOK
  <2> QED
    BY <1>8, <2>1 DEF EndCopy, TypeOK, eventVars, holdVars, senderVars
<1>9. ASSUME NEW r \in Request, Emit(r) PROVE TypeOK'
  <2>1. pc[r] \in Holding /\ pc' \in [Request -> PC]
    BY <1>9 DEF Emit, Holding, PC, TypeOK
  <2>2. reqBuf[r] \in 1..MaxBuffers /\ resBuf[r] \in 1..MaxBuffers
    BY <2>1 DEF TypeOK
  <2>3. PlainStatus(outcome[r]) \in Status
    BY <1>9, Statuses DEF Emit, HandlerInv
  <2>4. event' \in [Request -> [status : Status \cup {0}, req : Slice, res : Slice]]
    BY <1>9, <2>2, <2>3, NormalizedBodyType DEF Emit, TypeOK, Slice
  <2>5. raced' \subseteq Request
    BY <1>9 DEF Emit, TypeOK
  <2> QED
    BY <1>9, <2>1, <2>4, <2>5 DEF Emit, TypeOK, Slice, holdVars, senderVars
<1>10. ASSUME NEW r \in Request, Release(r) PROVE TypeOK'
  <2>1. pc[r] \in Holding /\ pc' \in [Request -> PC]
    BY <1>10 DEF Release, Holding, PC, TypeOK
  <2>2. len' \in [1..MaxBuffers -> 0..BodyCap]
    <3>1. 0 \in 0..BodyCap
      OBVIOUS
    <3>2. len' = [[len EXCEPT ![reqBuf[r]] = 0] EXCEPT ![resBuf[r]] = 0]
      BY <1>10 DEF Release
    <3> QED
      BY <3>1, <3>2 DEF TypeOK
  <2>3. pool' \subseteq 1..made
    BY <1>10, <2>1 DEF Release, TypeOK
  <2>4. \A q \in Request : pc'[q] \in Holding => pc[q] \in Holding
    BY <1>10, <2>1 DEF Release, TypeOK
  <2> QED
    BY <1>10, <2>1, <2>2, <2>3, <2>4 DEF Release, TypeOK, eventVars, senderVars
<1>11. ASSUME NEW r \in Request, SenderReads(r) \/ SenderStops(r) PROVE TypeOK'
  BY <1>11
  DEF SenderReads, SenderStops, TypeOK, handlerVars, eventVars, holdVars
<1>12. ASSUME NEW r \in Request, SenderGrows(r) PROVE TypeOK'
  <2> DEFINE b == reqBuf[r]
  <2>1. b \in 1..MaxBuffers /\ len[b] \in 0..BodyCap
    BY <1>12 DEF SenderGrows, TypeOK
  <2>2. CASE len[b] < BodyCap
    <3>0. len[b] + 1 \in 1..BodyCap /\ len[b] + 1 \in 0..BodyCap
      BY <2>1, <2>2
    <3>1. /\ len' \in [1..MaxBuffers -> 0..BodyCap]
          /\ at' \in [Request -> 0..BodyCap]
          /\ at'[r] \in 1..BodyCap /\ late' \subseteq Request
      <4>1. /\ len' = [len EXCEPT ![b] = len[b] + 1]
            /\ at' = [at EXCEPT ![r] = len[b] + 1]
            /\ late' \in {late, late \cup {r}}
        BY <1>12, <2>2 DEF SenderGrows
      <4> HIDE DEF b
      <4> QED
        BY <3>0, <4>1 DEF TypeOK
    <3>2. /\ sender' = [sender EXCEPT ![r] = "fill"] /\ sender[r] = "grow"
          /\ at' = [at EXCEPT ![r] = len[b] + 1]
      BY <1>12, <2>2 DEF SenderGrows
    <3>3. \A q \in Request :
            /\ sender'[q] # "none" => sender[q] # "none"
            /\ sender'[q] = "fill" => at'[q] \in 1..BodyCap
      BY <3>1, <3>2 DEF TypeOK
    <3> QED
      BY <1>12, <3>1, <3>2, <3>3
      DEF SenderGrows, TypeOK, handlerVars, eventVars, holdVars
  <2>3. CASE ~(len[b] < BodyCap)
    BY <1>12, <2>3 DEF SenderGrows, TypeOK, handlerVars, eventVars, holdVars
  <2> QED
    BY <2>2, <2>3
<1>13. ASSUME NEW r \in Request, SenderFills(r) PROVE TypeOK'
  <2>1. reqBuf[r] \in 1..MaxBuffers /\ at[r] \in 1..BodyCap
    BY <1>13 DEF SenderFills, TypeOK
  <2>2. mem' \in [1..MaxBuffers -> [1..BodyCap -> Byte]]
    BY <1>13, <2>1 DEF SenderFills, TypeOK, Byte
  <2>3. late' \subseteq Request
    BY <1>13 DEF SenderFills, TypeOK
  <2>4. /\ sender' \in [Request -> {"none", "read", "grow", "fill", "done"}]
        /\ at' \in [Request -> 0..BodyCap]
        /\ \A q \in Request : sender'[q] # "none" => sender[q] # "none"
        /\ \A q \in Request : sender'[q] = "fill" => sender[q] = "fill" /\ at'[q] = at[q]
    BY <1>13 DEF SenderFills, TypeOK
  <2> QED
    BY <1>13, <2>2, <2>3, <2>4 DEF SenderFills, TypeOK, handlerVars, eventVars, holdVars
<1>14. ASSUME NEW r \in Request, CloseBody(r) PROVE TypeOK'
  <2>1. pc' \in [Request -> PC] /\ \A q \in Request : pc'[q] \in Holding => pc[q] \in Holding
    BY <1>14 DEF CloseBody, TypeOK, PC, Holding, Copying
  <2> QED
    BY <1>14, <2>1 DEF CloseBody, TypeOK, eventVars, holdVars, senderVars
<1> QED
  BY <1>1, <1>2, <1>3, <1>4, <1>5, <1>6, <1>7, <1>8, <1>9, <1>10, <1>11, <1>12,
     <1>13, <1>14 DEF Next, ServeHTTP, Sender

-----------------------------------------------------------------------------
(* Buffers. *)

\* The handlers hold what they held, and the pool is as it was.
LEMMA SameHolders ==
  ASSUME BuffersAreExclusive, UNCHANGED <<reqBuf, resBuf, pool>>,
         \A r \in Request : pc'[r] \in Holding <=> pc[r] \in Holding
  PROVE  BuffersAreExclusive'
<1>1. \A r \in Request : Held(r)' = Held(r)
  BY DEF Held
<1> QED
  BY <1>1 DEF BuffersAreExclusive

\* Every action keeps each buffer with one holder: Get takes it out of the pool
\* and only the deferred Put of its holder returns it.
LEMMA NextExclusive ==
  TypeOK /\ BuffersAreExclusive /\ [Next]_vars => BuffersAreExclusive'
<1> SUFFICES ASSUME TypeOK, BuffersAreExclusive, [Next]_vars
             PROVE  BuffersAreExclusive'
  OBVIOUS
<1>1. CASE UNCHANGED vars
  BY <1>1, SameHolders DEF vars
<1>2. ASSUME NEW r \in Request, TakeBuffers(r), pc[r] = "new",
             NEW p \in Holding, pc' = [pc EXCEPT ![r] = p]
      PROVE  BuffersAreExclusive'
  <2>1. PICK b, c \in 1..made' : Taken(r, b, c)
    BY <1>2, TakeBuffersEffect
  <2>2. Held(r)' = {b, c}
    BY <1>2, <2>1 DEF Held, Taken, TypeOK
  <2>3. ASSUME NEW q \in Request, q # r PROVE Held(q)' = Held(q)
    BY <1>2, <2>1, <2>3 DEF Held, Taken, TypeOK
  <2>4. ASSUME NEW q \in Request, q # r PROVE Held(q) \cap {b, c} = {}
    <3>1. Held(q) \subseteq 1..made /\ Held(q) \cap pool = {}
      BY DEF Held, TypeOK, BuffersAreExclusive
    <3>2. \A d \in 1..made : ~(d > made)
      BY ConstantsAssumption DEF TypeOK
    <3> QED
      BY <2>1, <3>1, <3>2 DEF Taken
  <2>5. pool' \subseteq pool /\ {b, c} \cap pool' = {}
    BY <2>1 DEF Taken
  <2> QED
    BY <2>2, <2>3, <2>4, <2>5 DEF BuffersAreExclusive
<1>3. ASSUME NEW r \in Request, BadRequest(r) \/ Forward(r) PROVE BuffersAreExclusive'
  BY <1>2, <1>3 DEF BadRequest, Forward, Holding
<1>4. ASSUME NEW r \in Request, Release(r) PROVE BuffersAreExclusive'
  <2>1. Held(r) = {reqBuf[r], resBuf[r]} /\ Held(r)' = {}
    BY <1>4 DEF Release, Held, TypeOK, Holding, Copying
  <2>2. ASSUME NEW q \in Request, q # r PROVE Held(q)' = Held(q)
    BY <1>4, <2>2 DEF Release, Held, TypeOK
  <2>3. pool' = pool \cup Held(r)
    BY <1>4, <2>1 DEF Release
  <2> QED
    BY <2>1, <2>2, <2>3 DEF BuffersAreExclusive
<1>5. ASSUME NEW r \in Request,
             \/ Refuse(r) \/ EmitAuthFailure(r)
             \/ RoundTripFails(r) \/ RoundTripReturns(r) \/ EndCopy(r)
             \/ Emit(r) \/ CloseBody(r)
      PROVE  BuffersAreExclusive'
  <2>1. UNCHANGED <<reqBuf, resBuf, pool>>
    BY <1>5 DEF Refuse, EmitAuthFailure, RoundTripFails, RoundTripReturns, EndCopy,
                Emit, CloseBody, holdVars
  <2>2. PICK p : pc' = [pc EXCEPT ![r] = p] /\ (p \in Holding <=> pc[r] \in Holding)
    BY <1>5 DEF Refuse, EmitAuthFailure, RoundTripFails, RoundTripReturns, EndCopy,
                Emit, CloseBody, Holding, Copying
  <2> QED
    BY <2>1, <2>2, SameHolders DEF TypeOK
<1>6. ASSUME NEW r \in Request, CopyChunk(r) \/ Sender(r) PROVE BuffersAreExclusive'
  BY <1>6, SameHolders
  DEF CopyChunk, Sender, SenderReads, SenderGrows, SenderFills, SenderStops,
      handlerVars, holdVars
<1> QED
  BY <1>1, <1>3, <1>4, <1>5, <1>6 DEF Next, ServeHTTP

-----------------------------------------------------------------------------
(* Answers and events. *)

\* A step of r that leaves the other handlers alone.
LEMMA OthersKeep ==
  ASSUME TypeOK, HandlerInv, NEW r \in Request,
         \A q \in Request \ {r} :
           /\ pc'[q] = pc[q] /\ outcome'[q] = outcome[q]
           /\ answer'[q] = answer[q] /\ event'[q] = event[q],
         /\ pc'[r] \in {"new", "trip"} => answer'[r] = 0
         /\ pc'[r] \in {"new", "reject", "trip", "stream", "sized", "emit"} =>
              event'[r].status = 0
         /\ pc'[r] = "reject" =>
              outcome'[r] \in Refusal /\ answer'[r] = RefusalStatus(outcome'[r])
         /\ pc'[r] \in {"stream", "sized", "emit"} =>
              /\ outcome'[r] \in {"bad_request", "bad_gateway", "upstream"}
              /\ answer'[r] = PlainStatus(outcome'[r])
  PROVE  HandlerInv'
BY DEF HandlerInv

\* Every action keeps the link between where a handler is and what it has
\* answered and recorded.
LEMMA NextHandler == TypeOK /\ HandlerInv /\ [Next]_vars => HandlerInv'
<1> SUFFICES ASSUME TypeOK, HandlerInv, [Next]_vars PROVE HandlerInv'
  OBVIOUS
<1>1. CASE UNCHANGED vars
  BY <1>1 DEF HandlerInv, vars
<1>2. ASSUME NEW r \in Request, Refuse(r) PROVE HandlerInv'
  <2>1. PICK o \in Refusal :
          /\ outcome' = [outcome EXCEPT ![r] = o]
          /\ answer'  = [answer EXCEPT ![r] = RefusalStatus(o)]
    BY <1>2 DEF Refuse, Refusal, RefusalStatus
  <2>2. pc[r] = "new" /\ pc' = [pc EXCEPT ![r] = "reject"] /\ event' = event
    BY <1>2 DEF Refuse, eventVars
  <2> QED
    BY <2>1, <2>2, OthersKeep DEF TypeOK, HandlerInv
<1>3. ASSUME NEW r \in Request, EmitAuthFailure(r) \/ Release(r) \/ CloseBody(r)
      PROVE  HandlerInv'
  <2>1. PICK p \in {"done", "closed"} : pc' = [pc EXCEPT ![r] = p]
    BY <1>3 DEF EmitAuthFailure, Release, CloseBody
  <2>2. UNCHANGED <<outcome, answer>> /\ \A q \in Request \ {r} : event'[q] = event[q]
    BY <1>3 DEF EmitAuthFailure, Release, CloseBody, eventVars, TypeOK
  <2> QED
    BY <2>1, <2>2, OthersKeep DEF TypeOK
<1>4. ASSUME NEW r \in Request, BadRequest(r) \/ RoundTripFails(r) \/ RoundTripReturns(r)
      PROVE  HandlerInv'
  <2>1. PICK o \in {"bad_request", "bad_gateway", "upstream"} :
          /\ outcome' = [outcome EXCEPT ![r] = o]
          /\ answer'  = [answer EXCEPT ![r] = PlainStatus(o)]
    BY <1>4 DEF BadRequest, RoundTripFails, RoundTripReturns
  <2>2. PICK p \in {"emit", "stream", "sized"} : pc' = [pc EXCEPT ![r] = p]
    BY <1>4 DEF BadRequest, RoundTripFails, RoundTripReturns, Copying
  <2>3. pc[r] \in {"new", "trip"} /\ event' = event
    BY <1>4 DEF BadRequest, RoundTripFails, RoundTripReturns, eventVars
  <2> QED
    BY <2>1, <2>2, <2>3, OthersKeep DEF TypeOK, HandlerInv
<1>5. ASSUME NEW r \in Request, Forward(r) \/ EndCopy(r) PROVE HandlerInv'
  <2>1. UNCHANGED <<outcome, answer, event>>
    BY <1>5 DEF Forward, EndCopy, eventVars
  <2>2. \/ pc[r] = "new" /\ pc' = [pc EXCEPT ![r] = "trip"]
        \/ pc[r] \in {"stream", "sized"} /\ pc' = [pc EXCEPT ![r] = "emit"]
    BY <1>5 DEF Forward, EndCopy, Copying
  <2> QED
    BY <2>1, <2>2, OthersKeep DEF TypeOK, HandlerInv
<1>6. ASSUME NEW r \in Request, Emit(r) PROVE HandlerInv'
  <2>1. pc' = [pc EXCEPT ![r] = "release"] /\ UNCHANGED <<outcome, answer>>
    BY <1>6 DEF Emit
  <2>2. \A q \in Request \ {r} : event'[q] = event[q]
    BY <1>6 DEF Emit, TypeOK
  <2> QED
    BY <2>1, <2>2, OthersKeep DEF TypeOK
<1>7. ASSUME NEW r \in Request, CopyChunk(r) \/ Sender(r) PROVE HandlerInv'
  <2>1. UNCHANGED <<pc, outcome, answer, event>>
    BY <1>7 DEF CopyChunk, Sender, SenderReads, SenderGrows, SenderFills, SenderStops,
                handlerVars, eventVars
  <2> QED
    BY <2>1, OthersKeep, <1>7 DEF HandlerInv
<1> QED
  BY <1>1, <1>2, <1>3, <1>4, <1>5, <1>6, <1>7 DEF Next, ServeHTTP

-----------------------------------------------------------------------------
(* The theorems. *)

\* The gateway starts with no request, no buffer and an empty pool.
LEMMA InitInv == Init => IInv
<1> SUFFICES ASSUME Init PROVE IInv
  OBVIOUS
<1>1. NoEvent \in [status : Status \cup {0}, req : Slice, res : Slice]
  BY NoBodyType DEF NoEvent
<1>2. TypeOK
  BY <1>1, ConstantsAssumption DEF Init, TypeOK, Slice, PC, Holding, Copying, Byte
<1>3. BuffersAreExclusive /\ HandlerInv
  BY DEF Init, BuffersAreExclusive, HandlerInv, Held, Holding, Copying, NoEvent
<1> QED
  BY <1>2, <1>3 DEF IInv

\* The three parts together are inductive.
LEMMA NextInv == IInv /\ [Next]_vars => IInv'
BY NextType, NextExclusive, NextHandler DEF IInv

\* The invariant of every behaviour.
THEOREM Invariance == Spec => []IInv
BY InitInv, NextInv, PTL DEF Spec

\* Every variable keeps its type, whatever the numbers of requests and buffers.
THEOREM TypeCorrect == Spec => []TypeOK
<1>1. IInv => TypeOK
  BY DEF IInv
<1> QED
  BY Invariance, <1>1, PTL

\* No path through Execute gives a buffer to two requests.
THEOREM BuffersExclusive == Spec => []BuffersAreExclusive
<1>1. IInv => BuffersAreExclusive
  BY DEF IInv
<1> QED
  BY Invariance, <1>1, PTL

\* A handler's step answers, records what it answered, or does neither.
LEMMA StepRefines == IInv /\ [Next]_vars => [Contract!Next]_(Contract!vars)
<1> SUFFICES ASSUME IInv, [Next]_vars PROVE [Contract!Next]_(Contract!vars)
  OBVIOUS
<1> DEFINE record == [r \in Request |-> event[r].status]
<1>0. TypeOK /\ HandlerInv
  BY DEF IInv
<1>1. ASSUME UNCHANGED <<answer, event>> PROVE UNCHANGED Contract!vars
  BY <1>1 DEF Contract!vars
<1>2. ASSUME NEW r \in Request, answer[r] = 0, NEW s \in Status,
             answer' = [answer EXCEPT ![r] = s], UNCHANGED event
      PROVE  Contract!Next
  BY <1>2 DEF Contract!Next, Contract!Answer
<1>3. ASSUME NEW r \in Request, answer[r] # 0, event[r].status = 0,
             UNCHANGED answer, NEW e, e.status = answer[r],
             event' = [event EXCEPT ![r] = e]
      PROVE  Contract!Next
  <2>1. record' = [record EXCEPT ![r] = answer[r]]
    BY <1>0, <1>3 DEF TypeOK
  <2> QED
    BY <1>3, <2>1 DEF Contract!Next, Contract!Record
<1>4. CASE UNCHANGED vars
  BY <1>1, <1>4 DEF vars
<1>5. ASSUME NEW r \in Request, Refuse(r) PROVE Contract!Next
  <2>1. PICK o \in Refusal : answer' = [answer EXCEPT ![r] = RefusalStatus(o)]
    BY <1>5 DEF Refuse, Refusal, RefusalStatus
  <2>2. RefusalStatus(o) \in Status
    BY Statuses DEF Refusal, RefusalStatus
  <2> QED
    BY <1>0, <1>2, <1>5, <2>1, <2>2 DEF Refuse, HandlerInv, eventVars
<1>6. ASSUME NEW r \in Request, EmitAuthFailure(r) PROVE Contract!Next
  <2>1. /\ outcome[r] \in Refusal /\ answer[r] = RefusalStatus(outcome[r])
        /\ event[r].status = 0
    BY <1>0, <1>6 DEF EmitAuthFailure, HandlerInv
  <2> DEFINE s == IF outcome[r] \in AuthError THEN MapErr(outcome[r])
                                              ELSE PlainStatus(outcome[r])
  <2>2. s = answer[r] /\ s # 0
    BY <2>1, Statuses DEF Refusal, RefusalStatus
  <2>3. event' = [event EXCEPT ![r] = [status |-> s, req |-> NoBody, res |-> NoBody]]
    BY <1>6 DEF EmitAuthFailure
  <2>4. UNCHANGED answer
    BY <1>6 DEF EmitAuthFailure
  <2> HIDE DEF s
  <2> QED
    BY <1>3, <2>1, <2>2, <2>3, <2>4
<1>7. ASSUME NEW r \in Request, BadRequest(r) \/ RoundTripFails(r) \/ RoundTripReturns(r)
      PROVE  Contract!Next
  <2>1. PICK o \in {"bad_request", "bad_gateway", "upstream"} :
          answer' = [answer EXCEPT ![r] = PlainStatus(o)]
    BY <1>7 DEF BadRequest, RoundTripFails, RoundTripReturns
  <2>2. PlainStatus(o) \in Status
    BY Statuses
  <2>3. answer[r] = 0 /\ UNCHANGED event
    BY <1>0, <1>7
    DEF BadRequest, RoundTripFails, RoundTripReturns, HandlerInv, eventVars
  <2> QED
    BY <1>2, <2>1, <2>2, <2>3
<1>8. ASSUME NEW r \in Request, Emit(r) PROVE Contract!Next
  <2>1. /\ outcome[r] \in {"bad_request", "bad_gateway", "upstream"}
        /\ answer[r] = PlainStatus(outcome[r]) /\ event[r].status = 0
    BY <1>0, <1>8 DEF Emit, HandlerInv
  <2>2. answer[r] # 0
    BY <2>1, Statuses
  <2> DEFINE e == [status |-> PlainStatus(outcome[r]),
                   req    |-> NormalizedBody(reqBuf[r]),
                   res    |-> NormalizedBody(resBuf[r])]
  <2>3. event' = [event EXCEPT ![r] = e] /\ UNCHANGED answer
    BY <1>8 DEF Emit
  <2>4. e.status = answer[r]
    BY <2>1
  <2> HIDE DEF e
  <2> QED
    BY <1>3, <2>1, <2>2, <2>3, <2>4
<1>9. ASSUME NEW r \in Request,
             \/ Forward(r) \/ CopyChunk(r) \/ EndCopy(r) \/ Release(r)
             \/ Sender(r) \/ CloseBody(r)
      PROVE  UNCHANGED Contract!vars
  BY <1>1, <1>9
  DEF Forward, CopyChunk, EndCopy, Release, Sender, SenderReads, SenderGrows,
      SenderFills, SenderStops, CloseBody, handlerVars, eventVars
<1> QED
  BY <1>4, <1>5, <1>6, <1>7, <1>8, <1>9 DEF Next, ServeHTTP

\* The gateway implements RequestContract: every request is answered at most
\* once and its event, offered at most once, has the status of the answer.
THEOREM RefinesContract == Spec => RecordedIsAnswered
<1>1. Init => Contract!Init
  BY DEF Init, Contract!Init, NoEvent
<1> QED
  BY Invariance, StepRefines, <1>1, PTL DEF Spec, RecordedIsAnswered, Contract!Spec

-----------------------------------------------------------------------------
(* The bytes of an event. *)

LateIn(b) == \E s \in late : reqBuf[s] = b

Cause(r) == r \in raced \/ \E s \in late \ {r} : reqBuf[s] \in {reqBuf[r], resBuf[r]}

\* Only a late sender writes into a buffer that nobody holds.
FreeInv ==
  /\ \A s \in late : Released(s)
  /\ \A r \in Request : sender[r] # "none" => pc[r] \notin {"new", "reject"}
  /\ \A b \in 1..MaxBuffers :
       (b \in pool \/ b > made) /\ len[b] > 0 => LateIn(b)

\* A held buffer has bytes of its holder, unless a late sender has been at it or
\* the holder's sender has not filled a byte yet.
HeldInv ==
  \A r \in Request : \A b \in Held(r) : \A i \in 1..len[b] :
    \/ mem[b][i] \in {r, NoByte}
    \/ LateIn(b)
    \/ b = reqBuf[r] /\ sender[r] = "fill" /\ at[r] = i

Clean(r, slice) ==
  \/ slice.val = <<>>
  \/ slice.buf = 0 /\ (Cause(r) \/ \A i \in 1..Len(slice.val) : slice.val[i] \in {r, NoByte})

\* An event is built from buffers its request still holds.
EventInv ==
  \A r \in Request :
    /\ pc[r] \in {"new", "reject", "trip", "stream", "sized", "emit"} => event[r] = NoEvent
    /\ Clean(r, event[r].req) /\ Clean(r, event[r].res)

ByteInv == FreeInv /\ HeldInv /\ EventInv

\* Buffers keep to their holders when nothing is taken, released or written.
LEMMA SameBytes ==
  ASSUME TypeOK, ByteInv, UNCHANGED <<event, reqBuf, resBuf, pool, made, mem, len, at, late, raced>>,
         \A q \in Request :
           /\ pc'[q] \in Holding => pc[q] \in Holding
           /\ Released(q) => pc'[q] \in {"done", "closed"}
           /\ pc'[q] \in {"new", "reject"} => pc[q] \in {"new", "reject"}
           /\ pc'[q] \in {"new", "reject", "trip", "stream", "sized", "emit"} =>
                pc[q] \in {"new", "reject", "trip", "stream", "sized", "emit"}
           /\ sender'[q] = "none" <=> sender[q] = "none"
           /\ sender[q] = "fill" => sender'[q] = "fill"
  PROVE  ByteInv'
<1>1. \A b : LateIn(b)' <=> LateIn(b)
  BY DEF LateIn
<1>2. \A r \in Request : Held(r)' \subseteq Held(r)
  BY DEF Held
<1>3. FreeInv'
  BY <1>1 DEF ByteInv, FreeInv, Released, TypeOK
<1>4. HeldInv'
  BY <1>1, <1>2 DEF ByteInv, HeldInv
<1>5. EventInv'
  BY DEF ByteInv, EventInv, Clean, Cause
<1> QED
  BY <1>3, <1>4, <1>5 DEF ByteInv

\* Taking buffers: what another request left in them came from a late sender.
LEMMA TakeBytes ==
  ASSUME TypeOK, BuffersAreExclusive, ByteInv,
         NEW r \in Request, TakeBuffers(r), pc[r] = "new",
         NEW p \in {"trip", "emit"}, pc' = [pc EXCEPT ![r] = p],
         \A q \in Request \ {r} : sender'[q] = sender[q],
         UNCHANGED <<event, mem, len, at, late, raced>>
  PROVE  ByteInv'
<1>1. PICK b, c \in 1..made' : Taken(r, b, c)
  BY TakeBuffersEffect
<1>2. \A q \in Request \ {r} : /\ reqBuf'[q] = reqBuf[q] /\ resBuf'[q] = resBuf[q]
                               /\ pc'[q] = pc[q]
  BY <1>1 DEF Taken, TypeOK
<1>3. r \notin late
  BY DEF ByteInv, FreeInv, Released
<1>4. \A d : LateIn(d)' <=> LateIn(d)
  BY <1>2, <1>3 DEF LateIn, TypeOK
<1>5. reqBuf'[r] = b /\ resBuf'[r] = c /\ pc'[r] = p
  BY <1>1 DEF Taken, TypeOK
<1>6. b \in 1..MaxBuffers /\ c \in 1..MaxBuffers
  BY <1>1, ConstantsAssumption DEF Taken
<1>7. FreeInv'
  <2>1. \A s \in late' : Released(s)'
    BY <1>2, <1>3 DEF ByteInv, FreeInv, Released, TypeOK
  <2>2. \A q \in Request : sender'[q] # "none" => pc'[q] \notin {"new", "reject"}
    BY <1>2, <1>5 DEF ByteInv, FreeInv
  <2>3. \A d \in 1..MaxBuffers : (d \in pool' \/ d > made') => (d \in pool \/ d > made)
    BY <1>1, ConstantsAssumption DEF Taken, TypeOK
  <2> QED
    BY <1>4, <2>1, <2>2, <2>3 DEF ByteInv, FreeInv
<1>8. HeldInv'
  <2> SUFFICES ASSUME NEW q \in Request, NEW d \in Held(q)', NEW i \in 1..len'[d]
               PROVE  \/ mem'[d][i] \in {q, NoByte}
                      \/ LateIn(d)'
                      \/ d = reqBuf'[q] /\ sender'[q] = "fill" /\ at'[q] = i
    BY DEF HeldInv
  <2>1. CASE q = r
    <3>1. d \in {b, c}
      BY <1>5, <2>1 DEF Held
    <3>2. d \in 1..MaxBuffers /\ (d \in pool \/ d > made)
      BY <1>1, <1>6, <3>1 DEF Taken
    <3>3. len[d] > 0
      <4>1. len[d] \in Nat
        BY <3>2, ConstantsAssumption DEF TypeOK
      <4>2. i \in 1..len[d]
        OBVIOUS
      <4> QED
        BY <4>1, <4>2
    <3> QED
      BY <1>4, <3>2, <3>3 DEF ByteInv, FreeInv
  <2>2. CASE q # r
    <3>1. d \in Held(q)
      BY <1>2, <2>2 DEF Held
    <3> QED
      BY <1>2, <1>4, <2>2, <3>1 DEF ByteInv, HeldInv
  <2> QED
    BY <2>1, <2>2
<1>9. EventInv'
  <2> SUFFICES ASSUME NEW q \in Request
               PROVE  /\ pc'[q] \in {"new", "reject", "trip", "stream", "sized", "emit"}
                           => event'[q] = NoEvent
                      /\ Clean(q, event[q].req)' /\ Clean(q, event[q].res)'
    BY DEF EventInv
  <2>1. CASE q = r
    BY <2>1 DEF ByteInv, EventInv, Clean, NoEvent, NoBody, Own
  <2>2. CASE q # r
    <3>1. Cause(q) => Cause(q)'
      BY <1>2, <1>3, <2>2 DEF Cause, TypeOK
    <3> QED
      BY <1>2, <2>2, <3>1 DEF ByteInv, EventInv, Clean
  <2> QED
    BY <2>1, <2>2
<1> QED
  BY <1>7, <1>8, <1>9 DEF ByteInv

\* An event is built, and its handler will not touch its buffers again.
LEMMA EventBytes ==
  ASSUME TypeOK, ByteInv, NEW r \in Request, NEW e,
         event' = [event EXCEPT ![r] = e],
         NEW p \in {"done", "release"}, pc' = [pc EXCEPT ![r] = p],
         p = "release" <=> pc[r] \in Holding, ~Released(r),
         UNCHANGED <<reqBuf, resBuf, pool, made, mem, len, sender, at, late>>,
         raced \subseteq raced',
         Clean(r, e.req)', Clean(r, e.res)'
  PROVE  ByteInv'
<1>1. \A b : LateIn(b)' <=> LateIn(b)
  BY DEF LateIn
<1>2. \A q \in Request : Held(q)' \subseteq Held(q)
  BY DEF Held, TypeOK, Holding, Copying
<1>3. FreeInv'
  BY <1>1 DEF ByteInv, FreeInv, Released, TypeOK
<1>4. HeldInv'
  BY <1>1, <1>2 DEF ByteInv, HeldInv
<1>5. EventInv'
  <2> SUFFICES ASSUME NEW q \in Request
               PROVE  /\ pc'[q] \in {"new", "reject", "trip", "stream", "sized", "emit"}
                           => event'[q] = NoEvent
                      /\ Clean(q, event[q].req)' /\ Clean(q, event[q].res)'
    BY DEF EventInv
  <2>1. CASE q = r
    <3>1. event'[q] = e /\ pc'[q] = p
      BY <2>1 DEF TypeOK
    <3> QED
      BY <2>1, <3>1 DEF Clean, Cause
  <2>2. CASE q # r
    <3>1. event'[q] = event[q] /\ pc'[q] = pc[q] /\ (Cause(q) => Cause(q)')
      BY <2>2 DEF TypeOK, Cause
    <3> QED
      BY <3>1 DEF ByteInv, EventInv, Clean
  <2> QED
    BY <2>1, <2>2
<1> QED
  BY <1>3, <1>4, <1>5 DEF ByteInv

\* emit: the bytes are those of a held buffer.
LEMMA EmitBytes ==
  TypeOK /\ ByteInv /\ (\E r \in Request : Emit(r)) => ByteInv'
<1> SUFFICES ASSUME TypeOK, ByteInv, NEW r \in Request, Emit(r) PROVE ByteInv'
  OBVIOUS
<1>1. UNCHANGED <<reqBuf, resBuf, pool, made, mem, len, sender, at, late>>
  BY DEF Emit, holdVars, senderVars
<1>2. Held(r) = {reqBuf[r], resBuf[r]} /\ ~Released(r) /\ pc[r] \in Holding
  BY DEF Emit, Held, Holding, Released
<1>3. r \notin late
  BY <1>2 DEF ByteInv, FreeInv
<1>4. raced \subseteq raced' /\ (sender[r] = "fill" => r \in raced')
  BY DEF Emit
<1>5. ASSUME NEW b \in Held(r), NEW slice, slice = NormalizedBody(b)
      PROVE  Clean(r, slice)'
  <2>1. b \in 1..MaxBuffers
    BY <1>2, <1>5, ConstantsAssumption DEF TypeOK
  <2>2. CASE len[b] = 0
    BY <1>5, <2>2 DEF NormalizedBody, Clean
  <2>3. CASE len[b] # 0
    <3> DEFINE s == Content(b)
    <3>1. slice.buf = 0 /\ slice.val = s
      BY <1>5, <2>3 DEF NormalizedBody, Own
    <3>2. Cause(r)' \/ \A i \in 1..len[b] : mem[b][i] \in {r, NoByte}
      <4>1. LateIn(b) \/ sender[r] = "fill" \/ \A i \in 1..len[b] : mem[b][i] \in {r, NoByte}
        BY <1>5 DEF ByteInv, HeldInv
      <4>2. LateIn(b) => Cause(r)'
        BY <1>1, <1>2, <1>3, <1>5 DEF LateIn, Cause
      <4> QED
        BY <1>4, <4>1, <4>2 DEF Cause
    <3>3. Len(s) = len[b] /\ \A i \in 1..len[b] : s[i] = mem[b][i]
      BY <2>1, ContentType
    <3>4. \A i \in 1..Len(slice.val) : slice.val[i] = mem[b][i]
      BY <3>1, <3>3
    <3>5. Len(slice.val) = len[b]
      BY <3>1, <3>3
    <3> HIDE DEF s
    <3>6. Cause(r)' \/ \A i \in 1..Len(slice.val) : slice.val[i] \in {r, NoByte}
      BY <3>2, <3>4, <3>5
    <3> QED
      BY <3>1, <3>6 DEF Clean
  <2> QED
    BY <2>2, <2>3
<1>6. PICK req, res, e :
        /\ req = NormalizedBody(reqBuf[r]) /\ res = NormalizedBody(resBuf[r])
        /\ e.req = req /\ e.res = res
        /\ event' = [event EXCEPT ![r] = e]
  <2>1. event' = [event EXCEPT ![r] =
                    [status |-> PlainStatus(outcome[r]),
                     req    |-> NormalizedBody(reqBuf[r]),
                     res    |-> NormalizedBody(resBuf[r])]]
    BY DEF Emit
  <2> HIDE DEF Emit
  <2> QED
    BY <2>1
<1>7. pc' = [pc EXCEPT ![r] = "release"]
  BY DEF Emit
<1>8. Clean(r, req)' /\ Clean(r, res)'
  BY <1>2, <1>5, <1>6
<1>9. Clean(r, e.req)' /\ Clean(r, e.res)'
  BY <1>6, <1>8
<1> QED
  BY <1>1, <1>2, <1>4, <1>6, <1>7, <1>9, EventBytes

\* The deferred calls empty the buffers before anybody else can have them.
LEMMA ReleaseBytes ==
  TypeOK /\ BuffersAreExclusive /\ ByteInv /\ (\E r \in Request : Release(r)) => ByteInv'
<1> SUFFICES ASSUME TypeOK, BuffersAreExclusive, ByteInv, NEW r \in Request, Release(r)
             PROVE  ByteInv'
  OBVIOUS
<1>1. UNCHANGED <<event, reqBuf, resBuf, made, mem, sender, at, late, raced>>
  BY DEF Release, eventVars, senderVars
<1>2. pc[r] = "release" /\ pc' = [pc EXCEPT ![r] = "done"]
  BY DEF Release
<1>3. Held(r) = {reqBuf[r], resBuf[r]} /\ pool' = pool \cup Held(r)
  BY DEF Release, Held, Holding
<1>4. \A d \in 1..MaxBuffers : len'[d] = IF d \in Held(r) THEN 0 ELSE len[d]
  <2>1. len' = [[len EXCEPT ![reqBuf[r]] = 0] EXCEPT ![resBuf[r]] = 0]
    BY DEF Release
  <2> QED
    BY <1>3, <2>1 DEF TypeOK
<1>5. \A b : LateIn(b)' <=> LateIn(b)
  BY <1>1 DEF LateIn
<1>6. ASSUME NEW q \in Request
      PROVE  Held(q)' \subseteq Held(q) /\ Held(q) \subseteq 1..MaxBuffers
  <2>1. pc'[q] \in Holding => pc[q] \in Holding
    BY <1>2 DEF TypeOK, Holding, Copying
  <2>2. Held(q)' \subseteq Held(q)
    BY <1>1, <2>1 DEF Held
  <2>3. Held(q) \subseteq 1..made
    BY DEF Held, TypeOK
  <2>4. made \in Nat /\ made <= MaxBuffers
    BY ConstantsAssumption DEF TypeOK
  <2> QED
    BY <2>2, <2>3, <2>4, ConstantsAssumption
<1>7. Held(r)' = {}
  BY <1>2 DEF Held, TypeOK, Holding, Copying
<1>8. FreeInv'
  <2>1. \A d \in 1..MaxBuffers :
          (d \in pool' \/ d > made') /\ len'[d] > 0 => (d \in pool \/ d > made) /\ len[d] > 0
    BY <1>1, <1>3, <1>4
  <2> QED
    BY <1>1, <1>2, <1>5, <2>1 DEF ByteInv, FreeInv, Released, TypeOK
<1>9. HeldInv'
  <2> SUFFICES ASSUME NEW q \in Request, NEW d \in Held(q)', NEW i \in 1..len'[d]
               PROVE  \/ mem'[d][i] \in {q, NoByte}
                      \/ LateIn(d)'
                      \/ d = reqBuf'[q] /\ sender'[q] = "fill" /\ at'[q] = i
    BY DEF HeldInv
  <2>1. q # r /\ d \in Held(q) /\ d \in 1..MaxBuffers
    BY <1>6, <1>7
  <2>2. len'[d] = len[d]
    BY <1>4, <2>1 DEF BuffersAreExclusive
  <2> QED
    BY <1>1, <1>5, <2>1, <2>2 DEF ByteInv, HeldInv
<1>10. EventInv'
  BY <1>1, <1>2 DEF ByteInv, EventInv, Clean, Cause, TypeOK
<1> QED
  BY <1>8, <1>9, <1>10 DEF ByteInv

\* A write to the buffer b at i, by its holder or by a late sender; the rest of
\* the memory and the handlers stay as they are.
LEMMA WriteBytes ==
  ASSUME TypeOK, BuffersAreExclusive, ByteInv,
         NEW w \in Request, NEW b \in 1..MaxBuffers,
         b \in Held(w) \/ (w \in late' /\ reqBuf[w] = b),
         UNCHANGED <<pc, event, reqBuf, resBuf, pool, made, raced>>,
         b \in Held(w) => late' = late,
         late \subseteq late', late' \subseteq late \cup {w},
         \A s \in late' : Released(s),
         \A q \in Request : sender'[q] = "none" <=> sender[q] = "none",
         \A q \in Request \ {w} : sender'[q] = sender[q] /\ at'[q] = at[q],
         \A d \in (1..MaxBuffers) \ {b} : mem'[d] = mem[d] /\ len'[d] = len[d],
         b \in Held(w) =>
           \A i \in 1..len'[b] :
             \/ mem'[b][i] \in {w, NoByte}
             \/ LateIn(b)
             \/ b = reqBuf[w] /\ sender'[w] = "fill" /\ at'[w] = i,
         b # reqBuf[w] => sender'[w] = sender[w] /\ at'[w] = at[w]
  PROVE  ByteInv'
<1>1. \A d : LateIn(d) => LateIn(d)'
  BY DEF LateIn
<1>2. \A q \in Request : Held(q)' = Held(q) /\ Held(q) \subseteq 1..MaxBuffers
  <2>1. \A q \in Request : Held(q) \subseteq 1..made
    BY DEF Held, TypeOK
  <2>2. made \in Nat /\ made <= MaxBuffers
    BY ConstantsAssumption DEF TypeOK
  <2>3. \A q \in Request : Held(q)' = Held(q)
    BY DEF Held
  <2> QED
    BY <2>1, <2>2, <2>3, ConstantsAssumption
<1>3. b \in Held(w) \/ LateIn(b)'
  BY DEF LateIn
<1>4. FreeInv'
  <2>1. ASSUME NEW d \in 1..MaxBuffers, d \in pool' \/ d > made', len'[d] > 0
        PROVE  LateIn(d)'
    <3>1. CASE d = b
      <4>1. b \notin Held(w)
        <5>1. Held(w) \subseteq 1..made /\ Held(w) \cap pool = {}
          BY DEF Held, TypeOK, BuffersAreExclusive
        <5>2. \A x \in 1..made : ~(x > made)
          BY ConstantsAssumption DEF TypeOK
        <5> QED
          BY <2>1, <3>1, <5>1, <5>2
      <4> QED
        BY <1>3, <3>1, <4>1
    <3>2. CASE d # b
      BY <1>1, <2>1, <3>2 DEF ByteInv, FreeInv
    <3> QED
      BY <3>1, <3>2
  <2>2. \A s \in late' : Released(s)'
    BY DEF Released
  <2>3. \A q \in Request : sender'[q] # "none" => pc'[q] \notin {"new", "reject"}
    BY DEF ByteInv, FreeInv
  <2> QED
    BY <2>1, <2>2, <2>3 DEF FreeInv
<1>5. HeldInv'
  <2> SUFFICES ASSUME NEW q \in Request, NEW d \in Held(q)', NEW i \in 1..len'[d]
               PROVE  \/ mem'[d][i] \in {q, NoByte}
                      \/ LateIn(d)'
                      \/ d = reqBuf'[q] /\ sender'[q] = "fill" /\ at'[q] = i
    BY DEF HeldInv
  <2>1. d \in Held(q) /\ d \in 1..MaxBuffers
    BY <1>2
  <2>2. CASE d = b
    <3>1. CASE b \in Held(w)
      <4>1. q = w
        BY <2>1, <2>2, <3>1 DEF BuffersAreExclusive
      <4> QED
        BY <1>1, <2>2, <3>1, <4>1
    <3>2. CASE b \notin Held(w)
      BY <1>3, <2>2, <3>2
    <3> QED
      BY <3>1, <3>2
  <2>3. CASE d # b
    <3>1. \/ mem[d][i] \in {q, NoByte}
          \/ LateIn(d)
          \/ d = reqBuf[q] /\ sender[q] = "fill" /\ at[q] = i
      BY <2>1, <2>3 DEF ByteInv, HeldInv
    <3>2. mem'[d][i] = mem[d][i]
      BY <2>1, <2>3
    <3>3. d = reqBuf[q] => sender'[q] = sender[q] /\ at'[q] = at[q]
      BY <2>3
    <3> QED
      BY <1>1, <3>1, <3>2, <3>3
  <2> QED
    BY <2>2, <2>3
<1>6. EventInv'
  <2>1. \A q \in Request : Cause(q) => Cause(q)'
    BY DEF Cause
  <2> QED
    BY <2>1 DEF ByteInv, EventInv, Clean
<1> QED
  BY <1>4, <1>5, <1>6 DEF ByteInv

\* The handler captures a part of the response.
LEMMA CopyBytes ==
  TypeOK /\ BuffersAreExclusive /\ ByteInv /\ (\E r \in Request : CopyChunk(r)) => ByteInv'
<1> SUFFICES ASSUME TypeOK, BuffersAreExclusive, ByteInv, NEW r \in Request, CopyChunk(r)
             PROVE  ByteInv'
  OBVIOUS
<1> DEFINE b == resBuf[r]
<1>1. /\ UNCHANGED <<pc, event, reqBuf, resBuf, pool, made, raced, sender, at, late>>
      /\ len' = [len EXCEPT ![b] = len[b] + 1]
      /\ mem' = [mem EXCEPT ![b] = [mem[b] EXCEPT ![len[b] + 1] = r]]
  BY DEF CopyChunk, handlerVars, eventVars, holdVars, senderVars
<1>2. Held(r) = {reqBuf[r], b} /\ b # reqBuf[r] /\ b \in 1..MaxBuffers
  BY ConstantsAssumption DEF CopyChunk, Held, Holding, TypeOK
<1>3. len[b] \in Nat /\ len[b] < BodyCap
  BY <1>2, ConstantsAssumption DEF CopyChunk, TypeOK
<1>4. b \in Held(r) /\ \A s \in late : Released(s)
  BY <1>2 DEF ByteInv, FreeInv
<1>5. \A d \in (1..MaxBuffers) \ {b} : mem'[d] = mem[d] /\ len'[d] = len[d]
  BY <1>1 DEF TypeOK
<1>6. Held(r) \cap {reqBuf[r], b} = Held(r)
  BY <1>2
<1>7. ASSUME NEW i \in 1..len'[b]
      PROVE  mem'[b][i] \in {r, NoByte} \/ LateIn(b)
  <2>1. len'[b] = len[b] + 1
    BY <1>1, <1>2 DEF TypeOK
  <2>2. CASE i = len[b] + 1
    BY <1>1, <1>2, <1>3, <2>2, ConstantsAssumption DEF TypeOK
  <2>3. CASE i \in 1..len[b]
    <3>1. mem'[b][i] = mem[b][i]
      BY <1>1, <1>2, <1>3, <2>3, ConstantsAssumption DEF TypeOK
    <3> QED
      BY <1>2, <1>4, <2>3, <3>1 DEF ByteInv, HeldInv
  <2> QED
    BY <1>3, <2>1, <2>2, <2>3
<1> HIDE DEF b
<1>8. UNCHANGED <<pc, event, reqBuf, resBuf, pool, made, raced>>
  BY <1>1
<1>9. UNCHANGED <<sender, at, late>>
  BY <1>1
<1>10. b \in 1..MaxBuffers
  BY <1>2
<1> QED
  BY <1>2, <1>4, <1>5, <1>7, <1>8, <1>9, <1>10, WriteBytes

\* A sender reserves a byte: the bytes before it stay.
LEMMA GrowBytes ==
  TypeOK /\ BuffersAreExclusive /\ ByteInv /\ (\E r \in Request : SenderGrows(r)) => ByteInv'
<1> SUFFICES ASSUME TypeOK, BuffersAreExclusive, ByteInv,
                    NEW r \in Request, SenderGrows(r)
             PROVE  ByteInv'
  OBVIOUS
<1> DEFINE b == reqBuf[r]
<1>1. UNCHANGED <<pc, event, reqBuf, resBuf, pool, made, raced, mem>>
  BY DEF SenderGrows, handlerVars, eventVars, holdVars
<1>2. sender[r] = "grow" /\ b \in 1..MaxBuffers
  BY ConstantsAssumption DEF SenderGrows, TypeOK
<1>3. pc[r] \in Holding \/ Released(r)
  BY <1>2 DEF ByteInv, FreeInv, TypeOK, PC, Released
<1>4. (b \in Held(r) <=> pc[r] \in Holding) /\ ~(pc[r] \in Holding /\ Released(r))
  BY DEF Held, Holding, Copying, Released
<1>5. len[b] \in Nat
  BY <1>2, ConstantsAssumption DEF TypeOK
<1>6. CASE len[b] < BodyCap
  <2>1. /\ len' = [len EXCEPT ![b] = len[b] + 1]
        /\ at' = [at EXCEPT ![r] = len[b] + 1]
        /\ sender' = [sender EXCEPT ![r] = "fill"]
        /\ late' = IF Released(r) THEN late \cup {r} ELSE late
    BY <1>6 DEF SenderGrows
  <2>2. /\ b \in Held(r) => late' = late
        /\ late \subseteq late' /\ late' \subseteq late \cup {r}
        /\ b \in Held(r) \/ r \in late'
        /\ \A s \in late' : Released(s)
    BY <1>3, <1>4, <2>1 DEF ByteInv, FreeInv
  <2>3. /\ \A q \in Request : sender'[q] = "none" <=> sender[q] = "none"
        /\ \A q \in Request \ {r} : sender'[q] = sender[q] /\ at'[q] = at[q]
        /\ sender'[r] = "fill" /\ at'[r] = len[b] + 1
    BY <1>2, <2>1 DEF TypeOK
  <2>4. /\ \A d \in (1..MaxBuffers) \ {b} : mem'[d] = mem[d] /\ len'[d] = len[d]
        /\ len'[b] = len[b] + 1
    BY <1>1, <1>2, <2>1 DEF TypeOK
  <2>5. ASSUME b \in Held(r), NEW i \in 1..len'[b]
        PROVE  mem'[b][i] \in {r, NoByte} \/ LateIn(b) \/ at'[r] = i
    <3>1. CASE i = len[b] + 1
      BY <2>3, <3>1
    <3>2. CASE i \in 1..len[b]
      BY <1>1, <1>2, <2>5, <3>2 DEF ByteInv, HeldInv
    <3> QED
      BY <1>5, <2>4, <3>1, <3>2
  <2>6. b = reqBuf[r]
    OBVIOUS
  <2> HIDE DEF b
  <2> QED
    BY <1>1, <1>2, <2>2, <2>3, <2>4, <2>5, <2>6, WriteBytes
<1>7. CASE ~(len[b] < BodyCap)
  <2>1. sender' = [sender EXCEPT ![r] = "read"] /\ UNCHANGED <<len, at, late>>
    BY <1>7 DEF SenderGrows
  <2>2. \A q \in Request :
          /\ sender'[q] = "none" <=> sender[q] = "none"
          /\ sender[q] = "fill" => sender'[q] = "fill"
    BY <1>2, <2>1 DEF TypeOK
  <2>3. \A q \in Request : pc'[q] = pc[q]
    BY <1>1
  <2>4. \A q \in Request : Released(q) => pc'[q] \in {"done", "closed"}
    BY <2>3 DEF Released
  <2> QED
    BY <1>1, <2>1, <2>2, <2>3, <2>4, SameBytes
<1> QED
  BY <1>6, <1>7

\* A sender fills a byte: from now on it is late, or the byte is its holder's.
LEMMA FillBytes ==
  TypeOK /\ BuffersAreExclusive /\ ByteInv /\ (\E r \in Request : SenderFills(r)) => ByteInv'
<1> SUFFICES ASSUME TypeOK, BuffersAreExclusive, ByteInv,
                    NEW r \in Request, SenderFills(r)
             PROVE  ByteInv'
  OBVIOUS
<1> DEFINE b == reqBuf[r]
<1>1. UNCHANGED <<pc, event, reqBuf, resBuf, pool, made, raced, len>>
  BY DEF SenderFills, handlerVars, eventVars, holdVars
<1>2. sender[r] = "fill" /\ b \in 1..MaxBuffers /\ at[r] \in 1..BodyCap
  BY ConstantsAssumption DEF SenderFills, TypeOK
<1>3. pc[r] \in Holding \/ Released(r)
  BY <1>2 DEF ByteInv, FreeInv, TypeOK, PC, Released
<1>4. (b \in Held(r) <=> pc[r] \in Holding) /\ ~(pc[r] \in Holding /\ Released(r))
  BY DEF Held, Holding, Copying, Released
<1>5. /\ mem' = [mem EXCEPT ![b] = [mem[b] EXCEPT ![at[r]] = r]]
      /\ at' = [at EXCEPT ![r] = 0]
      /\ sender' = [sender EXCEPT ![r] = "read"]
      /\ late' = IF Released(r) THEN late \cup {r} ELSE late
  BY DEF SenderFills
<1>6. /\ b \in Held(r) => late' = late
      /\ late \subseteq late' /\ late' \subseteq late \cup {r}
      /\ b \in Held(r) \/ r \in late'
      /\ \A s \in late' : Released(s)
  BY <1>3, <1>4, <1>5 DEF ByteInv, FreeInv
<1>7. /\ \A q \in Request : sender'[q] = "none" <=> sender[q] = "none"
      /\ \A q \in Request \ {r} : sender'[q] = sender[q] /\ at'[q] = at[q]
  BY <1>2, <1>5 DEF TypeOK
<1>8. \A d \in (1..MaxBuffers) \ {b} : mem'[d] = mem[d] /\ len'[d] = len[d]
  BY <1>1, <1>5 DEF TypeOK
<1>9. ASSUME b \in Held(r), NEW i \in 1..len'[b]
      PROVE  mem'[b][i] \in {r, NoByte} \/ LateIn(b)
  <2>1. i \in 1..len[b] /\ i \in 1..BodyCap
    <3>1. len[b] \in 0..BodyCap /\ len'[b] = len[b]
      BY <1>1, <1>2 DEF TypeOK
    <3> QED
      BY <3>1, ConstantsAssumption
  <2>2. mem'[b] = [mem[b] EXCEPT ![at[r]] = r]
    BY <1>2, <1>5 DEF TypeOK
  <2>3. CASE i = at[r]
    BY <1>2, <2>1, <2>2, <2>3 DEF TypeOK
  <2>4. CASE i # at[r]
    <3>1. mem'[b][i] = mem[b][i]
      BY <1>2, <2>1, <2>2, <2>4 DEF TypeOK
    <3> QED
      BY <1>9, <2>1, <2>4, <3>1 DEF ByteInv, HeldInv
  <2> QED
    BY <2>3, <2>4
<1>10. b = reqBuf[r]
  OBVIOUS
<1> HIDE DEF b
<1> QED
  BY <1>1, <1>2, <1>6, <1>7, <1>8, <1>9, <1>10, WriteBytes

\* Every action keeps the account of whose bytes buffers and events hold.
LEMMA NextBytes ==
  TypeOK /\ BuffersAreExclusive /\ ByteInv /\ [Next]_vars => ByteInv'
<1> SUFFICES ASSUME TypeOK, BuffersAreExclusive, ByteInv, [Next]_vars PROVE ByteInv'
  OBVIOUS
<1>1. CASE UNCHANGED vars
  BY <1>1, SameBytes DEF vars, Released
<1>2. ASSUME NEW r \in Request,
             \/ Refuse(r) \/ RoundTripFails(r) \/ RoundTripReturns(r) \/ EndCopy(r)
             \/ CloseBody(r)
      PROVE  ByteInv'
  <2>1. UNCHANGED <<event, reqBuf, resBuf, pool, made, mem, len, at, late, raced, sender>>
    BY <1>2 DEF Refuse, RoundTripFails, RoundTripReturns, EndCopy, CloseBody,
                eventVars, holdVars, senderVars
  <2>2. PICK p : /\ pc' = [pc EXCEPT ![r] = p]
                 /\ \/ pc[r] = "new" /\ p = "reject"
                    \/ pc[r] = "trip" /\ p \in {"emit", "stream", "sized"}
                    \/ pc[r] \in {"stream", "sized"} /\ p = "emit"
                    \/ pc[r] = "done" /\ p = "closed"
    BY <1>2 DEF Refuse, RoundTripFails, RoundTripReturns, EndCopy, CloseBody, Copying
  <2>3. \A q \in Request :
          /\ pc'[q] \in Holding => pc[q] \in Holding
          /\ Released(q) => pc'[q] \in {"done", "closed"}
          /\ pc'[q] \in {"new", "reject"} => pc[q] \in {"new", "reject"}
          /\ pc'[q] \in {"new", "reject", "trip", "stream", "sized", "emit"} =>
               pc[q] \in {"new", "reject", "trip", "stream", "sized", "emit"}
    BY <2>2 DEF TypeOK, Holding, Copying, Released
  <2> QED
    BY <2>1, <2>3, SameBytes
<1>3. ASSUME NEW r \in Request, EmitAuthFailure(r) PROVE ByteInv'
  <2>1. PICK e : e.req = NoBody /\ e.res = NoBody /\ event' = [event EXCEPT ![r] = e]
    <3> DEFINE e == [status |-> IF outcome[r] \in AuthError THEN MapErr(outcome[r])
                                                            ELSE PlainStatus(outcome[r]),
                     req |-> NoBody, res |-> NoBody]
    <3>1. e.req = NoBody /\ e.res = NoBody /\ event' = [event EXCEPT ![r] = e]
      BY <1>3 DEF EmitAuthFailure
    <3> HIDE DEF e
    <3> QED
      BY <3>1
  <2>2. Clean(r, e.req)' /\ Clean(r, e.res)'
    BY <2>1 DEF Clean, NoBody, Own
  <2>3. /\ pc' = [pc EXCEPT ![r] = "done"] /\ pc[r] \notin Holding /\ ~Released(r)
        /\ UNCHANGED <<reqBuf, resBuf, pool, made, mem, len, sender, at, late, raced>>
    BY <1>3 DEF EmitAuthFailure, Holding, Copying, Released, holdVars, senderVars
  <2> QED
    BY <2>1, <2>2, <2>3, EventBytes
<1>4. ASSUME NEW r \in Request, BadRequest(r) \/ Forward(r) PROVE ByteInv'
  <2>1. PICK p \in {"trip", "emit"} : pc' = [pc EXCEPT ![r] = p]
    BY <1>4 DEF BadRequest, Forward
  <2>2. /\ TakeBuffers(r) /\ pc[r] = "new"
        /\ UNCHANGED <<event, mem, len, at, late, raced>>
    BY <1>4 DEF BadRequest, Forward, eventVars, senderVars
  <2>3. \A q \in Request \ {r} : sender'[q] = sender[q]
    BY <1>4 DEF BadRequest, Forward, senderVars, TypeOK
  <2> QED
    BY <2>1, <2>2, <2>3, TakeBytes
<1>5. ASSUME NEW r \in Request, SenderReads(r) \/ SenderStops(r) PROVE ByteInv'
  <2>1. UNCHANGED <<event, reqBuf, resBuf, pool, made, mem, len, at, late, raced, pc>>
    BY <1>5 DEF SenderReads, SenderStops, handlerVars, eventVars, holdVars
  <2>2. \A q \in Request :
          /\ sender'[q] = "none" <=> sender[q] = "none"
          /\ sender[q] = "fill" => sender'[q] = "fill"
    BY <1>5 DEF SenderReads, SenderStops, TypeOK
  <2>3. \A q \in Request : Released(q) => pc'[q] \in {"done", "closed"}
    BY <2>1 DEF Released
  <2> QED
    BY <2>1, <2>2, <2>3, SameBytes
<1> QED
  BY <1>1, <1>2, <1>3, <1>4, <1>5, EmitBytes, ReleaseBytes, CopyBytes, GrowBytes,
     FillBytes DEF Next, ServeHTTP, Sender

\* The bytes of other requests get into an event only by way of a sender that
\* outlived its handler, or by a torn read of this request's own buffer.
THEOREM ForeignBytesExplained == Spec => []ForeignBytesHaveACause
<1>1. Init => ByteInv
  BY ConstantsAssumption
  DEF Init, ByteInv, FreeInv, HeldInv, EventInv, Held, Holding, Copying, Clean,
      NoEvent, NoBody, Own
<1>2. IInv /\ ByteInv /\ [Next]_vars => ByteInv'
  BY NextBytes DEF IInv
<1>3. ByteInv => ForeignBytesHaveACause
  <2> SUFFICES ASSUME ByteInv, NEW r \in Request
               PROVE  Marshalled(r) \subseteq {r, NoByte} \/ Cause(r)
    BY DEF ForeignBytesHaveACause, Cause
  <2>1. Clean(r, event[r].req) /\ Clean(r, event[r].res)
    BY DEF ByteInv, EventInv
  <2>2. ASSUME NEW slice, Clean(r, slice)
        PROVE  BytesOf(slice) \subseteq {r, NoByte} \/ Cause(r)
    <3>1. CASE slice.val = <<>>
      <4>1. Len(slice.val) = 0
        BY <3>1
      <4> QED
        BY <4>1 DEF BytesOf
    <3>2. CASE slice.buf = 0 /\ slice.val # <<>>
      BY <2>2, <3>2 DEF BytesOf, Read, Clean
    <3> QED
      BY <2>2, <3>1, <3>2 DEF Clean
  <2> QED
    BY <2>1, <2>2 DEF Marshalled
<1> QED
  BY Invariance, <1>1, <1>2, <1>3, PTL DEF Spec
=============================================================================
