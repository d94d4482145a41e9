-------------------------- MODULE ProxySink_proof --------------------------
(***************************************************************************)
(* Proofs about ProxySink for any set of requests, any number of workers   *)
(* and any capacities.  EventHasAFate is inductive with the types.         *)
(* PlaceInv restates OnePlaceAtATime without cardinalities, and adds that  *)
(* a copy in Kafka comes from the client's buffer.                         *)
(***************************************************************************)
EXTENDS ProxySink, FiniteSetTheorems, TLAPS

IInv == TypeOK /\ EventHasAFate

-----------------------------------------------------------------------------
(* The channel. *)

\* Sending appends: the event is queued and nothing else leaves the channel.
LEMMA SendQueues ==
  ASSUME NEW s \in Seq(Request), NEW r \in Request
  PROVE  /\ Append(s, r) \in Seq(Request)
         /\ Len(Append(s, r)) = Len(s) + 1
         /\ \E i \in DOMAIN Append(s, r) : Append(s, r)[i] = r
         /\ \A q : (\E i \in DOMAIN s : s[i] = q)
                     => \E i \in DOMAIN Append(s, r) : Append(s, r)[i] = q
<1>1. Append(s, r) \in Seq(Request) /\ Len(Append(s, r)) = Len(s) + 1
  OBVIOUS
<1>2. Len(s) + 1 \in DOMAIN Append(s, r) /\ Append(s, r)[Len(s) + 1] = r
  OBVIOUS
<1>3. ASSUME NEW q, NEW i \in DOMAIN s, s[i] = q
      PROVE  i \in DOMAIN Append(s, r) /\ Append(s, r)[i] = q
  BY <1>3
<1> QED
  BY <1>1, <1>2, <1>3

\* Receiving takes the head and leaves the rest.
LEMMA ReceiveTakesHead ==
  ASSUME NEW s \in Seq(Request), s # <<>>
  PROVE  /\ Head(s) \in Request
         /\ Tail(s) \in Seq(Request)
         /\ Len(Tail(s)) = Len(s) - 1
         /\ \A q : (\E i \in DOMAIN s : s[i] = q)
                     => q = Head(s) \/ \E i \in DOMAIN Tail(s) : Tail(s)[i] = q
<1>1. Head(s) \in Request /\ Tail(s) \in Seq(Request) /\ Len(Tail(s)) = Len(s) - 1
  OBVIOUS
<1>2. ASSUME NEW q, NEW i \in DOMAIN s, s[i] = q, q # Head(s)
      PROVE  i - 1 \in DOMAIN Tail(s) /\ Tail(s)[i - 1] = q
  BY <1>2
<1> QED
  BY <1>1, <1>2

-----------------------------------------------------------------------------
(* Type correctness. *)

\* Every action keeps the types; Enqueue keeps the channel within its capacity.
LEMMA NextType == TypeOK /\ [Next]_vars => TypeOK'
<1> SUFFICES ASSUME TypeOK, [Next]_vars PROVE TypeOK'
  OBVIOUS
<1> USE ConstantsAssumption
<1>1. CASE UNCHANGED vars
  BY <1>1 DEF TypeOK, vars
<1>2. ASSUME NEW r \in Request, Accept(r) PROVE TypeOK'
  BY <1>2 DEF Accept, TypeOK, HandlerState, mainVars
<1>3. ASSUME NEW r \in Request, Enqueue(r) PROVE TypeOK'
  <2>1. ch' \in Seq(Request) /\ Len(ch') <= BufferSize
    <3>1. CASE Len(ch) < BufferSize
      <4>1. ch' = Append(ch, r) /\ Len(ch) \in Nat
        BY <1>3, <3>1 DEF Enqueue, TypeOK
      <4>2. ch' \in Seq(Request) /\ Len(ch') = Len(ch) + 1
        BY <4>1, SendQueues DEF TypeOK
      <4> QED
        BY <3>1, <4>1, <4>2
    <3>2. CASE ~(Len(ch) < BufferSize)
      BY <1>3, <3>2 DEF Enqueue, TypeOK
    <3> QED
      BY <3>1, <3>2
  <2> QED
    BY <1>3, <2>1 DEF Enqueue, TypeOK, HandlerState, mainVars
<1>4. ASSUME NEW r \in Request, Deliver(r) \/ DeliverUnacknowledged(r) \/ FailBuffered(r)
      PROVE  TypeOK'
  <2>1. CASE Deliver(r)
    <3>1. topic' \in [Request -> Nat] /\ buffer' \subseteq Request
      BY <2>1 DEF Deliver, TypeOK
    <3> QED
      BY <2>1, <3>1 DEF Deliver, TypeOK, mainVars
  <2>2. CASE DeliverUnacknowledged(r)
    <3>1. topic' \in [Request -> Nat] /\ faults' \in 0..MaxFaults
      BY <2>2 DEF DeliverUnacknowledged, TypeOK
    <3> QED
      BY <2>2, <3>1 DEF DeliverUnacknowledged, TypeOK, mainVars
  <2>3. CASE FailBuffered(r)
    <3>1. /\ faults' \in 0..MaxFaults
          /\ buffer' \subseteq Request
          /\ failed' \subseteq Request
      BY <2>3 DEF FailBuffered, TypeOK
    <3> QED
      BY <2>3, <3>1 DEF FailBuffered, TypeOK, mainVars
  <2> QED
    BY <1>4, <2>1, <2>2, <2>3
<1>5. ASSUME NEW w \in Worker, WorkerTake(w) PROVE TypeOK'
  <2>1. Head(ch) \in Request /\ Tail(ch) \in Seq(Request) /\ Len(Tail(ch)) <= BufferSize
    BY <1>5, ReceiveTakesHead DEF WorkerTake, TypeOK
  <2> QED
    BY <1>5, <2>1 DEF WorkerTake, TypeOK, mainVars
<1>6. ASSUME NEW w \in Worker, WorkerProduce(w) \/ WorkerExit(w) PROVE TypeOK'
  BY <1>6 DEF WorkerProduce, WorkerExit, TypeOK, mainVars
<1>7. CASE Sigterm \/ MainStep
  BY <1>7 DEF Sigterm, MainStep, CloseListener, Drained, ShutdownTimeout, Flushed, Exit, TypeOK, MainState
<1>8. ASSUME NEW r \in Request, Validate(r) \/ LookedUp(r) \/ Answered(r) PROVE TypeOK'
  <2>1. PICK next \in HandlerState : handler' = [handler EXCEPT ![r] = next]
    BY <1>8 DEF Validate, LookedUp, Answered, HandlerState
  <2>2. handler' \in [Request -> HandlerState]
    BY <2>1 DEF TypeOK
  <2> QED
    BY <1>8, <2>2 DEF Validate, LookedUp, Answered, TypeOK, mainVars
<1> QED
  BY <1>1, <1>2, <1>3, <1>4, <1>5, <1>6, <1>7, <1>8 DEF Next, WorkerStep

-----------------------------------------------------------------------------
(* The fate of an event. *)

HasFate(r) == Queued(r) \/ InHand(r) \/ r \in buffer \/ Delivered(r)
                \/ r \in failed \/ r \in overflow

\* No step lets an event that is somewhere disappear.
LEMMA FateIsKept ==
  ASSUME TypeOK, [Next]_vars, NEW r \in Request, HasFate(r)
  PROVE  HasFate(r)'
<1> USE DEF HasFate, Queued, InHand, Delivered
<1>1. CASE UNCHANGED vars
  BY <1>1 DEF vars
<1>2. ASSUME NEW q \in Request, Accept(q) \/ Validate(q) \/ LookedUp(q) \/ Answered(q)
      PROVE  HasFate(r)'
  BY <1>2 DEF Accept, Validate, LookedUp, Answered
<1>3. ASSUME NEW q \in Request, Enqueue(q) PROVE HasFate(r)'
  <2>1. Queued(r) => Queued(r)'
    <3>1. CASE ch' = Append(ch, q)
      <4>1. \A e : (\E i \in DOMAIN ch : ch[i] = e) => \E i \in DOMAIN ch' : ch'[i] = e
        <5>1. ch \in Seq(Request)
          BY DEF TypeOK
        <5> QED
          BY <3>1, <5>1, SendQueues
      <4> QED
        BY <4>1
    <3>2. CASE UNCHANGED ch
      BY <3>2
    <3> QED
      BY <1>3, <3>1, <3>2 DEF Enqueue
  <2> QED
    BY <1>3, <2>1 DEF Enqueue
<1>4. ASSUME NEW q \in Request, Deliver(q) \/ DeliverUnacknowledged(q)
      PROVE  HasFate(r)'
  <2>1. topic[r] \in Nat /\ (topic'[r] = topic[r] \/ topic'[r] = topic[r] + 1)
    BY <1>4 DEF Deliver, DeliverUnacknowledged, TypeOK
  <2>2. r = q => topic'[r] >= 1
    BY <1>4 DEF Deliver, DeliverUnacknowledged, TypeOK
  <2> QED
    BY <1>4, <2>1, <2>2 DEF Deliver, DeliverUnacknowledged
<1>5. ASSUME NEW q \in Request, FailBuffered(q) PROVE HasFate(r)'
  BY <1>5 DEF FailBuffered
<1>6. ASSUME NEW w \in Worker, WorkerTake(w) PROVE HasFate(r)'
  <2>1. hand'[w] = Head(ch)
    BY <1>6 DEF WorkerTake, TypeOK
  <2>2. Queued(r) => Queued(r)' \/ InHand(r)'
    <3>1. ch \in Seq(Request) /\ ch # <<>> /\ ch' = Tail(ch)
      BY <1>6 DEF WorkerTake, TypeOK
    <3>2. \A e : (\E i \in DOMAIN ch : ch[i] = e)
                   => e = Head(ch) \/ \E i \in DOMAIN ch' : ch'[i] = e
      BY <3>1, ReceiveTakesHead
    <3> QED
      BY <2>1, <3>2
  <2>3. InHand(r) => InHand(r)'
    BY <1>6, ConstantsAssumption DEF WorkerTake, TypeOK
  <2> QED
    BY <1>6, <2>2, <2>3 DEF WorkerTake
<1>7. ASSUME NEW w \in Worker, WorkerProduce(w) PROVE HasFate(r)'
  <2>1. hand[w] \in buffer' \cup failed'
    BY <1>7 DEF WorkerProduce
  <2>2. InHand(r) => r = hand[w] \/ InHand(r)'
    BY <1>7 DEF WorkerProduce, TypeOK
  <2> QED
    BY <1>7, <2>1, <2>2 DEF WorkerProduce
<1>8. CASE Sigterm \/ MainStep \/ \E w \in Worker : WorkerExit(w)
  BY <1>8 DEF Sigterm, MainStep, CloseListener, Drained, ShutdownTimeout, Flushed, Exit, WorkerExit
<1> QED
  BY <1>1, <1>2, <1>3, <1>4, <1>5, <1>6, <1>7, <1>8 DEF Next, WorkerStep

\* A request ends with its event queued or dropped; from then on the event
\* keeps a fate.
LEMMA NextFate == TypeOK /\ EventHasAFate /\ [Next]_vars => EventHasAFate'
<1> SUFFICES ASSUME TypeOK, EventHasAFate, [Next]_vars,
                    NEW r \in Request, handler'[r] = "done"
             PROVE  HasFate(r)'
  BY DEF EventHasAFate, HasFate
<1>1. CASE handler[r] = "done"
  BY <1>1, FateIsKept DEF EventHasAFate, HasFate
<1>2. CASE handler[r] # "done"
  <2>1. Enqueue(r)
    BY <1>2 DEF Next, vars, TypeOK, Accept, Validate, LookedUp, Answered, Enqueue, Deliver, DeliverUnacknowledged,
       FailBuffered, WorkerStep, WorkerTake, WorkerProduce, WorkerExit, Sigterm,
       MainStep, CloseListener, Drained, ShutdownTimeout, Flushed, Exit
  <2>2. CASE Len(ch) < BufferSize
    <3>1. ch \in Seq(Request) /\ ch' = Append(ch, r)
      BY <2>1, <2>2 DEF Enqueue, TypeOK
    <3>2. \E i \in DOMAIN ch' : ch'[i] = r
      BY <3>1, SendQueues
    <3> QED
      BY <3>2 DEF HasFate, Queued
  <2>3. CASE ~(Len(ch) < BufferSize)
    BY <2>1, <2>3 DEF Enqueue, HasFate
  <2> QED
    BY <2>2, <2>3
<1> QED
  BY <1>1, <1>2

-----------------------------------------------------------------------------
(* The theorems. *)

\* The invariant holds before the first request.
LEMMA InitIInv == Init => IInv
<1> SUFFICES ASSUME Init PROVE IInv
  OBVIOUS
<1>2. TypeOK
  <2>1. <<>> \in Seq(Request) /\ Len(<<>>) = 0
    OBVIOUS
  <2>2. ch \in Seq(Request) /\ Len(ch) <= BufferSize
    BY <2>1, ConstantsAssumption DEF Init
  <2>3. faults \in 0..MaxFaults
    BY ConstantsAssumption DEF Init
  <2>4. /\ handler \in [Request -> HandlerState]
        /\ worker \in [Worker -> {"run", "done"}]
        /\ hand \in [Worker -> Request \cup {NoEvent}]
        /\ topic \in [Request -> Nat]
    BY DEF Init, HandlerState
  <2> QED
    BY <2>2, <2>3, <2>4 DEF Init, TypeOK, MainState
<1>3. EventHasAFate
  BY DEF Init, EventHasAFate
<1> QED
  BY <1>2, <1>3 DEF IInv

\* The inductive invariant holds in every reachable state.
THEOREM Inductive == Spec => []IInv
<1>1. IInv /\ [Next]_vars => IInv'
  BY NextType, NextFate DEF IInv
<1> QED
  BY InitIInv, <1>1, PTL DEF Spec

\* Types, and the bounds of the channel.
THEOREM TypeCorrect == Spec => []TypeOK
<1>1. IInv => TypeOK
  BY DEF IInv
<1> QED
  BY Inductive, <1>1, PTL

\* The event of a finished request is never lost without a trace.
THEOREM EveryEventHasAFate == Spec => []EventHasAFate
<1>1. IInv => EventHasAFate
  BY DEF IInv
<1> QED
  BY Inductive, <1>1, PTL

-----------------------------------------------------------------------------
(* One place at a time.  The cardinalities of the property hide a simpler  *)
(* statement: no two places hold the same event.                           *)

\* The event of r is somewhere in the pipeline, or was refused by it.
Placed(r) == Queued(r) \/ InHand(r) \/ r \in buffer \/ r \in failed \/ r \in overflow

\* No event twice in the channel, and none with two workers.
ChannelOnce == \A i, j \in DOMAIN ch : ch[i] = ch[j] => i = j
HandsOnce   == \A v, w \in Worker : hand[v] = hand[w] => v = w \/ hand[v] = NoEvent

\* The places exclude each other.
PlacesExclude ==
  \A r \in Request :
    /\ Queued(r) => ~InHand(r) /\ r \notin buffer \cup failed \cup overflow
    /\ InHand(r) => r \notin buffer \cup failed \cup overflow
    /\ r \in buffer => r \notin failed \cup overflow
    /\ r \in failed => r \notin overflow

\* An event enters the pipeline at the end of its request, reaches Kafka from
\* the client's buffer only, and leaves the buffer with the copy that was
\* acknowledged.
CopiesComeFromBuffer ==
  \A r \in Request :
    /\ Placed(r) => handler[r] = "done"
    /\ handler[r] # "done" \/ Queued(r) \/ InHand(r) => topic[r] = 0
    /\ r \in buffer => topic[r] <= faults
    /\ topic[r] <= 1 + faults

PlaceInv == ChannelOnce /\ HandsOnce /\ PlacesExclude /\ CopiesComeFromBuffer

\* A set of at most one element has cardinality at most one.
LEMMA AtMostOne ==
  ASSUME NEW S, \A x, y \in S : x = y
  PROVE  /\ Cardinality(S) \in {0, 1}
         /\ S = {} => Cardinality(S) = 0
<1>1. CASE S = {}
  BY <1>1, FS_EmptySet
<1>2. CASE S # {}
  <2>1. PICK x \in S : TRUE
    BY <1>2
  <2>2. S = {x}
    BY <2>1
  <2> QED
    BY <1>2, <2>2, FS_Singleton
<1> QED
  BY <1>1, <1>2

\* The exclusions imply the property.
LEMMA PlacesCount == ASSUME PlaceInv PROVE OnePlaceAtATime
<1> SUFFICES ASSUME NEW r \in Request
             PROVE  Cardinality({i \in DOMAIN ch : ch[i] = r})
                      + Cardinality({w \in Worker : hand[w] = r})
                      + (IF r \in buffer THEN 1 ELSE 0)
                      + (IF r \in failed THEN 1 ELSE 0)
                      + (IF r \in overflow THEN 1 ELSE 0) <= 1
  BY DEF OnePlaceAtATime, PlaceInv, CopiesComeFromBuffer
<1> DEFINE C == {i \in DOMAIN ch : ch[i] = r}
           H == {w \in Worker : hand[w] = r}
<1>1. Cardinality(C) \in {0, 1} /\ (~Queued(r) => Cardinality(C) = 0)
  <2>1. \A i, j \in C : i = j
    BY DEF PlaceInv, ChannelOnce
  <2>2. ~Queued(r) => C = {}
    BY DEF Queued
  <2> QED
    BY <2>1, <2>2, AtMostOne
<1>2. Cardinality(H) \in {0, 1} /\ (~InHand(r) => Cardinality(H) = 0)
  <2>1. \A v, w \in H : v = w
    BY ConstantsAssumption DEF PlaceInv, HandsOnce
  <2>2. ~InHand(r) => H = {}
    BY DEF InHand
  <2> QED
    BY <2>1, <2>2, AtMostOne
<1>3. /\ Queued(r) => ~InHand(r) /\ r \notin buffer /\ r \notin failed /\ r \notin overflow
      /\ InHand(r) => r \notin buffer /\ r \notin failed /\ r \notin overflow
      /\ r \in buffer => r \notin failed /\ r \notin overflow
      /\ r \in failed => r \notin overflow
  BY DEF PlaceInv, PlacesExclude
<1> HIDE DEF C, H
<1> SUFFICES Cardinality(C) + Cardinality(H)
               + (IF r \in buffer THEN 1 ELSE 0)
               + (IF r \in failed THEN 1 ELSE 0)
               + (IF r \in overflow THEN 1 ELSE 0) <= 1
  BY DEF C, H
<1> QED
  BY <1>1, <1>2, <1>3

\* Every step moves at most one event, out of one place into at most one other.
LEMMA NextPlace ==
  ASSUME TypeOK, TypeOK', PlaceInv, [Next]_vars
  PROVE  PlaceInv'
<1> USE DEF PlaceInv
<1>nat. faults \in Nat /\ faults' \in Nat /\ \A q \in Request : topic[q] \in Nat
  BY ConstantsAssumption DEF TypeOK
<1>1. ASSUME UNCHANGED <<ch, hand, buffer, topic, failed, overflow, faults>>,
             \A q \in Request : handler[q] = "done" <=> handler'[q] = "done"
      PROVE  PlaceInv'
  <2>1. \A q \in Request : /\ Queued(q)' <=> Queued(q)
                           /\ InHand(q)' <=> InHand(q)
    BY <1>1 DEF Queued, InHand
  <2>2. ChannelOnce' /\ HandsOnce'
    BY <1>1 DEF ChannelOnce, HandsOnce
  <2>3. PlacesExclude'
    BY <1>1, <2>1 DEF PlacesExclude
  <2>4. CopiesComeFromBuffer'
    BY <1>1, <2>1 DEF CopiesComeFromBuffer, Placed
  <2> QED
    BY <2>2, <2>3, <2>4
<1>2. CASE UNCHANGED vars
  BY <1>1, <1>2 DEF vars
<1>3. ASSUME NEW r \in Request, Accept(r) \/ Validate(r) \/ LookedUp(r) \/ Answered(r)
      PROVE  PlaceInv'
  <2>1. \A q \in Request : handler[q] = "done" <=> handler'[q] = "done"
    BY <1>3 DEF Accept, Validate, LookedUp, Answered, TypeOK
  <2> QED
    BY <1>1, <1>3, <2>1 DEF Accept, Validate, LookedUp, Answered
<1>4. ASSUME NEW r \in Request, Enqueue(r) PROVE PlaceInv'
  <2>1. /\ handler[r] = "emit"
        /\ handler'[r] = "done"
        /\ \A q \in Request : q # r => handler'[q] = handler[q]
        /\ UNCHANGED <<hand, buffer, topic, failed, faults>>
    BY <1>4 DEF Enqueue, TypeOK
  <2>2. ~Placed(r) /\ topic[r] = 0
    BY <2>1 DEF CopiesComeFromBuffer
  <2>3. \A q \in Request : InHand(q)' <=> InHand(q)
    BY <2>1 DEF InHand
  <2>4. CASE ch' = Append(ch, r) /\ UNCHANGED overflow
    <3>1. /\ \A q \in Request : Queued(q)' <=> Queued(q) \/ q = r
          /\ ChannelOnce'
      <4>1. ch \in Seq(Request)
        BY DEF TypeOK
      <4>2. /\ DOMAIN ch' = 1..(Len(ch) + 1) /\ DOMAIN ch = 1..Len(ch)
            /\ \A i \in 1..Len(ch) : ch'[i] = ch[i]
            /\ ch'[Len(ch) + 1] = r
            /\ Len(ch) \in Nat
        BY <2>4, <4>1
      <4>3. \A i \in 1..Len(ch) : ch[i] # r
        BY <2>2, <4>2 DEF Placed, Queued
      <4>4. ChannelOnce'
        BY <4>2, <4>3 DEF ChannelOnce
      <4>5. \A q \in Request : Queued(q)' <=> Queued(q) \/ q = r
        BY <4>2 DEF Queued
      <4> QED
        BY <4>4, <4>5
    <3>2. HandsOnce'
      BY <2>1 DEF HandsOnce
    <3>3. PlacesExclude'
      BY <2>1, <2>2, <2>3, <2>4, <3>1 DEF PlacesExclude, Placed
    <3>4. CopiesComeFromBuffer'
      BY <1>nat, <2>1, <2>2, <2>3, <2>4, <3>1 DEF CopiesComeFromBuffer, Placed
    <3> QED
      BY <3>1, <3>2, <3>3, <3>4
  <2>5. CASE UNCHANGED ch /\ overflow' = overflow \cup {r}
    <3>1. \A q \in Request : Queued(q)' <=> Queued(q)
      BY <2>5 DEF Queued
    <3>2. ChannelOnce' /\ HandsOnce'
      BY <2>1, <2>5 DEF ChannelOnce, HandsOnce
    <3>3. PlacesExclude'
      BY <2>1, <2>2, <2>3, <2>5, <3>1 DEF PlacesExclude, Placed
    <3>4. CopiesComeFromBuffer'
      BY <1>nat, <2>1, <2>2, <2>3, <2>5, <3>1 DEF CopiesComeFromBuffer, Placed
    <3> QED
      BY <3>2, <3>3, <3>4
  <2> QED
    BY <1>4, <2>4, <2>5 DEF Enqueue
<1>5. ASSUME NEW r \in Request, Deliver(r) \/ DeliverUnacknowledged(r) \/ FailBuffered(r)
      PROVE  PlaceInv'
  <2>1. /\ r \in buffer
        /\ UNCHANGED <<handler, ch, hand, overflow>>
        /\ \A q \in Request : /\ Queued(q)' <=> Queued(q)
                              /\ InHand(q)' <=> InHand(q)
    BY <1>5 DEF Deliver, DeliverUnacknowledged, FailBuffered, Queued, InHand
  <2>2. /\ handler[r] = "done" /\ ~Queued(r) /\ ~InHand(r)
        /\ r \notin failed /\ r \notin overflow /\ topic[r] <= faults
    BY <2>1 DEF CopiesComeFromBuffer, PlacesExclude, Placed
  <2>3. ChannelOnce' /\ HandsOnce'
    BY <2>1 DEF ChannelOnce, HandsOnce
  <2>4. CASE Deliver(r)
    <3>1. /\ buffer' = buffer \ {r} /\ UNCHANGED <<failed, faults>>
          /\ topic'[r] = topic[r] + 1
          /\ \A q \in Request : q # r => topic'[q] = topic[q]
      BY <2>4 DEF Deliver, TypeOK
    <3>2. PlacesExclude'
      BY <2>1, <3>1 DEF PlacesExclude
    <3>3. CopiesComeFromBuffer'
      BY <1>nat, <2>1, <2>2, <3>1 DEF CopiesComeFromBuffer, Placed
    <3> QED
      BY <2>3, <3>2, <3>3
  <2>5. CASE DeliverUnacknowledged(r)
    <3>1. /\ UNCHANGED <<buffer, failed>> /\ faults' = faults + 1
          /\ topic'[r] = topic[r] + 1
          /\ \A q \in Request : q # r => topic'[q] = topic[q]
      BY <2>5 DEF DeliverUnacknowledged, TypeOK
    <3>2. PlacesExclude'
      BY <2>1, <3>1 DEF PlacesExclude
    <3>3. CopiesComeFromBuffer'
      BY <1>nat, <2>1, <2>2, <3>1 DEF CopiesComeFromBuffer, Placed
    <3> QED
      BY <2>3, <3>2, <3>3
  <2>6. CASE FailBuffered(r)
    <3>1. /\ buffer' = buffer \ {r} /\ failed' = failed \cup {r}
          /\ UNCHANGED <<topic, faults>>
      BY <2>6 DEF FailBuffered
    <3>2. PlacesExclude'
      BY <2>1, <2>2, <3>1 DEF PlacesExclude
    <3>3. CopiesComeFromBuffer'
      BY <1>nat, <2>1, <2>2, <3>1 DEF CopiesComeFromBuffer, Placed
    <3> QED
      BY <2>3, <3>2, <3>3
  <2> QED
    BY <1>5, <2>4, <2>5, <2>6
<1>6. ASSUME NEW w \in Worker, WorkerTake(w) PROVE PlaceInv'
  <2> DEFINE r == Head(ch)
  <2>1. /\ ch \in Seq(Request) /\ ch # <<>> /\ hand[w] = NoEvent /\ hand'[w] = r
        /\ \A v \in Worker : v # w => hand'[v] = hand[v]
        /\ ch' = Tail(ch)
        /\ UNCHANGED <<handler, buffer, topic, failed, overflow, faults>>
    BY <1>6 DEF WorkerTake, TypeOK
  <2>2. /\ DOMAIN ch' = 1..(Len(ch) - 1) /\ DOMAIN ch = 1..Len(ch)
        /\ Len(ch) \in Nat \ {0} /\ r = ch[1] /\ r \in Request
        /\ \A i \in 1..(Len(ch) - 1) : ch'[i] = ch[i + 1]
    BY <2>1
  <2>3. Queued(r)
    BY <2>2 DEF Queued
  <2> HIDE DEF r
  <2>4. ChannelOnce'
    <3> SUFFICES ASSUME NEW i \in 1..(Len(ch) - 1), NEW j \in 1..(Len(ch) - 1), ch'[i] = ch'[j]
                 PROVE  i = j
      BY <2>2 DEF ChannelOnce
    <3>1. i + 1 \in DOMAIN ch /\ j + 1 \in DOMAIN ch /\ ch[i + 1] = ch[j + 1]
      BY <2>2
    <3>2. i + 1 = j + 1
      BY <3>1 DEF ChannelOnce
    <3> QED
      BY <3>2
  <2>5. \A q \in Request : Queued(q)' <=> Queued(q) /\ q # r
    <3>1. ASSUME NEW q \in Request, Queued(q)' PROVE Queued(q) /\ q # r
      <4>1. PICK i \in 1..(Len(ch) - 1) : ch[i + 1] = q
        BY <2>2, <3>1 DEF Queued
      <4>2. i + 1 \in DOMAIN ch /\ 1 \in DOMAIN ch /\ i + 1 # 1
        BY <2>2
      <4> QED
        BY <2>2, <4>1, <4>2 DEF Queued, ChannelOnce
    <3>2. ASSUME NEW q \in Request, Queued(q), q # r PROVE Queued(q)'
      <4>1. PICK i \in 1..Len(ch) : ch[i] = q
        BY <2>2, <3>2 DEF Queued
      <4>2. i - 1 \in 1..(Len(ch) - 1) /\ ch'[i - 1] = q
        BY <2>2, <3>2, <4>1
      <4> QED
        BY <2>2, <4>2 DEF Queued
    <3> QED
      BY <3>1, <3>2
  <2>6. \A q \in Request : InHand(q)' <=> InHand(q) \/ q = r
    BY <2>1, <2>2, ConstantsAssumption DEF InHand
  <2>7. ~InHand(r) /\ r \notin buffer /\ r \notin failed /\ r \notin overflow
        /\ handler[r] = "done" /\ topic[r] = 0
    BY <2>2, <2>3 DEF PlacesExclude, CopiesComeFromBuffer, Placed
  <2>8. HandsOnce'
    BY <2>1, <2>2, <2>7 DEF HandsOnce, InHand
  <2>9. PlacesExclude'
    BY <2>1, <2>2, <2>5, <2>6, <2>7 DEF PlacesExclude
  <2>10. CopiesComeFromBuffer'
    BY <1>nat, <2>1, <2>2, <2>5, <2>6, <2>7 DEF CopiesComeFromBuffer, Placed
  <2> QED
    BY <2>4, <2>8, <2>9, <2>10
<1>7. ASSUME NEW w \in Worker, WorkerProduce(w) PROVE PlaceInv'
  <2> DEFINE r == hand[w]
  <2>1. /\ r # NoEvent /\ r \in Request
        /\ hand'[w] = NoEvent
        /\ \A v \in Worker : v # w => hand'[v] = hand[v]
        /\ UNCHANGED <<handler, ch, topic, overflow, faults>>
        /\ \/ failed' = failed \cup {r} /\ UNCHANGED buffer
           \/ buffer' = buffer \cup {r} /\ UNCHANGED failed
    BY <1>7 DEF WorkerProduce, TypeOK
  <2>2. InHand(r)
    BY DEF InHand
  <2>3. ~Queued(r) /\ r \notin buffer /\ r \notin failed /\ r \notin overflow
        /\ handler[r] = "done" /\ topic[r] = 0
    BY <2>1, <2>2 DEF PlacesExclude, CopiesComeFromBuffer, Placed
  <2>4. \A q \in Request : InHand(q)' <=> InHand(q) /\ q # r
    BY <2>1, ConstantsAssumption DEF InHand, HandsOnce
  <2>5. \A q \in Request : Queued(q)' <=> Queued(q)
    BY <2>1 DEF Queued
  <2>6. ChannelOnce' /\ HandsOnce'
    BY <2>1 DEF ChannelOnce, HandsOnce
  <2> HIDE DEF r
  <2>7. PlacesExclude'
    BY <2>1, <2>3, <2>4, <2>5 DEF PlacesExclude
  <2>8. CopiesComeFromBuffer'
    BY <1>nat, <2>1, <2>3, <2>4, <2>5 DEF CopiesComeFromBuffer, Placed
  <2> QED
    BY <2>6, <2>7, <2>8
<1>8. ASSUME NEW w \in Worker, WorkerExit(w) PROVE PlaceInv'
  BY <1>1, <1>8 DEF WorkerExit
<1>9. CASE Sigterm \/ CloseListener \/ Drained \/ ShutdownTimeout \/ Exit
  BY <1>1, <1>9 DEF Sigterm, CloseListener, Drained, ShutdownTimeout, Exit
<1>10. CASE Flushed
  <2>1. /\ failed' = failed \cup buffer /\ buffer' = {}
        /\ UNCHANGED <<handler, ch, hand, topic, overflow, faults>>
        /\ \A q \in Request : /\ Queued(q)' <=> Queued(q)
                              /\ InHand(q)' <=> InHand(q)
    BY <1>10 DEF Flushed, Queued, InHand
  <2>2. ChannelOnce' /\ HandsOnce'
    BY <2>1 DEF ChannelOnce, HandsOnce
  <2>3. PlacesExclude'
    BY <2>1 DEF PlacesExclude
  <2>4. CopiesComeFromBuffer'
    BY <2>1 DEF CopiesComeFromBuffer, Placed
  <2> QED
    BY <2>2, <2>3, <2>4
<1> QED
  BY <1>2, <1>3, <1>4, <1>5, <1>6, <1>7, <1>8, <1>9, <1>10 DEF Next, WorkerStep, MainStep

\* An event is in one place of the pipeline at a time, and reaches Kafka more
\* than once only by the client's own retries.
THEOREM EventsAreInOnePlace == Spec => []OnePlaceAtATime
<1>1. Init => PlaceInv
  BY ConstantsAssumption
     DEF Init, PlaceInv, ChannelOnce, HandsOnce, PlacesExclude, CopiesComeFromBuffer,
         Placed, Queued, InHand
<1>2. TypeOK /\ TypeOK' /\ PlaceInv /\ [Next]_vars => PlaceInv'
  BY NextPlace
<1>3. PlaceInv => OnePlaceAtATime
  BY PlacesCount
<1> QED
  BY <1>1, <1>2, <1>3, TypeCorrect, PTL DEF Spec
=============================================================================
