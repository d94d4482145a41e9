----------------------------- MODULE SdkTs_proof -----------------------------
(***************************************************************************)
(* Proofs about SdkTs for any calls, requests, configurations and number   *)
(* of events.  Ledger says where each event of the client may be, in terms *)
(* of the buffer, the fetches and the outcomes it is given: a step that    *)
(* settles a fetch and then captures an event is split into the ledger of  *)
(* the settled state, which no variable holds, and the capture from there. *)
(***************************************************************************)
EXTENDS SdkTs, FiniteSetTheorems, TLAPS

-----------------------------------------------------------------------------
(* Sequences without repetition. *)

Distinct(s) == \A i, j \in DOMAIN s : s[i] = s[j] => i = j

\* Appending adds one element to the range.
LEMMA RangeOfAppend ==
  ASSUME NEW s \in Seq(Event), NEW x
  PROVE  Range(Append(s, x)) = Range(s) \cup {x}
<1> DEFINE t == Append(s, x)
<1>1. DOMAIN t = 1 .. Len(s) + 1 /\ DOMAIN s = 1 .. Len(s) /\ Len(s) \in Nat
  OBVIOUS
<1>2. \A i \in DOMAIN s : t[i] = s[i]
  OBVIOUS
<1>3. t[Len(s) + 1] = x
  OBVIOUS
<1> HIDE DEF t
<1>4. ASSUME NEW e \in Range(t) PROVE e \in Range(s) \cup {x}
  <2>1. PICK i \in DOMAIN t : e = t[i]
    BY DEF Range
  <2> QED
    BY <2>1, <1>1, <1>2, <1>3 DEF Range
<1>5. ASSUME NEW e \in Range(s) PROVE e \in Range(t)
  <2>1. PICK i \in DOMAIN s : e = s[i]
    BY DEF Range
  <2> QED
    BY <2>1, <1>1, <1>2 DEF Range
<1>6. x \in Range(t)
  <2>1. Len(s) + 1 \in DOMAIN t
    BY <1>1
  <2> QED
    BY <2>1, <1>3 DEF Range
<1> QED
  BY <1>4, <1>5, <1>6 DEF t

\* A new element keeps a sequence without repetition.
LEMMA DistinctAppend ==
  ASSUME NEW s \in Seq(Event), Distinct(s), NEW x, x \notin Range(s)
  PROVE  Distinct(Append(s, x))
<1>1. \A i \in DOMAIN s : s[i] # x
  BY DEF Range
<1>2. \A i \in DOMAIN Append(s, x) :
        \/ i \in DOMAIN s /\ Append(s, x)[i] = s[i]
        \/ i = Len(s) + 1 /\ Append(s, x)[i] = x
  OBVIOUS
<1> QED
  BY <1>1, <1>2 DEF Distinct

\* Taking the head away takes its element away, and no other.
LEMMA RangeOfTail ==
  ASSUME NEW s \in Seq(Event), Distinct(s), s # <<>>
  PROVE  /\ Tail(s) \in Seq(Event)
         /\ Head(s) \in Range(s)
         /\ Range(Tail(s)) = Range(s) \ {Head(s)}
         /\ Distinct(Tail(s))
<1>1. Tail(s) \in Seq(Event) /\ Len(s) \in Nat \ {0} /\ Len(Tail(s)) = Len(s) - 1
  OBVIOUS
<1>2. DOMAIN s = 1 .. Len(s) /\ DOMAIN Tail(s) = 1 .. Len(s) - 1
  BY <1>1
<1>3. \A i \in DOMAIN Tail(s) : i + 1 \in DOMAIN s /\ Tail(s)[i] = s[i + 1]
  BY <1>1, <1>2
<1>4. 1 \in DOMAIN s /\ Head(s) = s[1]
  BY <1>1
<1>5. ASSUME NEW e \in Range(Tail(s)) PROVE e \in Range(s) \ {Head(s)}
  <2>1. PICK i \in DOMAIN Tail(s) : e = Tail(s)[i]
    BY DEF Range
  <2>2. i + 1 \in DOMAIN s /\ e = s[i + 1] /\ i + 1 # 1
    BY <2>1, <1>2, <1>3
  <2>3. e # s[1]
    BY <2>2, <1>4 DEF Distinct
  <2> QED
    BY <2>2, <2>3, <1>4 DEF Range
<1>6. ASSUME NEW e \in Range(s) \ {Head(s)} PROVE e \in Range(Tail(s))
  <2>1. PICK i \in DOMAIN s : e = s[i]
    BY DEF Range
  <2>2. i # 1
    BY <2>1, <1>4
  <2>3. i - 1 \in DOMAIN Tail(s) /\ Tail(s)[i - 1] = s[(i - 1) + 1] /\ (i - 1) + 1 = i
    BY <2>2, <1>2, <1>3, <1>1
  <2> QED
    BY <2>1, <2>3 DEF Range
<1>7. Distinct(Tail(s))
  <2> SUFFICES ASSUME NEW i \in DOMAIN Tail(s), NEW j \in DOMAIN Tail(s), Tail(s)[i] = Tail(s)[j]
               PROVE  i = j
    BY DEF Distinct
  <2>1. s[i + 1] = s[j + 1] /\ i + 1 \in DOMAIN s /\ j + 1 \in DOMAIN s
    BY <1>3
  <2> QED
    BY <2>1, <1>2 DEF Distinct
<1>8. Head(s) \in Range(s)
  BY <1>4 DEF Range
<1> QED
  BY <1>1, <1>5, <1>6, <1>7, <1>8

\* It has as many elements as its range.
LEMMA LengthIsCardinality ==
  ASSUME NEW s \in Seq(Event), Distinct(s)
  PROVE  IsFiniteSet(Range(s)) /\ Cardinality(Range(s)) = Len(s)
<1>1. Len(s) \in Nat /\ DOMAIN s = 1 .. Len(s)
  OBVIOUS
<1>2. s \in Bijection(1 .. Len(s), Range(s))
  <2>1. s \in [1 .. Len(s) -> Range(s)]
    BY <1>1 DEF Range
  <2>2. \A e \in Range(s) : \E i \in 1 .. Len(s) : s[i] = e
    BY <1>1 DEF Range
  <2> QED
    BY <2>1, <2>2, <1>1 DEF Bijection, Injection, Surjection, Distinct, IsInjective
<1>3. IsFiniteSet(1 .. Len(s)) /\ Cardinality(1 .. Len(s)) = Len(s)
  BY <1>1, FS_Interval
<1> QED
  BY <1>2, <1>3, FS_Bijection DEF ExistsBijection

\* The empty sequence.
LEMMA EmptySequence ==
  Range(<<>>) = {} /\ Distinct(<<>>)
BY DEF Range, Distinct

-----------------------------------------------------------------------------
(* The ledger. *)

\* A buffer b and fetches n hold events of 1..ev without sharing any; what is
\* in the buffer has no outcome, and is newer than pr; a fetch has an outcome
\* for its batch when it reads the answer, and only then.  st, re, nf: the
\* events stored, refused, and whose fetch failed.
Ledger(b, n, ev, st, re, nf, pr) ==
  /\ Distinct(b)
  /\ \A e \in Range(b) :
       /\ e \in 1 .. ev /\ e > pr
       /\ e \notin st \cup re \cup nf
       /\ \A f \in n : e \notin f.batch
  /\ \A f \in n : \A e \in f.batch :
       /\ e \in 1 .. ev /\ e \notin nf
       /\ e \in st \cup re <=> f.stage = "reading"
       /\ \A g \in n : e \in g.batch => g = f
  /\ st \cup re \cup nf \subseteq 1 .. ev
  /\ re \cap (st \cup nf) = {}

InFlight(n) == UNION {f.batch : f \in n}

\* The events that dropped counts: a failed fetch, or no trace at all.
Gone(b, n, ev, st, re, nf) ==
  nf \cup ((1 .. ev) \ (Range(b) \cup InFlight(n) \cup st \cup re))

\* Every event is somewhere.
Complete(b, n, ev, st, re, nf) ==
  1 .. ev \subseteq Range(b) \cup InFlight(n) \cup st \cup re \cup nf

\* One more set of events is lost, and counted.
LEMMA CountsMore ==
  ASSUME NEW ev \in Nat, NEW S, NEW T, S \subseteq 1 .. ev, T \subseteq 1 .. ev,
         S \cap T = {}
  PROVE  /\ Cardinality(S) \in Nat /\ Cardinality(T) \in Nat
         /\ Cardinality(S \cup T) = Cardinality(S) + Cardinality(T)
<1>1. IsFiniteSet(1 .. ev)
  BY FS_Interval
<1>2. IsFiniteSet(S) /\ IsFiniteSet(T)
  BY <1>1, FS_Subset
<1>3. Cardinality(S \cup T) = Cardinality(S) + Cardinality(T) - Cardinality(S \cap T)
  BY <1>2, FS_Union
<1>4. Cardinality(S \cap T) = 0
  BY FS_EmptySet
<1> QED
  BY <1>2, <1>3, <1>4, FS_CardinalityType

\* An overflow: the head of the buffer is gone, and counted.
LEMMA Overflows ==
  ASSUME NEW b \in Seq(Event), b # <<>>, NEW n, NEW ev \in Nat,
         NEW st, NEW re, NEW nf, NEW pr, Ledger(b, n, ev, st, re, nf, pr)
  PROVE  /\ Ledger(Tail(b), n, ev, st, re, nf, pr)
         /\ Cardinality(Gone(Tail(b), n, ev, st, re, nf))
              = Cardinality(Gone(b, n, ev, st, re, nf)) + 1
<1>1. /\ Head(b) \in Range(b)
      /\ Range(Tail(b)) = Range(b) \ {Head(b)}
      /\ Distinct(Tail(b))
  BY RangeOfTail DEF Ledger
<1>2. Ledger(Tail(b), n, ev, st, re, nf, pr)
  BY <1>1 DEF Ledger
<1>3. /\ Head(b) \in 1 .. ev
      /\ Head(b) \notin InFlight(n) \cup st \cup re \cup nf
  BY <1>1 DEF Ledger, InFlight
<1>4. Gone(Tail(b), n, ev, st, re, nf) = Gone(b, n, ev, st, re, nf) \cup {Head(b)}
  BY <1>1, <1>3 DEF Gone
<1>5. /\ Gone(b, n, ev, st, re, nf) \subseteq 1 .. ev
      /\ Gone(b, n, ev, st, re, nf) \cap {Head(b)} = {}
  BY <1>1, <1>3 DEF Gone, Ledger
<1>6. Cardinality({Head(b)}) = 1
  BY FS_Singleton
<1> QED
  BY <1>2, <1>3, <1>4, <1>5, <1>6, CountsMore

\* A new event is appended to the buffer.
LEMMA Appends ==
  ASSUME NEW b \in Seq(Event), NEW n, NEW ev \in Nat,
         NEW st, NEW re, NEW nf, NEW pr, pr \in 0 .. ev,
         Ledger(b, n, ev, st, re, nf, pr)
  PROVE  /\ Ledger(Append(b, ev + 1), n, ev + 1, st, re, nf, pr)
         /\ Gone(Append(b, ev + 1), n, ev + 1, st, re, nf) = Gone(b, n, ev, st, re, nf)
         /\ Complete(b, n, ev, st, re, nf)
              => Complete(Append(b, ev + 1), n, ev + 1, st, re, nf)
<1>1. ev + 1 \notin 1 .. ev /\ 1 .. ev + 1 = (1 .. ev) \cup {ev + 1} /\ ev + 1 > pr
  OBVIOUS
<1>2. Range(Append(b, ev + 1)) = Range(b) \cup {ev + 1}
  BY RangeOfAppend
<1>3. ev + 1 \notin Range(b) /\ ev + 1 \notin st \cup re \cup nf
  BY <1>1 DEF Ledger
<1>4. \A f \in n : ev + 1 \notin f.batch
  BY <1>1 DEF Ledger
<1>5. Distinct(Append(b, ev + 1))
  BY <1>3, DistinctAppend DEF Ledger
<1>6. Ledger(Append(b, ev + 1), n, ev + 1, st, re, nf, pr)
  BY <1>1, <1>2, <1>3, <1>4, <1>5 DEF Ledger
<1>7. ev + 1 \notin InFlight(n)
  BY <1>4 DEF InFlight
<1>8. Gone(Append(b, ev + 1), n, ev + 1, st, re, nf) = Gone(b, n, ev, st, re, nf)
  BY <1>1, <1>2, <1>3, <1>7 DEF Gone
<1> QED
  BY <1>1, <1>2, <1>6, <1>8 DEF Complete

\* A buffer whose payload is written becomes the batch of a new fetch.
LEMMA Ships ==
  ASSUME NEW b \in Seq(Event), NEW n, NEW ev \in Nat,
         NEW st, NEW re, NEW nf, NEW pr, Ledger(b, n, ev, st, re, nf, pr),
         NEW f, f.batch = Range(b), f.stage # "reading", NEW any \in Nat
  PROVE  /\ Ledger(<<>>, n \cup {f}, ev, st, re, nf, any)
         /\ Gone(<<>>, n \cup {f}, ev, st, re, nf) = Gone(b, n, ev, st, re, nf)
         /\ Complete(b, n, ev, st, re, nf) => Complete(<<>>, n \cup {f}, ev, st, re, nf)
<1>1. InFlight(n \cup {f}) = InFlight(n) \cup Range(b)
  BY DEF InFlight
<1>2. Ledger(<<>>, n \cup {f}, ev, st, re, nf, any)
  <2>1. ASSUME NEW g \in n \cup {f}, NEW e \in g.batch
        PROVE  /\ e \in 1 .. ev /\ e \notin nf
               /\ e \in st \cup re <=> g.stage = "reading"
               /\ \A h \in n \cup {f} : e \in h.batch => h = g
    BY <2>1 DEF Ledger
  <2> QED
    BY <2>1, EmptySequence DEF Ledger
<1> QED
  BY <1>1, <1>2, EmptySequence DEF Gone, Complete

\* A buffer whose payload cannot be written is gone, and counted.
LEMMA Unships ==
  ASSUME NEW b \in Seq(Event), NEW n, NEW ev \in Nat,
         NEW st, NEW re, NEW nf, NEW pr, Ledger(b, n, ev, st, re, nf, pr), NEW any \in Nat
  PROVE  /\ Ledger(<<>>, n, ev, st, re, nf, any)
         /\ Cardinality(Gone(<<>>, n, ev, st, re, nf))
              = Cardinality(Gone(b, n, ev, st, re, nf)) + Len(b)
<1>1. Ledger(<<>>, n, ev, st, re, nf, any)
  BY EmptySequence DEF Ledger
<1>2. Range(b) \subseteq 1 .. ev /\ Range(b) \cap (InFlight(n) \cup st \cup re \cup nf) = {}
  BY DEF Ledger, InFlight
<1>3. Gone(<<>>, n, ev, st, re, nf) = Gone(b, n, ev, st, re, nf) \cup Range(b)
  BY <1>2, EmptySequence DEF Gone
<1>4. /\ Gone(b, n, ev, st, re, nf) \subseteq 1 .. ev
      /\ Gone(b, n, ev, st, re, nf) \cap Range(b) = {}
  BY <1>2 DEF Gone, Ledger
<1>5. Cardinality(Range(b)) = Len(b)
  BY LengthIsCardinality DEF Ledger
<1> QED
  BY <1>1, <1>2, <1>3, <1>4, <1>5, CountsMore
-----------------------------------------------------------------------------
(* Types. *)

\* What capture leaves of the buffer before it appends, and what it drops.
Kept == IF Len(buf) >= cfg.buffer THEN Tail(buf) ELSE buf
Over == IF Len(buf) >= cfg.buffer THEN 1 ELSE 0

\* The four ways capture goes: nothing is captured, the new event fills a
\* batch, it does not, or it cannot be made.
LEMMA CaptureCases ==
  ASSUME NEW n, NEW counted, Capture(n, counted)
  PROVE  \/ net' = n /\ dropped' = dropped + counted /\ buf' = buf /\ events' = events
         \/ /\ cfg.key /\ events < MaxEvents /\ events' = events + 1
            /\ \/ /\ cfg.webcrypto /\ Len(Append(Kept, events + 1)) >= cfg.batch
                  /\ Flush(Append(Kept, events + 1), n, counted + Over)
               \/ /\ cfg.webcrypto /\ ~(Len(Append(Kept, events + 1)) >= cfg.batch)
                  /\ buf' = Append(Kept, events + 1)
                  /\ net' = n /\ dropped' = dropped + (counted + Over)
               \/ /\ ~cfg.webcrypto
                  /\ buf' = Kept /\ net' = n /\ dropped' = dropped + (counted + Over)
BY DEF Capture, Kept, Over, NewEvent

LEMMA KeptType ==
  ASSUME TypeOK
  PROVE  Kept \in Seq(Event) /\ Over \in Nat
<1>1. buf \in Seq(Event) /\ cfg.buffer \in Nat \ {0}
  BY DEF TypeOK, Config
<1>2. CASE Len(buf) >= cfg.buffer
  <2>1. buf # <<>>
    BY <1>1, <1>2
  <2> QED
    BY <1>1, <1>2, <2>1 DEF Kept, Over
<1>3. CASE ~(Len(buf) >= cfg.buffer)
  BY <1>1, <1>3 DEF Kept, Over
<1> QED
  BY <1>2, <1>3

\* The fetch of a batch whose payload could be written.
PostOf(b) ==
  [call |-> NoCall, batch |-> Range(b), layer |-> cfg.wrapped,
   stage |-> IF cfg.wrapped THEN "body" ELSE "base",
   bad |-> FALSE, endless |-> FALSE]

LEMMA PostsCases ==
  ASSUME NEW b
  PROVE  Posts(b) = IF cfg.bigint THEN {PostOf(b)} ELSE {}
<1>1. CASE cfg.bigint
  <2>1. {x \in {b} : cfg.bigint} = {b}
    BY <1>1
  <2>2. Posts(b) = {PostOf(c) : c \in {b}}
    BY <2>1 DEF Posts, PostOf
  <2> QED
    BY <1>1, <2>2
<1>2. CASE ~cfg.bigint
  <2>1. {x \in {b} : cfg.bigint} = {}
    BY <1>2
  <2> QED
    BY <1>2, <2>1 DEF Posts
<1> QED
  BY <1>1, <1>2

\* The POST of a batch is a fetch without a caller.
LEMMA PostsType ==
  ASSUME TypeOK, NEW b \in Seq(Event)
  PROVE  Posts(b) \subseteq Fetch
<1>1. Range(b) \subseteq Event
  BY DEF Range
<1>2. cfg.wrapped \in BOOLEAN
  BY DEF TypeOK, Config
<1>3. PostOf(b) \in Fetch
  BY <1>1, <1>2 DEF PostOf, Fetch
<1> QED
  BY <1>3, PostsCases

\* flush keeps the types.
LEMMA FlushType ==
  ASSUME TypeOK, NEW b \in Seq(Event), NEW n \in SUBSET Fetch, NEW counted \in Nat,
         Flush(b, n, counted)
  PROVE  buf' \in Seq(Event) /\ net' \subseteq Fetch /\ dropped' \in Nat
<1>1. net' \subseteq Fetch
  BY PostsType DEF Flush
<1>2. Unwritten(b) \in Nat
  BY DEF Unwritten
<1>3. dropped' = dropped + counted + Unwritten(b) /\ dropped \in Nat
  BY DEF Flush, TypeOK
<1>4. buf' = <<>>
  BY DEF Flush
<1> QED
  BY <1>1, <1>2, <1>3, <1>4

\* capture keeps the types.
LEMMA CaptureType ==
  ASSUME TypeOK, NEW n \in SUBSET Fetch, NEW counted \in Nat, Capture(n, counted)
  PROVE  /\ buf' \in Seq(Event) /\ net' \subseteq Fetch
         /\ dropped' \in Nat /\ events' \in 0 .. MaxEvents
<1> USE ConstantsAssumption
<1>1. /\ buf \in Seq(Event) /\ dropped \in Nat /\ events \in 0 .. MaxEvents
      /\ Kept \in Seq(Event) /\ Over \in Nat
  BY KeptType DEF TypeOK
<1>2. CASE cfg.key /\ events < MaxEvents /\ events' = events + 1
  <2>1. Append(Kept, events + 1) \in Seq(Event) /\ events' \in 0 .. MaxEvents
    BY <1>1, <1>2 DEF Event
  <2>2. counted + Over \in Nat
    BY <1>1
  <2>3. CASE Flush(Append(Kept, events + 1), n, counted + Over)
    BY <2>1, <2>2, <2>3, FlushType
  <2>4. CASE net' = n /\ buf' \in {Append(Kept, events + 1), Kept}
                  /\ dropped' = dropped + (counted + Over)
    BY <1>1, <2>1, <2>2, <2>4
  <2>5. CASE net' = n /\ dropped' = dropped + counted /\ buf' = buf /\ events' = events
    BY <1>1, <2>5
  <2> QED
    BY <2>3, <2>4, <2>5, CaptureCases
<1>3. CASE net' = n /\ dropped' = dropped + counted /\ buf' = buf /\ events' = events
  BY <1>1, <1>3
<1> QED
  BY <1>2, <1>3, CaptureCases

\* A fetch goes on to another stage.
LEMMA StageType ==
  ASSUME NEW f \in Fetch, NEW st \in {"body", "base", "reading"}, NEW endless \in BOOLEAN
  PROVE  /\ [f EXCEPT !.stage = st] \in Fetch
         /\ [f EXCEPT !.stage = st, !.endless = endless] \in Fetch
BY DEF Fetch

\* An inbound request and what the middleware did.
HttpState ==
  [stage : {"idle", "open", "closed"}, captured : BOOLEAN, attached : BOOLEAN,
   body : {"wire", "read", "missed"}, ended : BOOLEAN,
   last : {"none", "chunk", "callback"}, ends : 0 .. 2]

\* Every step of the SDK keeps the types.
LEMMA NextType == TypeOK /\ [Next]_vars => TypeOK'
<1> SUFFICES ASSUME TypeOK, [Next]_vars PROVE TypeOK'
  OBVIOUS
<1> USE ConstantsAssumption
<1> USE DEF sdkVars, history
<1>1. CASE UNCHANGED vars
  BY <1>1 DEF TypeOK, vars
<1>2. CASE Tick
  <2>1. buf' \in Seq(Event) /\ net' \subseteq Fetch /\ dropped' \in Nat
    BY <1>2, FlushType DEF Tick, TypeOK
  <2> QED
    BY <1>2, <2>1 DEF Tick, TypeOK
<1>3. CASE Close
  <2>1. buf' \in Seq(Event) /\ net' \subseteq Fetch /\ dropped' \in Nat
    BY <1>3, FlushType DEF Close, TypeOK
  <2> QED
    BY <1>3, <2>1 DEF Close, TypeOK
<1>4. CASE Exit
  <2>1. Range(buf) \subseteq Event
    BY DEF TypeOK, Range
  <2> QED
    BY <1>4, <2>1 DEF Exit, TypeOK
<1>5. CASE Configure
  BY <1>5 DEF Configure, TypeOK
<1>6. ASSUME NEW f \in net, FetchStep(f) PROVE TypeOK'
  <2> USE <1>6
  <2>1. f \in Fetch /\ net \ {f} \in SUBSET Fetch /\ f.batch \subseteq Event
    BY DEF TypeOK, Fetch
  <2>2. \A o \in {"answer", "rejected", "sdkError"} :
          Settle(f, o) => got' \in [Call -> {"none", "pending", "answer", "rejected", "sdkError"}]
    BY DEF Settle, TypeOK
  <2>3. CASE SendBase(f)
    BY <2>1, <2>3, StageType DEF SendBase, TypeOK
  <2>4. CASE FetchFails(f)
    <3>1. Cardinality(f.batch) \in Nat
      <4>1. f.batch \subseteq 1 .. MaxEvents
        BY <2>1 DEF Event
      <4>2. IsFiniteSet(1 .. MaxEvents)
        <5>1. 1 \in Int /\ MaxEvents \in Int
          OBVIOUS
        <5> QED
          BY <5>1, FS_Interval
      <4>3. IsFiniteSet(f.batch)
        BY <4>1, <4>2, FS_Subset
      <4> QED
        BY <4>3, FS_CardinalityType
    <3>2. buf' \in Seq(Event) /\ net' \subseteq Fetch
            /\ dropped' \in Nat /\ events' \in 0 .. MaxEvents
      <4>1. CASE f.layer
        BY <2>1, <2>4, <3>1, <4>1, CaptureType DEF FetchFails
      <4>2. CASE ~f.layer
        BY <2>1, <2>4, <3>1, <4>2 DEF FetchFails, TypeOK
      <4> QED
        BY <4>1, <4>2
    <3>3. got' \in [Call -> {"none", "pending", "answer", "rejected", "sdkError"}]
      <4>1. PICK o \in {"rejected", "sdkError"} : Settle(f, o)
        BY <2>4 DEF FetchFails, FailOpen
      <4> QED
        BY <2>2, <4>1
    <3>4. netFailed' \subseteq Event /\ stored' \subseteq Event
      BY <2>1, <2>4 DEF FetchFails, TypeOK
    <3> QED
      BY <2>4, <3>2, <3>3, <3>4 DEF FetchFails, TypeOK
  <2>5. CASE FetchAnswers(f)
    <3>1. stored' \subseteq Event /\ refused' \subseteq Event
      BY <2>1, <2>5 DEF FetchAnswers, TypeOK
    <3>2. net' \subseteq Fetch
      <4>1. CASE f.layer
        <5>1. PICK endless \in BOOLEAN :
                net' = (net \ {f}) \cup {[f EXCEPT !.stage = "reading", !.endless = endless]}
          BY <2>5, <4>1 DEF FetchAnswers
        <5> QED
          BY <2>1, <5>1, StageType
      <4>2. CASE ~f.layer
        BY <2>1, <2>5, <4>2 DEF FetchAnswers
      <4> QED
        BY <4>1, <4>2
    <3>3. got' \in [Call -> {"none", "pending", "answer", "rejected", "sdkError"}]
      BY <2>2, <2>5 DEF FetchAnswers, TypeOK
    <3> QED
      BY <2>5, <3>1, <3>2, <3>3 DEF FetchAnswers, TypeOK
  <2>6. CASE FetchRead(f)
    <3>1. buf' \in Seq(Event) /\ net' \subseteq Fetch
            /\ dropped' \in Nat /\ events' \in 0 .. MaxEvents
      BY <2>1, <2>6, CaptureType DEF FetchRead
    <3>2. got' \in [Call -> {"none", "pending", "answer", "rejected", "sdkError"}]
      BY <2>2, <2>6 DEF FetchRead, FailOpen
    <3> QED
      BY <2>6, <3>1, <3>2 DEF FetchRead, TypeOK
  <2> QED
    BY <2>3, <2>4, <2>5, <2>6 DEF FetchStep
<1>7. ASSUME NEW c \in Call, CaptureFetch(c) \/ ProxyFetch(c) PROVE TypeOK'
  <2>1. \A layer, bad \in BOOLEAN : Fetching(c, layer, bad) \in Fetch
    BY DEF Fetching, Fetch
  <2>2. cfg.wrapped \in BOOLEAN /\ cfg.key \in BOOLEAN /\ cfg.duplex \in BOOLEAN
    BY DEF TypeOK, Config
  <2>3. CASE CaptureFetch(c)
    <3>1. PICK a \in Asks :
            /\ asked' = [asked EXCEPT ![c] = a]
            /\ \/ got' = [got EXCEPT ![c] = "sdkError"] /\ UNCHANGED net
               \/ got' = [got EXCEPT ![c] = "pending"] /\ net' = net \cup {Fetching(c, TRUE, FALSE)}
      BY <2>3 DEF CaptureFetch
    <3>2. a \in Ask
      OBVIOUS
    <3> QED
      BY <2>1, <2>3, <3>1, <3>2 DEF CaptureFetch, TypeOK
  <2>4. CASE ProxyFetch(c)
    <3>1. PICK a \in Asks :
            /\ asked' = [asked EXCEPT ![c] = a]
            /\ proxyCfg' = Ensured
            /\ \/ got' = [got EXCEPT ![c] = "sdkError"] /\ UNCHANGED net
               \/ /\ got' = [got EXCEPT ![c] = "pending"]
                  /\ net' = net \cup {Fetching(c, cfg.wrapped,
                                        a.input = "request" /\ a.body /\ cfg.duplex)}
      BY <2>4 DEF ProxyFetch
    <3>2. a \in Ask /\ Ensured \in {"env", "configured"}
      BY DEF Ensured, TypeOK
    <3>3. (a.input = "request" /\ a.body /\ cfg.duplex) \in BOOLEAN
      OBVIOUS
    <3>4. net' \subseteq Fetch
      BY <2>1, <2>2, <3>1, <3>3, ZenonT(40) DEF TypeOK
    <3> QED
      BY <2>4, <3>1, <3>2, <3>4 DEF ProxyFetch, TypeOK
  <2> QED
    BY <1>7, <2>3, <2>4
<1>8. ASSUME NEW r \in Request, RequestStep(r) PROVE TypeOK'
  <2>1. CASE End(r)
    <3>1. buf' \in Seq(Event) /\ net' \subseteq Fetch
            /\ dropped' \in Nat /\ events' \in 0 .. MaxEvents
      BY <2>1, CaptureType DEF End, TypeOK
    <3>2. http \in [Request -> HttpState] /\ http[r] \in HttpState
      BY DEF TypeOK, HttpState
    <3>3. PICK arg \in {"none", "chunk", "callback"} :
            http' = [http EXCEPT ![r].ends = @ + 1, ![r].last = arg,
                       ![r].ended = IF http[r].captured /\ arg = "callback"
                                    THEN http[r].ended ELSE TRUE]
      BY <2>1, Zenon DEF End
    <3> DEFINE ended == IF http[r].captured /\ arg = "callback"
                        THEN http[r].ended ELSE TRUE
    <3>4. ended \in BOOLEAN
      BY <3>2 DEF HttpState
    <3> HIDE DEF ended
    <3>5. http' = [http EXCEPT ![r].ends = @ + 1, ![r].last = arg, ![r].ended = ended]
      BY <3>3, Zenon DEF ended
    <3>6. http[r].ends < 2
      BY <2>1 DEF End
    <3> DEFINE h == [http[r] EXCEPT !.ends = @ + 1, !.last = arg, !.ended = ended]
    <3>a. http[r].ends + 1 \in 0 .. 2
      BY <3>2, <3>6 DEF HttpState
    <3>b. h \in HttpState
      BY <3>2, <3>4, <3>a DEF HttpState
    <3>c. http' = [http EXCEPT ![r] = h]
      BY <3>2, <3>5 DEF HttpState
    <3> HIDE DEF h
    <3>7. http' \in [Request -> HttpState]
      BY <3>2, <3>b, <3>c
    <3> QED
      BY <2>1, <3>1, <3>7 DEF End, TypeOK, HttpState
  <2>2. CASE Arrive(r)
    <3>0. http[r] \in HttpState /\ http \in [Request -> HttpState]
      BY DEF TypeOK, HttpState
    <3>1. PICK p \in Path, attached \in BOOLEAN :
            http' = [http EXCEPT ![r] = [http[r] EXCEPT !.stage = "open",
                                           !.captured = RouteAllowed(p), !.attached = attached]]
      BY <2>2, <3>0 DEF Arrive
    <3>a. RouteAllowed(p) \in BOOLEAN
      BY DEF RouteAllowed
    <3> DEFINE captured == RouteAllowed(p)
    <3> HIDE DEF captured
    <3>2. [http[r] EXCEPT !.stage = "open", !.captured = captured,
                          !.attached = attached] \in HttpState
      BY <3>0, <3>a DEF HttpState, captured
    <3>3. http' \in [Request -> HttpState]
      BY <3>0, <3>1, <3>2 DEF captured
    <3> QED
      BY <2>2, <3>3 DEF Arrive, TypeOK, HttpState
  <2>3. CASE Attach(r)
    BY <2>3, ZenonT(40) DEF Attach, TypeOK
  <2>4. CASE BodyArrives(r)
    BY <2>4 DEF BodyArrives, TypeOK
  <2>5. CASE Finish(r)
    BY <2>5, ZenonT(40) DEF Finish, TypeOK
  <2> QED
    BY <1>8, <2>1, <2>2, <2>3, <2>4, <2>5 DEF RequestStep
<1> QED
  BY <1>1, <1>2, <1>3, <1>4, <1>5, <1>6, <1>7, <1>8 DEF Next

LEMMA InitType == Init => TypeOK
BY ConstantsAssumption DEF Init, TypeOK, IdleRequest, Ask, Config

\* Every variable of the SDK, its host's requests and calls keeps its type.
THEOREM TypeCorrect == Spec => []TypeOK
BY InitType, NextType, PTL DEF Spec
-----------------------------------------------------------------------------
(* The fetches and the ledger. *)

\* A fetch without events is added.
LEMMA Adds ==
  ASSUME NEW b, NEW n, NEW ev, NEW st, NEW re, NEW nf, NEW pr,
         Ledger(b, n, ev, st, re, nf, pr), NEW g, g.batch = {}
  PROVE  /\ Ledger(b, n \cup {g}, ev, st, re, nf, pr)
         /\ InFlight(n \cup {g}) = InFlight(n)
BY DEF Ledger, InFlight

\* A fetch whose batch is not settled goes on to another such stage.
LEMMA GoesOn ==
  ASSUME NEW b, NEW n, NEW ev, NEW st, NEW re, NEW nf, NEW pr,
         Ledger(b, n, ev, st, re, nf, pr),
         NEW f \in n, NEW g, g.batch = f.batch,
         f.stage # "reading", g.stage # "reading"
  PROVE  /\ Ledger(b, (n \ {f}) \cup {g}, ev, st, re, nf, pr)
         /\ InFlight((n \ {f}) \cup {g}) = InFlight(n)
<1> DEFINE m == (n \ {f}) \cup {g}
<1>1. InFlight(m) = InFlight(n)
  BY DEF InFlight
<1>2. ASSUME NEW h \in m, NEW e \in h.batch
      PROVE  /\ e \in 1 .. ev /\ e \notin nf
             /\ e \in st \cup re <=> h.stage = "reading"
             /\ \A k \in m : e \in k.batch => k = h
  <2>1. CASE h = g
    BY <1>2, <2>1 DEF Ledger
  <2>2. CASE h # g /\ h \in n \ {f}
    BY <1>2, <2>2 DEF Ledger
  <2> QED
    BY <2>1, <2>2
<1>3. \A e \in Range(b) : \A h \in m : e \notin h.batch
  BY DEF Ledger
<1> HIDE DEF m
<1>4. Ledger(b, m, ev, st, re, nf, pr)
  BY <1>2, <1>3 DEF Ledger
<1> QED
  BY <1>1, <1>4 DEF m

\* A fetch fails; its batch may have arrived.
LEMMA Fails ==
  ASSUME NEW b, NEW n, NEW ev \in Nat, NEW st, NEW re, NEW nf, NEW pr,
         Ledger(b, n, ev, st, re, nf, pr),
         NEW f \in n, f.stage # "reading", NEW arrived, arrived \subseteq f.batch
  PROVE  /\ Ledger(b, n \ {f}, ev, st \cup arrived, re, nf \cup f.batch, pr)
         /\ Cardinality(Gone(b, n \ {f}, ev, st \cup arrived, re, nf \cup f.batch))
              = Cardinality(Gone(b, n, ev, st, re, nf)) + Cardinality(f.batch)
         /\ Complete(b, n, ev, st, re, nf)
              => Complete(b, n \ {f}, ev, st \cup arrived, re, nf \cup f.batch)
<1>1. /\ f.batch \subseteq 1 .. ev
      /\ f.batch \cap (Range(b) \cup st \cup re \cup nf) = {}
      /\ f.batch \cap InFlight(n \ {f}) = {}
  BY DEF Ledger, InFlight
<1>2. InFlight(n) = InFlight(n \ {f}) \cup f.batch
  BY DEF InFlight
<1>3. arrived \subseteq f.batch
  OBVIOUS
<1>4. Ledger(b, n \ {f}, ev, st \cup arrived, re, nf \cup f.batch, pr)
  <2>1. \A e \in Range(b) :
          /\ e \in 1 .. ev /\ e > pr
          /\ e \notin (st \cup arrived) \cup re \cup (nf \cup f.batch)
          /\ \A h \in n \ {f} : e \notin h.batch
    BY <1>1, <1>3 DEF Ledger
  <2>2. ASSUME NEW h \in n \ {f}, NEW e \in h.batch
        PROVE  /\ e \in 1 .. ev /\ e \notin nf \cup f.batch
               /\ e \in (st \cup arrived) \cup re <=> h.stage = "reading"
               /\ \A k \in n \ {f} : e \in k.batch => k = h
    <3>1. e \notin f.batch
      BY DEF Ledger
    <3> QED
      BY <3>1, <1>3 DEF Ledger
  <2>3. (st \cup arrived) \cup re \cup (nf \cup f.batch) \subseteq 1 .. ev
    BY <1>1, <1>3 DEF Ledger
  <2>4. re \cap ((st \cup arrived) \cup (nf \cup f.batch)) = {}
    BY <1>1, <1>3 DEF Ledger
  <2> QED
    BY <2>1, <2>2, <2>3, <2>4 DEF Ledger
<1>5. Gone(b, n \ {f}, ev, st \cup arrived, re, nf \cup f.batch)
        = Gone(b, n, ev, st, re, nf) \cup f.batch
  BY <1>1, <1>2, <1>3 DEF Gone
<1>6. /\ Gone(b, n, ev, st, re, nf) \subseteq 1 .. ev
      /\ Gone(b, n, ev, st, re, nf) \cap f.batch = {}
  BY <1>1, <1>2 DEF Gone, Ledger
<1>7. Cardinality(Gone(b, n, ev, st, re, nf) \cup f.batch)
        = Cardinality(Gone(b, n, ev, st, re, nf)) + Cardinality(f.batch)
  BY <1>1, <1>6, CountsMore
<1>8. Complete(b, n, ev, st, re, nf)
        => Complete(b, n \ {f}, ev, st \cup arrived, re, nf \cup f.batch)
  BY <1>2 DEF Complete
<1> QED
  BY <1>4, <1>5, <1>7, <1>8

\* A fetch is answered: its batch is stored or refused, and the fetch is over
\* or reads the answer.
LEMMA Answers ==
  ASSUME NEW b, NEW n, NEW ev, NEW st, NEW re, NEW nf, NEW pr,
         Ledger(b, n, ev, st, re, nf, pr),
         NEW f \in n, f.stage # "reading", NEW st2, NEW re2,
         \/ st2 = st \cup f.batch /\ re2 = re
         \/ st2 = st /\ re2 = re \cup f.batch,
         NEW rest, \/ rest = {}
                   \/ \E g : rest = {g} /\ g.batch = f.batch /\ g.stage = "reading"
  PROVE  /\ Ledger(b, (n \ {f}) \cup rest, ev, st2, re2, nf, pr)
         /\ Gone(b, (n \ {f}) \cup rest, ev, st2, re2, nf) = Gone(b, n, ev, st, re, nf)
         /\ Complete(b, n, ev, st, re, nf)
              => Complete(b, (n \ {f}) \cup rest, ev, st2, re2, nf)
<1> DEFINE m == (n \ {f}) \cup rest
<1>1. st2 \cup re2 = st \cup re \cup f.batch
  OBVIOUS
<1>2. /\ f.batch \subseteq 1 .. ev
      /\ f.batch \cap (Range(b) \cup st \cup re \cup nf) = {}
  BY DEF Ledger
<1>3. \A g \in rest : g.batch = f.batch /\ g.stage = "reading"
  OBVIOUS
<1>4. \A g, h \in rest : g = h
  OBVIOUS
<1>5. InFlight(n) \cup f.batch = InFlight(m) \cup f.batch
  BY <1>3 DEF InFlight
<1>6. ASSUME NEW h \in m, NEW e \in h.batch
      PROVE  /\ e \in 1 .. ev /\ e \notin nf
             /\ e \in st2 \cup re2 <=> h.stage = "reading"
             /\ \A k \in m : e \in k.batch => k = h
  <2>1. CASE h \in rest
    <3>1. e \in f.batch
      BY <1>6, <2>1, <1>3
    <3>2. \A k \in n \ {f} : e \notin k.batch
      BY <3>1 DEF Ledger
    <3> QED
      BY <2>1, <3>1, <3>2, <1>1, <1>2, <1>3, <1>4
  <2>2. CASE h \in n \ {f}
    <3>1. e \notin f.batch
      BY <1>6, <2>2 DEF Ledger
    <3>2. \A k \in rest : e \notin k.batch
      BY <3>1, <1>3
    <3> QED
      BY <1>6, <2>2, <3>1, <3>2, <1>1 DEF Ledger
  <2> QED
    BY <2>1, <2>2
<1>7. \A e \in Range(b) : \A h \in m : e \notin h.batch
  BY <1>2, <1>3 DEF Ledger
<1> HIDE DEF m
<1>8. st2 \cup re2 \cup nf \subseteq 1 .. ev /\ re2 \cap (st2 \cup nf) = {}
  BY <1>2 DEF Ledger
<1>9. Ledger(b, m, ev, st2, re2, nf, pr)
  <2>1. \A e \in Range(b) : e \in 1 .. ev /\ e > pr /\ e \notin st2 \cup re2 \cup nf
    BY <1>1, <1>2 DEF Ledger
  <2> QED
    BY <2>1, <1>6, <1>7, <1>8 DEF Ledger
<1>10. Gone(b, m, ev, st2, re2, nf) = Gone(b, n, ev, st, re, nf)
  <2>1. \A e : e \in Range(b) \cup InFlight(m) \cup st2 \cup re2
                 <=> e \in Range(b) \cup InFlight(n) \cup st \cup re
    <3>1. f.batch \subseteq InFlight(n)
      BY DEF InFlight
    <3> QED
      BY <3>1, <1>1, <1>5
  <2> QED
    BY <2>1 DEF Gone
<1>11. Complete(b, n, ev, st, re, nf) => Complete(b, m, ev, st2, re2, nf)
  BY <1>1, <1>5 DEF Complete
<1> QED
  BY <1>9, <1>10, <1>11 DEF m

\* The answer of a fetch has been read.
LEMMA IsRead ==
  ASSUME NEW b, NEW n, NEW ev, NEW st, NEW re, NEW nf, NEW pr,
         Ledger(b, n, ev, st, re, nf, pr), NEW f \in n, f.stage = "reading"
  PROVE  /\ Ledger(b, n \ {f}, ev, st, re, nf, pr)
         /\ Gone(b, n \ {f}, ev, st, re, nf) = Gone(b, n, ev, st, re, nf)
         /\ Complete(b, n, ev, st, re, nf) => Complete(b, n \ {f}, ev, st, re, nf)
<1>1. InFlight(n) = InFlight(n \ {f}) \cup f.batch
  BY DEF InFlight
<1>2. f.batch \subseteq st \cup re
  BY DEF Ledger
<1>3. Ledger(b, n \ {f}, ev, st, re, nf, pr)
  BY DEF Ledger
<1>4. Gone(b, n \ {f}, ev, st, re, nf) = Gone(b, n, ev, st, re, nf)
  BY <1>1, <1>2 DEF Gone
<1>5. Complete(b, n, ev, st, re, nf) => Complete(b, n \ {f}, ev, st, re, nf)
  BY <1>1, <1>2 DEF Complete
<1> QED
  BY <1>3, <1>4, <1>5
-----------------------------------------------------------------------------
(* The books of the client. *)

\* What holds of the client c between two steps: the ledger; nothing is
\* buffered without a key; a buffer is never left with a whole batch in it;
\* d, the drops counted, is the number of events gone; and with a runtime
\* that can make and write events, and a buffer that takes a batch, none is.
Sound(c, b, n, ev, d, st, re, nf, pr) ==
  /\ Ledger(b, n, ev, st, re, nf, pr)
  /\ c.webcrypto => d = Cardinality(Gone(b, n, ev, st, re, nf))
  /\ c.bigint /\ c.webcrypto /\ c.batch <= c.buffer => Complete(b, n, ev, st, re, nf)

Books(c, b, n, ev, d, st, re, nf, pr) ==
  /\ Sound(c, b, n, ev, d, st, re, nf, pr)
  /\ ~c.key => b = <<>>
  /\ c.webcrypto => Len(b) < c.batch

\* flush keeps the books, from a buffer b that may hold a whole batch.
LEMMA FlushKeeps ==
  ASSUME TypeOK, NEW b \in Seq(Event), NEW n, NEW ev \in Nat, NEW counted \in Nat,
         NEW st, NEW re, NEW nf, NEW pr, NEW any \in Nat,
         Sound(cfg, b, n, ev, dropped + counted, st, re, nf, pr), Flush(b, n, counted)
  PROVE  Books(cfg, buf', net', ev, dropped', st, re, nf, any)
<1>1. /\ buf' = <<>> /\ net' = n \cup Posts(b)
      /\ dropped' = dropped + counted + Unwritten(b)
      /\ dropped \in Nat /\ cfg.batch \in Nat \ {0} /\ cfg.bigint \in BOOLEAN
  BY DEF Flush, TypeOK, Config
<1>2. Len(buf') < cfg.batch
  BY <1>1
<1>3. Ledger(b, n, ev, st, re, nf, pr)
  BY DEF Sound
<1>4. CASE cfg.bigint
  <2>1. PostOf(b).batch = Range(b) /\ PostOf(b).stage # "reading"
    BY DEF PostOf
  <2>2. /\ Ledger(<<>>, n \cup {PostOf(b)}, ev, st, re, nf, any)
        /\ Gone(<<>>, n \cup {PostOf(b)}, ev, st, re, nf) = Gone(b, n, ev, st, re, nf)
        /\ Complete(b, n, ev, st, re, nf)
             => Complete(<<>>, n \cup {PostOf(b)}, ev, st, re, nf)
    BY <2>1, <1>3, Ships
  <2>3. net' = n \cup {PostOf(b)} /\ dropped' = dropped + counted
    BY <1>1, <1>4, PostsCases DEF Unwritten
  <2> QED
    BY <1>1, <1>2, <2>2, <2>3 DEF Books, Sound
<1>5. CASE ~cfg.bigint
  <2>1. /\ Ledger(<<>>, n, ev, st, re, nf, any)
        /\ Cardinality(Gone(<<>>, n, ev, st, re, nf))
             = Cardinality(Gone(b, n, ev, st, re, nf)) + Len(b)
    BY <1>3, Unships
  <2>2. net' = n /\ dropped' = (dropped + counted) + Len(b)
    BY <1>1, <1>5, PostsCases DEF Unwritten
  <2> QED
    BY <1>1, <1>2, <1>5, <2>1, <2>2 DEF Books, Sound
<1> QED
  BY <1>4, <1>5

\* An overflow keeps the books: there is none if a buffer takes a batch.
LEMMA OverflowKeeps ==
  ASSUME TypeOK, NEW n, NEW counted \in Nat, NEW st, NEW re, NEW nf,
         Books(cfg, buf, n, events, dropped + counted, st, re, nf, promised)
  PROVE  Sound(cfg, Kept, n, events, dropped + (counted + Over), st, re, nf, promised)
<1>1. /\ buf \in Seq(Event) /\ events \in Nat /\ dropped \in Nat
      /\ cfg.buffer \in Nat \ {0} /\ cfg.batch \in Nat \ {0}
  BY ConstantsAssumption DEF TypeOK, Config
<1>2. Ledger(buf, n, events, st, re, nf, promised)
  BY DEF Books, Sound
<1>3. CASE Len(buf) >= cfg.buffer
  <2>1. buf # <<>> /\ Kept = Tail(buf) /\ Over = 1
    BY <1>1, <1>3 DEF Kept, Over
  <2>2. /\ Ledger(Tail(buf), n, events, st, re, nf, promised)
        /\ Cardinality(Gone(Tail(buf), n, events, st, re, nf))
             = Cardinality(Gone(buf, n, events, st, re, nf)) + 1
    BY <1>1, <1>2, <2>1, Overflows
  <2>3. ~(cfg.webcrypto /\ cfg.batch <= cfg.buffer)
    BY <1>1, <1>3 DEF Books
  <2>4. dropped + (counted + Over) = (dropped + counted) + 1
    BY <1>1, <2>1
  <2> QED
    BY <2>1, <2>2, <2>3, <2>4 DEF Books, Sound
<1>4. CASE ~(Len(buf) >= cfg.buffer)
  <2>1. Kept = buf /\ dropped + (counted + Over) = dropped + counted
    BY <1>1, <1>4 DEF Kept, Over
  <2> QED
    BY <2>1 DEF Books, Sound
<1> QED
  BY <1>3, <1>4

\* An event that could not be made is nowhere: the ledger does not mind.
LEMMA LedgerGrows ==
  ASSUME NEW b, NEW n, NEW ev \in Nat, NEW st, NEW re, NEW nf, NEW pr,
         Ledger(b, n, ev, st, re, nf, pr)
  PROVE  Ledger(b, n, ev + 1, st, re, nf, pr)
<1>1. 1 .. ev \subseteq 1 .. ev + 1
  OBVIOUS
<1> QED
  BY <1>1 DEF Ledger

\* capture keeps the books, with the fetches n and the drops counted.
LEMMA CaptureKeeps ==
  ASSUME TypeOK, promised <= events,
         NEW n, NEW counted \in Nat, NEW st, NEW re, NEW nf,
         Books(cfg, buf, n, events, dropped + counted, st, re, nf, promised),
         Capture(n, counted)
  PROVE  Books(cfg, buf', net', events', dropped', st, re, nf, promised)
<1>1. /\ Kept \in Seq(Event) /\ Over \in Nat
      /\ events \in Nat /\ dropped \in Nat /\ promised \in 0 .. events
  BY ConstantsAssumption, KeptType DEF TypeOK
<1>2. Sound(cfg, Kept, n, events, dropped + (counted + Over), st, re, nf, promised)
  BY OverflowKeeps
<1>3. CASE net' = n /\ dropped' = dropped + counted /\ buf' = buf /\ events' = events
  BY <1>3
<1>4. CASE /\ cfg.key /\ events < MaxEvents /\ events' = events + 1
  <2> DEFINE next == Append(Kept, events + 1)
  <2>1. next \in Seq(Event)
    BY <1>1, <1>4, ConstantsAssumption DEF Event
  <2>2. Sound(cfg, next, n, events + 1, dropped + (counted + Over), st, re, nf, promised)
    <3>1. Ledger(Kept, n, events, st, re, nf, promised)
      BY <1>2 DEF Sound
    <3>2. /\ Ledger(next, n, events + 1, st, re, nf, promised)
          /\ Gone(next, n, events + 1, st, re, nf) = Gone(Kept, n, events, st, re, nf)
          /\ Complete(Kept, n, events, st, re, nf)
               => Complete(next, n, events + 1, st, re, nf)
      BY <1>1, <3>1, Appends
    <3> QED
      BY <1>2, <3>2 DEF Sound
  <2> HIDE DEF next
  <2>3. CASE Flush(next, n, counted + Over)
    <3>1. counted + Over \in Nat /\ events + 1 \in Nat /\ promised \in Nat
      BY <1>1
    <3> QED
      BY <1>4, <2>1, <2>2, <2>3, <3>1, FlushKeeps
  <2>4. CASE /\ cfg.webcrypto /\ ~(Len(next) >= cfg.batch)
             /\ buf' = next /\ net' = n /\ dropped' = dropped + (counted + Over)
    <3>1. Len(next) < cfg.batch
      <4>1. cfg.batch \in Nat /\ Len(next) \in Nat
        BY <2>1 DEF TypeOK, Config
      <4> QED
        BY <2>4, <4>1
    <3> QED
      BY <1>4, <2>2, <2>4, <3>1 DEF Books
  <2>5. CASE /\ ~cfg.webcrypto
             /\ buf' = Kept /\ net' = n /\ dropped' = dropped + (counted + Over)
    <3>1. Ledger(Kept, n, events + 1, st, re, nf, promised)
      BY <1>1, <1>2, LedgerGrows DEF Sound
    <3> QED
      BY <1>4, <2>5, <3>1 DEF Books, Sound
  <2>6. CASE net' = n /\ dropped' = dropped + counted /\ buf' = buf /\ events' = events
    BY <1>3, <2>6
  <2> QED
    BY <2>3, <2>4, <2>5, <2>6, CaptureCases DEF next
<1> QED
  BY <1>3, <1>4, CaptureCases
-----------------------------------------------------------------------------
(* Every event of the client is accounted for. *)

\* The inductive invariant: the books are kept, and the process ends with the
\* events of the buffer, and with no fetch in progress.
ClientInv ==
  /\ promised <= events
  /\ Books(cfg, buf, net, events, dropped, stored, refused, netFailed, promised)
  /\ alive => abandoned = {}
  /\ ~alive => net = {} /\ abandoned = Range(buf)

LEMMA InitClient == Init => ClientInv
<1> SUFFICES ASSUME Init PROVE ClientInv
  OBVIOUS
<1>1. Ledger(buf, net, events, stored, refused, netFailed, promised)
  BY EmptySequence DEF Init, Ledger
<1>2. Gone(buf, net, events, stored, refused, netFailed) = {}
  BY EmptySequence DEF Init, Gone
<1>3. Complete(buf, net, events, stored, refused, netFailed)
  BY DEF Init, Complete
<1>4. Len(buf) < cfg.batch /\ buf = <<>> /\ dropped = 0
  BY ConstantsAssumption DEF Init, Config
<1>5. Cardinality({}) = 0
  BY FS_EmptySet
<1>6. Books(cfg, buf, net, events, dropped, stored, refused, netFailed, promised)
  BY <1>1, <1>2, <1>3, <1>4, <1>5 DEF Books, Sound
<1>7. promised <= events /\ alive /\ abandoned = {}
  BY DEF Init
<1> QED
  BY <1>6, <1>7 DEF ClientInv

\* Every step keeps the books.
LEMMA NextClient == TypeOK /\ ClientInv /\ [Next]_vars => ClientInv'
<1> SUFFICES ASSUME TypeOK, ClientInv, [Next]_vars PROVE ClientInv'
  OBVIOUS
<1> USE DEF sdkVars, history
<1>0. /\ buf \in Seq(Event) /\ dropped \in Nat /\ events \in Nat /\ promised \in Nat
      /\ Books(cfg, buf, net, events, dropped, stored, refused, netFailed, promised)
      /\ Ledger(buf, net, events, stored, refused, netFailed, promised)
      /\ promised <= events
  BY ConstantsAssumption DEF TypeOK, ClientInv, Books, Sound
<1>1. CASE UNCHANGED vars
  BY <1>1 DEF ClientInv, vars
<1>2. ASSUME Flush(buf, net, 0), NEW any \in Nat
      PROVE  Books(cfg, buf', net', events, dropped', stored, refused, netFailed, any)
  <2>1. Sound(cfg, buf, net, events, dropped + 0, stored, refused, netFailed, promised)
    BY <1>0 DEF Books
  <2> QED
    BY <1>0, <1>2, <2>1, FlushKeeps
<1>3. CASE Tick
  BY <1>0, <1>2, <1>3 DEF Tick, ClientInv
<1>4. CASE Close
  <2>1. CASE buf = <<>> \/ ~cfg.key
    <3>1. buf = <<>>
      BY <1>0, <2>1 DEF Books
    <3>2. Ledger(buf, net, events, stored, refused, netFailed, events)
      BY <1>0, <3>1, EmptySequence DEF Ledger
    <3> QED
      BY <1>0, <1>4, <2>1, <3>2 DEF Close, ClientInv, Books, Sound
  <2>2. CASE ~(buf = <<>> \/ ~cfg.key)
    BY <1>0, <1>2, <1>4, <2>2 DEF Close, ClientInv
  <2> QED
    BY <2>1, <2>2
<1>5. CASE Exit
  BY <1>5 DEF Exit, ClientInv
<1>6. CASE Configure
  BY <1>6 DEF Configure, ClientInv
<1>7. ASSUME NEW f \in net, FetchStep(f) PROVE ClientInv'
  <2> USE <1>7
  <2>1. f \in Fetch /\ IsFiniteSet(f.batch) /\ Cardinality(f.batch) \in Nat
    <3>1. f \in Fetch /\ f.batch \subseteq 1 .. events
      BY <1>0 DEF TypeOK, Ledger
    <3>2. IsFiniteSet(1 .. events)
      BY <1>0, FS_Interval
    <3> QED
      BY <3>1, <3>2, FS_Subset, FS_CardinalityType
  <2>2. CASE SendBase(f)
    <3> DEFINE g == [f EXCEPT !.stage = "base"]
    <3>1. f.stage # "reading" /\ g.stage # "reading" /\ g.batch = f.batch
      BY <2>1, <2>2 DEF SendBase, Fetch
    <3>2. net' = (net \ {f}) \cup {g}
      BY <2>2 DEF SendBase
    <3> HIDE DEF g
    <3>3. /\ Ledger(buf, net', events, stored, refused, netFailed, promised)
          /\ InFlight(net') = InFlight(net)
      BY <1>0, <3>1, <3>2, GoesOn
    <3>4. Books(cfg, buf, net', events, dropped, stored, refused, netFailed, promised)
      BY <1>0, <3>3 DEF Books, Sound, Gone, Complete
    <3> QED
      BY <2>2, <3>4 DEF SendBase, ClientInv
  <2>3. CASE FetchFails(f)
    <3>1. PICK arrived \in {{}, f.batch} : stored' = stored \cup arrived
      BY <2>3 DEF FetchFails
    <3>2. netFailed' = netFailed \cup f.batch /\ refused' = refused /\ f.stage # "reading"
      BY <2>3 DEF FetchFails
    <3> DEFINE st2 == stored \cup arrived
               nf2 == netFailed \cup f.batch
    <3>a. /\ Ledger(buf, net \ {f}, events, st2, refused, nf2, promised)
          /\ Cardinality(Gone(buf, net \ {f}, events, st2, refused, nf2))
               = Cardinality(Gone(buf, net, events, stored, refused, netFailed))
                   + Cardinality(f.batch)
          /\ Complete(buf, net, events, stored, refused, netFailed)
               => Complete(buf, net \ {f}, events, st2, refused, nf2)
      <4>1. arrived \subseteq f.batch
        OBVIOUS
      <4>2. events \in Nat /\ f \in net /\ f.stage # "reading"
              /\ Ledger(buf, net, events, stored, refused, netFailed, promised)
        BY <1>0, <3>2
      <4> QED
        BY <4>1, <4>2, Fails
    <3>b. stored' = st2 /\ netFailed' = nf2 /\ refused' = refused
      BY <3>1, <3>2
    <3> HIDE DEF st2, nf2
    <3>3. /\ Ledger(buf, net \ {f}, events, stored', refused', netFailed', promised)
          /\ Cardinality(Gone(buf, net \ {f}, events, stored', refused', netFailed'))
               = Cardinality(Gone(buf, net, events, stored, refused, netFailed))
                   + Cardinality(f.batch)
          /\ Complete(buf, net, events, stored, refused, netFailed)
               => Complete(buf, net \ {f}, events, stored', refused', netFailed')
      BY <3>a, <3>b
    <3>4. Books(cfg, buf, net \ {f}, events, dropped + Cardinality(f.batch),
                stored', refused', netFailed', promised)
      BY <1>0, <3>3 DEF Books, Sound
    <3>5. Books(cfg, buf', net', events', dropped', stored', refused', netFailed', promised)
            /\ promised <= events'
      <4>1. CASE f.layer
        <5>1. Capture(net \ {f}, Cardinality(f.batch))
          BY <2>3, <4>1 DEF FetchFails
        <5>2. Books(cfg, buf', net', events', dropped', stored', refused', netFailed', promised)
          BY <1>0, <2>1, <3>4, <5>1, CaptureKeeps
        <5>3. events' = events \/ events' = events + 1
          BY <5>1, CaptureCases
        <5> QED
          BY <1>0, <5>2, <5>3
      <4>2. CASE ~f.layer
        BY <1>0, <2>3, <3>4, <4>2 DEF FetchFails
      <4> QED
        BY <4>1, <4>2
    <3> QED
      BY <2>3, <3>5 DEF FetchFails, ClientInv
  <2>4. CASE FetchAnswers(f)
    <3>1. \/ stored' = stored \cup f.batch /\ refused' = refused
          \/ stored' = stored /\ refused' = refused \cup f.batch
      BY <2>4 DEF FetchAnswers
    <3> DEFINE Rest(x) == \/ x = {}
                          \/ \E g : x = {g} /\ g.batch = f.batch /\ g.stage = "reading"
    <3>2. PICK rest : net' = (net \ {f}) \cup rest /\ Rest(rest)
      <4>1. CASE f.layer
        <5>1. PICK endless \in BOOLEAN :
                net' = (net \ {f}) \cup {[f EXCEPT !.stage = "reading", !.endless = endless]}
          BY <2>4, <4>1 DEF FetchAnswers
        <5> DEFINE g == [f EXCEPT !.stage = "reading", !.endless = endless]
        <5>2. g.batch = f.batch /\ g.stage = "reading"
          BY <2>1 DEF Fetch
        <5> HIDE DEF g
        <5> WITNESS {g}
        <5> QED
          BY <5>1, <5>2 DEF g
      <4>2. CASE ~f.layer
        BY <2>4, <4>2 DEF FetchAnswers
      <4> QED
        BY <4>1, <4>2
    <3>3. f.stage # "reading"
      BY <2>4 DEF FetchAnswers
    <3>4. /\ Ledger(buf, net', events, stored', refused', netFailed, promised)
          /\ Gone(buf, net', events, stored', refused', netFailed)
               = Gone(buf, net, events, stored, refused, netFailed)
          /\ Complete(buf, net, events, stored, refused, netFailed)
               => Complete(buf, net', events, stored', refused', netFailed)
      <4>1. ASSUME NEW st2, NEW re2, \/ st2 = stored \cup f.batch /\ re2 = refused
                                     \/ st2 = stored /\ re2 = refused \cup f.batch
            PROVE  /\ Ledger(buf, (net \ {f}) \cup rest, events, st2, re2, netFailed, promised)
                   /\ Gone(buf, (net \ {f}) \cup rest, events, st2, re2, netFailed)
                        = Gone(buf, net, events, stored, refused, netFailed)
                   /\ Complete(buf, net, events, stored, refused, netFailed)
                        => Complete(buf, (net \ {f}) \cup rest, events, st2, re2, netFailed)
        BY <1>0, <3>2, <3>3, <4>1, Answers
      <4> QED
        BY <3>1, <3>2, <4>1
    <3>5. Books(cfg, buf, net', events, dropped, stored', refused', netFailed, promised)
      BY <1>0, <3>4 DEF Books, Sound
    <3> QED
      BY <2>4, <3>5 DEF FetchAnswers, ClientInv
  <2>5. CASE FetchRead(f)
    <3>1. /\ Ledger(buf, net \ {f}, events, stored, refused, netFailed, promised)
          /\ Gone(buf, net \ {f}, events, stored, refused, netFailed)
               = Gone(buf, net, events, stored, refused, netFailed)
          /\ Complete(buf, net, events, stored, refused, netFailed)
               => Complete(buf, net \ {f}, events, stored, refused, netFailed)
      BY <1>0, <2>5, IsRead DEF FetchRead
    <3>2. Books(cfg, buf, net \ {f}, events, dropped + 0, stored, refused, netFailed, promised)
      BY <1>0, <3>1 DEF Books, Sound
    <3>3. Capture(net \ {f}, 0)
      BY <2>5 DEF FetchRead
    <3>4. Books(cfg, buf', net', events', dropped', stored, refused, netFailed, promised)
      BY <1>0, <3>2, <3>3, CaptureKeeps
    <3>5. promised <= events'
      BY <1>0, <3>3, CaptureCases
    <3> QED
      BY <2>5, <3>4, <3>5 DEF FetchRead, ClientInv
  <2> QED
    BY <2>2, <2>3, <2>4, <2>5 DEF FetchStep
<1>8. ASSUME NEW c \in Call, CaptureFetch(c) \/ ProxyFetch(c) PROVE ClientInv'
  <2>1. \E g : g.batch = {} /\ net' \in {net, net \cup {g}}
    <3>1. \A layer, bad : Fetching(c, layer, bad).batch = {}
      BY DEF Fetching
    <3>2. CASE CaptureFetch(c)
      BY <3>1, <3>2 DEF CaptureFetch
    <3>3. CASE ProxyFetch(c)
      BY <3>1, <3>3 DEF ProxyFetch
    <3> QED
      BY <1>8, <3>2, <3>3
  <2>2. /\ Ledger(buf, net', events, stored, refused, netFailed, promised)
        /\ InFlight(net') = InFlight(net)
    BY <1>0, <2>1, Adds
  <2>3. Books(cfg, buf, net', events, dropped, stored, refused, netFailed, promised)
    BY <1>0, <2>2 DEF Books, Sound, Gone, Complete
  <2>4. /\ alive /\ alive' = alive
        /\ UNCHANGED <<cfg, buf, dropped, events, history>>
    BY <1>8 DEF CaptureFetch, ProxyFetch
  <2> QED
    BY <2>3, <2>4 DEF ClientInv
<1>9. ASSUME NEW r \in Request, RequestStep(r) PROVE ClientInv'
  <2>1. CASE End(r)
    <3>1. CASE Capture(net, 0)
      <4>1. Books(cfg, buf, net, events, dropped + 0, stored, refused, netFailed, promised)
        BY <1>0
      <4>2. Books(cfg, buf', net', events', dropped', stored, refused, netFailed, promised)
        BY <1>0, <3>1, <4>1, CaptureKeeps
      <4>3. promised <= events'
        BY <1>0, <3>1, CaptureCases
      <4> QED
        BY <2>1, <4>2, <4>3 DEF End, ClientInv
    <3>2. CASE UNCHANGED <<buf, net, dropped, events>>
      BY <2>1, <3>2 DEF End, ClientInv
    <3> QED
      BY <2>1, <3>1, <3>2 DEF End
  <2>2. CASE Arrive(r)
    BY <2>2 DEF Arrive, ClientInv
  <2>3. CASE Attach(r)
    BY <2>3 DEF Attach, ClientInv
  <2>4. CASE BodyArrives(r)
    BY <2>4 DEF BodyArrives, ClientInv
  <2>5. CASE Finish(r)
    BY <2>5 DEF Finish, ClientInv
  <2> QED
    BY <1>9, <2>1, <2>2, <2>3, <2>4, <2>5 DEF RequestStep
<1> QED
  BY <1>1, <1>3, <1>4, <1>5, <1>6, <1>7, <1>8, <1>9 DEF Next
\* Every event is accounted for, in every state.
LEMMA ClientInvariant == Spec => [](TypeOK /\ ClientInv)
<1>1. Init => TypeOK /\ ClientInv
  BY InitType, InitClient
<1>2. TypeOK /\ ClientInv /\ [Next]_vars => (TypeOK /\ ClientInv)'
  BY NextType, NextClient
<1> QED
  BY <1>1, <1>2, PTL DEF Spec

\* An event of the application is lost only for one of the stated reasons.
THEOREM LossesHaveACause == Spec => []LossHasACause
<1>1. TypeOK /\ ClientInv => LossHasACause
  <2> SUFFICES ASSUME TypeOK, ClientInv, NEW e \in Lost,
                      ~(cfg.batch > cfg.buffer), cfg.bigint, cfg.webcrypto
               PROVE  e \in refused \cup netFailed \/ (e \in abandoned /\ e > promised)
    BY DEF LossHasACause
  <2>1. cfg.batch <= cfg.buffer
    BY DEF TypeOK, Config
  <2>2. /\ Ledger(buf, net, events, stored, refused, netFailed, promised)
        /\ Complete(buf, net, events, stored, refused, netFailed)
    BY <2>1 DEF ClientInv, Books, Sound
  <2>3. CASE alive
    BY <2>2, <2>3 DEF Lost, Held, Complete, InFlight
  <2>4. CASE ~alive
    <3>1. net = {} /\ abandoned = Range(buf)
      BY <2>4 DEF ClientInv
    <3> QED
      BY <2>2, <2>4, <3>1 DEF Lost, Held, Complete, InFlight, Ledger
  <2> QED
    BY <2>3, <2>4
<1> QED
  BY <1>1, ClientInvariant, PTL

\* droppedCount has every event that overflowed or whose fetch failed, once.
THEOREM DropsCountedOnce == Spec => []DropsAreCountedOnce
<1>1. TypeOK /\ ClientInv => DropsAreCountedOnce
  <2> SUFFICES ASSUME TypeOK, ClientInv, cfg.webcrypto
               PROVE  dropped = Cardinality(netFailed \cup (Lost \ (refused \cup abandoned)))
    BY DEF DropsAreCountedOnce
  <2>1. dropped = Cardinality(Gone(buf, net, events, stored, refused, netFailed))
    BY DEF ClientInv, Books, Sound
  <2>2. CASE alive
    <3>1. abandoned = {}
      BY <2>2 DEF ClientInv
    <3>2. Gone(buf, net, events, stored, refused, netFailed)
            = netFailed \cup (Lost \ (refused \cup abandoned))
      BY <2>2, <3>1 DEF Gone, Lost, Held, InFlight
    <3> QED
      BY <2>1, <3>2
  <2>3. CASE ~alive
    <3>1. net = {} /\ abandoned = Range(buf)
      BY <2>3 DEF ClientInv
    <3>2. Gone(buf, net, events, stored, refused, netFailed)
            = netFailed \cup (Lost \ (refused \cup abandoned))
      BY <2>3, <3>1 DEF Gone, Lost, Held, InFlight
    <3> QED
      BY <2>1, <3>2
  <2> QED
    BY <2>2, <2>3
<1> QED
  BY <1>1, ClientInvariant, PTL

-----------------------------------------------------------------------------
(* What the application sees. *)

\* The fetch of a call of proxy mode whose Request has a body.
StreamsABody(c) ==
  /\ asked[c].via = "proxy" /\ asked[c].input = "request"
  /\ asked[c].body /\ cfg.duplex

\* The two ways an outbound call is harmed.
CallCause(c) ==
  \/ asked[c].input = "relative"
  \/ /\ asked[c].via = "proxy"
     /\ ~cfg.key \/ (asked[c].input = "request" /\ asked[c].body /\ cfg.duplex)

\* A call in progress has been made, and its arguments are bad for the one
\* reason.
CallInv ==
  /\ \A c \in Call : got[c] = "sdkError" => CallCause(c)
  /\ \A f \in net : f.call \in Call =>
       /\ got[f.call] # "none"
       /\ f.bad => StreamsABody(f.call)

\* A request that has not arrived has no body and no answer.
RequestInv ==
  \A r \in Request :
    /\ http[r].ends > 0 /\ ~http[r].ended =>
         http[r].captured /\ http[r].last = "callback"
    /\ http[r].body = "missed" => http[r].captured
    /\ http[r].stage = "idle" => http[r].ends = 0 /\ http[r].body = "wire"

\* The only fetch that capture adds is one of the client itself.
LEMMA FlushAdds ==
  ASSUME NEW b, NEW n, NEW counted, Flush(b, n, counted)
  PROVE  \A g \in net' : g \in n \/ g.call = NoCall
BY PostsCases DEF Flush, PostOf

LEMMA CaptureAdds ==
  ASSUME NEW n, NEW counted, Capture(n, counted)
  PROVE  \A g \in net' : g \in n \/ g.call = NoCall
BY CaptureCases, FlushAdds

\* Every step keeps what holds of the calls.
LEMMA NextCall == TypeOK /\ CallInv /\ [Next]_vars => CallInv'
<1> SUFFICES ASSUME TypeOK, CallInv, [Next]_vars PROVE CallInv'
  OBVIOUS
<1> USE DEF sdkVars
<1>0. NoCall \notin Call
  BY ConstantsAssumption
<1>1. ASSUME UNCHANGED <<cfg, asked, got>>, \A g \in net' : g \in net \/ g.call = NoCall
      PROVE  CallInv'
  BY <1>0, <1>1 DEF CallInv, CallCause, StreamsABody
<1>2. CASE UNCHANGED vars
  BY <1>1, <1>2 DEF vars
<1>3. CASE Tick
  BY <1>1, <1>3, FlushAdds DEF Tick
<1>4. CASE Close
  <2>1. \A g \in net' : g \in net \/ g.call = NoCall
    BY <1>4, FlushAdds DEF Close
  <2> QED
    BY <1>1, <1>4, <2>1 DEF Close
<1>5. CASE Exit \/ Configure
  BY <1>1, <1>5 DEF Exit, Configure
<1>6. ASSUME NEW f \in net, FetchStep(f) PROVE CallInv'
  <2>1. UNCHANGED <<cfg, asked>>
    BY <1>6 DEF FetchStep, SendBase, FetchFails, FetchAnswers, FetchRead
  <2>2. \A g \in net' : g \in net \/ g.call = NoCall \/ (g.call = f.call /\ g.bad = f.bad)
    <3>1. f \in Fetch
      BY DEF TypeOK
    <3>2. CASE SendBase(f)
      BY <3>1, <3>2 DEF SendBase, Fetch
    <3>3. CASE FetchFails(f)
      BY <3>3, CaptureAdds DEF FetchFails
    <3>4. CASE FetchAnswers(f)
      <4>1. \A endless : LET g == [f EXCEPT !.stage = "reading", !.endless = endless]
                         IN  g.call = f.call /\ g.bad = f.bad
        BY <3>1 DEF Fetch
      <4> QED
        BY <3>4, <4>1, ZenonT(40) DEF FetchAnswers
    <3>5. CASE FetchRead(f)
      BY <3>5, CaptureAdds DEF FetchRead
    <3> QED
      BY <1>6, <3>2, <3>3, <3>4, <3>5 DEF FetchStep
  <2>3. \/ got' = got
        \/ /\ f.call # NoCall
           /\ \E o \in {"answer", "rejected", "sdkError"} :
                got' = [got EXCEPT ![f.call] = o] /\ (o = "sdkError" => f.bad)
    BY <1>6 DEF FetchStep, SendBase, FetchFails, FetchAnswers, FetchRead, Settle, FailOpen
  <2>4. CASE got' = got
    BY <1>0, <2>1, <2>2, <2>4 DEF CallInv, CallCause, StreamsABody
  <2>5. CASE got' # got
    <3>1. PICK o \in {"answer", "rejected", "sdkError"} :
            got' = [got EXCEPT ![f.call] = o] /\ (o = "sdkError" => f.bad)
      BY <2>3, <2>5
    <3>2. f.call \in Call /\ got \in [Call -> {"none", "pending", "answer", "rejected", "sdkError"}]
      BY <2>3, <2>5 DEF TypeOK, Fetch
    <3>3. f.bad => CallCause(f.call)
      BY <3>2 DEF CallInv, CallCause, StreamsABody
    <3>4. \A c \in Call : CallCause(c)' = CallCause(c) /\ StreamsABody(c)' = StreamsABody(c)
      BY <2>1 DEF CallCause, StreamsABody
    <3>5. \A c \in Call : got'[c] = "sdkError" => CallCause(c)
      BY <3>1, <3>2, <3>3 DEF CallInv
    <3>6. \A c \in Call : got[c] # "none" => got'[c] # "none"
      BY <3>1, <3>2
    <3>7. \A g \in net' : g.call \in Call =>
            got'[g.call] # "none" /\ (g.bad => StreamsABody(g.call))
      BY <1>0, <2>2, <3>6 DEF CallInv
    <3> QED
      BY <3>4, <3>5, <3>7 DEF CallInv
  <2> QED
    BY <2>4, <2>5
<1>7. ASSUME NEW c \in Call, CaptureFetch(c) \/ ProxyFetch(c) PROVE CallInv'
  <2>1. PICK a \in Asks, o \in {"pending", "sdkError"},
            layer \in BOOLEAN, bad \in BOOLEAN :
          /\ got[c] = "none" /\ cfg' = cfg
          /\ asked' = [asked EXCEPT ![c] = a]
          /\ got' = [got EXCEPT ![c] = o]
          /\ o = "sdkError" =>
               a.input = "relative" \/ (a.via = "proxy" /\ ~cfg.key)
          /\ net' \in {net, net \cup {Fetching(c, layer, bad)}}
          /\ bad => a.via = "proxy" /\ a.input = "request" /\ a.body /\ cfg.duplex
    <3>1. CASE CaptureFetch(c)
      BY <3>1, Zenon DEF CaptureFetch
    <3>2. CASE ProxyFetch(c)
      <4>1. cfg.wrapped \in BOOLEAN
        BY DEF TypeOK, Config
      <4> QED
        BY <3>2, <4>1 DEF ProxyFetch, HasKey
    <3> QED
      BY <1>7, <3>1, <3>2
  <2>2. /\ got \in [Call -> {"none", "pending", "answer", "rejected", "sdkError"}]
        /\ asked \in [Call -> Ask]
    BY DEF TypeOK
  <2>3. \A d \in Call : d # c => CallCause(d)' = CallCause(d)
                                   /\ StreamsABody(d)' = StreamsABody(d)
    BY <2>1, <2>2 DEF CallCause, StreamsABody
  <2>4. \A d \in Call : got'[d] = "sdkError" => CallCause(d)'
    <3>1. got'[c] = o /\ asked'[c] = a /\ cfg' = cfg
      BY <2>1, <2>2
    <3>2. got'[c] = "sdkError" => CallCause(c)'
      BY <2>1, <3>1 DEF CallCause
    <3>3. \A d \in Call : d # c => got'[d] = got[d]
      BY <2>1, <2>2
    <3> QED
      BY <2>3, <3>2, <3>3 DEF CallInv
  <2>5. ASSUME NEW f \in net', f.call \in Call
        PROVE  got'[f.call] # "none" /\ (f.bad => StreamsABody(f.call)')
    <3>1. CASE f \in net
      <4>1. f.call # c
        BY <2>1, <2>5, <3>1 DEF CallInv
      <4> QED
        BY <2>1, <2>2, <2>3, <2>5, <3>1, <4>1 DEF CallInv
    <3>2. CASE f = Fetching(c, layer, bad)
      <4>1. f.call = c /\ f.bad = bad
        BY <3>2 DEF Fetching
      <4>2. got'[c] = o /\ asked'[c] = a /\ cfg' = cfg
        BY <2>1, <2>2
      <4> QED
        BY <2>1, <4>1, <4>2 DEF StreamsABody
    <3> QED
      BY <2>1, <3>1, <3>2
  <2> QED
    BY <2>4, <2>5 DEF CallInv
<1>8. ASSUME NEW r \in Request, RequestStep(r) PROVE CallInv'
  <2>1. UNCHANGED <<cfg, asked, got>>
    BY <1>8 DEF RequestStep, Arrive, Attach, BodyArrives, End, Finish
  <2>2. \A g \in net' : g \in net \/ g.call = NoCall
    BY <1>8, CaptureAdds DEF RequestStep, Arrive, Attach, BodyArrives, End, Finish
  <2> QED
    BY <1>1, <2>1, <2>2
<1> QED
  BY <1>2, <1>3, <1>4, <1>5, <1>6, <1>7, <1>8 DEF Next

\* Every step keeps what holds of the requests.
LEMMA NextRequest == TypeOK /\ RequestInv /\ [Next]_vars => RequestInv'
<1> SUFFICES ASSUME TypeOK, RequestInv, [Next]_vars PROVE RequestInv'
  OBVIOUS
<1> USE DEF sdkVars
<1>1. ASSUME UNCHANGED http PROVE RequestInv'
  BY <1>1 DEF RequestInv
<1>2. CASE UNCHANGED vars \/ Tick \/ Close \/ Exit \/ Configure
  BY <1>1, <1>2 DEF vars, Tick, Close, Exit, Configure
<1>3. CASE \E f \in net : FetchStep(f)
  BY <1>1, <1>3 DEF FetchStep, SendBase, FetchFails, FetchAnswers, FetchRead
<1>4. CASE \E c \in Call : CaptureFetch(c) \/ ProxyFetch(c)
  BY <1>1, <1>4 DEF CaptureFetch, ProxyFetch
<1>5. ASSUME NEW r \in Request, RequestStep(r) PROVE RequestInv'
  <2>0. http \in [Request -> HttpState]
    BY DEF TypeOK, HttpState
  <2>1. CASE Arrive(r)
    BY <2>0, <2>1 DEF Arrive, RequestInv, HttpState
  <2>2. CASE Attach(r)
    BY <2>0, <2>2 DEF Attach, RequestInv, HttpState
  <2>3. CASE BodyArrives(r)
    BY <2>0, <2>3 DEF BodyArrives, RequestInv, HttpState
  <2>4. CASE End(r)
    BY <2>0, <2>4 DEF End, RequestInv, HttpState
  <2>5. CASE Finish(r)
    BY <2>0, <2>5 DEF Finish, RequestInv, HttpState
  <2> QED
    BY <1>5, <2>1, <2>2, <2>3, <2>4, <2>5 DEF RequestStep
<1> QED
  BY <1>2, <1>3, <1>4, <1>5 DEF Next

\* Used as its examples use it, the SDK does not show in calls and answers.
THEOREM CaptureStaysInvisible == Spec => []CaptureIsInvisible
<1>1. Init => TypeOK /\ CallInv /\ RequestInv
  BY InitType DEF Init, CallInv, RequestInv, IdleRequest
<1>2. TypeOK /\ CallInv /\ RequestInv /\ [Next]_vars => (TypeOK /\ CallInv /\ RequestInv)'
  BY NextType, NextCall, NextRequest
<1>3. CallInv /\ RequestInv => CaptureIsInvisible
  BY DEF CallInv, CallCause, RequestInv, CaptureIsInvisible
<1> QED
  BY <1>1, <1>2, <1>3, PTL DEF Spec
=============================================================================
