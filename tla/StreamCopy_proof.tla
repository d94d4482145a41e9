-------------------------- MODULE StreamCopy_proof --------------------------
(***************************************************************************)
(* Safety of StreamCopy for every idle budget, cap, read size and number   *)
(* of bytes.                                                               *)
(***************************************************************************)
EXTENDS StreamCopy, TLAPS

Cause == wasSilent \/ wasStuck

\* The watchdog cancels only what it has flagged, which is its last step, and
\* flags only with a cause.
DogInv ==
  /\ watchdog = "armed" => Idle > 0
  /\ watchdog = "flagged" \/ canceller = "watchdog" \/ result => idleTimeout
  /\ canceller = "watchdog" => watchdog = "done"
  /\ cancelled <=> canceller # "none"
  /\ endedBy = "cancel" => cancelled
  /\ idleTimeout => Cause

\* Once everything that was sent has been read, the last read is not older
\* than the last byte; so a reader that was quiet for the budget was either
\* held up by a write or had nothing to read.
ClockInv ==
  /\ consumed = sent => quiet <= silent
  /\ Idle > 0 /\ quiet = Idle => Cause

IInv == TypeOK /\ CaptureIsPrefix /\ DogInv /\ ClockInv /\ WatchdogEndIsFlagged

\* The initial state satisfies the inductive invariant.
LEMMA InitInv == Init => IInv
<1>. SUFFICES ASSUME Init PROVE IInv
  OBVIOUS
<1>. USE ConstantsAssumption DEF Init
<1>1. TypeOK
  <2>1. watchdog \in {"armed", "done"}
    OBVIOUS
  <2>2. /\ sent \in 0..MaxBytes /\ consumed \in 0..sent /\ chunk \in 0..BufSize
        /\ quiet \in 0..Idle /\ silent \in 0..Idle
    OBVIOUS
  <2>. QED
    BY <2>1, <2>2 DEF TypeOK
<1>2. CaptureIsPrefix
  BY DEF CaptureIsPrefix, Least
<1>3. DogInv /\ WatchdogEndIsFlagged
  BY DEF DogInv, WatchdogEndIsFlagged
<1>4. ClockInv
  BY DEF ClockInv
<1>. QED
  BY <1>1, <1>2, <1>3, <1>4 DEF IInv

\* Every step keeps the types.
LEMMA TypeStep == IInv /\ [Next]_vars => TypeOK'
<1>. SUFFICES ASSUME TypeOK, CaptureIsPrefix, [Next]_vars PROVE TypeOK'
  BY DEF IInv
<1>. USE ConstantsAssumption
     DEF TypeOK, peerVars, cancelVars, copyVars, returnVars, dogVars, clockVars
<1>1. CASE UpstreamSends
  BY <1>1 DEF UpstreamSends
<1>2. CASE UpstreamEnds
  BY <1>2 DEF UpstreamEnds
<1>3. CASE ClientLeaves
  BY <1>3 DEF ClientLeaves
<1>4. CASE RequestContextEnds
  BY <1>4 DEF RequestContextEnds
<1>5. CASE Tick
  BY <1>5 DEF Tick, Later
<1>6. CASE Read
  BY <1>6 DEF Read
<1>7. CASE ReadError
  BY <1>7 DEF ReadError, FlagSeen
<1>8. CASE WriteChunk
  <2>1. truncated' \in BOOLEAN
    BY <1>8 DEF WriteChunk, Capture
  <2>2. captured' \in Nat /\ written' \in Nat
    BY <1>8 DEF WriteChunk, Capture, Least
  <2>3. /\ reader = "write" /\ reader' = "read" /\ chunk' = 0
        /\ UNCHANGED <<peerVars, cancelVars, consumed, endedBy, result, dogVars, clockVars>>
    BY <1>8 DEF WriteChunk
  <2>. QED
    BY <2>1, <2>2, <2>3
<1>9. CASE WriteFails
  BY <1>9 DEF WriteFails, FlagSeen
<1>10. CASE WatchdogFlags
  BY <1>10 DEF WatchdogFlags
<1>11. CASE WatchdogCancels
  BY <1>11 DEF WatchdogCancels
<1>12. CASE WatchdogExits
  BY <1>12 DEF WatchdogExits
<1>13. CASE UNCHANGED vars
  BY <1>13 DEF vars
<1>. QED
  BY <1>1, <1>2, <1>3, <1>4, <1>5, <1>6, <1>7, <1>8, <1>9, <1>10, <1>11, <1>12, <1>13
     DEF Next

\* The capture stays the prefix of what was written.
LEMMA CaptureStep == IInv /\ [Next]_vars => CaptureIsPrefix'
<1>. SUFFICES ASSUME TypeOK, CaptureIsPrefix, [Next]_vars PROVE CaptureIsPrefix'
  BY DEF IInv
<1>1. CASE WriteChunk
  <2>1. /\ captured' = Least(captured + chunk, BodyCap)
        /\ truncated' = (truncated \/ captured + chunk > BodyCap)
        /\ written' = written + chunk
    BY <1>1 DEF WriteChunk, Capture
  <2>2. written \in Nat /\ chunk \in Nat /\ BodyCap \in Nat
    BY ConstantsAssumption DEF TypeOK
  <2>3. captured' = Least(written', BodyCap)
    BY <2>1, <2>2 DEF CaptureIsPrefix, Least
  <2>4. truncated' <=> written' > BodyCap
    <3>1. (captured + chunk > BodyCap \/ written > BodyCap) <=> written + chunk > BodyCap
      BY <2>2 DEF CaptureIsPrefix, Least
    <3>. QED
      BY <2>1, <3>1 DEF CaptureIsPrefix
  <2>. QED
    BY <2>3, <2>4 DEF CaptureIsPrefix
<1>2. CASE ~WriteChunk
  <2>1. UNCHANGED <<written, captured, truncated>>
    BY <1>2 DEF Next, vars, UpstreamSends, UpstreamEnds, ClientLeaves, RequestContextEnds,
         Tick, Read, ReadError, WriteFails, WatchdogFlags, WatchdogCancels, WatchdogExits,
         copyVars
  <2>. QED
    BY <2>1 DEF CaptureIsPrefix, Least
<1>. QED
  BY <1>1, <1>2

\* The clocks explain a quiet reader.
LEMMA ClockStep == IInv /\ [Next]_vars => ClockInv'
<1>. SUFFICES ASSUME TypeOK, ClockInv, [Next]_vars PROVE ClockInv'
  BY DEF IInv
<1>0. sent \in Nat /\ consumed \in 0..sent /\ quiet \in 0..Idle /\ silent \in 0..Idle
      /\ Idle \in Nat
  BY ConstantsAssumption DEF TypeOK
<1>1. CASE UpstreamSends
  BY <1>0, <1>1 DEF UpstreamSends, ClockInv, Cause, copyVars
<1>2. CASE Read
  BY <1>0, <1>2 DEF Read, ClockInv, Cause, peerVars
<1>3. CASE Tick
  <2>1. /\ quiet' = Later(quiet) /\ silent' = Later(silent)
        /\ UNCHANGED <<sent, consumed>>
        /\ wasSilent \/ silent' = Idle => wasSilent'
        /\ wasStuck \/ (reader = "write" /\ quiet' = Idle) => wasStuck'
    BY <1>3 DEF Tick, peerVars, copyVars
  <2>2. consumed = sent => quiet' <= silent'
    BY <1>0, <2>1 DEF ClockInv, Later
  <2>3. reader = "read" => consumed = sent
    BY <1>0, <1>3 DEF Tick, CanRead
  <2>4. reader \in {"read", "write"}
    BY <1>3 DEF Tick, TypeOK
  <2>5. silent' <= Idle
    BY <1>0, <2>1 DEF Later
  <2>6. Idle > 0 /\ quiet' = Idle => Cause'
    <3>1. CASE reader = "write"
      BY <2>1, <3>1 DEF Cause
    <3>2. CASE reader = "read"
      <4>1. quiet' = Idle => silent' = Idle
        BY <1>0, <2>1, <2>2, <2>3, <2>5, <3>2 DEF Later
      <4>. QED
        BY <2>1, <4>1 DEF Cause
    <3>. QED
      BY <2>4, <3>1, <3>2
  <2>. QED
    BY <2>1, <2>2, <2>6 DEF ClockInv
<1>4. CASE ~UpstreamSends /\ ~Read /\ ~Tick
  <2>1. UNCHANGED <<sent, consumed, quiet, silent, wasSilent, wasStuck>>
    BY <1>4 DEF Next, vars, UpstreamEnds, ClientLeaves, RequestContextEnds, ReadError,
         WriteChunk, WriteFails, WatchdogFlags, WatchdogCancels, WatchdogExits, peerVars,
         copyVars, clockVars
  <2>. QED
    BY <2>1 DEF ClockInv, Cause
<1>. QED
  BY <1>1, <1>2, <1>3, <1>4

\* The watchdog's flag comes before its cancel and has a cause.
LEMMA DogStep == IInv /\ [Next]_vars => DogInv' /\ WatchdogEndIsFlagged'
<1>. SUFFICES ASSUME TypeOK, DogInv, ClockInv, WatchdogEndIsFlagged, [Next]_vars
              PROVE  DogInv' /\ WatchdogEndIsFlagged'
  BY DEF IInv
<1>. USE DEF DogInv, WatchdogEndIsFlagged, Cause
<1>0. Idle \in Nat /\ quiet \in 0..Idle
  BY ConstantsAssumption DEF TypeOK
<1>1. CASE UpstreamSends
  BY <1>0, <1>1 DEF UpstreamSends, TypeOK, peerVars, cancelVars, copyVars, returnVars, dogVars,
       clockVars
<1>2. CASE UpstreamEnds
  BY <1>0, <1>2 DEF UpstreamEnds, TypeOK, peerVars, cancelVars, copyVars, returnVars, dogVars,
       clockVars
<1>3. CASE ClientLeaves
  BY <1>0, <1>3 DEF ClientLeaves, TypeOK, peerVars, cancelVars, copyVars, returnVars, dogVars,
       clockVars
<1>4. CASE RequestContextEnds
  BY <1>0, <1>4 DEF RequestContextEnds, TypeOK, peerVars, cancelVars, copyVars, returnVars, dogVars,
       clockVars
<1>5. CASE Tick
  BY <1>0, <1>5 DEF Tick, TypeOK, peerVars, cancelVars, copyVars, returnVars, dogVars,
       clockVars
<1>6. CASE Read
  BY <1>0, <1>6 DEF Read, TypeOK, peerVars, cancelVars, copyVars, returnVars, dogVars,
       clockVars
<1>7. CASE ReadError
  <2>1. /\ UNCHANGED <<idleTimeout, watchdog, canceller, cancelled, wasSilent, wasStuck>>
        /\ endedBy' = "upstream" \/ (cancelled /\ endedBy' = "cancel")
    BY <1>7 DEF ReadError, peerVars, cancelVars, dogVars, clockVars
  <2>2. result' => watchdog = "flagged" \/ idleTimeout
    BY <1>7 DEF ReadError, FlagSeen
  <2>3. watchdog # "flagged" => result' = idleTimeout
    BY <1>7 DEF ReadError, FlagSeen
  <2>. QED
    BY <1>0, <2>1, <2>2, <2>3 DEF TypeOK
<1>8. CASE WriteChunk
  BY <1>0, <1>8 DEF WriteChunk, TypeOK, peerVars, cancelVars, copyVars, returnVars, dogVars,
       clockVars
<1>9. CASE WriteFails
  BY <1>0, <1>9 DEF WriteFails, FlagSeen, TypeOK, peerVars, cancelVars, copyVars, returnVars, dogVars,
       clockVars
<1>10. CASE WatchdogFlags
  BY <1>0, <1>10 DEF WatchdogFlags, TypeOK, peerVars, cancelVars, copyVars, returnVars, dogVars,
       clockVars, ClockInv
<1>11. CASE WatchdogCancels
  <2>1. /\ idleTimeout /\ watchdog' = "done" /\ cancelled'
        /\ UNCHANGED <<idleTimeout, result, endedBy, wasSilent, wasStuck>>
    BY <1>11 DEF WatchdogCancels, returnVars, clockVars
  <2>2. canceller' # "none"
    BY <1>11 DEF WatchdogCancels, TypeOK
  <2>3. endedBy = "cancel" => canceller' = canceller
    BY <1>11 DEF WatchdogCancels
  <2>. QED
    BY <2>1, <2>2, <2>3
<1>12. CASE WatchdogExits
  BY <1>0, <1>12 DEF WatchdogExits, TypeOK, peerVars, cancelVars, copyVars, returnVars, dogVars,
       clockVars
<1>13. CASE UNCHANGED vars
  BY <1>13 DEF vars
<1>. QED
  BY <1>1, <1>2, <1>3, <1>4, <1>5, <1>6, <1>7, <1>8, <1>9, <1>10, <1>11, <1>12, <1>13
     DEF Next

-----------------------------------------------------------------------------
(* The theorems. *)

\* The invariant is inductive.
THEOREM Inductive == Spec => []IInv
<1>1. IInv /\ [Next]_vars => IInv'
  BY TypeStep, CaptureStep, ClockStep, DogStep DEF IInv
<1>. QED
  BY InitInv, <1>1, PTL DEF Spec

\* Every variable keeps its type.
THEOREM TypeCorrect == Spec => []TypeOK
<1>1. IInv => TypeOK
  BY DEF IInv
<1>. QED
  BY Inductive, <1>1, PTL

\* The capture is the capped prefix of what the client accepted.
THEOREM CaptureIsTheCappedPrefix == Spec => []CaptureIsPrefix
<1>1. IInv => CaptureIsPrefix
  BY DEF IInv
<1>. QED
  BY Inductive, <1>1, PTL

\* A stream the watchdog ended is flagged.
THEOREM WatchdogEndsAreFlagged == Spec => []WatchdogEndIsFlagged
<1>1. IInv => WatchdogEndIsFlagged
  BY DEF IInv
<1>. QED
  BY Inductive, <1>1, PTL

\* A flagged stream had a silent upstream or a slow client.
THEOREM FlagsHaveACause == Spec => []FlagHasACause
<1>1. IInv => FlagHasACause
  BY DEF IInv, DogInv, FlagHasACause, Cause
<1>. QED
  BY Inductive, <1>1, PTL
=============================================================================
