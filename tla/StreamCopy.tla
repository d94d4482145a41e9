----------------------------- MODULE StreamCopy -----------------------------
(***************************************************************************)
(* ProxyRequest.streamCopy: one streaming response on its way from the     *)
(* upstream to the client.  The handler reads chunks, writes them to the   *)
(* client and captures a bounded prefix; a watchdog goroutine cancels the  *)
(* upstream when nothing was read for the idle budget and flags the event. *)
(*                                                                         *)
(* Bytes are counted, not represented.  Time advances in units of which    *)
(* Idle make the budget, and does not advance while the handler could read *)
(* (a goroutine is scheduled within a fraction of the budget); it does     *)
(* while the handler waits for bytes or for the client.                    *)
(***************************************************************************)
EXTENDS Naturals

CONSTANTS
  Idle,      \* streamIdleTimeout; 0 disables the watchdog
  BodyCap,   \* cappedWriter.max
  BufSize,   \* bytes one Read may return
  MaxBytes   \* bound: bytes the upstream sends

ASSUME ConstantsAssumption ==
  Idle \in Nat /\ BodyCap \in Nat /\ BufSize \in Nat \ {0} /\ MaxBytes \in Nat

VARIABLES
  sent,        \* bytes the upstream has sent
  upstream,    \* {"open", "ended"}: ended by EOF or a broken connection
  client,      \* {"there", "gone"}
  cancelled,   \* BOOLEAN: upstreamCtx is done
  canceller,   \* history: {"none", "watchdog", "client"}: who cancelled first
  reader,      \* {"read", "write", "done"}: the loop of streamCopy
  consumed,    \* bytes Read has returned
  chunk,       \* bytes of the chunk being written
  written,     \* bytes w.Write has accepted
  captured,    \* length of the capture buffer
  truncated,   \* cappedWriter.truncated
  endedBy,     \* history: {"none", "upstream", "cancel", "client"}: loop exit
  watchdog,    \* {"armed", "flagged", "done"}
  idleTimeout, \* info.idleTimeout
  result,      \* BOOLEAN: idleTimeout of the copy of info that was returned
  quiet,       \* time since lastActivity was stored, up to Idle
  silent,      \* history: time since the upstream sent a byte, up to Idle
  wasSilent,   \* history: the upstream was silent for the budget
  wasStuck     \* history: a write to the client took the budget

vars == <<sent, upstream, client, cancelled, canceller, reader, consumed, chunk,
          written, captured, truncated, endedBy, watchdog, idleTimeout, result,
          quiet, silent, wasSilent, wasStuck>>

peerVars    == <<sent, upstream, client>>
cancelVars  == <<cancelled, canceller>>
copyVars    == <<consumed, chunk, written, captured, truncated>>
returnVars  == <<reader, endedBy, result>>
dogVars     == <<watchdog, idleTimeout>>
clockVars   == <<quiet, silent, wasSilent, wasStuck>>

Init ==
  /\ sent = 0 /\ upstream = "open" /\ client = "there"
  /\ cancelled = FALSE /\ canceller = "none"
  /\ reader = "read" /\ endedBy = "none" /\ result = FALSE
  /\ consumed = 0 /\ chunk = 0 /\ written = 0
  /\ captured = 0 /\ truncated = FALSE
  /\ watchdog = (IF Idle > 0 THEN "armed" ELSE "done")
  /\ idleTimeout = FALSE
  /\ quiet = 0 /\ silent = 0 /\ wasSilent = FALSE /\ wasStuck = FALSE

-----------------------------------------------------------------------------
(* The upstream, the client and the clock (external). *)

UpstreamSends ==
  /\ upstream = "open"
  /\ sent < MaxBytes
  /\ sent'   = sent + 1
  /\ silent' = 0
  /\ UNCHANGED <<upstream, client, cancelVars, copyVars, returnVars, dogVars,
                 quiet, wasSilent, wasStuck>>

UpstreamEnds ==
  /\ upstream = "open"
  /\ upstream' = "ended"
  /\ UNCHANGED <<sent, client, cancelVars, copyVars, returnVars, dogVars, clockVars>>

ClientLeaves ==
  /\ client = "there"
  /\ client' = "gone"
  /\ UNCHANGED <<sent, upstream, cancelVars, copyVars, returnVars, dogVars, clockVars>>

\* net/http notices that the connection is gone and ends r.Context().
RequestContextEnds ==
  /\ client = "gone"
  /\ ~cancelled
  /\ cancelled' = TRUE
  /\ canceller' = "client"
  /\ UNCHANGED <<peerVars, copyVars, returnVars, dogVars, clockVars>>

CanRead == reader = "read" /\ (consumed < sent \/ upstream = "ended" \/ cancelled)

Least(m, n) == IF m <= n THEN m ELSE n

Later(t) == IF t < Idle THEN t + 1 ELSE t

Tick ==
  /\ reader # "done"
  /\ ~CanRead
  /\ quiet'  = Later(quiet)
  /\ silent' = Later(silent)
  /\ wasSilent' = (wasSilent \/ silent' = Idle)
  /\ wasStuck'  = (wasStuck \/ (reader = "write" /\ quiet' = Idle))
  /\ UNCHANGED <<peerVars, cancelVars, copyVars, returnVars, dogVars>>

-----------------------------------------------------------------------------
(* The copy loop. *)

\* Mutant of Read: lastActivity is not stored.
ReadUnnoticed ==
  /\ reader = "read"
  /\ \E n \in 1..BufSize :
       /\ consumed + n <= sent
       /\ consumed' = consumed + n
       /\ chunk'    = n
  /\ reader' = "write"
  /\ UNCHANGED <<peerVars, cancelVars, written, captured, truncated, endedBy,
                 result, dogVars, clockVars>>

\* body.Read returns some of the bytes that have arrived, and lastActivity is
\* stored.
Read ==
  /\ reader = "read"
  /\ \E n \in 1..BufSize :
       /\ consumed + n <= sent
       /\ consumed' = consumed + n
       /\ chunk'    = n
  /\ quiet'  = 0
  /\ reader' = "write"
  /\ UNCHANGED <<peerVars, cancelVars, written, captured, truncated, endedBy,
                 result, dogVars, silent, wasSilent, wasStuck>>

\* info.idleTimeout as the handler reads it.  Nothing orders that read after
\* the watchdog's write before cancel has been called.
FlagSeen == IF watchdog = "flagged" THEN BOOLEAN ELSE {idleTimeout}

\* body.Read returns an error: the upstream is done, or its context is.  The
\* copy of info that is returned is taken now.
ReadError ==
  /\ reader = "read"
  /\ \/ /\ upstream = "ended"
        /\ consumed = sent
        /\ endedBy' = "upstream"
     \/ /\ cancelled
        /\ endedBy' = "cancel"
  /\ reader' = "done"
  /\ result' \in FlagSeen
  /\ UNCHANGED <<peerVars, cancelVars, copyVars, dogVars, clockVars>>

\* Mutant of Capture: the chunk that crosses the cap is dropped as a whole.
CaptureWholeChunks(n) ==
  IF captured + n <= BodyCap
  THEN captured' = captured + n /\ UNCHANGED truncated
  ELSE truncated' = TRUE /\ UNCHANGED captured

\* cappedWriter.Write of n bytes.
Capture(n) ==
  /\ captured'  = Least(captured + n, BodyCap)
  /\ truncated' = (truncated \/ captured + n > BodyCap)

\* w.Write accepts the chunk; it is captured and flushed.
WriteChunk ==
  /\ reader = "write"
  /\ client = "there"
  /\ Capture(chunk)
  /\ written' = written + chunk
  /\ chunk'   = 0
  /\ reader'  = "read"
  /\ UNCHANGED <<peerVars, cancelVars, consumed, endedBy, result, dogVars, clockVars>>

\* w.Write fails: the loop returns before the chunk is captured.
WriteFails ==
  /\ reader = "write"
  /\ client = "gone"
  /\ reader'  = "done"
  /\ endedBy' = "client"
  /\ result'  \in FlagSeen
  /\ UNCHANGED <<peerVars, cancelVars, copyVars, dogVars, clockVars>>

-----------------------------------------------------------------------------
(* The watchdog goroutine. *)

\* Mutant of WatchdogFlags: the upstream is cancelled before the flag is set.
WatchdogCancelsFirst ==
  /\ watchdog = "armed"
  /\ quiet >= Idle
  /\ cancelled' = TRUE
  /\ canceller' = IF cancelled THEN canceller ELSE "watchdog"
  /\ watchdog'  = "flagged"
  /\ UNCHANGED <<peerVars, copyVars, returnVars, idleTimeout, clockVars>>

\* A tick finds the budget used up.  The select may take the tick when done or
\* the context is ready too.
WatchdogFlags ==
  /\ watchdog = "armed"
  /\ quiet >= Idle
  /\ idleTimeout' = TRUE
  /\ watchdog'    = "flagged"
  /\ UNCHANGED <<peerVars, cancelVars, copyVars, returnVars, clockVars>>

\* Mutant of WatchdogCancels: the event is flagged, the stream is left open.
WatchdogForgetsCancel ==
  /\ watchdog = "flagged"
  /\ watchdog' = "done"
  /\ UNCHANGED <<peerVars, cancelVars, copyVars, returnVars, idleTimeout, clockVars>>

WatchdogCancels ==
  /\ watchdog = "flagged"
  /\ cancelled' = TRUE
  /\ canceller' = IF cancelled THEN canceller ELSE "watchdog"
  /\ watchdog'  = "done"
  /\ UNCHANGED <<peerVars, copyVars, returnVars, idleTimeout, clockVars>>

\* done is closed when streamCopy returns; the context ends with the client.
WatchdogExits ==
  /\ watchdog = "armed"
  /\ reader = "done" \/ cancelled
  /\ watchdog' = "done"
  /\ UNCHANGED <<peerVars, cancelVars, copyVars, returnVars, idleTimeout, clockVars>>

-----------------------------------------------------------------------------

Next ==
  \/ UpstreamSends \/ UpstreamEnds
  \/ ClientLeaves \/ RequestContextEnds
  \/ Tick
  \/ Read \/ ReadError \/ WriteChunk \/ WriteFails
  \/ WatchdogFlags \/ WatchdogCancels \/ WatchdogExits

Spec == Init /\ [][Next]_vars

\* The handler and the watchdog are scheduled and time goes on.  Neither the
\* upstream nor the client has to do anything.
Fairness ==
  /\ WF_vars(Tick)
  /\ WF_vars(Read \/ ReadError)
  /\ WF_vars(WatchdogFlags) /\ WF_vars(WatchdogCancels)

FairSpec == Spec /\ Fairness

\* A client that takes what is written to it, or goes away.
ClientTakes == WF_vars(WriteChunk \/ WriteFails)

-----------------------------------------------------------------------------
(* Properties. *)

\* Every variable has its type, and a chunk is in hand exactly while the loop
\* writes it or when its write has failed.
TypeOK ==
  /\ sent \in 0..MaxBytes
  /\ upstream \in {"open", "ended"}
  /\ client \in {"there", "gone"}
  /\ cancelled \in BOOLEAN
  /\ canceller \in {"none", "watchdog", "client"}
  /\ reader \in {"read", "write", "done"}
  /\ consumed \in 0..sent
  /\ chunk \in 0..BufSize
  /\ written \in Nat
  /\ captured \in Nat
  /\ truncated \in BOOLEAN
  /\ endedBy \in {"none", "upstream", "cancel", "client"}
  /\ watchdog \in {"armed", "flagged", "done"}
  /\ idleTimeout \in BOOLEAN
  /\ result \in BOOLEAN
  /\ quiet \in 0..Idle
  /\ silent \in 0..Idle
  /\ wasSilent \in BOOLEAN
  /\ wasStuck \in BOOLEAN
  /\ (reader = "write" \/ endedBy = "client") <=> chunk # 0
  /\ endedBy # "none" <=> reader = "done"

\* The capture is the prefix, up to the cap, of what the client accepted, and
\* it is marked truncated exactly when the client got more: whatever the sizes
\* of the reads, also when one ends at the cap and also when a write fails.
CaptureIsPrefix ==
  /\ captured = Least(written, BodyCap)
  /\ truncated <=> written > BodyCap

\* A stream that was ended by the watchdog says so: the flag is set before the
\* cancel, and the copy of info is taken after the read that the cancel broke.
WatchdogEndIsFlagged ==
  endedBy = "cancel" /\ canceller = "watchdog" => result

\* The flag has a cause: the upstream was silent for the budget, or a write to
\* a slow client took that long and kept the loop from reading.
FlagHasACause == result => wasSilent \/ wasStuck

\* A stream ends, also when the upstream goes silent for good without closing
\* its connection and the client stays.
StreamEnds == ClientTakes => <>(reader = "done")

\* What the comments of NewProxyRequest (proxy_request.go:49) and streamCopy
\* (proxy_request.go:219) say of the flag: it is set when no upstream bytes
\* arrive for the idle timeout.
FlagMeansUpstreamSilent == result => wasSilent
=============================================================================
