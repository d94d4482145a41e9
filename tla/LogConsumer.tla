---------------------------- MODULE LogConsumer ----------------------------
(***************************************************************************)
(* The log-consumer service: a Kafka consumer group whose members batch    *)
(* the records of topic http_events and insert them into ClickHouse.       *)
(*                                                                         *)
(* Each member runs two goroutines over one Batcher.  The reader polls     *)
(* the client, decodes every record of the fetch and adds it to the batch; *)
(* the flusher wakes on a ticker, flushes a batch that is due and commits  *)
(* every offset the client handed out.  batchMu covers Add and MaybeFlush, *)
(* so those are single steps; polling and committing are outside it.       *)
(*                                                                         *)
(* External, modelled from how the code uses it: the broker (log, group    *)
(* coordinator, committed offsets; a commit of a member that no longer     *)
(* owns the partition is refused) and ClickHouse (an insert may fail       *)
(* before or after the rows were applied).                                 *)
(***************************************************************************)
EXTENDS Naturals, Sequences, FiniteSets

CONSTANTS
  Consumer,     \* members of the consumer group (log-consumer replicas)
  Partition,    \* partitions of the topic
  NoOwner,      \* owner of an unassigned partition
  MaxSize,      \* Batcher.maxSize
  Undecodable,  \* records whose value proto.Unmarshal rejects
  MaxOffset,    \* bound: records produced to each partition
  MaxFaults,    \* bound: inserts and commits that fail
  MaxStops      \* bound: crashes, shutdowns and rebalances

Record == Partition \X (1..MaxOffset)

ASSUME ConstantsAssumption ==
  /\ NoOwner \notin Consumer
  /\ MaxSize \in Nat \ {0}
  /\ MaxOffset \in Nat
  /\ MaxFaults \in Nat
  /\ MaxStops \in Nat
  /\ Undecodable \subseteq Record

VARIABLES
  logEnd,     \* [Partition -> Nat]: the last offset produced
  committed,  \* [Partition -> Nat]: the group's committed offset
  owner,      \* [Partition -> Consumer \cup {NoOwner}]: the assignment
  polled,     \* [Consumer -> [Partition -> Nat]]: offsets PollFetches returned
  fetched,    \* [Consumer -> SUBSET Record]: rest of the fetch being iterated
  pending,    \* [Consumer -> Seq(Record)]: Batcher.pending
  due,        \* [Consumer -> BOOLEAN]: the clock has reached Batcher.deadline
  cancelled,  \* [Consumer -> BOOLEAN]: the context of Run is done
  reader,     \* [Consumer -> ReaderState]: where Run's loop is
  flusher,    \* [Consumer -> FlusherState]: where the flusher goroutine is
  rows,       \* [Record -> Nat]: copies of the record in http_events
  faults,     \* failed inserts and commits so far
  stops,      \* crashes, shutdowns and rebalances so far
  lost        \* history: records of which a process dropped a copy

brokerVars == <<logEnd, committed, owner>>
batchVars  == <<pending, due>>
vars == <<logEnd, committed, owner, polled, fetched, pending, due, cancelled,
          reader, flusher, rows, faults, stops, lost>>

ReaderState  == {"poll", "add", "drain", "close", "down"}
FlusherState == {"wait", "commit", "done"}

Live(c) == reader[c] # "down"

\* How often r occurs in the batch b.
Copies(r, b) == Cardinality({i \in DOMAIN b : b[i] = r})

InBatch(r, b) == \E i \in DOMAIN b : b[i] = r

\* r is in the memory of member c, fetched or batched.
HeldBy(c, r) == r \in fetched[c] \/ InBatch(r, pending[c])

Init ==
  /\ logEnd    = [p \in Partition |-> 0]
  /\ committed = [p \in Partition |-> 0]
  /\ owner     = [p \in Partition |-> NoOwner]
  /\ polled    = [c \in Consumer |-> [p \in Partition |-> 0]]
  /\ fetched   = [c \in Consumer |-> {}]
  /\ pending   = [c \in Consumer |-> <<>>]
  /\ due       = [c \in Consumer |-> FALSE]
  /\ cancelled = [c \in Consumer |-> FALSE]
  /\ reader    = [c \in Consumer |-> "poll"]
  /\ flusher   = [c \in Consumer |-> "wait"]
  /\ rows      = [r \in Record |-> 0]
  /\ faults    = 0
  /\ stops     = 0
  /\ lost      = {}

-----------------------------------------------------------------------------
(* The broker. *)

Produce(p) ==
  /\ logEnd[p] < MaxOffset
  /\ logEnd' = [logEnd EXCEPT ![p] = @ + 1]
  /\ UNCHANGED <<committed, owner, polled, fetched, pending, due, cancelled,
                 reader, flusher, rows, faults, stops, lost>>

\* A partition is given to a member that is in the group; its client starts
\* at the committed offset (kgo's default reset offset is the log start).
Assign(c, p) ==
  /\ owner[p] = NoOwner
  /\ reader[c] \in {"poll", "add"}
  /\ ~cancelled[c]
  /\ owner'  = [owner EXCEPT ![p] = c]
  /\ polled' = [polled EXCEPT ![c][p] = committed[p]]
  /\ UNCHANGED <<logEnd, committed, fetched, pending, due, cancelled,
                 reader, flusher, rows, faults, stops, lost>>

\* Mutant of Revoke: a revocation hook that clears the whole batch.
RevokeClearsBatch(p) ==
  /\ owner[p] # NoOwner
  /\ Live(owner[p])
  /\ stops < MaxStops
  /\ owner'   = [owner EXCEPT ![p] = NoOwner]
  /\ pending' = [pending EXCEPT ![owner[p]] = <<>>]
  /\ stops'   = stops + 1
  /\ UNCHANGED <<logEnd, committed, polled, fetched, due, cancelled,
                 reader, flusher, rows, faults, lost>>

\* A rebalance takes p from a running member.  No OnPartitionsRevoked hook is
\* configured: what the member has in memory stays there.
Revoke(p) ==
  /\ owner[p] # NoOwner
  /\ Live(owner[p])
  /\ stops < MaxStops
  /\ owner' = [owner EXCEPT ![p] = NoOwner]
  /\ stops' = stops + 1
  /\ UNCHANGED <<logEnd, committed, polled, fetched, pending, due, cancelled,
                 reader, flusher, rows, faults, lost>>

\* The session of a dead member times out.
Evict(p) ==
  /\ owner[p] # NoOwner
  /\ ~Live(owner[p])
  /\ owner' = [owner EXCEPT ![p] = NoOwner]
  /\ UNCHANGED <<logEnd, committed, polled, fetched, pending, due, cancelled,
                 reader, flusher, rows, faults, stops, lost>>

-----------------------------------------------------------------------------
(* The Batcher.  Each operator constrains pending, due, rows and faults.   *)

\* Mutant of Flush: the batch is emptied although the insert failed.
FlushForgetsFailure(c, b, ctxLive) ==
  /\ \/ ctxLive /\ rows' = [r \in Record |-> rows[r] + Copies(r, b)] /\ UNCHANGED faults
     \/ faults < MaxFaults /\ faults' = faults + 1 /\ UNCHANGED rows
     \/ ~ctxLive /\ UNCHANGED <<rows, faults>>
  /\ pending' = [pending EXCEPT ![c] = <<>>]
  /\ due'     = [due EXCEPT ![c] = FALSE]

\* Mutant of Flush: the batch is not emptied after an insert.
FlushKeepsBatch(c, b, ctxLive) ==
  /\ ctxLive
  /\ rows'    = [r \in Record |-> rows[r] + Copies(r, b)]
  /\ pending' = [pending EXCEPT ![c] = b]
  /\ UNCHANGED <<due, faults>>

\* sink.Insert of the batch b of member c.  An insert that fails leaves b in
\* place; the server may have applied it (Send lost its answer).  An insert
\* whose context is already done fails without reaching the server.
Flush(c, b, ctxLive) ==
  LET applied == [r \in Record |-> rows[r] + Copies(r, b)]
  IN  \/ /\ ctxLive
         /\ rows'    = applied
         /\ pending' = [pending EXCEPT ![c] = <<>>]
         /\ due'     = [due EXCEPT ![c] = FALSE]
         /\ UNCHANGED faults
      \/ /\ faults < MaxFaults
         /\ rows'    \in {rows, applied}
         /\ pending' = [pending EXCEPT ![c] = b]
         /\ faults'  = faults + 1
         /\ UNCHANGED due
      \/ /\ ~ctxLive
         /\ pending' = [pending EXCEPT ![c] = b]
         /\ UNCHANGED <<rows, due, faults>>

\* Mutant of BatcherAdd: a row that finds the batch full is sent on its own.
BatcherAddSendsNewest(c, r) ==
  IF Len(pending[c]) + 1 >= MaxSize
  THEN Flush(c, <<r>>, ~cancelled[c])
  ELSE /\ pending' = [pending EXCEPT ![c] = Append(@, r)]
       /\ UNCHANGED <<due, rows, faults>>

\* Mutant of BatcherAdd: the size test is off by one.
BatcherAddOffByOne(c, r) ==
  LET b == Append(pending[c], r)
  IN  IF Len(b) > MaxSize
      THEN Flush(c, b, ~cancelled[c])
      ELSE /\ pending' = [pending EXCEPT ![c] = b]
           /\ due' = [due EXCEPT ![c] = @ /\ pending[c] # <<>>]
           /\ UNCHANGED <<rows, faults>>

\* Batcher.Add: the deadline is set by the first row of an empty batch, and
\* every row that finds the batch full or over-full flushes it.
BatcherAdd(c, r) ==
  LET b == Append(pending[c], r)
  IN  IF Len(b) >= MaxSize
      THEN Flush(c, b, ~cancelled[c])
      ELSE /\ pending' = [pending EXCEPT ![c] = b]
           /\ due' = [due EXCEPT ![c] = @ /\ pending[c] # <<>>]
           /\ UNCHANGED <<rows, faults>>

\* Mutant of MaybeFlush: only a full batch is flushed on a tick.
MaybeFlushOnlyFull(c) ==
  IF Len(pending[c]) < MaxSize \/ ~due[c]
  THEN UNCHANGED <<pending, due, rows, faults>>
  ELSE Flush(c, pending[c], ~cancelled[c])

MaybeFlush(c) ==
  IF pending[c] = <<>> \/ ~due[c]
  THEN UNCHANGED <<pending, due, rows, faults>>
  ELSE Flush(c, pending[c], ~cancelled[c])

DeadlinePasses(c) ==
  /\ Live(c)
  /\ pending[c] # <<>>
  /\ ~due[c]
  /\ due' = [due EXCEPT ![c] = TRUE]
  /\ UNCHANGED <<logEnd, committed, owner, polled, fetched, pending, cancelled,
                 reader, flusher, rows, faults, stops, lost>>

-----------------------------------------------------------------------------
(* The reader: the body of Run. *)

\* What a poll may hand to c: it advances the client's position on partitions
\* c owns, up to the end of the log.
PollTargets(c) ==
  {upto \in [Partition -> 0..MaxOffset] :
     \A p \in Partition :
       IF owner[p] = c THEN polled[c][p] <= upto[p] /\ upto[p] <= logEnd[p]
                       ELSE upto[p] = polled[c][p]}

Returned(c, upto) ==
  {r \in Record : polled[c][r[1]] < r[2] /\ r[2] <= upto[r[1]]}

PollFetches(c) ==
  /\ reader[c] = "poll"
  /\ ~cancelled[c]
  /\ \E upto \in PollTargets(c) :
       /\ Returned(c, upto) # {}
       /\ fetched' = [fetched EXCEPT ![c] = Returned(c, upto)]
       /\ polled'  = [polled EXCEPT ![c] = upto]
  /\ reader' = [reader EXCEPT ![c] = "add"]
  /\ UNCHANGED <<logEnd, committed, owner, pending, due, cancelled,
                 flusher, rows, faults, stops, lost>>

\* Mutant of EachRecord: the decode error is ignored.
EachRecordIgnoresDecodeError(c, r) ==
  /\ reader[c] = "add"
  /\ r \in fetched[c]
  /\ BatcherAdd(c, r)
  /\ fetched' = [fetched EXCEPT ![c] = @ \ {r}]
  /\ reader'  = [reader EXCEPT ![c] = IF fetched[c] = {r} THEN "poll" ELSE "add"]
  /\ UNCHANGED <<logEnd, committed, owner, polled, cancelled, flusher,
                 stops, lost>>

\* One call of the EachRecord callback: the records of a partition come in
\* offset order, a record that does not decode is skipped.
EachRecord(c, r) ==
  /\ reader[c] = "add"
  /\ r \in fetched[c]
  /\ \A q \in fetched[c] : q[1] = r[1] => r[2] <= q[2]
  /\ IF r \in Undecodable THEN UNCHANGED <<pending, due, rows, faults>>
                          ELSE BatcherAdd(c, r)
  /\ fetched' = [fetched EXCEPT ![c] = @ \ {r}]
  /\ reader'  = [reader EXCEPT ![c] = IF fetched[c] = {r} THEN "poll" ELSE "add"]
  /\ UNCHANGED <<logEnd, committed, owner, polled, cancelled, flusher,
                 stops, lost>>

\* The first PollFetches after the context is done ends the loop.  It still
\* hands out what the client has buffered; the loop breaks before looking at
\* those records, which the client now counts as consumed.
BreakLoop(c) ==
  /\ reader[c] = "poll"
  /\ cancelled[c]
  /\ \E upto \in PollTargets(c) :
       /\ polled' = [polled EXCEPT ![c] = upto]
       /\ lost'   = lost \cup Returned(c, upto)
  /\ reader' = [reader EXCEPT ![c] = "drain"]
  /\ UNCHANGED <<logEnd, committed, owner, fetched, pending, due, cancelled,
                 flusher, rows, faults, stops>>

\* flushAndCommit, first half: <-flushDone, then Flush with a fresh context;
\* its error is only logged.
FinalFlush(c) ==
  /\ reader[c] = "drain"
  /\ flusher[c] = "done"
  /\ IF pending[c] = <<>> THEN UNCHANGED <<pending, due, rows, faults>>
                          ELSE Flush(c, pending[c], TRUE)
  /\ reader' = [reader EXCEPT ![c] = "close"]
  /\ UNCHANGED <<logEnd, committed, owner, polled, fetched, cancelled, flusher,
                 stops, lost>>

-----------------------------------------------------------------------------
(* Offsets. *)

\* Mutant of CommitUncommittedOffsets: positions of partitions c no longer owns
\* are committed too.
CommitStaleOffsets(c, ctxLive) ==
  /\ committed' = IF ctxLive THEN polled[c] ELSE committed
  /\ UNCHANGED faults

\* CommitUncommittedOffsets: everything PollFetches returned on the partitions
\* c still owns, whatever became of the rows; or an error.
CommitUncommittedOffsets(c, ctxLive) ==
  \/ /\ ctxLive
     /\ committed' = [p \in Partition |->
                        IF owner[p] = c THEN polled[c][p] ELSE committed[p]]
     /\ UNCHANGED faults
  \/ /\ faults < MaxFaults
     /\ faults' = faults + 1
     /\ UNCHANGED committed
  \/ /\ ~ctxLive
     /\ UNCHANGED <<committed, faults>>

\* flushAndCommit, second half, then client.Close: the member leaves the group
\* and the process exits with whatever the final flush left in the batch.
FinalCommit(c) ==
  /\ reader[c] = "close"
  /\ CommitUncommittedOffsets(c, TRUE)
  /\ owner'   = [p \in Partition |-> IF owner[p] = c THEN NoOwner ELSE owner[p]]
  /\ lost'    = lost \cup {r \in Record : HeldBy(c, r)}
  /\ pending' = [pending EXCEPT ![c] = <<>>]
  /\ due'     = [due EXCEPT ![c] = FALSE]
  /\ reader'  = [reader EXCEPT ![c] = "down"]
  /\ UNCHANGED <<logEnd, polled, fetched, cancelled, flusher, rows, stops>>

-----------------------------------------------------------------------------
(* The flusher goroutine. *)

\* Go's select takes the tick or ctx.Done when both are ready.
FlusherTick(c) ==
  /\ Live(c)
  /\ flusher[c] = "wait"
  /\ MaybeFlush(c)
  /\ flusher' = [flusher EXCEPT ![c] = "commit"]
  /\ UNCHANGED <<logEnd, committed, owner, polled, fetched, cancelled, reader,
                 stops, lost>>

FlusherCommit(c) ==
  /\ Live(c)
  /\ flusher[c] = "commit"
  /\ CommitUncommittedOffsets(c, ~cancelled[c])
  /\ flusher' = [flusher EXCEPT ![c] = "wait"]
  /\ UNCHANGED <<logEnd, owner, polled, fetched, pending, due, cancelled, reader,
                 rows, stops, lost>>

\* Mutant of FlusherExit: the flusher stays until the batch is empty.
FlusherExitWhenEmpty(c) ==
  /\ Live(c)
  /\ flusher[c] = "wait"
  /\ cancelled[c]
  /\ pending[c] = <<>>
  /\ flusher' = [flusher EXCEPT ![c] = "done"]
  /\ UNCHANGED <<logEnd, committed, owner, polled, fetched, pending, due,
                 cancelled, reader, rows, faults, stops, lost>>

FlusherExit(c) ==
  /\ Live(c)
  /\ flusher[c] = "wait"
  /\ cancelled[c]
  /\ flusher' = [flusher EXCEPT ![c] = "done"]
  /\ UNCHANGED <<logEnd, committed, owner, polled, fetched, pending, due,
                 cancelled, reader, rows, faults, stops, lost>>

-----------------------------------------------------------------------------
(* The process. *)

\* SIGTERM cancels the context main hands to Run.
Shutdown(c) ==
  /\ Live(c)
  /\ ~cancelled[c]
  /\ stops < MaxStops
  /\ cancelled' = [cancelled EXCEPT ![c] = TRUE]
  /\ stops' = stops + 1
  /\ UNCHANGED <<logEnd, committed, owner, polled, fetched, pending, due,
                 reader, flusher, rows, faults, lost>>

Crash(c) ==
  /\ Live(c)
  /\ stops < MaxStops
  /\ stops'   = stops + 1
  /\ lost'    = lost \cup {r \in Record : HeldBy(c, r)}
  /\ fetched' = [fetched EXCEPT ![c] = {}]
  /\ pending' = [pending EXCEPT ![c] = <<>>]
  /\ due'     = [due EXCEPT ![c] = FALSE]
  /\ reader'  = [reader EXCEPT ![c] = "down"]
  /\ flusher' = [flusher EXCEPT ![c] = "done"]
  /\ UNCHANGED <<logEnd, committed, owner, polled, cancelled, rows, faults>>

\* The Deployment starts the pod again.  It is a new member: the identity c is
\* used again once the coordinator has forgotten the old one.
Restart(c) ==
  /\ ~Live(c)
  /\ \A p \in Partition : owner[p] # c
  /\ polled'    = [polled EXCEPT ![c] = [p \in Partition |-> 0]]
  /\ cancelled' = [cancelled EXCEPT ![c] = FALSE]
  /\ reader'    = [reader EXCEPT ![c] = "poll"]
  /\ flusher'   = [flusher EXCEPT ![c] = "wait"]
  /\ UNCHANGED <<logEnd, committed, owner, fetched, pending, due, rows, faults,
                 stops, lost>>

-----------------------------------------------------------------------------

ReaderStep(c) ==
  \/ PollFetches(c)
  \/ \E r \in Record : EachRecord(c, r)
  \/ BreakLoop(c)
  \/ FinalFlush(c)
  \/ FinalCommit(c)

FlusherStep(c) ==
  \/ FlusherTick(c)
  \/ FlusherCommit(c)
  \/ FlusherExit(c)

Next ==
  \/ \E p \in Partition : Produce(p) \/ Revoke(p) \/ Evict(p)
  \/ \E c \in Consumer, p \in Partition : Assign(c, p)
  \/ \E c \in Consumer :
       ReaderStep(c) \/ FlusherStep(c) \/ DeadlinePasses(c)
         \/ Shutdown(c) \/ Crash(c) \/ Restart(c)

Spec == Init /\ [][Next]_vars

\* Both goroutines keep being scheduled, the clock advances, the coordinator
\* assigns and evicts, the Deployment restarts what stopped.  A select that
\* finds ctx.Done ready takes it in the end.  Nothing forces traffic, a crash,
\* a shutdown or a rebalance.
Fairness ==
  /\ \A c \in Consumer :
       /\ WF_vars(ReaderStep(c))
       /\ WF_vars(FlusherTick(c))
       /\ WF_vars(FlusherCommit(c))
       /\ SF_vars(FlusherExit(c))
       /\ WF_vars(DeadlinePasses(c))
       /\ WF_vars(Restart(c))
  /\ \A p \in Partition :
       /\ WF_vars(Evict(p))
       /\ WF_vars(\E c \in Consumer : Assign(c, p))

FairSpec == Spec /\ Fairness

-----------------------------------------------------------------------------
(* Properties. *)

\* Every variable has its type.
TypeOK ==
  /\ logEnd    \in [Partition -> 0..MaxOffset]
  /\ committed \in [Partition -> 0..MaxOffset]
  /\ owner     \in [Partition -> Consumer \cup {NoOwner}]
  /\ polled    \in [Consumer -> [Partition -> 0..MaxOffset]]
  /\ fetched   \in [Consumer -> SUBSET Record]
  /\ pending   \in [Consumer -> Seq(Record \ Undecodable)]
  /\ due       \in [Consumer -> BOOLEAN]
  /\ cancelled \in [Consumer -> BOOLEAN]
  /\ reader    \in [Consumer -> ReaderState]
  /\ flusher   \in [Consumer -> FlusherState]
  /\ rows      \in [Record -> Nat]
  /\ faults    \in 0..MaxFaults
  /\ stops     \in 0..MaxStops
  /\ lost      \subseteq Record

Stored(r) == rows[r] >= 1
Held(r)   == \E c \in Consumer : HeldBy(c, r)

\* Where a record the group has moved past may be.
Accounted(r) == r \in Undecodable \/ Stored(r) \/ Held(r) \/ r \in lost

\* Once the committed offset has passed a record, nobody reads it again.  Then
\* it is stored, or in the memory of a member, or it does not decode, or a
\* process that stopped took it along: offsets committed on a timer, batches
\* retried in place and partitions changing hands never drop a record silently.
NoSilentLoss ==
  \A r \in Record : r[2] <= committed[r[1]] => Accounted(r)

\* As long as no member crashes, shuts down or loses a partition, ClickHouse
\* failing any number of times loses no record: a failed batch stays pending.
OutageLosesNothing ==
  stops = 0 =>
    /\ lost = {}
    /\ \A r \in Record : r[2] <= committed[r[1]] =>
         r \in Undecodable \/ Stored(r) \/ Held(r)

\* A record is stored twice only for a reason.  It is delivered again once per
\* stop or rebalance, and an insert whose answer was lost stores again every
\* copy the batch holds; with neither it is stored exactly once.
DuplicatesArePaidFor ==
  \A r \in Record : rows[r] <= (1 + stops) * (1 + faults)

\* While no member has stopped, the rows of a partition appear in ClickHouse
\* in offset order, without gaps: a batch fails or succeeds as a whole, and
\* rows added after a failure stand behind the rows that failed.
StoredInOffsetOrder ==
  stops = 0 =>
    \A r, q \in Record :
      (r[1] = q[1] /\ r[2] < q[2] /\ Stored(q)) => r \in Undecodable \/ Stored(r)

\* A batch at or over maxSize exists only because an insert has failed or the
\* context of the inserts is done: Add flushes a full batch before it returns.
FullBatchMeansFailure ==
  \A c \in Consumer : Len(pending[c]) >= MaxSize => faults > 0 \/ cancelled[c]

\* What a commit may never do: move the group's offset backwards, which would
\* redeliver records without any member having stopped.
CommitNeverRewinds == [][\A p \in Partition : committed'[p] >= committed[p]]_vars

\* Every produced record ends up in ClickHouse, unless it does not decode or a
\* process that stopped lost it.
EventuallySettled ==
  \A r \in Record :
    (r[2] <= logEnd[r[1]]) ~> (Stored(r) \/ r \in Undecodable \/ r \in lost)

\* A member that is told to stop does stop: Run waits for the flusher and for
\* one last flush and commit, and none of these waits for another forever.
ShutdownCompletes ==
  \A c \in Consumer : cancelled[c] ~> ~Live(c)

\* What docs/architecture.md:60 says of an unreachable ClickHouse: the batch is
\* retried with its "offsets uncommitted".  A batch is at or over maxSize only
\* after an insert failed, so its rows must lie behind no committed offset.
OutageKeepsOffsetsUncommitted ==
  \A c \in Consumer : Len(pending[c]) >= MaxSize /\ ~cancelled[c] =>
    \A r \in Record :
      InBatch(r, pending[c]) /\ ~Stored(r) => r[2] > committed[r[1]]
=============================================================================
