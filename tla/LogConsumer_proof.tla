------------------------- MODULE LogConsumer_proof -------------------------
(***************************************************************************)
(* Proofs about LogConsumer, for any number of members and partitions, any *)
(* batch size and any number of faults and stops.                          *)
(*                                                                         *)
(* NoSilentLoss is not inductive: a commit may move the committed offset   *)
(* up to the owner's position, so the records up to that position must     *)
(* have been accounted for before.  IInv adds this (OwnerAccounts), that a *)
(* fetch is not replaced before it is used up (FetchInUse), and that loss  *)
(* has a cause (StopsExplainLoss).  Batch sizes, the order of the rows and *)
(* the price of a duplicate have invariants of their own (SizeInv,         *)
(* OrderInv, PriceInv) on top of it.                                       *)
(***************************************************************************)
EXTENDS LogConsumer, FiniteSetTheorems, TLAPS

\* The owner of a partition stands at or past the committed offset, and every
\* record up to its position is accounted for.
OwnerAccounts ==
  \A c \in Consumer, p \in Partition : owner[p] = c =>
    /\ committed[p] <= polled[c][p]
    /\ \A r \in Record : r[1] = p /\ r[2] <= polled[c][p] => Accounted(r)

FetchInUse == \A c \in Consumer : reader[c] # "add" => fetched[c] = {}

StopsExplainLoss ==
  stops = 0 => /\ lost = {}
               /\ \A c \in Consumer : ~cancelled[c] /\ reader[c] \in {"poll", "add"}

IInv == TypeOK /\ NoSilentLoss /\ OwnerAccounts /\ FetchInUse /\ StopsExplainLoss

-----------------------------------------------------------------------------
(* Batches. *)

\* A record of a batch is counted at least once.
LEMMA CopiesCount ==
  ASSUME NEW S, NEW b \in Seq(S), NEW r
  PROVE  Copies(r, b) \in Nat /\ (InBatch(r, b) => Copies(r, b) >= 1)
<1> DEFINE D == {i \in DOMAIN b : b[i] = r}
<1>1. IsFiniteSet(1..Len(b))
  BY FS_Interval
<1>2. DOMAIN b = 1..Len(b)
  OBVIOUS
<1>3. IsFiniteSet(D)
  BY <1>1, <1>2, FS_Subset
<1>4. Cardinality(D) \in Nat
  BY <1>3, FS_CardinalityType
<1>5. InBatch(r, b) => D # {}
  BY DEF InBatch
<1>6. D # {} => Cardinality(D) # 0
  BY <1>3, FS_EmptySet
<1> QED
  BY <1>4, <1>5, <1>6 DEF Copies

\* Appending puts the record into the batch and keeps what is there.
LEMMA AppendInBatch ==
  ASSUME NEW S, NEW b \in Seq(S), NEW r \in S
  PROVE  /\ Append(b, r) \in Seq(S)
         /\ InBatch(r, Append(b, r))
         /\ \A q : InBatch(q, b) => InBatch(q, Append(b, r))
<1>1. Append(b, r) \in Seq(S)
  OBVIOUS
<1>2. InBatch(r, Append(b, r))
  <2>1. Len(b) + 1 \in DOMAIN Append(b, r) /\ Append(b, r)[Len(b) + 1] = r
    OBVIOUS
  <2> QED
    BY <2>1 DEF InBatch
<1>3. ASSUME NEW q, InBatch(q, b)
      PROVE  InBatch(q, Append(b, r))
  <2>1. PICK i \in DOMAIN b : b[i] = q
    BY <1>3 DEF InBatch
  <2>2. i \in DOMAIN Append(b, r) /\ Append(b, r)[i] = q
    BY <2>1
  <2> QED
    BY <2>2 DEF InBatch
<1> QED
  BY <1>1, <1>2, <1>3

\* What the Batcher's operators must leave true: types, every stored row
\* stays stored, batches of other members stay, and every record of b is in
\* ClickHouse or still in the batch of c.
FlushResult(c, b) ==
  /\ pending' \in [Consumer -> Seq(Record \ Undecodable)]
  /\ due' \in [Consumer -> BOOLEAN]
  /\ rows' \in [Record -> Nat]
  /\ faults' \in 0..MaxFaults
  /\ \A r \in Record : rows'[r] >= rows[r]
  /\ \A d \in Consumer : d # c => pending'[d] = pending[d]
  /\ \A r \in Record : InBatch(r, b) => rows'[r] >= 1 \/ InBatch(r, pending'[c])

\* A flush, whatever its outcome, loses no record of the batch.
LEMMA FlushKeepsRecords ==
  ASSUME TypeOK, NEW c \in Consumer, NEW b \in Seq(Record \ Undecodable),
         NEW ctxLive, Flush(c, b, ctxLive)
  PROVE  FlushResult(c, b)
<1> DEFINE applied == [r \in Record |-> rows[r] + Copies(r, b)]
<1>1. \A r \in Record : Copies(r, b) \in Nat /\ (InBatch(r, b) => Copies(r, b) >= 1)
  BY CopiesCount
<1>2. /\ applied \in [Record -> Nat]
      /\ \A r \in Record : applied[r] >= rows[r] /\ (InBatch(r, b) => applied[r] >= 1)
  BY <1>1 DEF TypeOK
<1>3. <<>> \in Seq(Record \ Undecodable)
  OBVIOUS
<1>4. \A r \in Record : rows[r] \in Nat
  BY DEF TypeOK
<1> HIDE DEF applied
<1>5. CASE /\ rows' = applied
           /\ pending' = [pending EXCEPT ![c] = <<>>]
           /\ due' = [due EXCEPT ![c] = FALSE]
           /\ UNCHANGED faults
  BY <1>2, <1>3, <1>5 DEF FlushResult, TypeOK
<1>6. CASE /\ faults < MaxFaults
           /\ rows' \in {rows, applied}
           /\ pending' = [pending EXCEPT ![c] = b]
           /\ faults' = faults + 1
           /\ UNCHANGED due
  <2>1. pending'[c] = b
    BY <1>6 DEF TypeOK
  <2>2. faults' \in 0..MaxFaults
    BY <1>6, ConstantsAssumption DEF TypeOK
  <2>3. rows' \in [Record -> Nat] /\ \A r \in Record : rows'[r] >= rows[r]
    BY <1>2, <1>4, <1>6 DEF TypeOK
  <2> QED
    BY <1>6, <2>1, <2>2, <2>3 DEF FlushResult, TypeOK
<1>7. CASE /\ pending' = [pending EXCEPT ![c] = b]
           /\ UNCHANGED <<rows, due, faults>>
  <2>1. pending'[c] = b
    BY <1>7 DEF TypeOK
  <2> QED
    BY <1>4, <1>7, <2>1 DEF FlushResult, TypeOK
<1> QED
  BY <1>5, <1>6, <1>7 DEF Flush, applied

\* Add keeps the batch and the added row.
LEMMA AddKeepsRecords ==
  ASSUME TypeOK, NEW c \in Consumer, NEW r \in Record \ Undecodable,
         BatcherAdd(c, r)
  PROVE  FlushResult(c, Append(pending[c], r))
<1> DEFINE b == Append(pending[c], r)
<1>1. pending[c] \in Seq(Record \ Undecodable)
  BY DEF TypeOK
<1>2. b \in Seq(Record \ Undecodable)
  BY <1>1
<1> HIDE DEF b
<1>3. CASE Flush(c, b, ~cancelled[c])
  BY <1>2, <1>3, FlushKeepsRecords DEF b
<1>4. CASE /\ pending' = [pending EXCEPT ![c] = b]
           /\ due' = [due EXCEPT ![c] = @ /\ pending[c] # <<>>]
           /\ UNCHANGED <<rows, faults>>
  <2>1. pending'[c] = b /\ pending' \in [Consumer -> Seq(Record \ Undecodable)]
    BY <1>2, <1>4 DEF TypeOK
  <2>2. due' \in [Consumer -> BOOLEAN]
    BY <1>4 DEF TypeOK
  <2>3. \A q \in Record : rows[q] \in Nat
    BY DEF TypeOK
  <2> QED
    BY <1>4, <2>1, <2>2, <2>3 DEF FlushResult, TypeOK, b
<1> QED
  BY <1>3, <1>4 DEF BatcherAdd, b

\* MaybeFlush keeps the batch.
LEMMA MaybeFlushKeepsRecords ==
  ASSUME TypeOK, NEW c \in Consumer, MaybeFlush(c)
  PROVE  FlushResult(c, pending[c])
<1>1. pending[c] \in Seq(Record \ Undecodable)
  BY DEF TypeOK
<1>2. CASE Flush(c, pending[c], ~cancelled[c])
  BY <1>1, <1>2, FlushKeepsRecords
<1>3. CASE UNCHANGED <<pending, due, rows, faults>>
  <2>1. \A q \in Record : rows[q] \in Nat
    BY DEF TypeOK
  <2> QED
    BY <1>3, <2>1 DEF FlushResult, TypeOK
<1> QED
  BY <1>2, <1>3 DEF MaybeFlush
-----------------------------------------------------------------------------
(* Type correctness. *)

\* Members start with no partition and an empty batch.
LEMMA InitType == Init => TypeOK
BY ConstantsAssumption DEF Init, TypeOK, ReaderState, FlusherState, Record

\* A commit, of the flusher or of the shutdown, keeps the types.
LEMMA CommitType ==
  ASSUME TypeOK, NEW c \in Consumer, NEW ctxLive, CommitUncommittedOffsets(c, ctxLive)
  PROVE  /\ committed' \in [Partition -> 0..MaxOffset]
         /\ faults' \in 0..MaxFaults
<1>1. CASE /\ committed' = [p \in Partition |->
                             IF owner[p] = c THEN polled[c][p] ELSE committed[p]]
           /\ UNCHANGED faults
  <2>1. \A p \in Partition : polled[c][p] \in 0..MaxOffset /\ committed[p] \in 0..MaxOffset
    BY DEF TypeOK
  <2> QED
    BY <1>1, <2>1 DEF TypeOK
<1>2. CASE faults < MaxFaults /\ faults' = faults + 1 /\ UNCHANGED committed
  BY <1>2, ConstantsAssumption DEF TypeOK
<1>3. CASE UNCHANGED <<committed, faults>>
  BY <1>3 DEF TypeOK
<1> QED
  BY <1>1, <1>2, <1>3 DEF CommitUncommittedOffsets

\* Every action keeps the types.
LEMMA NextType == TypeOK /\ [Next]_vars => TypeOK'
<1> SUFFICES ASSUME TypeOK, [Next]_vars PROVE TypeOK'
  OBVIOUS
<1> USE ConstantsAssumption
<1>1. CASE UNCHANGED vars
  BY <1>1 DEF TypeOK, vars
<1>2. ASSUME NEW p \in Partition, Produce(p) PROVE TypeOK'
  BY <1>2 DEF Produce, TypeOK
<1>3. ASSUME NEW p \in Partition, Revoke(p) PROVE TypeOK'
  BY <1>3 DEF Revoke, TypeOK
<1>4. ASSUME NEW p \in Partition, Evict(p) PROVE TypeOK'
  BY <1>4 DEF Evict, TypeOK
<1>5. ASSUME NEW c \in Consumer, NEW p \in Partition, Assign(c, p) PROVE TypeOK'
  BY <1>5 DEF Assign, TypeOK
<1>6. ASSUME NEW c \in Consumer, PollFetches(c) PROVE TypeOK'
  BY <1>6, SMTT(30) DEF PollFetches, PollTargets, Returned, TypeOK, ReaderState
<1>7. ASSUME NEW c \in Consumer, NEW r \in Record, EachRecord(c, r) PROVE TypeOK'
  <2>1. /\ pending' \in [Consumer -> Seq(Record \ Undecodable)]
        /\ due' \in [Consumer -> BOOLEAN]
        /\ rows' \in [Record -> Nat]
        /\ faults' \in 0..MaxFaults
    <3>1. CASE r \in Undecodable
      BY <1>7, <3>1 DEF EachRecord, TypeOK
    <3>2. CASE r \notin Undecodable
      BY <1>7, <3>2, AddKeepsRecords DEF EachRecord, FlushResult
    <3> QED
      BY <3>1, <3>2
  <2> QED
    BY <1>7, <2>1 DEF EachRecord, TypeOK, ReaderState
<1>8. ASSUME NEW c \in Consumer, BreakLoop(c) PROVE TypeOK'
  BY <1>8 DEF BreakLoop, PollTargets, Returned, TypeOK, ReaderState
<1>9. ASSUME NEW c \in Consumer, FinalFlush(c) PROVE TypeOK'
  <2>1. /\ pending' \in [Consumer -> Seq(Record \ Undecodable)]
        /\ due' \in [Consumer -> BOOLEAN]
        /\ rows' \in [Record -> Nat]
        /\ faults' \in 0..MaxFaults
    <3>1. CASE pending[c] = <<>>
      BY <1>9, <3>1 DEF FinalFlush, TypeOK
    <3>2. CASE pending[c] # <<>>
      <4>1. pending[c] \in Seq(Record \ Undecodable)
        BY DEF TypeOK
      <4> QED
        BY <1>9, <3>2, <4>1, FlushKeepsRecords DEF FinalFlush, FlushResult
    <3> QED
      BY <3>1, <3>2
  <2> QED
    BY <1>9, <2>1 DEF FinalFlush, TypeOK, ReaderState
<1>10. ASSUME NEW c \in Consumer, FinalCommit(c) PROVE TypeOK'
  <2>1. /\ committed' \in [Partition -> 0..MaxOffset]
        /\ faults' \in 0..MaxFaults
    BY <1>10, CommitType DEF FinalCommit
  <2>2. pending' \in [Consumer -> Seq(Record \ Undecodable)]
    <3>1. <<>> \in Seq(Record \ Undecodable)
      OBVIOUS
    <3> QED
      BY <1>10, <3>1 DEF FinalCommit, TypeOK
  <2> QED
    BY <1>10, <2>1, <2>2 DEF FinalCommit, TypeOK, ReaderState
<1>11. ASSUME NEW c \in Consumer, FlusherTick(c) PROVE TypeOK'
  BY <1>11, MaybeFlushKeepsRecords DEF FlusherTick, FlushResult, TypeOK, FlusherState
<1>12. ASSUME NEW c \in Consumer, FlusherCommit(c) PROVE TypeOK'
  <2>1. /\ committed' \in [Partition -> 0..MaxOffset]
        /\ faults' \in 0..MaxFaults
    BY <1>12, CommitType DEF FlusherCommit
  <2> QED
    BY <1>12, <2>1 DEF FlusherCommit, TypeOK, FlusherState
<1>13. ASSUME NEW c \in Consumer, FlusherExit(c) PROVE TypeOK'
  BY <1>13 DEF FlusherExit, TypeOK, FlusherState
<1>14. ASSUME NEW c \in Consumer, DeadlinePasses(c) PROVE TypeOK'
  BY <1>14 DEF DeadlinePasses, TypeOK
<1>15. ASSUME NEW c \in Consumer, Shutdown(c) PROVE TypeOK'
  BY <1>15 DEF Shutdown, TypeOK
<1>16. ASSUME NEW c \in Consumer, Crash(c) PROVE TypeOK'
  <2>1. <<>> \in Seq(Record \ Undecodable)
    OBVIOUS
  <2> QED
    BY <1>16, <2>1 DEF Crash, TypeOK, ReaderState, FlusherState
<1>17. ASSUME NEW c \in Consumer, Restart(c) PROVE TypeOK'
  BY <1>17 DEF Restart, TypeOK, ReaderState, FlusherState
<1> QED
  BY <1>1, <1>2, <1>3, <1>4, <1>5, <1>6, <1>7, <1>8, <1>9, <1>10, <1>11, <1>12,
     <1>13, <1>14, <1>15, <1>16, <1>17 DEF Next, ReaderStep, FlusherStep

\* Every variable keeps its type.
THEOREM TypeCorrect == Spec => []TypeOK
BY InitType, NextType, PTL DEF Spec

-----------------------------------------------------------------------------
(* No record disappears. *)

\* A step that keeps the rows, the batches and the loss history and only adds
\* to fetched keeps every record accounted for.
LEMMA SameCustody ==
  ASSUME TypeOK, UNCHANGED <<pending, rows, lost>>,
         \A c \in Consumer : fetched[c] \subseteq fetched'[c],
         NEW r \in Record, Accounted(r)
  PROVE  Accounted(r)'
BY DEF Accounted, Stored, Held, HeldBy

\* A flush or an Add by c that takes at most the record q, which does not
\* decode or is in the batch b, out of the fetch keeps every record accounted
\* for, if b contains the batch of c.
LEMMA FlushCustody ==
  ASSUME TypeOK, NEW c \in Consumer, NEW b, FlushResult(c, b),
         \A s : InBatch(s, pending[c]) => InBatch(s, b),
         \A d \in Consumer : \A s \in Record :
           s \in fetched[d] => s \in fetched'[d] \/ s \in Undecodable \/ InBatch(s, b),
         UNCHANGED lost,
         NEW r \in Record, Accounted(r)
  PROVE  Accounted(r)'
<1>1. \A s \in Record : InBatch(s, b) => Accounted(s)'
  BY DEF FlushResult, Accounted, Stored, Held, HeldBy
<1>2. CASE r \in Undecodable \/ r \in lost
  BY <1>2 DEF Accounted
<1>3. CASE Stored(r)
  BY <1>3 DEF Accounted, Stored, FlushResult, TypeOK
<1>4. CASE Held(r)
  <2>1. PICK d \in Consumer : HeldBy(d, r)
    BY <1>4 DEF Held
  <2>2. CASE r \in fetched[d]
    BY <1>1, <2>2 DEF Accounted, Held, HeldBy
  <2>3. CASE InBatch(r, pending[d])
    <3>1. CASE d = c
      BY <1>1, <2>3, <3>1
    <3>2. CASE d # c
      BY <2>3, <3>2 DEF FlushResult, Accounted, Held, HeldBy
    <3> QED
      BY <3>1, <3>2
  <2> QED
    BY <2>1, <2>2, <2>3 DEF HeldBy
<1> QED
  BY <1>2, <1>3, <1>4 DEF Accounted

\* A member that dies leaves what it held in the loss history.
LEMMA DeathCustody ==
  ASSUME TypeOK, NEW c \in Consumer,
         lost' = lost \cup {r \in Record : HeldBy(c, r)},
         \A d \in Consumer : d # c => fetched'[d] = fetched[d] /\ pending'[d] = pending[d],
         UNCHANGED rows,
         NEW r \in Record, Accounted(r)
  PROVE  Accounted(r)'
<1>1. CASE HeldBy(c, r)
  BY <1>1 DEF Accounted
<1>2. CASE \E d \in Consumer : d # c /\ HeldBy(d, r)
  BY <1>2 DEF Accounted, Held, HeldBy
<1>3. CASE r \in Undecodable \/ r \in lost \/ Stored(r)
  BY <1>3 DEF Accounted, Stored
<1> QED
  BY <1>1, <1>2, <1>3 DEF Accounted, Held

\* No step of the system loses sight of a record.
LEMMA NextCustody ==
  ASSUME TypeOK, FetchInUse, [Next]_vars, NEW r \in Record, Accounted(r)
  PROVE  Accounted(r)'
<1>1. CASE UNCHANGED vars
  BY <1>1, SameCustody DEF vars
<1>2. ASSUME NEW p \in Partition, Produce(p) \/ Revoke(p) \/ Evict(p)
      PROVE  Accounted(r)'
  BY <1>2, SameCustody DEF Produce, Revoke, Evict
<1>3. ASSUME NEW c \in Consumer, NEW p \in Partition, Assign(c, p) PROVE Accounted(r)'
  BY <1>3, SameCustody DEF Assign
<1>4. ASSUME NEW c \in Consumer, PollFetches(c) PROVE Accounted(r)'
  <2>1. \A d \in Consumer : fetched[d] \subseteq fetched'[d]
    BY <1>4 DEF PollFetches, FetchInUse, TypeOK
  <2> QED
    BY <1>4, <2>1, SameCustody DEF PollFetches
<1>5. ASSUME NEW c \in Consumer, NEW q \in Record, EachRecord(c, q) PROVE Accounted(r)'
  <2>1. \A d \in Consumer : \A s \in Record : s \in fetched[d] => s \in fetched'[d] \/ s = q
    BY <1>5 DEF EachRecord, TypeOK
  <2>2. CASE q \in Undecodable
    <3>1. FlushResult(c, pending[c])
      BY <1>5, <2>2 DEF EachRecord, FlushResult, TypeOK
    <3> QED
      BY <1>5, <2>1, <2>2, <3>1, FlushCustody DEF EachRecord
  <2>3. CASE q \notin Undecodable
    <3> DEFINE b == Append(pending[c], q)
    <3>1. FlushResult(c, b)
      BY <1>5, <2>3, AddKeepsRecords DEF EachRecord
    <3>2. InBatch(q, b) /\ \A s : InBatch(s, pending[c]) => InBatch(s, b)
      <4>1. pending[c] \in Seq(Record \ Undecodable) /\ q \in Record \ Undecodable
        BY <2>3 DEF TypeOK
      <4> QED
        BY <4>1, AppendInBatch
    <3> HIDE DEF b
    <3> QED
      BY <1>5, <2>1, <3>1, <3>2, FlushCustody DEF EachRecord
  <2> QED
    BY <2>2, <2>3
<1>6. ASSUME NEW c \in Consumer, BreakLoop(c) PROVE Accounted(r)'
  BY <1>6 DEF BreakLoop, Accounted, Stored, Held, HeldBy
<1>7. ASSUME NEW c \in Consumer, FinalFlush(c) PROVE Accounted(r)'
  <2>1. CASE pending[c] = <<>>
    BY <1>7, <2>1, SameCustody DEF FinalFlush
  <2>2. CASE pending[c] # <<>>
    <3>1. FlushResult(c, pending[c])
      <4>1. pending[c] \in Seq(Record \ Undecodable)
        BY DEF TypeOK
      <4> QED
        BY <1>7, <2>2, <4>1, FlushKeepsRecords DEF FinalFlush
    <3> QED
      BY <1>7, <3>1, FlushCustody DEF FinalFlush
  <2> QED
    BY <2>1, <2>2
<1>8. ASSUME NEW c \in Consumer, FinalCommit(c) PROVE Accounted(r)'
  BY <1>8, DeathCustody DEF FinalCommit, TypeOK
<1>9. ASSUME NEW c \in Consumer, FlusherTick(c) PROVE Accounted(r)'
  <2>1. FlushResult(c, pending[c])
    BY <1>9, MaybeFlushKeepsRecords DEF FlusherTick
  <2> QED
    BY <1>9, <2>1, FlushCustody DEF FlusherTick
<1>10. ASSUME NEW c \in Consumer,
              FlusherCommit(c) \/ FlusherExit(c) \/ DeadlinePasses(c)
                \/ Shutdown(c) \/ Restart(c)
       PROVE  Accounted(r)'
  BY <1>10, SameCustody DEF FlusherCommit, FlusherExit, DeadlinePasses, Shutdown, Restart
<1>11. ASSUME NEW c \in Consumer, Crash(c) PROVE Accounted(r)'
  BY <1>11, DeathCustody DEF Crash, TypeOK
<1> QED
  BY <1>1, <1>2, <1>3, <1>4, <1>5, <1>6, <1>7, <1>8, <1>9, <1>10, <1>11
     DEF Next, ReaderStep, FlusherStep

\* A fetch is used up before the next poll.
LEMMA NextFetchInUse ==
  ASSUME TypeOK, FetchInUse, [Next]_vars
  PROVE  FetchInUse'
<1>1. CASE UNCHANGED vars
  BY <1>1 DEF FetchInUse, vars
<1>2. ASSUME NEW p \in Partition, Produce(p) \/ Revoke(p) \/ Evict(p)
      PROVE  FetchInUse'
  BY <1>2 DEF FetchInUse, Produce, Revoke, Evict
<1>3. ASSUME NEW c \in Consumer, NEW p \in Partition, Assign(c, p) PROVE FetchInUse'
  BY <1>3 DEF FetchInUse, Assign
<1>4. ASSUME NEW c \in Consumer, ReaderStep(c) PROVE FetchInUse'
  <2>1. CASE PollFetches(c)
    BY <2>1 DEF FetchInUse, TypeOK, PollFetches
  <2>2. ASSUME NEW r \in Record, EachRecord(c, r) PROVE FetchInUse'
    <3>1. \A d \in Consumer : d # c => reader'[d] = reader[d] /\ fetched'[d] = fetched[d]
      BY <2>2 DEF EachRecord, TypeOK
    <3>2. fetched'[c] = fetched[c] \ {r}
          /\ reader'[c] = IF fetched[c] = {r} THEN "poll" ELSE "add"
      BY <2>2 DEF EachRecord, TypeOK
    <3> QED
      BY <3>1, <3>2 DEF FetchInUse
  <2>3. CASE BreakLoop(c) \/ FinalFlush(c) \/ FinalCommit(c)
    BY <2>3 DEF FetchInUse, TypeOK, BreakLoop, FinalFlush, FinalCommit
  <2> QED
    BY <1>4, <2>1, <2>2, <2>3 DEF ReaderStep
<1>5. ASSUME NEW c \in Consumer, FlusherStep(c) PROVE FetchInUse'
  BY <1>5 DEF FetchInUse, FlusherStep, FlusherTick, FlusherCommit, FlusherExit
<1>6. ASSUME NEW c \in Consumer, DeadlinePasses(c) \/ Shutdown(c) \/ Crash(c) \/ Restart(c)
      PROVE  FetchInUse'
  BY <1>6 DEF FetchInUse, TypeOK, ReaderState, DeadlinePasses, Shutdown, Crash, Restart, Live
<1> QED
  BY <1>1, <1>2, <1>3, <1>4, <1>5, <1>6 DEF Next

\* Loss has a cause: something was stopped.
LEMMA NextStopsExplainLoss ==
  ASSUME TypeOK, StopsExplainLoss, [Next]_vars
  PROVE  StopsExplainLoss'
<1>1. CASE UNCHANGED vars
  BY <1>1 DEF StopsExplainLoss, vars
<1>2. ASSUME NEW p \in Partition, Produce(p) \/ Revoke(p) \/ Evict(p)
      PROVE  StopsExplainLoss'
  BY <1>2 DEF StopsExplainLoss, Produce, Revoke, Evict, TypeOK
<1>3. ASSUME NEW c \in Consumer, NEW p \in Partition, Assign(c, p) PROVE StopsExplainLoss'
  BY <1>3 DEF StopsExplainLoss, Assign
<1>4. ASSUME NEW c \in Consumer, PollFetches(c) PROVE StopsExplainLoss'
  BY <1>4 DEF StopsExplainLoss, PollFetches, TypeOK
<1>5. ASSUME NEW c \in Consumer, NEW r \in Record, EachRecord(c, r) PROVE StopsExplainLoss'
  BY <1>5 DEF StopsExplainLoss, EachRecord, TypeOK
<1>6. ASSUME NEW c \in Consumer, BreakLoop(c) \/ FinalFlush(c) \/ FinalCommit(c)
      PROVE  StopsExplainLoss'
  BY <1>6 DEF StopsExplainLoss, BreakLoop, FinalFlush, FinalCommit
<1>7. ASSUME NEW c \in Consumer, FlusherStep(c) \/ DeadlinePasses(c)
      PROVE  StopsExplainLoss'
  BY <1>7 DEF StopsExplainLoss, FlusherStep, FlusherTick, FlusherCommit, FlusherExit,
              DeadlinePasses
<1>8. ASSUME NEW c \in Consumer, Shutdown(c) \/ Crash(c) PROVE StopsExplainLoss'
  BY <1>8 DEF StopsExplainLoss, Shutdown, Crash, TypeOK
<1>9. ASSUME NEW c \in Consumer, Restart(c) PROVE StopsExplainLoss'
  BY <1>9 DEF StopsExplainLoss, Restart, Live
<1> QED
  BY <1>1, <1>2, <1>3, <1>4, <1>5, <1>6, <1>7, <1>8, <1>9 DEF Next, ReaderStep

-----------------------------------------------------------------------------
(* Positions and offsets. *)

\* The committed offset only moves to the position of the owner.
LEMMA CommittedMoves ==
  ASSUME TypeOK, OwnerAccounts, [Next]_vars, NEW p \in Partition
  PROVE  \/ committed'[p] = committed[p]
         \/ \E c \in Consumer : owner[p] = c /\ committed'[p] = polled[c][p]
<1>1. ASSUME NEW c \in Consumer, NEW ctxLive, CommitUncommittedOffsets(c, ctxLive)
      PROVE  \/ committed'[p] = committed[p]
             \/ owner[p] = c /\ committed'[p] = polled[c][p]
  BY <1>1 DEF CommitUncommittedOffsets, TypeOK
<1>2. ASSUME NEW c \in Consumer, FlusherCommit(c) \/ FinalCommit(c)
      PROVE  \/ committed'[p] = committed[p]
             \/ owner[p] = c /\ committed'[p] = polled[c][p]
  BY <1>1, <1>2 DEF FlusherCommit, FinalCommit
<1>3. ASSUME ~ \E c \in Consumer : FlusherCommit(c) \/ FinalCommit(c)
      PROVE  committed' = committed
  BY <1>3 DEF Next, vars, ReaderStep, FlusherStep, Produce, Revoke, Evict, Assign,
              PollFetches, EachRecord, BreakLoop, FinalFlush, FlusherTick, FlusherExit,
              DeadlinePasses, Shutdown, Crash, Restart
<1> QED
  BY <1>2, <1>3

\* Records behind the committed offset stay accounted for.
LEMMA NextNoSilentLoss ==
  ASSUME IInv, [Next]_vars
  PROVE  NoSilentLoss'
<1> SUFFICES ASSUME NEW r \in Record, r[2] <= committed'[r[1]]
             PROVE  Accounted(r)'
  BY DEF NoSilentLoss
<1>1. r[1] \in Partition
  BY DEF Record
<1>2. Accounted(r)
  <2>1. CASE committed'[r[1]] = committed[r[1]]
    BY <2>1 DEF IInv, NoSilentLoss
  <2>2. CASE \E c \in Consumer : owner[r[1]] = c /\ committed'[r[1]] = polled[c][r[1]]
    BY <1>1, <2>2 DEF IInv, OwnerAccounts
  <2> QED
    BY <1>1, <2>1, <2>2, CommittedMoves DEF IInv
<1> QED
  BY <1>2, NextCustody DEF IInv

\* The owner's position stays at or past the committed offset and passes only
\* records that are accounted for.
LEMMA NextOwnerAccounts ==
  ASSUME IInv, [Next]_vars
  PROVE  OwnerAccounts'
<1> SUFFICES ASSUME NEW c \in Consumer, NEW p \in Partition, owner'[p] = c
             PROVE  /\ committed'[p] <= polled'[c][p]
                    /\ \A r \in Record : r[1] = p /\ r[2] <= polled'[c][p] => Accounted(r)'
  BY DEF OwnerAccounts
<1> USE DEF IInv
<1> DEFINE Goal == /\ committed'[p] <= polled'[c][p]
                   /\ \A r \in Record : r[1] = p /\ r[2] <= polled'[c][p] => Accounted(r)'
<1>0. \A r \in Record : Accounted(r) => Accounted(r)'
  BY NextCustody
<1>types. /\ \A d \in Consumer : polled[d][p] \in Nat
          /\ committed[p] \in Nat /\ logEnd[p] \in Nat
          /\ \A r \in Record : r[1] \in Partition /\ r[2] \in 1..MaxOffset
  BY ConstantsAssumption DEF TypeOK, Record
<1>same. ASSUME owner[p] = c, UNCHANGED polled PROVE Goal
  <2>1. committed'[p] = committed[p] \/ committed'[p] = polled[c][p]
    BY <1>same, CommittedMoves
  <2> QED
    BY <1>0, <1>same, <1>types, <2>1 DEF OwnerAccounts
<1>1. CASE UNCHANGED vars
  BY <1>1, <1>same DEF vars
<1>2. ASSUME NEW q \in Partition, Produce(q) PROVE Goal
  BY <1>2, <1>same DEF Produce
<1>3. ASSUME NEW q \in Partition, Revoke(q) \/ Evict(q) PROVE Goal
  BY <1>3, <1>same, ConstantsAssumption DEF Revoke, Evict, TypeOK
<1>4. ASSUME NEW d \in Consumer, NEW q \in Partition, Assign(d, q) PROVE Goal
  <2>1. CASE p = q
    <3>1. d = c /\ polled'[c][p] = committed[p] /\ committed'[p] = committed[p]
      BY <1>4, <2>1 DEF Assign, TypeOK
    <3> QED
      BY <1>0, <1>types, <3>1 DEF NoSilentLoss
  <2>2. CASE p # q
    <3>1. owner[p] = c /\ polled'[c][p] = polled[c][p] /\ committed' = committed
      BY <1>4, <2>2 DEF Assign, TypeOK
    <3> QED
      BY <1>0, <3>1 DEF OwnerAccounts
  <2> QED
    BY <2>1, <2>2
<1>5. ASSUME NEW d \in Consumer, NEW upto \in PollTargets(d),
             polled' = [polled EXCEPT ![d] = upto],
             UNCHANGED <<committed, owner>>,
             \A r \in Returned(d, upto) : Accounted(r)'
      PROVE  Goal
  <2>1. CASE d = c
    <3>1. polled'[c][p] = upto[p]
      BY <1>5, <2>1 DEF TypeOK
    <3>2. polled[c][p] <= upto[p] /\ upto[p] \in Nat
      BY <1>5, <2>1, ConstantsAssumption DEF PollTargets
    <3>3. committed'[p] <= polled'[c][p]
      BY <1>5, <1>types, <3>1, <3>2 DEF OwnerAccounts
    <3>4. ASSUME NEW r \in Record, r[1] = p, r[2] <= upto[p]
          PROVE  Accounted(r)'
      <4>1. CASE r[2] <= polled[c][p]
        BY <1>0, <1>5, <3>4, <4>1 DEF OwnerAccounts
      <4>2. CASE polled[c][p] < r[2]
        BY <1>5, <2>1, <3>4, <4>2 DEF Returned
      <4> QED
        BY <1>types, <4>1, <4>2
    <3> QED
      BY <3>1, <3>3, <3>4
  <2>2. CASE d # c
    <3>1. polled'[c] = polled[c]
      BY <1>5, <2>2 DEF TypeOK
    <3> QED
      BY <1>0, <1>5, <3>1 DEF OwnerAccounts
  <2> QED
    BY <2>1, <2>2
<1>6. ASSUME NEW d \in Consumer, PollFetches(d) PROVE Goal
  <2>1. PICK upto \in PollTargets(d) :
          /\ fetched' = [fetched EXCEPT ![d] = Returned(d, upto)]
          /\ polled'  = [polled EXCEPT ![d] = upto]
    BY <1>6 DEF PollFetches
  <2>2. \A r \in Returned(d, upto) : Accounted(r)'
    <3>1. fetched'[d] = Returned(d, upto)
      BY <2>1 DEF TypeOK
    <3> QED
      BY <3>1 DEF Accounted, Held, HeldBy
  <2> QED
    BY <1>5, <1>6, <2>1, <2>2 DEF PollFetches
<1>7. ASSUME NEW d \in Consumer, BreakLoop(d) PROVE Goal
  <2>1. PICK upto \in PollTargets(d) :
          /\ polled' = [polled EXCEPT ![d] = upto]
          /\ lost'   = lost \cup Returned(d, upto)
    BY <1>7 DEF BreakLoop
  <2>2. \A r \in Returned(d, upto) : Accounted(r)'
    BY <2>1 DEF Accounted
  <2> QED
    BY <1>5, <1>7, <2>1, <2>2 DEF BreakLoop
<1>8. ASSUME NEW d \in Consumer,
             \/ \E r \in Record : EachRecord(d, r)
             \/ FinalFlush(d)
             \/ FlusherStep(d) \/ DeadlinePasses(d) \/ Shutdown(d) \/ Crash(d)
      PROVE  Goal
  BY <1>8, <1>same DEF EachRecord, FinalFlush, FlusherStep, FlusherTick, FlusherCommit,
                       FlusherExit, DeadlinePasses, Shutdown, Crash
<1>9. ASSUME NEW d \in Consumer, FinalCommit(d) PROVE Goal
  <2>1. owner[p] = c
    BY <1>9, ConstantsAssumption DEF FinalCommit, TypeOK
  <2> QED
    BY <1>9, <1>same, <2>1 DEF FinalCommit
<1>10. ASSUME NEW d \in Consumer, Restart(d) PROVE Goal
  <2>1. c # d /\ owner[p] = c /\ polled'[c] = polled[c] /\ committed' = committed
    BY <1>10 DEF Restart, TypeOK
  <2> QED
    BY <1>0, <2>1 DEF OwnerAccounts
<1> QED
  BY <1>1, <1>2, <1>3, <1>4, <1>6, <1>7, <1>8, <1>9, <1>10 DEF Next, ReaderStep

-----------------------------------------------------------------------------
(* The theorems. *)

\* The invariant holds before anything has been polled.
LEMMA InitIInv == Init => IInv
<1> SUFFICES ASSUME Init PROVE IInv
  OBVIOUS
<1>1. TypeOK
  BY InitType
<1>2. NoSilentLoss
  BY DEF Init, NoSilentLoss, Record
<1>3. OwnerAccounts
  BY ConstantsAssumption DEF Init, OwnerAccounts
<1>4. FetchInUse /\ StopsExplainLoss
  BY DEF Init, FetchInUse, StopsExplainLoss
<1> QED
  BY <1>1, <1>2, <1>3, <1>4 DEF IInv

\* The inductive invariant holds in every reachable state.
THEOREM Inductive == Spec => []IInv
<1>1. IInv /\ [Next]_vars => IInv'
  BY NextType, NextNoSilentLoss, NextOwnerAccounts, NextFetchInUse,
     NextStopsExplainLoss DEF IInv
<1> QED
  BY InitIInv, <1>1, PTL DEF Spec

\* A record behind the committed offset is stored, held by a live member,
\* undecodable, or was dropped by a process that stopped.
THEOREM NothingIsLostSilently == Spec => []NoSilentLoss
<1>1. IInv => NoSilentLoss
  BY DEF IInv
<1> QED
  BY Inductive, <1>1, PTL

\* Without a crash, a shutdown or a rebalance, failing inserts and commits
\* lose nothing, however many they are.
THEOREM OutagesLoseNothing == Spec => []OutageLosesNothing
<1>1. IInv => OutageLosesNothing
  BY DEF IInv, NoSilentLoss, StopsExplainLoss, OutageLosesNothing, Accounted
<1> QED
  BY Inductive, <1>1, PTL

\* No commit, of whichever member, moves a committed offset backwards.
THEOREM CommitsAreMonotone == Spec => CommitNeverRewinds
<1>1. ASSUME IInv, [Next]_vars
      PROVE  [\A p \in Partition : committed'[p] >= committed[p]]_vars
  <2> SUFFICES ASSUME NEW p \in Partition
               PROVE  committed'[p] >= committed[p]
    OBVIOUS
  <2>1. committed[p] \in Nat /\ \A c \in Consumer : polled[c][p] \in Nat
    BY <1>1, ConstantsAssumption DEF IInv, TypeOK
  <2> QED
    BY <1>1, <2>1, CommittedMoves DEF IInv, OwnerAccounts
<1> QED
  BY Inductive, <1>1, PTL DEF Spec, CommitNeverRewinds
-----------------------------------------------------------------------------
(* Batch sizes. *)

\* The memory of a process that is down is gone, so a restarted member, whose
\* context is fresh, starts with an empty batch.
EmptyWhenDown == \A c \in Consumer : reader[c] = "down" => pending[c] = <<>>

SizeInv == EmptyWhenDown /\ FullBatchMeansFailure

\* A flush empties the batch, or an insert failed, or the context was done.
LEMMA FlushEmpties ==
  ASSUME TypeOK, NEW c \in Consumer, NEW b, NEW ctxLive, Flush(c, b, ctxLive),
         ctxLive \/ cancelled[c]
  PROVE  /\ \A d \in Consumer : d # c => pending'[d] = pending[d]
         /\ pending'[c] = <<>> \/ faults' > 0 \/ cancelled[c]
         /\ faults' >= faults
BY ConstantsAssumption DEF Flush, TypeOK

\* The batch of c after a step that flushed it, or left it below maxSize.
LEMMA SmallBatch ==
  ASSUME TypeOK, TypeOK', SizeInv, NEW c \in Consumer, Live(c), Live(c)',
         \A d \in Consumer : d # c => pending'[d] = pending[d] /\ reader'[d] = reader[d],
         \/ Len(pending'[c]) < MaxSize
         \/ pending'[c] = pending[c]
         \/ faults' > 0
         \/ cancelled[c],
         faults' >= faults, UNCHANGED cancelled
  PROVE  SizeInv'
<1>1. EmptyWhenDown'
  BY DEF SizeInv, EmptyWhenDown, Live
<1>nat. faults \in Nat /\ faults' \in Nat
  BY ConstantsAssumption DEF TypeOK
<1>2. ASSUME NEW d \in Consumer, Len(pending'[d]) >= MaxSize
      PROVE  faults' > 0 \/ cancelled'[d]
  <2>1. CASE d # c
    BY <1>2, <1>nat, <2>1 DEF SizeInv, FullBatchMeansFailure
  <2>2. CASE d = c /\ pending'[c] = pending[c]
    BY <1>2, <1>nat, <2>2 DEF SizeInv, FullBatchMeansFailure
  <2>3. CASE d = c /\ Len(pending'[c]) < MaxSize
    <3>1. Len(pending'[c]) \in Nat
      BY DEF TypeOK
    <3> QED
      BY <1>2, <2>3, <3>1, ConstantsAssumption
  <2> QED
    BY <2>1, <2>2, <2>3
<1> QED
  BY <1>1, <1>2 DEF SizeInv, FullBatchMeansFailure

\* A batch grows to maxSize only after a failure.
LEMMA NextSize ==
  ASSUME TypeOK, SizeInv, [Next]_vars
  PROVE  SizeInv'
<1> USE ConstantsAssumption
<1>type. TypeOK'
  BY NextType
<1>nat. faults \in Nat /\ faults' \in Nat
  BY <1>type DEF TypeOK
<1>empty. Len(<<>>) < MaxSize
  OBVIOUS
<1>1. CASE UNCHANGED <<pending, cancelled, reader, faults>>
  BY <1>1 DEF SizeInv, EmptyWhenDown, FullBatchMeansFailure
<1>2. ASSUME UNCHANGED <<pending, cancelled, reader>>, faults' >= faults PROVE SizeInv'
  BY <1>2, <1>nat DEF SizeInv, EmptyWhenDown, FullBatchMeansFailure
<1>3. CASE UNCHANGED vars \/ \E p \in Partition : Produce(p) \/ Revoke(p) \/ Evict(p)
  BY <1>1, <1>3 DEF vars, Produce, Revoke, Evict
<1>4. ASSUME NEW c \in Consumer, NEW p \in Partition, Assign(c, p) PROVE SizeInv'
  BY <1>1, <1>4 DEF Assign
<1>5. ASSUME NEW c \in Consumer, PollFetches(c) \/ BreakLoop(c) PROVE SizeInv'
  BY <1>5 DEF PollFetches, BreakLoop, SizeInv, EmptyWhenDown, FullBatchMeansFailure, TypeOK
<1>6. ASSUME NEW c \in Consumer, NEW r \in Record, EachRecord(c, r) PROVE SizeInv'
  <2>1. /\ Live(c) /\ Live(c)'
        /\ \A d \in Consumer : d # c => reader'[d] = reader[d]
        /\ UNCHANGED cancelled
    BY <1>6 DEF EachRecord, TypeOK, Live
  <2>2. /\ \A d \in Consumer : d # c => pending'[d] = pending[d]
        /\ \/ Len(pending'[c]) < MaxSize
           \/ pending'[c] = pending[c]
           \/ faults' > 0
           \/ cancelled[c]
        /\ faults' >= faults
    <3>1. CASE UNCHANGED <<pending, due, rows, faults>>
      BY <3>1 DEF TypeOK
    <3>2. CASE Flush(c, Append(pending[c], r), ~cancelled[c])
      <4>1. ~cancelled[c] \/ cancelled[c]
        OBVIOUS
      <4> QED
        BY <1>empty, <3>2, <4>1, FlushEmpties
    <3>3. CASE /\ ~(Len(Append(pending[c], r)) >= MaxSize)
               /\ pending' = [pending EXCEPT ![c] = Append(pending[c], r)]
               /\ UNCHANGED faults
      <4>1. pending[c] \in Seq(Record \ Undecodable)
        BY DEF TypeOK
      <4>2. Len(Append(pending[c], r)) \in Nat
        BY <4>1
      <4>3. pending'[c] = Append(pending[c], r)
        BY <3>3 DEF TypeOK
      <4>4. Len(pending'[c]) < MaxSize
        BY <3>3, <4>2, <4>3
      <4> QED
        BY <3>3, <4>4 DEF TypeOK
    <3> QED
      BY <1>6, <3>1, <3>2, <3>3 DEF EachRecord, BatcherAdd
  <2> QED
    BY <2>1, <2>2, <1>type, SmallBatch
<1>7. ASSUME NEW c \in Consumer, FinalFlush(c) PROVE SizeInv'
  <2>1. /\ Live(c) /\ Live(c)'
        /\ \A d \in Consumer : d # c => reader'[d] = reader[d]
        /\ UNCHANGED cancelled
    BY <1>7 DEF FinalFlush, TypeOK, Live
  <2>2. CASE UNCHANGED <<pending, due, rows, faults>>
    BY <2>1, <2>2, <1>type, SmallBatch DEF TypeOK
  <2>3. CASE Flush(c, pending[c], TRUE)
    <3>1. /\ \A d \in Consumer : d # c => pending'[d] = pending[d]
          /\ pending'[c] = <<>> \/ faults' > 0 \/ cancelled[c]
          /\ faults' >= faults
      BY <2>3, FlushEmpties
    <3> QED
      BY <1>empty, <2>1, <3>1, <1>type, SmallBatch
  <2> QED
    BY <1>7, <2>2, <2>3 DEF FinalFlush
<1>8. ASSUME NEW c \in Consumer, FinalCommit(c) PROVE SizeInv'
  <2>1. faults' >= faults
    BY <1>8 DEF FinalCommit, CommitUncommittedOffsets, TypeOK
  <2> QED
    BY <1>8, <1>empty, <1>nat, <2>1
       DEF FinalCommit, SizeInv, EmptyWhenDown, FullBatchMeansFailure, TypeOK
<1>9. ASSUME NEW c \in Consumer, FlusherTick(c) PROVE SizeInv'
  <2>1. Live(c) /\ UNCHANGED <<reader, cancelled>>
    BY <1>9 DEF FlusherTick
  <2>2. Live(c)'
    BY <2>1 DEF Live
  <2>3. CASE UNCHANGED <<pending, due, rows, faults>>
    BY <1>1, <2>1, <2>3
  <2>4. CASE Flush(c, pending[c], ~cancelled[c])
    <3>1. ~cancelled[c] \/ cancelled[c]
      OBVIOUS
    <3>2. /\ \A d \in Consumer : d # c => pending'[d] = pending[d]
          /\ pending'[c] = <<>> \/ faults' > 0 \/ cancelled[c]
          /\ faults' >= faults
      BY <2>4, <3>1, FlushEmpties
    <3> QED
      BY <1>empty, <2>1, <2>2, <3>2, <1>type, SmallBatch
  <2> QED
    BY <1>9, <2>3, <2>4 DEF FlusherTick, MaybeFlush
<1>10. ASSUME NEW c \in Consumer, FlusherCommit(c) PROVE SizeInv'
  <2>1. faults' >= faults
    BY <1>10 DEF FlusherCommit, CommitUncommittedOffsets, TypeOK
  <2> QED
    BY <1>2, <1>10, <2>1 DEF FlusherCommit
<1>11. ASSUME NEW c \in Consumer, FlusherExit(c) \/ DeadlinePasses(c) PROVE SizeInv'
  BY <1>1, <1>11 DEF FlusherExit, DeadlinePasses
<1>12. ASSUME NEW c \in Consumer, Shutdown(c) PROVE SizeInv'
  BY <1>12 DEF Shutdown, SizeInv, EmptyWhenDown, FullBatchMeansFailure, TypeOK
<1>13. ASSUME NEW c \in Consumer, Crash(c) PROVE SizeInv'
  BY <1>13, <1>empty DEF Crash, SizeInv, EmptyWhenDown, FullBatchMeansFailure, TypeOK
<1>14. ASSUME NEW c \in Consumer, Restart(c) PROVE SizeInv'
  BY <1>14, <1>empty DEF Restart, Live, SizeInv, EmptyWhenDown, FullBatchMeansFailure, TypeOK
<1> QED
  BY <1>3, <1>4, <1>5, <1>6, <1>7, <1>8, <1>9, <1>10, <1>11, <1>12, <1>13, <1>14
     DEF Next, ReaderStep, FlusherStep

\* A batch at or over maxSize is the mark of a failed insert or of a shutdown.
THEOREM FullBatchesComeFromFailure == Spec => []FullBatchMeansFailure
<1>1. Init => SizeInv
  BY ConstantsAssumption DEF Init, SizeInv, EmptyWhenDown, FullBatchMeansFailure
<1>2. TypeOK /\ SizeInv /\ [Next]_vars => SizeInv'
  BY NextSize
<1>3. SizeInv => FullBatchMeansFailure
  BY DEF SizeInv
<1> QED
  BY <1>1, <1>2, <1>3, TypeCorrect, PTL DEF Spec
-----------------------------------------------------------------------------
(* The order of the rows. *)

Before(r, q) == r[1] = q[1] /\ r[2] < q[2]

\* What a member holds is of its own partitions and behind its position.
HoldsOwn ==
  \A c \in Consumer, r \in Record :
    HeldBy(c, r) => owner[r[1]] = c /\ r[2] <= polled[c][r[1]]

\* Whatever precedes a record of the batch b is in b too, stored, or no row.
PrefixClosed(b) ==
  \A r, q \in Record :
    Before(r, q) /\ InBatch(q, b) => r \in Undecodable \/ Stored(r) \/ InBatch(r, b)

StoredPrefix ==
  \A r, q \in Record : Before(r, q) /\ Stored(q) => r \in Undecodable \/ Stored(r)

OrderInv ==
  stops = 0 => /\ HoldsOwn
               /\ \A c \in Consumer : PrefixClosed(pending[c])
               /\ StoredPrefix

\* A record of an extended batch is the new one or was there before.
LEMMA OnlyTheNewOne ==
  ASSUME NEW S, NEW b \in Seq(S), NEW r \in S, NEW q, InBatch(q, Append(b, r))
  PROVE  q = r \/ InBatch(q, b)
<1>1. PICK i \in DOMAIN Append(b, r) : Append(b, r)[i] = q
  BY DEF InBatch
<1>2. CASE i = Len(b) + 1
  BY <1>1, <1>2
<1>3. CASE i # Len(b) + 1
  <2>1. i \in DOMAIN b /\ b[i] = q
    BY <1>1, <1>3
  <2> QED
    BY <2>1 DEF InBatch
<1> QED
  BY <1>2, <1>3

\* What a flush of b may do to order: nothing is stored, or all of b is and
\* nothing else; afterwards the batch of c is empty or b.
FlushedWhole(c, b) ==
  /\ \A d \in Consumer : d # c => pending'[d] = pending[d]
  /\ pending'[c] \in {<<>>, b}
  /\ \A r \in Record : Stored(r) => Stored(r)'
  /\ \/ \A r \in Record : Stored(r)' => Stored(r)
     \/ \A r \in Record : Stored(r)' <=> Stored(r) \/ InBatch(r, b)

\* A flush stores its batch as a whole or not at all.
LEMMA FlushIsWhole ==
  ASSUME TypeOK, NEW c \in Consumer, NEW b \in Seq(Record \ Undecodable),
         NEW ctxLive, Flush(c, b, ctxLive)
  PROVE  FlushedWhole(c, b)
<1> DEFINE applied == [r \in Record |-> rows[r] + Copies(r, b)]
<1>1. \A r \in Record : /\ Copies(r, b) \in Nat
                        /\ InBatch(r, b) => Copies(r, b) >= 1
  BY CopiesCount
<1>2. \A r \in Record : ~InBatch(r, b) => Copies(r, b) = 0
  <2> SUFFICES ASSUME NEW r \in Record, ~InBatch(r, b) PROVE Copies(r, b) = 0
    OBVIOUS
  <2>1. {i \in DOMAIN b : b[i] = r} = {}
    BY DEF InBatch
  <2> QED
    BY <2>1, FS_EmptySet DEF Copies
<1>3. \A r \in Record : rows[r] \in Nat
  BY DEF TypeOK
<1>4. \A r \in Record : applied[r] >= 1 <=> rows[r] >= 1 \/ InBatch(r, b)
  BY <1>1, <1>2, <1>3
<1>5. rows' = rows \/ rows' = applied
  BY DEF Flush
<1>6. /\ \A d \in Consumer : d # c => pending'[d] = pending[d]
      /\ pending'[c] \in {<<>>, b}
  BY DEF Flush, TypeOK
<1> HIDE DEF applied
<1> QED
  BY <1>4, <1>5, <1>6 DEF FlushedWhole, Stored

\* A flush of a prefix-closed batch keeps the order.
LEMMA FlushKeepsOrder ==
  ASSUME NEW c \in Consumer, NEW b, FlushedWhole(c, b), PrefixClosed(b), StoredPrefix,
         \A d \in Consumer : PrefixClosed(pending[d])
  PROVE  StoredPrefix' /\ \A d \in Consumer : PrefixClosed(pending[d])'
<1>1. StoredPrefix'
  BY DEF FlushedWhole, PrefixClosed, StoredPrefix
<1>2. ASSUME NEW d \in Consumer PROVE PrefixClosed(pending[d])'
  <2>1. CASE d # c
    BY <2>1 DEF FlushedWhole, PrefixClosed
  <2>2. CASE d = c /\ pending'[c] = b
    BY <2>2 DEF FlushedWhole, PrefixClosed
  <2>3. CASE d = c /\ pending'[c] = <<>>
    BY <2>3 DEF PrefixClosed, InBatch
  <2> QED
    BY <2>1, <2>2, <2>3 DEF FlushedWhole
<1> QED
  BY <1>1, <1>2

\* While nothing stops, every step keeps the order.
LEMMA NextOrder ==
  ASSUME IInv, OrderInv, [Next]_vars
  PROVE  OrderInv'
<1> SUFFICES ASSUME stops' = 0
             PROVE  /\ HoldsOwn'
                    /\ \A c \in Consumer : PrefixClosed(pending[c])'
                    /\ StoredPrefix'
  BY DEF OrderInv
<1> USE DEF IInv
<1> DEFINE Goal == /\ HoldsOwn'
                   /\ \A c \in Consumer : PrefixClosed(pending[c])'
                   /\ StoredPrefix'
<1>types. /\ stops \in Nat
          /\ \A r \in Record : r[1] \in Partition /\ r[2] \in Nat
          /\ \A c \in Consumer : \A p \in Partition : polled[c][p] \in Nat
          /\ \A c \in Consumer : pending[c] \in Seq(Record \ Undecodable)
  BY ConstantsAssumption DEF TypeOK, Record
<1>same. ASSUME UNCHANGED <<owner, polled, fetched, pending, rows, stops>> PROVE Goal
  BY <1>same DEF OrderInv, HoldsOwn, HeldBy, PrefixClosed, StoredPrefix, Stored
<1>1. CASE UNCHANGED vars
  BY <1>1, <1>same DEF vars
<1>2. ASSUME NEW p \in Partition, Produce(p) PROVE Goal
  BY <1>2, <1>same DEF Produce
<1>3. ASSUME NEW p \in Partition, Revoke(p) \/ Evict(p) PROVE Goal
  <2>1. CASE Revoke(p)
    BY <1>types, <2>1 DEF Revoke
  <2>2. CASE Evict(p)
    <3>1. owner[p] \in Consumer /\ reader[owner[p]] = "down" /\ stops = 0
      BY <2>2 DEF Evict, Live, TypeOK
    <3> QED
      BY <3>1 DEF StopsExplainLoss
  <2> QED
    BY <1>3, <2>1, <2>2
<1>4. ASSUME NEW c \in Consumer, NEW p \in Partition, Assign(c, p) PROVE Goal
  <2>1. stops = 0 /\ UNCHANGED <<fetched, pending, rows>>
    BY <1>4 DEF Assign
  <2>2. ASSUME NEW d \in Consumer, NEW r \in Record, HeldBy(d, r)'
        PROVE  owner'[r[1]] = d /\ r[2] <= polled'[d][r[1]]
    <3>1. owner[r[1]] = d /\ r[2] <= polled[d][r[1]]
      BY <2>1, <2>2 DEF OrderInv, HoldsOwn, HeldBy
    <3>2. r[1] # p
      BY <1>4, <3>1, ConstantsAssumption DEF Assign
    <3> QED
      BY <1>4, <1>types, <3>1, <3>2 DEF Assign, TypeOK
  <2> QED
    BY <2>1, <2>2 DEF OrderInv, HoldsOwn, PrefixClosed, StoredPrefix, Stored
<1>5. ASSUME NEW c \in Consumer, PollFetches(c) PROVE Goal
  <2>1. stops = 0 /\ UNCHANGED <<owner, pending, rows>>
    BY <1>5 DEF PollFetches
  <2>2. PICK upto \in PollTargets(c) :
          /\ fetched' = [fetched EXCEPT ![c] = Returned(c, upto)]
          /\ polled'  = [polled EXCEPT ![c] = upto]
    BY <1>5 DEF PollFetches
  <2>3. ASSUME NEW d \in Consumer, NEW r \in Record, HeldBy(d, r)'
        PROVE  owner'[r[1]] = d /\ r[2] <= polled'[d][r[1]]
    <3>1. CASE d # c
      <4>1. HeldBy(d, r) /\ polled'[d] = polled[d]
        BY <2>1, <2>2, <2>3, <3>1 DEF HeldBy, TypeOK
      <4> QED
        BY <2>1, <4>1 DEF OrderInv, HoldsOwn
    <3>2. CASE d = c
      <4>1. polled'[c] = upto /\ fetched'[c] = Returned(c, upto)
        BY <2>2 DEF TypeOK
      <4>2. upto[r[1]] \in Nat
        BY <1>types, ConstantsAssumption DEF PollTargets
      <4>3. CASE r \in Returned(c, upto)
        <5>1. polled[c][r[1]] < r[2] /\ r[2] <= upto[r[1]]
          BY <4>3 DEF Returned
        <5>2. owner[r[1]] = c
          BY <1>types, <4>2, <5>1 DEF PollTargets
        <5> QED
          BY <2>1, <3>2, <4>1, <5>1, <5>2
      <4>4. CASE InBatch(r, pending[c])
        <5>1. owner[r[1]] = c /\ r[2] <= polled[c][r[1]]
          BY <2>1, <4>4 DEF OrderInv, HoldsOwn, HeldBy
        <5>2. polled[c][r[1]] <= upto[r[1]]
          BY <1>types, <5>1 DEF PollTargets
        <5> QED
          BY <1>types, <2>1, <3>2, <4>1, <4>2, <5>1, <5>2
      <4> QED
        BY <2>1, <2>3, <3>2, <4>1, <4>3, <4>4 DEF HeldBy
    <3> QED
      BY <3>1, <3>2
  <2> QED
    BY <2>1, <2>3 DEF OrderInv, HoldsOwn, PrefixClosed, StoredPrefix, Stored
<1>6. ASSUME NEW c \in Consumer, NEW q \in Record, EachRecord(c, q) PROVE Goal
  <2>1. /\ stops = 0
        /\ UNCHANGED <<owner, polled>>
        /\ q \in fetched[c]
        /\ \A s \in fetched[c] : s[1] = q[1] => q[2] <= s[2]
        /\ \A d \in Consumer : fetched'[d] \subseteq fetched[d]
    BY <1>6 DEF EachRecord, TypeOK
  <2>2. HoldsOwn /\ (\A d \in Consumer : PrefixClosed(pending[d])) /\ StoredPrefix
    BY <2>1 DEF OrderInv
  <2>3. ASSUME \A d \in Consumer : \A s \in Record :
                 InBatch(s, pending'[d]) => InBatch(s, pending[d]) \/ (d = c /\ s = q)
        PROVE  HoldsOwn'
    <3>1. \A d \in Consumer : \A s \in Record : HeldBy(d, s)' => HeldBy(d, s)
      BY <2>1, <2>3 DEF HeldBy
    <3> QED
      BY <2>1, <2>2, <3>1 DEF HoldsOwn
  <2>4. CASE q \in Undecodable
    <3>1. UNCHANGED <<pending, rows>>
      BY <1>6, <2>4 DEF EachRecord
    <3>2. HoldsOwn'
      BY <2>3, <3>1
    <3> QED
      BY <2>2, <3>1, <3>2 DEF PrefixClosed, StoredPrefix, Stored
  <2>5. CASE q \notin Undecodable
    <3> DEFINE b == Append(pending[c], q)
    <3>1. b \in Seq(Record \ Undecodable) /\ q \in Record \ Undecodable
      BY <1>types, <2>5
    <3>2. InBatch(q, b) /\ \A s : InBatch(s, pending[c]) => InBatch(s, b)
      BY <1>types, <3>1, AppendInBatch
    <3>3. \A s : InBatch(s, b) => s = q \/ InBatch(s, pending[c])
      BY <1>types, <3>1, OnlyTheNewOne
    <3>4. BatcherAdd(c, q)
      BY <1>6, <2>5 DEF EachRecord
    <3>5. Flush(c, b, ~cancelled[c])
            \/ (pending' = [pending EXCEPT ![c] = b] /\ UNCHANGED rows)
      BY <3>4 DEF BatcherAdd
    <3> HIDE DEF b
    <3>6. FlushedWhole(c, b)
      <4>1. CASE Flush(c, b, ~cancelled[c])
        BY <3>1, <4>1, FlushIsWhole
      <4>2. CASE pending' = [pending EXCEPT ![c] = b] /\ UNCHANGED rows
        BY <4>2 DEF FlushedWhole, Stored, TypeOK
      <4> QED
        BY <3>5, <4>1, <4>2
    <3>7. PrefixClosed(b)
      <4> SUFFICES ASSUME NEW r \in Record, NEW s \in Record, Before(r, s), InBatch(s, b)
                   PROVE  r \in Undecodable \/ Stored(r) \/ InBatch(r, b)
        BY DEF PrefixClosed
      <4>1. CASE InBatch(s, pending[c])
        BY <2>2, <3>2, <4>1 DEF PrefixClosed
      <4>2. CASE s = q
        <5>1. owner[q[1]] = c /\ q[2] <= polled[c][q[1]]
          BY <2>1, <2>2 DEF HoldsOwn, HeldBy
        <5>2. r[1] = q[1] /\ r[2] < q[2] /\ r[2] <= polled[c][q[1]]
          BY <1>types, <4>2, <5>1 DEF Before
        <5>3. Accounted(r)
          BY <1>types, <5>1, <5>2 DEF OwnerAccounts
        <5>4. r \notin lost
          BY <2>1 DEF StopsExplainLoss
        <5>5. CASE Held(r)
          <6>1. PICK d \in Consumer : HeldBy(d, r)
            BY <5>5 DEF Held
          <6>2. d = c
            BY <2>2, <5>1, <5>2, <6>1 DEF HoldsOwn
          <6>3. r \notin fetched[c]
            BY <1>types, <2>1, <5>2
          <6> QED
            BY <3>2, <6>1, <6>2, <6>3 DEF HeldBy
        <5> QED
          BY <5>3, <5>4, <5>5 DEF Accounted
      <4> QED
        BY <3>3, <4>1, <4>2
    <3>8. HoldsOwn'
      <4>1. \A s : ~InBatch(s, <<>>)
        BY DEF InBatch
      <4>2. ASSUME NEW d \in Consumer, NEW s \in Record, InBatch(s, pending'[d])
            PROVE  InBatch(s, pending[d]) \/ (d = c /\ s = q)
        BY <3>3, <3>6, <4>1, <4>2 DEF FlushedWhole
      <4> QED
        BY <2>3, <4>2
    <3> QED
      BY <2>2, <3>6, <3>7, <3>8, FlushKeepsOrder
  <2> QED
    BY <2>4, <2>5
<1>7. ASSUME NEW c \in Consumer,
             \/ BreakLoop(c) \/ FinalFlush(c) \/ FinalCommit(c)
             \/ Shutdown(c) \/ Crash(c) \/ Restart(c)
      PROVE  Goal
  <2>1. stops = 0 => ~cancelled[c] /\ reader[c] \in {"poll", "add"}
    BY DEF StopsExplainLoss
  <2>2. CASE BreakLoop(c) \/ FinalFlush(c) \/ FinalCommit(c) \/ Restart(c)
    BY <2>1, <2>2 DEF BreakLoop, FinalFlush, FinalCommit, Restart, Live
  <2>3. CASE Shutdown(c) \/ Crash(c)
    BY <1>types, <2>3 DEF Shutdown, Crash
  <2> QED
    BY <1>7, <2>2, <2>3
<1>8. ASSUME NEW c \in Consumer, FlusherTick(c) PROVE Goal
  <2>1. stops = 0 /\ UNCHANGED <<owner, polled, fetched>>
    BY <1>8 DEF FlusherTick
  <2>2. HoldsOwn /\ (\A d \in Consumer : PrefixClosed(pending[d])) /\ StoredPrefix
    BY <2>1 DEF OrderInv
  <2>3. CASE UNCHANGED <<pending, due, rows, faults>>
    BY <1>same, <2>1, <2>3, <1>8 DEF FlusherTick
  <2>4. CASE Flush(c, pending[c], ~cancelled[c])
    <3>1. FlushedWhole(c, pending[c])
      BY <1>types, <2>4, FlushIsWhole
    <3>2. \A d \in Consumer : \A s \in Record : HeldBy(d, s)' => HeldBy(d, s)
      <4>1. \A s : ~InBatch(s, <<>>)
        BY DEF InBatch
      <4> QED
        BY <2>1, <3>1, <4>1 DEF FlushedWhole, HeldBy
    <3>3. HoldsOwn'
      BY <2>1, <2>2, <3>2 DEF HoldsOwn
    <3> QED
      BY <2>2, <3>1, <3>3, FlushKeepsOrder
  <2> QED
    BY <1>8, <2>3, <2>4 DEF FlusherTick, MaybeFlush
<1>9. ASSUME NEW c \in Consumer, FlusherCommit(c) \/ FlusherExit(c) \/ DeadlinePasses(c)
      PROVE  Goal
  BY <1>9, <1>same DEF FlusherCommit, FlusherExit, DeadlinePasses
<1> QED
  BY <1>1, <1>2, <1>3, <1>4, <1>5, <1>6, <1>7, <1>8, <1>9
     DEF Next, ReaderStep, FlusherStep

\* While no member has stopped, the rows of a partition are stored in offset
\* order, without gaps.
THEOREM RowsComeInOffsetOrder == Spec => []StoredInOffsetOrder
<1>1. Init => OrderInv
  BY DEF Init, OrderInv, HoldsOwn, HeldBy, InBatch, PrefixClosed, StoredPrefix, Stored
<1>2. IInv /\ OrderInv /\ [Next]_vars => OrderInv'
  BY NextOrder
<1>3. OrderInv => StoredInOffsetOrder
  BY DEF OrderInv, StoredPrefix, StoredInOffsetOrder, Before
<1> QED
  BY <1>1, <1>2, <1>3, Inductive, PTL DEF Spec
-----------------------------------------------------------------------------
(* What a duplicate costs. *)

\* The places where a copy of r is held: <<c, 0>> is the fetch of member c,
\* <<c, i>> the i-th row of its batch.
SlotsIn(fetch, batch, r) ==
  {s \in Consumer \X Nat :
     \/ s[2] = 0 /\ r \in fetch[s[1]]
     \/ s[2] \in DOMAIN batch[s[1]] /\ batch[s[1]][s[2]] = r}

Slots(r) == SlotsIn(fetched, pending, r)

\* r is behind the position of a member that keeps its partition until the
\* next stop: it is not delivered again before.
Passed(r) ==
  \E c \in Consumer : /\ owner[r[1]] = c /\ Live(c) /\ ~cancelled[c]
                      /\ polled[c][r[1]] >= r[2]

\* How often r has been handed out at most: once, and once more per stop.
Handouts(r) == IF Passed(r) THEN 1 + stops ELSE stops

\* Every copy in memory was handed out; every copy stored was in memory, and
\* was stored once, and once more per fault.
Priced(r) ==
  /\ IsFiniteSet(Slots(r))
  /\ Cardinality(Slots(r)) <= Handouts(r)
  /\ rows[r] + Cardinality(Slots(r)) <= Handouts(r) * (1 + faults)

\* Only a member that was told to stop leaves the loop of Run alive.
LeavingIsTold == \A c \in Consumer : reader[c] \in {"drain", "close"} => cancelled[c]

PriceInv == LeavingIsTold /\ \A r \in Record : Priced(r)

\* More handouts or more faults pay for more copies.
LEMMA MorePays ==
  ASSUME NEW d \in Nat, NEW e \in Nat, NEW f \in Nat, NEW g \in Nat, d <= e, f <= g
  PROVE  d * (1 + f) <= e * (1 + g)
<1>1. d * (1 + f) <= e * (1 + f)
  <2>1. PICK k \in Nat : e = d + k
    <3>1. e - d \in Nat /\ e = d + (e - d)
      OBVIOUS
    <3> QED
      BY <3>1
  <2>2. e * (1 + f) = d * (1 + f) + k * (1 + f)
    BY <2>1
  <2>3. k * (1 + f) \in Nat /\ d * (1 + f) \in Nat
    OBVIOUS
  <2> QED
    BY <2>2, <2>3
<1>2. e * (1 + f) <= e * (1 + g)
  <2>1. PICK k \in Nat : g = f + k
    <3>1. g - f \in Nat /\ g = f + (g - f)
      OBVIOUS
    <3> QED
      BY <3>1
  <2>2. e * (1 + g) = e * (1 + f) + e * k
    BY <2>1
  <2>3. e * (1 + f) \in Nat /\ e * k \in Nat
    OBVIOUS
  <2> QED
    BY <2>2, <2>3
<1>3. d * (1 + f) \in Nat /\ e * (1 + f) \in Nat /\ e * (1 + g) \in Nat
  OBVIOUS
<1> QED
  BY <1>1, <1>2, <1>3

\* One more handout pays for one more copy; one more fault for as many as were
\* handed out.
LEMMA OneMorePays ==
  ASSUME NEW d \in Nat, NEW f \in Nat
  PROVE  /\ d * (1 + f) \in Nat
         /\ d * (1 + f) + 1 <= (d + 1) * (1 + f)
         /\ d * (1 + (f + 1)) = d * (1 + f) + d
<1>1. (d + 1) * (1 + f) = d * (1 + f) + 1 + f
  OBVIOUS
<1>2. d * (1 + (f + 1)) = d * (1 + f) + d
  OBVIOUS
<1>3. d * (1 + f) \in Nat
  OBVIOUS
<1> QED
  BY <1>1, <1>2, <1>3

\* The finite set full has k elements more than empty.
FreesOnly(k, full, empty) ==
  /\ IsFiniteSet(empty)
  /\ Cardinality(empty) \in Nat
  /\ Cardinality(full) = Cardinality(empty) + k

\* The slots of a batch are as many as the copies in it: emptying the batch of
\* c frees exactly these.
LEMMA EmptyingFrees ==
  ASSUME NEW fetch, NEW before, NEW after,
         NEW c \in Consumer, NEW b \in Seq(Record \ Undecodable), NEW r \in Record,
         before[c] = b, after[c] = <<>>,
         \A d \in Consumer : d # c => after[d] = before[d],
         IsFiniteSet(SlotsIn(fetch, before, r))
  PROVE  FreesOnly(Copies(r, b), SlotsIn(fetch, before, r), SlotsIn(fetch, after, r))
<1> DEFINE full  == SlotsIn(fetch, before, r)
           empty == SlotsIn(fetch, after, r)
           at    == {i \in DOMAIN b : b[i] = r}
           freed == {<<c, i>> : i \in at}
<1>1. IsFiniteSet(at) /\ Cardinality(at) = Copies(r, b)
  <2>1. DOMAIN b = 1..Len(b) /\ IsFiniteSet(1..Len(b))
    BY FS_Interval
  <2>2. IsFiniteSet(at)
    BY <2>1, FS_Subset
  <2> QED
    BY <2>2 DEF Copies
<1>2. IsFiniteSet(freed) /\ Cardinality(freed) = Cardinality(at)
  <2> DEFINE f == [i \in at |-> <<c, i>>]
  <2>1. f \in Bijection(at, freed)
    <3>1. f \in [at -> freed]
      OBVIOUS
    <3>2. \A i, j \in at : f[i] = f[j] => i = j
      OBVIOUS
    <3>3. \A s \in freed : \E i \in at : f[i] = s
      OBVIOUS
    <3> QED
      BY <3>1, <3>2, <3>3 DEF Bijection, Injection, Surjection, IsInjective
  <2> HIDE DEF f, freed, at
  <2> QED
    BY <1>1, <2>1, FS_Bijection DEF ExistsBijection
<1>3. full = empty \cup freed
  <2>1. \A i \in at : i \in Nat \ {0}
    OBVIOUS
  <2>2. ASSUME NEW s \in Consumer \X Nat
        PROVE  s \in full <=> s \in empty \/ s \in freed
    <3>1. CASE s[1] = c
      <4>1. s \in freed <=> s[2] \in at
        BY <3>1
      <4> QED
        BY <3>1, <4>1 DEF SlotsIn
    <3>2. CASE s[1] # c
      BY <3>2 DEF SlotsIn
    <3> QED
      BY <3>1, <3>2
  <2>3. freed \subseteq Consumer \X Nat
    BY <2>1
  <2>4. full \subseteq Consumer \X Nat /\ empty \subseteq Consumer \X Nat
    BY DEF SlotsIn
  <2> HIDE DEF full, empty, freed
  <2> QED
    BY <2>2, <2>3, <2>4
<1>4. empty \cap freed = {}
  <2>1. \A i \in at : i # 0
    OBVIOUS
  <2>2. \A i \in at : <<c, i>> \notin empty
    BY <2>1 DEF SlotsIn
  <2> QED
    BY <2>2
<1>5. IsFiniteSet(empty)
  BY <1>3, FS_Subset
<1>6. Cardinality(full) = Cardinality(empty) + Cardinality(freed)
  <2> HIDE DEF full, empty, freed, at
  <2>0. Cardinality(empty \cup freed)
          = Cardinality(empty) + Cardinality(freed) - Cardinality(empty \cap freed)
    BY <1>2, <1>5, FS_Union
  <2>1. Cardinality(full) = Cardinality(empty) + Cardinality(freed) - Cardinality({})
    BY <1>3, <1>4, <2>0
  <2>2. Cardinality({}) = 0
    BY FS_EmptySet
  <2> QED
    BY <1>2, <1>5, <2>1, <2>2, FS_CardinalityType
<1> QED
  BY <1>1, <1>2, <1>5, <1>6, FS_CardinalityType DEF FreesOnly

\* Only a step that stops something delivers a record again that has been
\* passed.
LEMMA NextHandouts ==
  ASSUME TypeOK, LeavingIsTold, [Next]_vars, NEW r \in Record
  PROVE  /\ Handouts(r) \in Nat /\ Handouts(r)' \in Nat
         /\ Handouts(r)' >= Handouts(r)
<1> USE ConstantsAssumption
<1> DEFINE Goal == /\ stops' >= stops
                   /\ Passed(r) => Passed(r)' \/ stops' >= stops + 1
<1>p. r[1] \in Partition /\ r[2] \in Nat
  BY DEF Record
<1>type. TypeOK'
  BY NextType
<1>nat. stops \in Nat /\ stops' \in Nat
  BY <1>type DEF TypeOK
<1>same. ASSUME UNCHANGED <<owner, polled, cancelled, stops>>,
                \A c \in Consumer : Live(c) => Live(c)'
         PROVE  Goal
  BY <1>same, <1>nat DEF Passed
<1>1. ASSUME UNCHANGED vars PROVE Goal
  <2>1. UNCHANGED <<owner, polled, cancelled, stops, reader>>
    BY <1>1 DEF vars
  <2> QED
    BY <2>1, <1>same DEF Live
<1>2. ASSUME NEW p \in Partition, Produce(p) \/ Revoke(p) \/ Evict(p) PROVE Goal
  <2>1. CASE Produce(p)
    BY <2>1, <1>same DEF Produce, Live
  <2>2. CASE Revoke(p)
    BY <2>2, <1>nat DEF Revoke
  <2>3. CASE Evict(p)
    <3>1. stops' = stops /\ UNCHANGED <<polled, cancelled, reader>>
      BY <2>3 DEF Evict
    <3>2. ASSUME NEW c \in Consumer, owner[r[1]] = c, Live(c) PROVE owner'[r[1]] = c
      BY <1>p, <2>3, <3>2 DEF Evict, TypeOK
    <3> QED
      BY <1>nat, <3>1, <3>2 DEF Passed, Live
  <2> QED
    BY <1>2, <2>1, <2>2, <2>3
<1>3. ASSUME NEW c \in Consumer, NEW p \in Partition, Assign(c, p) PROVE Goal
  <2>1. stops' = stops /\ UNCHANGED <<cancelled, reader>>
    BY <1>3 DEF Assign
  <2>2. ASSUME NEW d \in Consumer, owner[r[1]] = d
        PROVE  owner'[r[1]] = d /\ polled'[d][r[1]] = polled[d][r[1]]
    BY <1>3, <1>p, <2>2 DEF Assign, TypeOK
  <2> QED
    BY <1>nat, <2>1, <2>2 DEF Passed, Live
<1>4. ASSUME NEW c \in Consumer, PollFetches(c) \/ BreakLoop(c) PROVE Goal
  <2>1. stops' = stops /\ UNCHANGED <<cancelled, owner>>
    BY <1>4 DEF PollFetches, BreakLoop
  <2>2. ASSUME NEW d \in Consumer PROVE Live(d) => Live(d)'
    BY <1>4 DEF PollFetches, BreakLoop, Live, TypeOK
  <2>3. ASSUME NEW d \in Consumer, owner[r[1]] = d, polled[d][r[1]] >= r[2]
        PROVE  polled'[d][r[1]] >= r[2]
    <3>1. CASE d # c
      BY <1>4, <2>3, <3>1 DEF PollFetches, BreakLoop, TypeOK
    <3>2. CASE d = c
      <4>1. PICK upto \in PollTargets(c) : polled' = [polled EXCEPT ![c] = upto]
        BY <1>4 DEF PollFetches, BreakLoop
      <4>2. polled'[c] = upto
        BY <4>1 DEF TypeOK
      <4>3. polled[c][r[1]] <= upto[r[1]] /\ upto[r[1]] \in Nat /\ polled[c][r[1]] \in Nat
        BY <1>p, <2>3, <3>2 DEF PollTargets, TypeOK
      <4> QED
        BY <1>p, <2>3, <3>2, <4>2, <4>3
    <3> QED
      BY <3>1, <3>2
  <2> QED
    BY <1>nat, <2>1, <2>2, <2>3 DEF Passed
<1>5. ASSUME NEW c \in Consumer,
             (\E q \in Record : EachRecord(c, q)) \/ FinalFlush(c) \/ FlusherStep(c)
                \/ DeadlinePasses(c)
      PROVE  Goal
  <2>1. UNCHANGED <<owner, polled, cancelled, stops>>
    BY <1>5 DEF EachRecord, FinalFlush, FlusherStep, FlusherTick, FlusherCommit,
                FlusherExit, DeadlinePasses
  <2>2. ASSUME NEW d \in Consumer PROVE Live(d) => Live(d)'
    BY <1>5 DEF EachRecord, FinalFlush, FlusherStep, FlusherTick, FlusherCommit,
                FlusherExit, DeadlinePasses, Live, TypeOK
  <2> QED
    BY <1>same, <2>1, <2>2
<1>6. ASSUME NEW c \in Consumer, FinalCommit(c) PROVE Goal
  <2>1. cancelled[c] /\ UNCHANGED <<polled, cancelled, stops>>
    BY <1>6 DEF FinalCommit, LeavingIsTold
  <2>2. ASSUME NEW d \in Consumer, d # c
        PROVE  (owner[r[1]] = d => owner'[r[1]] = d) /\ (Live(d) => Live(d)')
    BY <1>6, <1>p, <2>2 DEF FinalCommit, Live, TypeOK
  <2> QED
    BY <1>nat, <2>1, <2>2 DEF Passed
<1>7. ASSUME NEW c \in Consumer, Shutdown(c) \/ Crash(c) PROVE Goal
  BY <1>7, <1>nat DEF Shutdown, Crash
<1>8. ASSUME NEW c \in Consumer, Restart(c) PROVE Goal
  <2>1. UNCHANGED <<owner, stops>> /\ owner[r[1]] # c
    BY <1>8, <1>p DEF Restart
  <2>2. ASSUME NEW d \in Consumer, d # c
        PROVE  UNCHANGED <<polled[d], cancelled[d], reader[d]>>
    BY <1>8, <2>2 DEF Restart, TypeOK
  <2> QED
    BY <1>nat, <2>1, <2>2 DEF Passed, Live
<1>9. Goal
  <2> HIDE DEF Goal
  <2> QED
    BY <1>1, <1>2, <1>3, <1>4, <1>5, <1>6, <1>7, <1>8 DEF Next, ReaderStep
<1>10. /\ Passed(r) => Handouts(r) = 1 + stops
       /\ ~Passed(r) => Handouts(r) = stops
       /\ Passed(r)' => Handouts(r)' = 1 + stops'
       /\ ~Passed(r)' => Handouts(r)' = stops'
  BY DEF Handouts
<1>11. CASE Passed(r)
  BY <1>9, <1>10, <1>11, <1>nat
<1>12. CASE ~Passed(r)
  BY <1>9, <1>10, <1>12, <1>nat
<1> QED
  BY <1>11, <1>12

\* A step that takes no new copy into memory and stores none costs nothing.
LEMMA NothingNew ==
  ASSUME TypeOK, TypeOK', NEW r \in Record, Priced(r),
         Handouts(r) \in Nat, Handouts(r)' \in Nat, Handouts(r)' >= Handouts(r),
         Slots(r)' \subseteq Slots(r), rows'[r] = rows[r], faults' >= faults
  PROVE  Priced(r)'
<1>1. faults \in Nat /\ faults' \in Nat /\ rows[r] \in Nat
  BY ConstantsAssumption DEF TypeOK
<1>2. IsFiniteSet(Slots(r)) /\ IsFiniteSet(Slots(r)')
  BY FS_Subset DEF Priced
<1>3. /\ Cardinality(Slots(r)) \in Nat /\ Cardinality(Slots(r)') \in Nat
      /\ Cardinality(Slots(r)') <= Cardinality(Slots(r))
  BY <1>2, FS_Subset, FS_CardinalityType
<1>4. Handouts(r) * (1 + faults) <= Handouts(r)' * (1 + faults')
  BY <1>1, MorePays
<1>5. Handouts(r) * (1 + faults) \in Nat /\ Handouts(r)' * (1 + faults') \in Nat
  BY <1>1
<1>6. Cardinality(Slots(r)') <= Handouts(r)'
  BY <1>3 DEF Priced
<1>7. rows'[r] + Cardinality(Slots(r)') <= Handouts(r)' * (1 + faults')
  BY <1>1, <1>3, <1>4, <1>5 DEF Priced
<1> QED
  BY <1>2, <1>6, <1>7 DEF Priced

\* A flush stores the copies of the batch b of c at most once, and keeps them
\* in memory only if it cost a fault.
LEMMA FlushPriced ==
  ASSUME TypeOK, TypeOK', NEW c \in Consumer, NEW b \in Seq(Record \ Undecodable),
         NEW ctxLive, Flush(c, b, ctxLive), NEW r \in Record, Priced(r),
         Handouts(r) \in Nat, Handouts(r)' \in Nat, Handouts(r)' >= Handouts(r),
         NEW full, full = SlotsIn(fetched', [pending EXCEPT ![c] = b], r),
         IsFiniteSet(full), Cardinality(full) <= Cardinality(Slots(r))
  PROVE  Priced(r)'
<1> DEFINE before == [pending EXCEPT ![c] = b]
           after  == [pending EXCEPT ![c] = <<>>]
           empty  == SlotsIn(fetched', after, r)
           n      == Cardinality(Slots(r))
           k      == Copies(r, b)
<1>1. /\ before[c] = b /\ after[c] = <<>>
      /\ \A d \in Consumer : d # c => after[d] = before[d]
  BY DEF TypeOK
<1>2. full = SlotsIn(fetched', before, r)
  OBVIOUS
<1>3. empty = SlotsIn(fetched', after, r)
  OBVIOUS
<1>6. \/ Slots(r)' = empty /\ rows'[r] = rows[r] + k /\ faults' = faults
      \/ Slots(r)' = full /\ rows'[r] = rows[r] /\ (faults' = faults \/ faults' = faults + 1)
      \/ Slots(r)' = full /\ rows'[r] = rows[r] + k /\ faults' = faults + 1
  <2>1. Slots(r)' = SlotsIn(fetched', pending', r)
    BY DEF Slots
  <2>2. rows' = [s \in Record |-> rows[s] + Copies(s, b)] => rows'[r] = rows[r] + k
    OBVIOUS
  <2> HIDE DEF k
  <2> QED
    BY <1>2, <1>3, <2>1, <2>2 DEF Flush
<1>7. k \in Nat
  BY CopiesCount
<1>8. n \in Nat /\ n <= Handouts(r)
  BY FS_CardinalityType DEF Priced
<1>price. rows[r] + n <= Handouts(r) * (1 + faults)
  BY DEF Priced
<1>9. faults \in Nat /\ faults' \in Nat /\ rows[r] \in Nat /\ rows'[r] \in Nat
  BY ConstantsAssumption DEF TypeOK
<1>10. Cardinality(full) \in Nat /\ Cardinality(full) <= n
  BY FS_CardinalityType
<1> HIDE DEF before, after, empty, n
<1>full. IsFiniteSet(SlotsIn(fetched', before, r))
  BY <1>2
<1>11. /\ IsFiniteSet(empty) /\ Cardinality(empty) \in Nat
       /\ Cardinality(full) = Cardinality(empty) + k
  <2> HIDE DEF k
  <2>1. FreesOnly(Copies(r, b), SlotsIn(fetched', before, r), SlotsIn(fetched', after, r))
    BY <1>1, <1>full, EmptyingFrees, Zenon
  <2> QED
    BY <1>2, <1>3, <2>1 DEF k, FreesOnly
<1>12. k <= n /\ Cardinality(empty) + k <= n /\ Cardinality(empty) <= n
  BY <1>7, <1>8, <1>10, <1>11
<1> DEFINE F == Handouts(r) * (1 + faults)
           G == Handouts(r) * (1 + faults')
           E == Handouts(r)' * (1 + faults')
<1>13. /\ F \in Nat /\ G \in Nat /\ E \in Nat
       /\ G <= E
       /\ faults' = faults => G = F
       /\ faults' = faults + 1 => G = F + Handouts(r)
       /\ rows[r] + n <= F
  <2>1. F \in Nat /\ (faults' = faults + 1 => G = F + Handouts(r))
    BY <1>9, OneMorePays
  <2>2. G \in Nat /\ E \in Nat
    BY <1>9
  <2>3. G <= E
    <3>1. Handouts(r) <= Handouts(r)' /\ faults' <= faults'
      BY <1>9
    <3> QED
      BY <1>9, <3>1, MorePays
  <2> QED
    BY <1>price, <2>1, <2>2, <2>3
<1> HIDE DEF F, G, E, k
<1>14. CASE Slots(r)' = empty /\ rows'[r] = rows[r] + k /\ faults' = faults
  <2>1. rows'[r] + Cardinality(empty) <= E
    BY <1>7, <1>8, <1>9, <1>11, <1>12, <1>13, <1>14, SMTT(30)
  <2>2. Cardinality(empty) <= Handouts(r)'
    BY <1>8, <1>11, <1>12
  <2> QED
    BY <1>11, <1>14, <2>1, <2>2 DEF Priced, E
<1>15. CASE /\ Slots(r)' = full
            /\ \/ rows'[r] = rows[r] /\ (faults' = faults \/ faults' = faults + 1)
               \/ rows'[r] = rows[r] + k /\ faults' = faults + 1
  <2>1. rows'[r] + Cardinality(full) <= E
    <3>1. F <= G
      BY <1>8, <1>9, <1>13, <1>15
    <3>2. CASE rows'[r] = rows[r]
      <4>1. rows'[r] + Cardinality(full) <= F
        BY <1>8, <1>9, <1>10, <1>13, <3>2
      <4> QED
        BY <1>9, <1>10, <1>13, <3>1, <4>1
    <3>3. CASE rows'[r] = rows[r] + k /\ faults' = faults + 1
      <4>1. rows'[r] + Cardinality(full) <= F + Handouts(r)
        BY <1>7, <1>8, <1>9, <1>10, <1>12, <1>13, <3>3, SMTT(30)
      <4> QED
        BY <1>9, <1>10, <1>13, <3>3, <4>1
    <3> QED
      BY <1>15, <3>2, <3>3
  <2>2. Cardinality(full) <= Handouts(r)'
    BY <1>8, <1>10
  <2> QED
    BY <1>15, <2>1, <2>2 DEF Priced, E
<1> QED
  BY <1>6, <1>14, <1>15 DEF k

\* Taking a record out of the fetch and appending it to the batch moves a slot.
LEMMA AppendMovesSlot ==
  ASSUME TypeOK, NEW c \in Consumer, NEW q \in fetched[c], q \in Record \ Undecodable,
         NEW r \in Record, IsFiniteSet(Slots(r)),
         NEW fetch, fetch[c] = fetched[c] \ {q},
         \A d \in Consumer : d # c => fetch[d] = fetched[d],
         NEW batch, batch[c] = Append(pending[c], q),
         \A d \in Consumer : d # c => batch[d] = pending[d]
  PROVE  /\ IsFiniteSet(SlotsIn(fetch, batch, r))
         /\ Cardinality(SlotsIn(fetch, batch, r)) <= Cardinality(Slots(r))
<1> DEFINE b    == pending[c]
           new  == SlotsIn(fetch, batch, r)
           from == <<c, 0>>
           to   == <<c, Len(b) + 1>>
<1>1. b \in Seq(Record \ Undecodable) /\ Len(b) \in Nat
  BY DEF TypeOK
<1>2. /\ DOMAIN Append(b, q) = 1..(Len(b) + 1)
      /\ Append(b, q)[Len(b) + 1] = q
      /\ \A i \in 1..Len(b) : Append(b, q)[i] = b[i]
      /\ DOMAIN b = 1..Len(b)
  BY <1>1
<1>3. ASSUME NEW s \in Consumer \X Nat, s \in new
      PROVE  s \in Slots(r) \/ (s = to /\ q = r)
  <2>1. CASE s[1] # c
    BY <1>3, <2>1 DEF Slots, SlotsIn
  <2>2. CASE s[1] = c /\ s[2] = 0
    BY <1>2, <1>3, <2>2 DEF Slots, SlotsIn
  <2>3. CASE s[1] = c /\ s[2] # 0
    <3>1. s[2] \in 1..(Len(b) + 1) /\ Append(b, q)[s[2]] = r
      BY <1>2, <1>3, <2>3 DEF SlotsIn
    <3>2. CASE s[2] = Len(b) + 1
      BY <1>2, <2>3, <3>1, <3>2
    <3>3. CASE s[2] # Len(b) + 1
      <4>1. s[2] \in 1..Len(b) /\ b[s[2]] = r
        BY <1>1, <1>2, <3>1, <3>3
      <4> QED
        BY <1>2, <2>3, <4>1 DEF Slots, SlotsIn
    <3> QED
      BY <3>2, <3>3
  <2> QED
    BY <2>1, <2>2, <2>3
<1>4. new \subseteq Consumer \X Nat
  BY DEF SlotsIn
<1>5. CASE q # r
  <2>1. new \subseteq Slots(r)
    BY <1>3, <1>4, <1>5
  <2> QED
    BY <2>1, FS_Subset
<1>6. CASE q = r
  <2>1. from \in Slots(r)
    BY <1>6 DEF Slots, SlotsIn
  <2>2. from \notin new
    BY <1>2, <1>6 DEF SlotsIn
  <2>3. new \subseteq (Slots(r) \ {from}) \cup {to}
    BY <1>3, <1>4, <2>2
  <2> DEFINE rest == Slots(r) \ {from}
  <2>4. /\ IsFiniteSet(rest) /\ Cardinality(rest) = Cardinality(Slots(r)) - 1
        /\ Cardinality(rest) \in Nat /\ Cardinality(Slots(r)) \in Nat
    BY <2>1, FS_RemoveElement, FS_CardinalityType
  <2> HIDE DEF rest, from, to, new
  <2>5. IsFiniteSet(rest \cup {to}) /\ Cardinality(rest \cup {to}) <= Cardinality(rest) + 1
    <3>1. /\ IsFiniteSet(rest \cup {to})
          /\ Cardinality(rest \cup {to})
               = IF to \in rest THEN Cardinality(rest) ELSE Cardinality(rest) + 1
      BY <2>4, FS_AddElement
    <3> QED
      BY <2>4, <3>1
  <2>6. new \subseteq rest \cup {to}
    BY <2>3 DEF rest
  <2>7. IsFiniteSet(new) /\ Cardinality(new) <= Cardinality(rest \cup {to})
    BY <2>5, <2>6, FS_Subset
  <2>8. Cardinality(new) \in Nat /\ Cardinality(rest \cup {to}) \in Nat
    BY <2>5, <2>7, FS_CardinalityType
  <2> QED
    BY <2>4, <2>5, <2>7, <2>8 DEF new
<1> QED
  BY <1>5, <1>6

\* A member that leaves Run's loop has been told to.
LEMMA NextLeaving ==
  ASSUME TypeOK, LeavingIsTold, [Next]_vars
  PROVE  LeavingIsTold'
<1>1. CASE UNCHANGED vars
  BY <1>1 DEF LeavingIsTold, vars
<1>2. ASSUME UNCHANGED <<reader, cancelled>> PROVE LeavingIsTold'
  BY <1>2 DEF LeavingIsTold
<1>3. ASSUME NEW p \in Partition, Produce(p) \/ Revoke(p) \/ Evict(p) PROVE LeavingIsTold'
  BY <1>2, <1>3 DEF Produce, Revoke, Evict
<1>4. ASSUME NEW c \in Consumer, NEW p \in Partition, Assign(c, p) PROVE LeavingIsTold'
  BY <1>2, <1>4 DEF Assign
<1>5. ASSUME NEW c \in Consumer, ReaderStep(c) PROVE LeavingIsTold'
  <2>1. ASSUME NEW r \in Record, EachRecord(c, r) PROVE LeavingIsTold'
    BY <2>1 DEF EachRecord, LeavingIsTold, TypeOK
  <2>2. CASE PollFetches(c) \/ BreakLoop(c) \/ FinalFlush(c) \/ FinalCommit(c)
    BY <2>2 DEF PollFetches, BreakLoop, FinalFlush, FinalCommit, LeavingIsTold, TypeOK
  <2> QED
    BY <1>5, <2>1, <2>2 DEF ReaderStep
<1>6. ASSUME NEW c \in Consumer, FlusherStep(c) \/ DeadlinePasses(c) PROVE LeavingIsTold'
  BY <1>2, <1>6 DEF FlusherStep, FlusherTick, FlusherCommit, FlusherExit, DeadlinePasses
<1>7. ASSUME NEW c \in Consumer, Shutdown(c) \/ Crash(c) \/ Restart(c) PROVE LeavingIsTold'
  BY <1>7 DEF Shutdown, Crash, Restart, LeavingIsTold, TypeOK
<1> QED
  BY <1>1, <1>3, <1>4, <1>5, <1>6, <1>7 DEF Next

\* A poll hands out each record it returns once more.
LEMMA PollPriced ==
  ASSUME TypeOK, TypeOK', FetchInUse, NEW c \in Consumer, PollFetches(c),
         NEW r \in Record, Priced(r),
         Handouts(r) \in Nat, Handouts(r)' \in Nat, Handouts(r)' >= Handouts(r)
  PROVE  Priced(r)'
<1>1. PICK upto \in PollTargets(c) :
        /\ fetched' = [fetched EXCEPT ![c] = Returned(c, upto)]
        /\ polled'  = [polled EXCEPT ![c] = upto]
  BY DEF PollFetches
<1>2. UNCHANGED <<pending, rows, faults, owner, cancelled, stops>>
  BY DEF PollFetches
<1>3. fetched[c] = {}
  BY DEF PollFetches, FetchInUse
<1>4. /\ fetched'[c] = Returned(c, upto)
      /\ \A d \in Consumer : d # c => fetched'[d] = fetched[d]
  BY <1>1 DEF TypeOK
<1>5. CASE r \notin Returned(c, upto)
  <2>1. Slots(r)' \subseteq Slots(r)
    BY <1>2, <1>4, <1>5 DEF Slots, SlotsIn
  <2>2. faults' >= faults
    BY <1>2, ConstantsAssumption DEF TypeOK
  <2> QED
    BY <1>2, <2>1, <2>2, NothingNew
<1>6. CASE r \in Returned(c, upto)
  <2> DEFINE n == Cardinality(Slots(r))
             d == Handouts(r)
             m == Cardinality(Slots(r)')
  <2>1. Slots(r)' \subseteq Slots(r) \cup {<<c, 0>>}
    BY <1>2, <1>4 DEF Slots, SlotsIn
  <2>2. IsFiniteSet(Slots(r)') /\ m \in Nat /\ n \in Nat /\ m <= n + 1
    <3>1. IsFiniteSet(Slots(r)) /\ n \in Nat
      BY FS_CardinalityType DEF Priced
    <3>2. /\ IsFiniteSet(Slots(r) \cup {<<c, 0>>})
          /\ Cardinality(Slots(r) \cup {<<c, 0>>}) <= n + 1
      <4>1. /\ IsFiniteSet(Slots(r) \cup {<<c, 0>>})
            /\ Cardinality(Slots(r) \cup {<<c, 0>>})
                 = IF <<c, 0>> \in Slots(r) THEN n ELSE n + 1
        BY <3>1, FS_AddElement
      <4> HIDE DEF n
      <4> QED
        BY <3>1, <4>1
    <3>3. IsFiniteSet(Slots(r)') /\ m <= Cardinality(Slots(r) \cup {<<c, 0>>})
      BY <2>1, <3>2, FS_Subset
    <3>4. m \in Nat /\ Cardinality(Slots(r) \cup {<<c, 0>>}) \in Nat
      BY <3>2, <3>3, FS_CardinalityType
    <3> HIDE DEF m, n
    <3> QED
      BY <3>1, <3>2, <3>3, <3>4 DEF m, n
  <2>3. Handouts(r)' = d + 1
    <3>1. polled[c][r[1]] < r[2] /\ r[2] <= upto[r[1]] /\ r[1] \in Partition
      BY <1>6 DEF Returned, Record
    <3>nat. /\ polled[c][r[1]] \in Nat /\ r[2] \in Nat /\ upto[r[1]] \in Nat
            /\ stops \in Nat
      BY <3>1, ConstantsAssumption DEF TypeOK, PollTargets, Record
    <3>2. owner[r[1]] = c
      BY <3>1, <3>nat DEF PollTargets
    <3>3. ~Passed(r)
      BY <3>1, <3>2, <3>nat DEF Passed
    <3>4. Passed(r)'
      <4>1. owner'[r[1]] = c /\ ~cancelled'[c] /\ Live(c)'
        BY <1>2, <3>2 DEF PollFetches, Live, TypeOK
      <4>2. polled'[c][r[1]] >= r[2]
        BY <1>1, <3>1, <3>nat DEF TypeOK
      <4> QED
        BY <4>1, <4>2 DEF Passed
    <3>5. d = stops
      BY <3>3 DEF Handouts
    <3>6. Handouts(r)' = 1 + stops
      BY <1>2, <3>4 DEF Handouts
    <3> QED
      BY <3>5, <3>6, <3>nat
  <2>4. rows'[r] = rows[r] /\ faults' = faults /\ faults \in Nat /\ rows[r] \in Nat
    BY <1>2, ConstantsAssumption DEF TypeOK
  <2> DEFINE F == d * (1 + faults)
             E == (d + 1) * (1 + faults)
  <2>5. F \in Nat /\ E \in Nat /\ F + 1 <= E
    BY <2>4, OneMorePays
  <2>6. n <= d /\ rows[r] + n <= F
    BY DEF Priced
  <2>7. E = Handouts(r)' * (1 + faults')
    BY <2>3, <2>4
  <2> HIDE DEF E, F, m, n
  <2>8. rows'[r] + m <= E
    BY <2>2, <2>4, <2>5, <2>6
  <2>9. m <= Handouts(r)'
    BY <2>2, <2>3, <2>6
  <2> QED
    BY <2>2, <2>7, <2>8, <2>9 DEF Priced, m
<1> QED
  BY <1>5, <1>6

\* A callback decodes a record and adds it, or skips it.
LEMMA EachPriced ==
  ASSUME TypeOK, TypeOK', NEW c \in Consumer, NEW q \in Record, EachRecord(c, q),
         NEW r \in Record, Priced(r),
         Handouts(r) \in Nat, Handouts(r)' \in Nat, Handouts(r)' >= Handouts(r)
  PROVE  Priced(r)'
<1>1. /\ q \in fetched[c] /\ fetched'[c] = fetched[c] \ {q}
      /\ \A d \in Consumer : d # c => fetched'[d] = fetched[d]
  BY DEF EachRecord, TypeOK
<1>2. CASE q \in Undecodable
  <2>1. UNCHANGED <<pending, rows, faults>>
    BY <1>2 DEF EachRecord
  <2>2. Slots(r)' \subseteq Slots(r)
    BY <1>1, <2>1 DEF Slots, SlotsIn
  <2>3. faults' >= faults
    BY <2>1, ConstantsAssumption DEF TypeOK
  <2> QED
    BY <2>1, <2>2, <2>3, NothingNew
<1>3. CASE q \notin Undecodable
  <2> DEFINE b     == Append(pending[c], q)
             batch == [pending EXCEPT ![c] = b]
             full  == SlotsIn(fetched', batch, r)
  <2>1. pending[c] \in Seq(Record \ Undecodable) /\ q \in Record \ Undecodable
    BY <1>3 DEF TypeOK
  <2>2. b \in Seq(Record \ Undecodable)
    BY <2>1
  <2>3. /\ batch[c] = Append(pending[c], q)
        /\ \A d \in Consumer : d # c => batch[d] = pending[d]
    BY DEF TypeOK
  <2>4. IsFiniteSet(Slots(r))
    BY DEF Priced
  <2>5. IsFiniteSet(full) /\ Cardinality(full) <= Cardinality(Slots(r))
    <3> HIDE DEF batch, b
    <3> QED
      BY <1>1, <2>1, <2>3, <2>4, AppendMovesSlot
  <2>6. BatcherAdd(c, q)
    BY <1>3 DEF EachRecord
  <2>7. CASE Flush(c, b, ~cancelled[c])
    <3>1. full = SlotsIn(fetched', [pending EXCEPT ![c] = b], r)
      OBVIOUS
    <3> HIDE DEF full, b, batch
    <3> QED
      BY <2>2, <2>5, <2>7, <3>1, FlushPriced
  <2>8. CASE pending' = batch /\ UNCHANGED <<rows, faults>>
    <3>1. Slots(r)' = full
      BY <2>8 DEF Slots
    <3>2. faults \in Nat /\ faults' = faults /\ rows'[r] = rows[r] /\ rows[r] \in Nat
      BY <2>8, ConstantsAssumption DEF TypeOK
    <3> HIDE DEF full
    <3> DEFINE F == Handouts(r) * (1 + faults)
               E == Handouts(r)' * (1 + faults)
               n == Cardinality(Slots(r))
               m == Cardinality(full)
    <3>3. F \in Nat /\ E \in Nat /\ F <= E
      <4>1. Handouts(r) <= Handouts(r)' /\ faults <= faults
        BY <3>2
      <4> QED
        BY <3>2, <4>1, MorePays
    <3>4. n <= Handouts(r) /\ rows[r] + n <= F
      BY DEF Priced
    <3>5. n \in Nat /\ m \in Nat /\ m <= n
      BY <2>4, <2>5, FS_CardinalityType
    <3> HIDE DEF F, E, n, m
    <3>6. rows'[r] + m <= E /\ m <= Handouts(r)'
      BY <3>2, <3>3, <3>4, <3>5
    <3>7. E = Handouts(r)' * (1 + faults')
      BY <3>2 DEF E
    <3> QED
      BY <2>5, <3>1, <3>6, <3>7 DEF Priced, m
  <2> QED
    BY <2>6, <2>7, <2>8 DEF BatcherAdd
<1> QED
  BY <1>2, <1>3

\* A flush of the batch as it is.
LEMMA SameBatchPriced ==
  ASSUME TypeOK, TypeOK', NEW c \in Consumer, NEW ctxLive,
         Flush(c, pending[c], ctxLive), UNCHANGED fetched,
         NEW r \in Record, Priced(r),
         Handouts(r) \in Nat, Handouts(r)' \in Nat, Handouts(r)' >= Handouts(r)
  PROVE  Priced(r)'
<1> DEFINE b    == pending[c]
           full == SlotsIn(fetched', [pending EXCEPT ![c] = b], r)
<1>1. b \in Seq(Record \ Undecodable)
  BY DEF TypeOK
<1>2. [pending EXCEPT ![c] = b] = pending
  BY DEF TypeOK
<1>3. full = Slots(r)
  BY <1>2 DEF Slots
<1>4. IsFiniteSet(full) /\ Cardinality(full) <= Cardinality(Slots(r))
  <2>1. IsFiniteSet(Slots(r)) /\ Cardinality(Slots(r)) \in Nat
    BY FS_CardinalityType DEF Priced
  <2> QED
    BY <1>3, <2>1
<1>5. full = SlotsIn(fetched', [pending EXCEPT ![c] = b], r)
  OBVIOUS
<1>6. Flush(c, b, ctxLive)
  OBVIOUS
<1> HIDE DEF full, b
<1> QED
  BY <1>1, <1>4, <1>5, <1>6, FlushPriced

\* Every step of the system keeps the price of a record paid.
LEMMA NextPriced ==
  ASSUME TypeOK, FetchInUse, LeavingIsTold, [Next]_vars, NEW r \in Record, Priced(r)
  PROVE  Priced(r)'
<1>type. TypeOK'
  BY NextType
<1>h. Handouts(r) \in Nat /\ Handouts(r)' \in Nat /\ Handouts(r)' >= Handouts(r)
  BY NextHandouts
<1>nat. faults \in Nat /\ faults' \in Nat
  BY <1>type, ConstantsAssumption DEF TypeOK
<1>quiet. ASSUME Slots(r)' \subseteq Slots(r), UNCHANGED <<rows, faults>> PROVE Priced(r)'
  <2>1. rows'[r] = rows[r] /\ faults' >= faults
    BY <1>quiet, <1>nat
  <2> QED
    BY <1>quiet, <1>type, <1>h, <2>1, NothingNew
<1>1. CASE UNCHANGED vars
  BY <1>1, <1>quiet DEF vars, Slots
<1>2. ASSUME NEW p \in Partition, Produce(p) \/ Revoke(p) \/ Evict(p) PROVE Priced(r)'
  BY <1>2, <1>quiet DEF Produce, Revoke, Evict, Slots
<1>3. ASSUME NEW c \in Consumer, NEW p \in Partition, Assign(c, p) PROVE Priced(r)'
  BY <1>3, <1>quiet DEF Assign, Slots
<1>4. ASSUME NEW c \in Consumer, PollFetches(c) PROVE Priced(r)'
  BY <1>4, <1>type, <1>h, PollPriced
<1>5. ASSUME NEW c \in Consumer, NEW q \in Record, EachRecord(c, q) PROVE Priced(r)'
  BY <1>5, <1>type, <1>h, EachPriced
<1>6. ASSUME NEW c \in Consumer, BreakLoop(c) \/ DeadlinePasses(c) \/ FlusherExit(c)
                                   \/ Shutdown(c) \/ Restart(c)
      PROVE  Priced(r)'
  BY <1>6, <1>quiet DEF BreakLoop, DeadlinePasses, FlusherExit, Shutdown, Restart, Slots
<1>7. ASSUME NEW c \in Consumer, FinalFlush(c) \/ FlusherTick(c) PROVE Priced(r)'
  <2>1. UNCHANGED fetched
    BY <1>7 DEF FinalFlush, FlusherTick
  <2>2. CASE UNCHANGED <<pending, due, rows, faults>>
    BY <1>quiet, <2>1, <2>2 DEF Slots
  <2>3. ASSUME NEW ctxLive, Flush(c, pending[c], ctxLive) PROVE Priced(r)'
    BY <1>type, <1>h, <2>1, <2>3, SameBatchPriced
  <2> QED
    BY <1>7, <2>2, <2>3 DEF FinalFlush, FlusherTick, MaybeFlush
<1>8. ASSUME NEW c \in Consumer, FlusherCommit(c) \/ FinalCommit(c) PROVE Priced(r)'
  <2>1. faults' >= faults
    BY <1>8, <1>nat DEF FlusherCommit, FinalCommit, CommitUncommittedOffsets
  <2>2. rows'[r] = rows[r]
    BY <1>8 DEF FlusherCommit, FinalCommit
  <2>3. Slots(r)' \subseteq Slots(r)
    <3>1. CASE FlusherCommit(c)
      BY <3>1 DEF FlusherCommit, Slots
    <3>2. CASE FinalCommit(c)
      <4>1. fetched' = fetched /\ pending'[c] = <<>>
            /\ \A d \in Consumer : d # c => pending'[d] = pending[d]
        BY <3>2 DEF FinalCommit, TypeOK
      <4> QED
        BY <4>1 DEF Slots, SlotsIn
    <3> QED
      BY <1>8, <3>1, <3>2
  <2> QED
    BY <1>type, <1>h, <2>1, <2>2, <2>3, NothingNew
<1>9. ASSUME NEW c \in Consumer, Crash(c) PROVE Priced(r)'
  <2>1. /\ fetched'[c] = {} /\ pending'[c] = <<>>
        /\ \A d \in Consumer : d # c => pending'[d] = pending[d] /\ fetched'[d] = fetched[d]
    BY <1>9 DEF Crash, TypeOK
  <2>2. Slots(r)' \subseteq Slots(r)
    BY <2>1 DEF Slots, SlotsIn
  <2> QED
    BY <1>9, <1>quiet, <2>2 DEF Crash
<1> QED
  BY <1>1, <1>2, <1>3, <1>4, <1>5, <1>6, <1>7, <1>8, <1>9
     DEF Next, ReaderStep, FlusherStep

\* Nothing is held or stored at the start.
LEMMA InitPriced == Init => PriceInv
<1> SUFFICES ASSUME Init PROVE PriceInv
  OBVIOUS
<1>1. LeavingIsTold
  BY DEF Init, LeavingIsTold
<1>2. ASSUME NEW r \in Record PROVE Priced(r)
  <2>1. Slots(r) = {}
    BY DEF Init, Slots, SlotsIn
  <2>2. Handouts(r) \in Nat
    BY DEF Init, Handouts
  <2>3. rows[r] = 0 /\ faults = 0
    BY DEF Init
  <2>4. IsFiniteSet(Slots(r)) /\ Cardinality(Slots(r)) = 0
    BY <2>1, FS_EmptySet
  <2> QED
    BY <2>2, <2>3, <2>4 DEF Priced
<1> QED
  BY <1>1, <1>2 DEF PriceInv

\* With the price paid, a record is stored at most once per handout and fault.
LEMMA PricedPays ==
  ASSUME TypeOK, PriceInv
  PROVE  DuplicatesArePaidFor
<1> SUFFICES ASSUME NEW r \in Record PROVE rows[r] <= (1 + stops) * (1 + faults)
  BY DEF DuplicatesArePaidFor
<1>1. stops \in Nat /\ faults \in Nat /\ rows[r] \in Nat
  BY ConstantsAssumption DEF TypeOK
<1>2. Handouts(r) \in Nat /\ Handouts(r) <= 1 + stops
  BY <1>1 DEF Handouts
<1> DEFINE n == Cardinality(Slots(r))
           F == Handouts(r) * (1 + faults)
           E == (1 + stops) * (1 + faults)
<1>3. n \in Nat /\ rows[r] + n <= F
  BY FS_CardinalityType DEF PriceInv, Priced
<1>4. F \in Nat /\ E \in Nat /\ F <= E
  <2>1. 1 + stops \in Nat /\ faults <= faults
    BY <1>1
  <2> QED
    BY <1>1, <1>2, <2>1, MorePays
<1> HIDE DEF n, F, E
<1>5. rows[r] <= E
  BY <1>1, <1>3, <1>4
<1> QED
  BY <1>5 DEF E

\* A record is stored at most once for every time it was handed out, which is
\* once and once more per stop, and once more for every fault.
THEOREM DuplicatesHaveAPrice == Spec => []DuplicatesArePaidFor
<1>1. IInv /\ PriceInv /\ [Next]_vars => PriceInv'
  BY NextLeaving, NextPriced DEF IInv, PriceInv
<1>2. IInv /\ PriceInv => DuplicatesArePaidFor
  BY PricedPays DEF IInv
<1> QED
  BY InitPriced, <1>1, <1>2, Inductive, PTL DEF Spec
=============================================================================
