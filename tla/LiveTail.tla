------------------------------ MODULE LiveTail ------------------------------
(***************************************************************************)
(* The live tail: a list of the newest events, filled by a poll every two  *)
(* seconds, a set of the ids it has seen, and the controls Pause, Clear    *)
(* and direction.                                                          *)
(*                                                                         *)
(* React queues the updater that merges an answer; it runs at once when    *)
(* nothing else is queued, or when the component renders.  The updater     *)
(* also writes the set of ids, which the buttons and effects clear         *)
(* outside the queue.  External: stats-api, which returns the newest       *)
(* events by timestamp.                                                    *)
(***************************************************************************)
EXTENDS Integers, Sequences, FiniteSets, SequencesExt, DashboardApi

CONSTANTS
  Event,      \* events of the project, numbered in the order of their timestamps
  PageLimit,  \* limit of a poll (50)
  MaxRows,    \* MAX_EVENTS (200)
  MaxQueue,   \* bound: updates that wait when an answer comes
  MaxStale    \* bound: polls of earlier effects not answered yet

TailAssumption ==
  /\ Event \subseteq Nat /\ IsFiniteSet(Event)
  /\ PageLimit \in Nat \ {0}
  /\ MaxRows \in Nat \ {0}
  /\ MaxQueue \in Nat /\ MaxStale \in Nat

VARIABLES
  tail,      \* the component's state, see TailState
  log,       \* SUBSET Event: what stats-api can return
  session

Dir == {"all", "inbound", "outbound"}

\* An update that waits to be rendered: the page of a poll that asked for
\* dir, or a reset of the list.
Update == [page : Seq(Event), dir : Dir, reset : BOOLEAN]

\* poll: the chain of the effect in force.  stale: directions that polls of
\* cancelled effects have asked for.  rowsOf: history, the direction the rows
\* were asked for.  swallowed: history, ids whose rows a reset took while the
\* ids stayed.
TailState ==
  [events : Seq(Event), seen : SUBSET Event, paused : BOOLEAN,
   direction : Dir, error : BOOLEAN,
   poll : {"none", "asked", "timer"}, stale : SUBSET Dir,
   queue : Seq(Update),
   rowsOf : Dir \cup {"mixed"}, swallowed : SUBSET Event]

\* After the first effects: nothing to reset, and a first poll.
Mounted ==
  [events |-> <<>>, seen |-> {}, paused |-> FALSE, direction |-> "all",
   error |-> FALSE, poll |-> "asked", stale |-> {}, queue |-> <<>>,
   rowsOf |-> "all", swallowed |-> {}]

Init == tail = Mounted

-----------------------------------------------------------------------------
Smaller(a, b) == IF a <= b THEN a ELSE b

\* External: the pages a query may return.  The route handler does not pass
\* the direction on, so it is no argument.
Pages ==
  LET n == Smaller(PageLimit, Cardinality(log))
  IN  {p \in [1 .. n -> log] :
         /\ \A i, j \in 1 .. n : i < j => p[i] > p[j]
         /\ \A e \in log \ Range(p) : \A i \in 1 .. n : e < p[i]}

\* Mutant of Fresh: rows that are listed already are added again.
FreshAll(page, seen) == page

\* The events of a page that the set of ids does not hold.
Fresh(page, seen) ==
  LET kept[n \in 0 .. Len(page)] ==
        IF n = 0 THEN <<>>
        ELSE IF page[n] \in seen THEN kept[n - 1] ELSE Append(kept[n - 1], page[n])
  IN  kept[Len(page)]

\* Mutant of Window: the list grows without the slice.
WindowOpen(rows) == rows

\* slice(0, MAX_EVENTS)
Window(rows) == SubSeq(rows, 1, Smaller(MaxRows, Len(rows)))

\* The updater of a poll.
Merge(t, u) ==
  LET fresh  == Fresh(u.page, t.seen)
      merged == Window(fresh \o t.events)
      seen   == t.seen \cup Range(u.page)
  IN  IF fresh = <<>> THEN t
      ELSE [t EXCEPT !.events = merged,
                     !.seen = IF Cardinality(seen) > MaxRows * 2
                              THEN Range(merged) ELSE seen,
                     !.rowsOf = IF t.events = <<>> \/ @ = u.dir THEN u.dir
                                ELSE "mixed"]

\* setEvents([]), rendered: whatever a merge before it added to seen is hidden.
ResetRows(t) == [t EXCEPT !.events = <<>>, !.swallowed = t.seen]

\* An answer is merged at once, or waits for the next rendering.
Offer(t, u) ==
  {[t EXCEPT !.queue = Append(@, u)]} \cup
  {Merge(x, u) : x \in {y \in {t} : y.queue = <<>>}}

Reset == [page |-> <<>>, dir |-> "all", reset |-> TRUE]

\* Two resets in a row are one.
ThenReset(q) == IF q # <<>> /\ Last(q) = Reset THEN q ELSE Append(q, Reset)

\* The clean-up of the poll effect.
Cancelled(t) ==
  [t EXCEPT !.stale = @ \cup (IF t.poll = "asked" THEN {t.direction} ELSE {}),
            !.poll = "none"]

-----------------------------------------------------------------------------
PollAnswers ==
  /\ tail.poll = "asked"
  /\ Len(tail.queue) < MaxQueue
  /\ \E r \in Results(session) :
       IF r = "error"
       THEN tail' = [tail EXCEPT !.error = TRUE, !.poll = "timer"]
       ELSE \E p \in Pages : tail' \in
              Offer([tail EXCEPT !.error = FALSE, !.poll = "timer"],
                    [page |-> p, dir |-> tail.direction, reset |-> FALSE])

\* Mutant of StalePollEnds: the flag cancelled is not asked.
StalePollMerges(d) ==
  /\ d \in tail.stale
  /\ \E p \in Pages : tail' \in
       Offer([tail EXCEPT !.stale = @ \ {d}],
             [page |-> p, dir |-> d, reset |-> FALSE])

\* The answer for a cancelled effect changes nothing.
StalePollEnds(d) ==
  /\ d \in tail.stale
  /\ tail' = [tail EXCEPT !.stale = @ \ {d}]

PollAgain ==
  /\ tail.poll = "timer"
  /\ tail' = [tail EXCEPT !.poll = "asked"]

\* A rendering runs all updates that wait, in their order.
Render ==
  /\ tail.queue # <<>>
  /\ tail' = FoldLeft(LAMBDA t, u : IF u.reset THEN ResetRows(t) ELSE Merge(t, u),
                      [tail EXCEPT !.queue = <<>>], tail.queue)

\* The reset effect, then the poll effect of the new direction.
SetDirection(d) ==
  /\ d # tail.direction
  /\ Cardinality(tail.stale) < MaxStale
  /\ tail' = [Cancelled(tail) EXCEPT
                !.direction = d, !.seen = {}, !.swallowed = {},
                !.queue = ThenReset(@),
                !.poll = IF tail.paused THEN "none" ELSE "asked"]

TogglePause ==
  /\ Cardinality(tail.stale) < MaxStale
  /\ tail' = [Cancelled(tail) EXCEPT
                !.paused = ~@, !.poll = IF tail.paused THEN "asked" ELSE "none"]

\* Mutant of Clear: the list is emptied and the ids are kept.
ClearRowsOnly ==
  /\ tail.events # <<>>
  /\ tail' = [tail EXCEPT !.events = <<>>]

Clear == tail' = [tail EXCEPT !.seen = {}, !.swallowed = {}, !.queue = ThenReset(@)]

\* External: an event reaches the store, in any order of timestamps.
Ingest ==
  \E e \in Event \ log : log' = log \cup {e} /\ UNCHANGED tail

Step ==
  \/ PollAnswers \/ PollAgain \/ Render \/ TogglePause \/ Clear
  \/ \E d \in Dir : SetDirection(d) \/ StalePollEnds(d)

-----------------------------------------------------------------------------
\* Every field is in its range.
TailTypeOK == tail \in TailState

Listed == Range(tail.events)

\* No event has two rows, the list is bounded, and every row's id is known to
\* the de-duplication once nothing waits to be rendered.
ListIsCoherent ==
  /\ Cardinality(Listed) = Len(tail.events)
  /\ Len(tail.events) <= MaxRows
  /\ tail.queue = <<>> => Listed \subseteq tail.seen

\* No row is left of a poll of an earlier tab: every row on the screen came with
\* an answer to a poll made under the tab that is selected, after any order of
\* tab changes, pauses, clears and late answers.  (Not that the rows are of that
\* direction: Pages does not depend on it.)
RowsAreOfItsPolls ==
  tail.queue = <<>> /\ tail.events # <<>> => tail.rowsOf = tail.direction

\* An event that is known and not listed was pushed out by newer ones, or its
\* row was lost between the answer and the rendering.
HiddenHasACause ==
  tail.queue = <<>> =>
    \A e \in tail.seen \ Listed :
      Len(tail.events) = MaxRows \/ e \in tail.swallowed
=============================================================================
