--------------------------- MODULE LogDetailSheet ---------------------------
(***************************************************************************)
(* The sheet that shows one event, opened from a row of the live tail or   *)
(* of the logs page.  It is modal: another row can be selected only after  *)
(* it was closed.  The component stays mounted, with the event it loaded   *)
(* last, for as long as its page does.                                     *)
(***************************************************************************)
EXTENDS Integers, DashboardApi

CONSTANTS
  Event,     \* the events of the project
  NoEvent    \* nothing selected, nothing loaded

SheetAssumption == NoEvent \notin Event

VARIABLES
  sheet,     \* [selected, event, loading, error, asked, stale]
  session

\* selected: the row; event: what the last successful load brought; asked:
\* the event the running effect asks for; stale: requests of cancelled effects.
SheetState ==
  [selected : Event \cup {NoEvent}, event : Event \cup {NoEvent},
   loading : BOOLEAN, error : BOOLEAN,
   asked : Event \cup {NoEvent}, stale : SUBSET Event]

Mounted == [selected |-> NoEvent, event |-> NoEvent, loading |-> FALSE,
            error |-> FALSE, asked |-> NoEvent, stale |-> {}]

Init == sheet = Mounted

\* A row is clicked; the effect starts its request.
Select(e) ==
  /\ sheet.selected = NoEvent
  /\ sheet' = [sheet EXCEPT !.selected = e, !.loading = TRUE,
                            !.error = FALSE, !.asked = e]

\* onOpenChange(false): the clean-up of the effect cancels its request, and
\* loading stays as it is.
Close ==
  /\ sheet.selected # NoEvent
  /\ sheet' = [sheet EXCEPT !.selected = NoEvent, !.asked = NoEvent,
                            !.stale = @ \cup ({sheet.asked} \ {NoEvent})]

\* The answer of the running effect.
Loads ==
  /\ sheet.asked # NoEvent
  /\ \E r \in Results(session) :
       sheet' = IF r = "data"
                THEN [sheet EXCEPT !.event = sheet.asked, !.asked = NoEvent,
                                   !.loading = FALSE]
                ELSE [sheet EXCEPT !.error = TRUE, !.asked = NoEvent,
                                   !.loading = FALSE]

\* Mutant of StaleEnds: an effect does not ask whether it was cancelled.
StaleLoads(e) ==
  /\ e \in sheet.stale
  /\ sheet' = [sheet EXCEPT !.stale = @ \ {e}, !.event = e, !.loading = FALSE]

\* The answer of a cancelled effect changes nothing.
StaleEnds(e) ==
  /\ e \in sheet.stale
  /\ sheet' = [sheet EXCEPT !.stale = @ \ {e}]

Step == Close \/ Loads \/ \E e \in Event : StaleEnds(e)

-----------------------------------------------------------------------------
(* What is on the screen. *)

\* The event whose title and badges head the sheet.
Title == sheet.event

\* The event whose sizes, headers and bodies are shown, if any.
Body == IF sheet.loading THEN NoEvent ELSE sheet.event

Least(a, b)    == IF a <= b THEN a ELSE b
Greatest(a, b) == IF a >= b THEN a ELSE b

\* LatencyBar: the widths of its three segments, in ms of the total.
Segments(total, upstream, ttfb) ==
  LET safeUpstream == Least(upstream, total)
      safeTtfb     == Least(ttfb, safeUpstream)
  IN  [ttfb  |-> safeTtfb,
       rest  |-> safeUpstream - safeTtfb,
       proxy |-> Greatest(0, total - safeUpstream)]

-----------------------------------------------------------------------------
\* Every field is in its range.
SheetTypeOK == sheet \in SheetState

\* The sheet of an event shows that event's details; another event's are under
\* an error banner, and another event's title also while its own is loading.
SheetIsHonest ==
  sheet.selected # NoEvent =>
    /\ Body \notin {NoEvent, sheet.selected} => sheet.error
    /\ Title \notin {NoEvent, sheet.selected} => sheet.error \/ sheet.loading
    /\ Title = NoEvent => sheet.error \/ sheet.loading
=============================================================================
