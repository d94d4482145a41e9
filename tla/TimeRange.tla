------------------------------ MODULE TimeRange ------------------------------
(***************************************************************************)
(* The time range picker of the analytics and the logs page.  A range is a *)
(* preset, which slides with the clock, or a custom pair of instants, in   *)
(* seconds.  The popover and its form are mounted when the picker opens    *)
(* and unmounted when it closes, so a visit to the picker comes to the     *)
(* preset clicked, or to what its two inputs hold when Apply is pressed.   *)
(***************************************************************************)
EXTENDS Integers

CONSTANTS
  Presets,   \* the presets considered
  Instant,   \* the instants considered
  NoInstant  \* an input that holds no date

Minute == 60
Hour   == 60 * Minute

PresetSpan ==
  [p \in {"15m", "1h", "6h", "24h", "7d", "30d"} |->
     CASE p = "15m" -> 15 * Minute [] p = "1h" -> Hour [] p = "6h" -> 6 * Hour
       [] p = "24h" -> 24 * Hour [] p = "7d" -> 7 * 24 * Hour
       [] p = "30d" -> 30 * 24 * Hour]

TimeRangeAssumption ==
  /\ Presets \subseteq DOMAIN PresetSpan
  /\ Instant \subseteq Nat
  /\ NoInstant \notin Instant

Preset(p)    == [kind |-> "preset", preset |-> p]
Custom(f, t) == [kind |-> "custom", from |-> f, to |-> t]

RangeToDates(v, now) ==
  IF v.kind = "custom" THEN [from |-> v.from, to |-> v.to]
  ELSE [from |-> now - PresetSpan[v.preset], to |-> now]

\* A preset spans the same time at every moment.
SpanOf(v) == LET d == RangeToDates(v, 0) IN d.to - d.from

\* The input shows minutes.
ToLocalInput(d) == d - (d % Minute)

\* What the form's inputs hold when the picker opens on the range v.
FormDefaults(v, now) ==
  LET d == IF v.kind = "custom" THEN RangeToDates(v, now)
           ELSE [from |-> now - Hour, to |-> now]
  IN  [from |-> ToLocalInput(d.from), to |-> ToLocalInput(d.to)]

\* What the inputs may hold: a minute, or nothing.
Input == {ToLocalInput(d) : d \in Instant} \cup {NoInstant}

\* submit of the form: "apply" or the error it shows.
Submit(f, t) ==
  IF NoInstant \in {f, t} THEN "Invalid date"
  ELSE IF f >= t THEN "From must be before To"
  ELSE "apply"

\* The ranges a visit to the picker may end with.  An error leaves the range.
Picked ==
  {Preset(p) : p \in Presets} \cup
  {Custom(d[1], d[2]) : d \in {x \in Input \X Input : Submit(x[1], x[2]) = "apply"}}

\* The ranges of a page: it starts with the last hour.
RangeValue == Picked \cup {Preset("1h")}
=============================================================================
