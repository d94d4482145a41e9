------------------------------ MODULE LogsPage ------------------------------
(***************************************************************************)
(* The logs page: a filter form in the browser, which writes the url, and  *)
(* a server component, which reads the url and lists the events.  The form *)
(* stays mounted while the url changes and reads it only once.  Direction, *)
(* stream and range navigate at once; method, status and path with Apply.  *)
(*                                                                         *)
(* External: the router keeps one navigation in progress, the last one     *)
(* asked for, and goes back through the urls it has been at.               *)
(***************************************************************************)
EXTENDS Sequences, TimeRange, DashboardApi

CONSTANTS
  Method, Status, Path,  \* values typed or chosen
  Direction, Stream,     \* values chosen, beside "all" and "any"
  MaxTrail               \* bound: urls to go back to

VARIABLES
  list,      \* the page's state, see ListState
  sent,      \* where the browser was sent: "no", "signout", "login"
  session

ListAssumption ==
  /\ Direction \subseteq {"inbound", "outbound"}
  /\ Stream \subseteq {"true", "false"}
  /\ MaxTrail \in Nat \ {0}

Form == [method : Method \cup {"any"}, status : Status \cup {""}, path : Path \cup {""},
         direction : Direction \cup {"all"}, stream : Stream \cup {"any"},
         range : RangeValue]

\* The search parameters; "" or NoInstant is one that is absent.
Url == [method : Method \cup {""}, status : Status \cup {""}, path : Path \cup {""},
        direction : Direction \cup {""}, is_stream : Stream \cup {""},
        range : Presets \cup {""}, from : Nat \cup {NoInstant}, to : Nat \cup {NoInstant}]

NoUrl == [method |-> "none"]

EmptyUrl == [method |-> "", status |-> "", path |-> "", direction |-> "",
             is_stream |-> "", range |-> "", from |-> NoInstant, to |-> NoInstant]

EmptyForm == [method |-> "any", status |-> "", path |-> "", direction |-> "all",
              stream |-> "any", range |-> Preset("1h")]

\* Mutant of BuildParams: a range is left out.
BuildParamsNoRange(f) ==
  [EmptyUrl EXCEPT !.method = IF f.method = "any" THEN "" ELSE f.method,
                   !.status = f.status, !.path = f.path,
                   !.direction = IF f.direction = "all" THEN "" ELSE f.direction,
                   !.is_stream = IF f.stream = "any" THEN "" ELSE f.stream]

BuildParams(f) ==
  LET custom == f.range.kind = "custom"
  IN  [method    |-> IF f.method = "any" THEN "" ELSE f.method,
       status    |-> f.status,
       path      |-> f.path,
       direction |-> IF f.direction = "all" THEN "" ELSE f.direction,
       is_stream |-> IF f.stream = "any" THEN "" ELSE f.stream,
       range     |-> IF custom \/ f.range = Preset("1h") THEN "" ELSE f.range.preset,
       from      |-> IF custom THEN f.range.from ELSE NoInstant,
       to        |-> IF custom THEN f.range.to ELSE NoInstant]

\* A custom range wins when both bounds are there; an unknown preset is an hour.
ResolveRange(u) ==
  IF NoInstant \notin {u.from, u.to} THEN Custom(u.from, u.to)
  ELSE IF u.range \in DOMAIN PresetSpan THEN Preset(u.range) ELSE Preset("1h")

Question ==
  [method : Method \cup {""}, status : Status \cup {""}, path : Path \cup {""},
   direction : Direction \cup {""}, stream : Stream \cup {""},
   range : RangeValue]

\* What the server component asks stats-api for.
Asked(u) ==
  [method |-> u.method, status |-> u.status, path |-> u.path,
   direction |-> u.direction, stream |-> u.is_stream, range |-> ResolveRange(u)]

\* The form as it is mounted.
InitialForm(u) ==
  [method    |-> IF u.method = "" THEN "any" ELSE u.method,
   status    |-> u.status,
   path      |-> u.path,
   direction |-> IF u.direction = "" THEN "all" ELSE u.direction,
   stream    |-> IF u.is_stream = "" THEN "any" ELSE u.is_stream,
   range     |-> ResolveRange(u)]

HasFilters(u) == InitialForm(u) # EmptyForm

\* next: the navigation in progress.  rowsOf: what the rows were asked with.
\* wentBack: history, the url has changed under the form since its last push.
ListState ==
  [url : Url, form : Form, next : Url \cup {NoUrl}, rowsOf : Question,
   error : BOOLEAN, trail : Seq(Url), wentBack : BOOLEAN]

Mounted(u) ==
  [url |-> u, form |-> InitialForm(u), next |-> NoUrl, rowsOf |-> Asked(u),
   error |-> FALSE, trail |-> <<>>, wentBack |-> FALSE]

-----------------------------------------------------------------------------
\* push, with the form as it will be: buildParams is given the new value.
Push(form) ==
  list' = [list EXCEPT !.form = form, !.next = BuildParams(form), !.wentBack = FALSE]

SubmitForm == Push(list.form)

OnDirectionChange(d) ==
  /\ d # list.form.direction
  /\ Push([list.form EXCEPT !.direction = d])

OnStreamChange(s) ==
  /\ s # list.form.stream
  /\ Push([list.form EXCEPT !.stream = s])

OnRangeChange == \E r \in Picked : Push([list.form EXCEPT !.range = r])

\* Method, status and path wait for Apply, or for the next push.
SetMethod(m) == list' = [list EXCEPT !.form.method = m]
SetStatus(s) == list' = [list EXCEPT !.form.status = s]
SetPath(p)   == list' = [list EXCEPT !.form.path = p]

\* The button is there when the url has filters.
Clear ==
  /\ HasFilters(list.url)
  /\ Push(EmptyForm)

\* External: the url changes; a url that has been left can be gone back to.
Visit(u, trail) ==
  [list EXCEPT !.url = u, !.next = NoUrl, !.trail = trail, !.rowsOf = Asked(u)]

\* Bound: the urls the browser can still go back to.
Bounded(urls) == IF Len(urls) <= MaxTrail THEN urls ELSE SubSeq(urls, 1, MaxTrail)

\* LogsPage renders at the new url.
Arrive ==
  /\ list.next # NoUrl
  /\ LET trail == IF list.next = list.url THEN list.trail
                  ELSE Bounded(<<list.url>> \o list.trail)
         there == Visit(list.next, trail)
     IN  \E a \in Answers(session) :
           LET result == PageResult(session, StatsGet(a))
           IN  IF result \in {"page", "throw"}
               THEN /\ list' = [there EXCEPT !.error = (result = "throw")]
                    /\ UNCHANGED sent
               ELSE sent' = result /\ UNCHANGED list

\* External: the browser goes back, and drops a navigation in progress.
Back ==
  /\ list.trail # <<>>
  /\ list' = [Visit(list.trail[1], Tail(list.trail)) EXCEPT
                !.error = FALSE, !.wentBack = TRUE]

FormStep ==
  \/ SubmitForm \/ OnRangeChange \/ Clear \/ Back
  \/ \E d \in Direction \cup {"all"} : OnDirectionChange(d)
  \/ \E s \in Stream \cup {"any"} : OnStreamChange(s)
  \/ \E m \in (Method \cup {"any"}) \ {list.form.method} : SetMethod(m)
  \/ \E s \in (Status \cup {""}) \ {list.form.status} : SetStatus(s)
  \/ \E p \in (Path \cup {""}) \ {list.form.path} : SetPath(p)

Step == sent = "no" /\ (Arrive \/ (FormStep /\ UNCHANGED sent))

-----------------------------------------------------------------------------
\* Every field is in its range.
ListTypeOK == list \in ListState

\* With nothing in progress, the rows were asked for with the direction, the
\* stream filter and the range the form shows, or the url changed under it.
FormTellsTheRows ==
  list.next = NoUrl =>
    \/ list.wentBack
    \/ [direction |-> list.rowsOf.direction, stream |-> list.rowsOf.stream,
        range |-> list.rowsOf.range]
       = LET f == list.form
         IN [direction |-> IF f.direction = "all" THEN "" ELSE f.direction,
             stream |-> IF f.stream = "any" THEN "" ELSE f.stream,
             range |-> f.range]
=============================================================================
