------------------------------ MODULE Dashboard ------------------------------
(***************************************************************************)
(* One open page of the dashboard, from the moment it was rendered.  The   *)
(* page is left by closing it or by being sent elsewhere; the next page    *)
(* starts from what the services then hold, so a behaviour follows one.    *)
(* The sheet of an event lies over the live tail and over the logs page    *)
(* and shares no state with either: it is a page of its own here.          *)
(***************************************************************************)
EXTENDS Integers, Sequences, DashboardApi

CONSTANTS
  Event, NoEvent, PageLimit, MaxRows, MaxQueue,         \* live tail, sheet
  Presets, Instant, NoInstant,                          \* time ranges
  Direction,                                            \* both filters
  FilterKey, FilterMethod, FilterHost, FilterPath,      \* analytics
  Bucket, MaxBuckets, MaxStale,
  Method, Status, Path, Stream, MaxTrail,               \* logs page
  Key, NoKey,                                           \* keys page
  Field, Number, Value, Zero, Blank,                    \* settings of a key
  Days, Offered, OtherDays,                             \* settings of a project
  Project, NoProject, MaxCalls,                         \* projects page
  Text, DefaultText                                     \* integrate page

VARIABLES
  page,      \* the page that is open
  view,      \* the state of its components in the browser
  server,    \* what the services hold of it
  sent,      \* where the browser was sent from it, "no" while it is open
  session    \* the cookie, and the token in it

vars == <<page, view, server, sent, session>>

Live      == INSTANCE LiveTail WITH tail <- view, log <- server
Sheet     == INSTANCE LogDetailSheet WITH sheet <- view
Stats     == INSTANCE Analytics WITH stats <- view, Key <- FilterKey,
               Method <- FilterMethod, Host <- FilterHost, Path <- FilterPath
Logs      == INSTANCE LogsPage WITH list <- view
Keys      == INSTANCE KeysPage WITH keys <- view, rows <- server
KeyForm   == INSTANCE KeySettings WITH form <- view, stored <- server
Settings  == INSTANCE ProjectSettings WITH settings <- view, project <- server
Projects  == INSTANCE ProjectsPage WITH projects <- view, table <- server
Guide     == INSTANCE Integrate WITH guide <- view
SignIn    == INSTANCE Account WITH account <- view, exists <- server

\* What the pages suppose of their constants.
ASSUME PagesAssumption ==
  /\ Live!TailAssumption
  /\ Sheet!SheetAssumption
  /\ Stats!TimeRangeAssumption /\ Stats!BucketAssumption
  /\ Logs!ListAssumption
  /\ Keys!KeysAssumption
  /\ KeyForm!KeySettingsAssumption
  /\ Settings!SettingsAssumption
  /\ Projects!ProjectAssumption
  /\ DefaultText \in Text

-----------------------------------------------------------------------------
(* Each page, as it is when it was rendered and hydrated. *)

OpensLive == page = "live" /\ server = {} /\ Live!Init

OpensSheet == page = "sheet" /\ server = Event /\ Sheet!Init

OpensStats == page = "stats" /\ server = "none" /\ Stats!Init

\* From the side bar without filters, or with a link.
OpensLogs ==
  /\ page = "logs" /\ server = "none"
  /\ \E r \in Logs!RangeValue :
       view = Logs!Mounted(Logs!BuildParams([Logs!EmptyForm EXCEPT !.range = r]))

OpensKeys ==
  /\ page = "keys"
  /\ server \in [Key -> Keys!KeyStatus]
  /\ view \in {Keys!Mounted(server),
               Keys!Render(Keys!Mounted(Keys!NoRows), Keys!NoRows, TRUE)}

OpensKeyForm ==
  /\ page = "key settings"
  /\ server \in [Field -> Value]
  /\ view = KeyForm!Mounted(server)

OpensSettings ==
  /\ page = "settings"
  /\ \E d \in Days \cap (1 .. 90) : server = [exists |-> TRUE, retention |-> d]
  /\ view = Settings!Mounted(server)

OpensProjects ==
  /\ page = "projects"
  /\ server \in SUBSET Project
  /\ view \in {Projects!Mounted(server), Projects!Render(Projects!Mounted({}), {}, TRUE)}

\* The keys are those that are active; none, when they could not be listed.
OpensGuide ==
  /\ page = "integrate" /\ server = "none"
  /\ \E active \in SUBSET Key :
       \E k \in IF active = {} THEN {NoKey} ELSE active :
         view = Guide!Mounted(active, k, DefaultText)

OpensSignIn ==
  /\ page = "sign in"
  /\ server \in BOOLEAN
  /\ \E form \in {"login", "signup"}, correct \in BOOLEAN :
       view = SignIn!Mounted(form, correct /\ server)

\* A page under /projects is rendered for a session that the services accept.
Init ==
  /\ sent = "no"
  /\ \/ /\ session = "good"
        /\ \/ OpensLive \/ OpensSheet \/ OpensStats \/ OpensLogs \/ OpensKeys
           \/ OpensKeyForm \/ OpensSettings \/ OpensProjects \/ OpensGuide
     \/ session \in Session /\ OpensSignIn

-----------------------------------------------------------------------------
LiveSteps == page = "live" /\ Live!Step /\ UNCHANGED <<server, sent, session>>

EventArrives == page = "live" /\ Live!Ingest /\ UNCHANGED <<sent, session>>

SheetSteps ==
  /\ page = "sheet"
  /\ Sheet!Step \/ \E e \in Event : Sheet!Select(e)
  /\ UNCHANGED <<server, sent, session>>

StatsSteps == page = "stats" /\ Stats!Step /\ UNCHANGED <<server, sent, session>>

LogsSteps == page = "logs" /\ Logs!Step /\ UNCHANGED <<server, session>>

KeysSteps == page = "keys" /\ Keys!Step /\ UNCHANGED session

KeyFormSteps == page = "key settings" /\ KeyForm!Step /\ UNCHANGED session

SettingsSteps == page = "settings" /\ Settings!Step /\ UNCHANGED session

ProjectsSteps == page = "projects" /\ Projects!Step /\ UNCHANGED session

GuideSteps == page = "integrate" /\ Guide!Step /\ UNCHANGED <<server, sent, session>>

SignInSteps == page = "sign in" /\ SignIn!Step

\* External: the token ends; the cookie ends, or another tab signs out.
SessionEnds ==
  /\ page # "sign in" /\ sent = "no"
  /\ \/ session = "good" /\ session' \in {"stale", "none"}
     \/ session = "stale" /\ session' = "none"
  /\ UNCHANGED <<view, server, sent>>

Next ==
  /\ \/ LiveSteps \/ EventArrives \/ SheetSteps \/ StatsSteps \/ LogsSteps
     \/ KeysSteps \/ KeyFormSteps \/ SettingsSteps \/ ProjectsSteps \/ GuideSteps
     \/ SignInSteps \/ SessionEnds
  /\ page' = page

Spec == Init /\ [][Next]_vars

-----------------------------------------------------------------------------
\* Every field of the open page is in its range.
TypeOK ==
  /\ session \in Session
  /\ page = "live"         => Live!TailTypeOK
  /\ page = "sheet"        => Sheet!SheetTypeOK
  /\ page = "stats"        => Stats!StatsTypeOK
  /\ page = "logs"         => Logs!ListTypeOK
  /\ page = "keys"         => Keys!KeysTypeOK
  /\ page = "key settings" => KeyForm!FormTypeOK
  /\ page = "settings"     => Settings!SettingsTypeOK
  /\ page = "projects"     => Projects!ProjectsTypeOK
  /\ page = "integrate"    => Guide!GuideTypeOK
  /\ page = "sign in"      => SignIn!AccountTypeOK

\* What a page shows was asked for by its controls as they are now, and no
\* answer to an earlier question stays: the polls behind the rows of the live
\* tail, the figures, the rows of the logs page, the snippets and the details of
\* an event.  What the services make of the question is theirs: the route
\* handler of the live tail does not pass the direction on, so the rows of its
\* tabs are not of their direction.
ShownWasAskedFor ==
  /\ page = "live"  => Live!RowsAreOfItsPolls
  /\ page = "sheet" => Sheet!SheetIsHonest
  /\ page = "stats" => Stats!FiguresAnswerFilters
  /\ page = "logs"  => Logs!FormTellsTheRows
  /\ page = "integrate" => Guide!SnippetIsCurrent

\* The lists are true to what they stand for: the rows of the live tail to the
\* ids it has seen, the figures of the analytics page to each other, keys and
\* projects to auth-api after every write whose outcome the page knows.
ListsAreTrue ==
  /\ page = "live"     => Live!ListIsCoherent /\ Live!HiddenHasACause
  /\ page = "stats"    => Stats!FiguresAgree
  /\ page = "keys"     => Keys!KeyListIsFresh
  /\ page = "projects" => Projects!ProjectListIsFresh

\* The secret of a key made in the header's dialog stays there until the user
\* says it is saved (keys/create-dialog.tsx).
SecretIsKeptOrSaved == page = "keys" => Keys!SecretIsKeptOrSaved

\* create-dialog.tsx says so of every key ("the user always lands with the
\* key"); the dialog of the empty list is unmounted by its own answer.
NoSecretIsLost == page = "keys" => Keys!NoSecretIsLost

\* What the forms write: Save of a key writes the user's edits, and for the
\* rest what the form was mounted with, which undoes a change made elsewhere
\* since; the retention the page says is saved is in force, and a project is
\* deleted only when its name was typed (settings of a key and of a project).
WritesAreExplained ==
  /\ page = "key settings" => KeyForm!UneditedGoesBack
  /\ page = "settings" => Settings!ToldIsInForce /\ Settings!DeletionWasConfirmed

\* A browser is sent to a project, to its projects, or to "not found" only
\* when that is so (the layout of a project, the two account forms).
SentWhereItBelongs ==
  /\ page = "projects" => Projects!OpeningIsHonest
  /\ page = "sign in"  => SignIn!SignInIsHonest
=============================================================================
