--------------------------- MODULE ProjectSettings ---------------------------
(***************************************************************************)
(* The settings page of a project: the retention form and the button that  *)
(* deletes the project, which asks for the project's name.                 *)
(* External: auth-api; another tab that changes the retention.             *)
(***************************************************************************)
EXTENDS Integers, DashboardApi

CONSTANTS
  Days,      \* numbers of days considered, in the forms and at auth-api
  Offered,   \* the presets of the select
  OtherDays  \* its entry for other days

SettingsAssumption ==
  /\ Days \subseteq Int
  /\ Offered \subseteq Days \cap (1 .. 90) /\ OtherDays \notin Int
  /\ \E d \in Days : d \in 1 .. 90

VARIABLES
  settings,  \* the page's state, see SettingsState
  project,   \* [exists, retention]: the row at auth-api
  sent,      \* where the browser was sent: "no", "projects", "error", ...
  session

\* The retention form: initial is the value the page was rendered with; told
\* the days the feedback says are saved; saving those of the action that runs.
\* The delete dialog: typed: the input holds the name.  deleting: the action
\* runs.  The rest is history: now: the name was typed since the dialog was
\* opened; left: Cancel left it typed; moved: the retention was changed
\* elsewhere; asked: how the last delete was confirmed.
NoDays == 0

SettingsState ==
  [initial : Days, preset : Offered \cup {OtherDays}, custom : Days,
   saving : Days \cup {NoDays}, told : Days \cup {NoDays}, moved : BOOLEAN,
   open : BOOLEAN, typed : BOOLEAN, deleting : BOOLEAN,
   now : BOOLEAN, left : BOOLEAN, asked : {"no", "typed", "left", "neither"}]

Mounted(row) ==
  [initial |-> row.retention,
   preset |-> IF row.retention \in Offered THEN row.retention ELSE OtherDays,
   custom |-> row.retention,
   saving |-> NoDays, told |-> NoDays, moved |-> FALSE,
   open |-> FALSE, typed |-> FALSE, deleting |-> FALSE,
   now |-> FALSE, left |-> FALSE, asked |-> "no"]

-----------------------------------------------------------------------------
(* The page. *)

\* SettingsPage on the server, rendered again: t with the answer a to
\* getProject.  Every error but a redirect is a page that is not found.
SettingsPageRenders(t, row, a) ==
  LET result == PageResult(session, AuthRequest(a))
  IN  IF result = "page" /\ row.exists
      THEN settings' = [t EXCEPT !.initial = row.retention] /\ UNCHANGED sent
      ELSE /\ settings' = t
           /\ sent' = IF result \in {"page", "throw"} THEN "notfound" ELSE result

-----------------------------------------------------------------------------
(* The retention form. *)

ChosenDays == IF settings.preset = OtherDays THEN settings.custom ELSE settings.preset

IsValid(d) == d \in 1 .. 90

SetPreset(p) ==
  /\ p # settings.preset
  /\ settings' = [settings EXCEPT !.preset = p]
  /\ UNCHANGED <<project, sent>>

SetCustom(d) ==
  /\ settings.preset = OtherDays /\ d # settings.custom
  /\ settings' = [settings EXCEPT !.custom = d]
  /\ UNCHANGED <<project, sent>>

\* Mutant of SubmitRetention: the feedback of the last save stays.
SubmitRetentionQuietly ==
  /\ IsValid(ChosenDays) /\ ChosenDays # settings.initial /\ settings.saving = NoDays
  /\ settings' = [settings EXCEPT !.saving = ChosenDays]
  /\ UNCHANGED <<project, sent>>

SubmitRetention ==
  /\ IsValid(ChosenDays) /\ ChosenDays # settings.initial /\ settings.saving = NoDays
  /\ settings' = [settings EXCEPT !.saving = ChosenDays, !.told = NoDays]
  /\ UNCHANGED <<project, sent>>

\* setRetention checks the days again, and catches everything.
RetentionAnswered ==
  /\ settings.saving # NoDays
  /\ \E a \in Answers(session), done \in BOOLEAN :
       LET result == ActionResult(session, AuthRequest(a))
           t      == [settings EXCEPT !.saving = NoDays]
       IN  /\ done \in MayBeDone(session, a)
           /\ project' = IF done /\ project.exists /\ IsValid(settings.saving)
                         THEN [project EXCEPT !.retention = settings.saving]
                         ELSE project
           /\ CASE result = "rejected" -> settings' = t /\ sent' = "error"
                [] result = "error" \/ ~project.exists -> settings' = t /\ UNCHANGED sent
                [] OTHER ->
                     \E b \in Answers(session) :
                       SettingsPageRenders([t EXCEPT !.told = settings.saving],
                                           project', b)

\* External: another tab.
RetentionElsewhere(d) ==
  /\ project.exists /\ IsValid(d) /\ d # project.retention
  /\ project' = [project EXCEPT !.retention = d]
  /\ settings' = [settings EXCEPT !.moved = TRUE]
  /\ UNCHANGED sent

-----------------------------------------------------------------------------
(* The delete button. *)

OpenDelete ==
  /\ ~settings.open
  /\ settings' = [settings EXCEPT !.open = TRUE, !.now = FALSE]
  /\ UNCHANGED <<project, sent>>

\* Mutant of DismissDelete: the input keeps the name.
DismissAndKeep ==
  /\ settings.open
  /\ settings' = [settings EXCEPT !.open = FALSE]
  /\ UNCHANGED <<project, sent>>

\* onOpenChange(false)
DismissDelete ==
  /\ settings.open
  /\ settings' = [settings EXCEPT !.open = FALSE, !.typed = FALSE, !.left = FALSE]
  /\ UNCHANGED <<project, sent>>

\* Cancel: setOpen alone.
CancelDelete ==
  /\ settings.open
  /\ settings' = [settings EXCEPT !.open = FALSE, !.left = settings.typed]
  /\ UNCHANGED <<project, sent>>

TypeName(same) ==
  /\ settings.open /\ same # settings.typed
  /\ settings' = [settings EXCEPT !.typed = same, !.now = same, !.left = FALSE]
  /\ UNCHANGED <<project, sent>>

SubmitDelete ==
  /\ settings.open /\ settings.typed /\ ~settings.deleting
  /\ settings' = [settings EXCEPT !.deleting = TRUE,
                    !.asked = IF settings.now THEN "typed"
                              ELSE IF settings.left THEN "left" ELSE "neither"]
  /\ UNCHANGED <<project, sent>>

\* deleteProjectAction: its redirect to the list of projects is outside the
\* try, that of a stale session inside.
DeleteAnswered ==
  /\ settings.deleting
  /\ \E a \in Answers(session), done \in BOOLEAN :
       LET result == ActionResult(session, DeleteProjectCall(a))
       IN  /\ done \in MayBeDone(session, a)
           /\ project' = [project EXCEPT !.exists = @ /\ ~done]
           /\ settings' = [settings EXCEPT !.deleting = FALSE]
           /\ sent' = CASE result = "rejected" -> "error"
                        [] result = "error"    -> sent
                        [] result = "ok"       -> "projects"

Step ==
  /\ sent = "no"
  /\ \/ SubmitRetention \/ RetentionAnswered
     \/ \E p \in Offered \cup {OtherDays} : SetPreset(p)
     \/ \E d \in Days : SetCustom(d) \/ RetentionElsewhere(d)
     \/ OpenDelete \/ DismissDelete \/ CancelDelete \/ SubmitDelete \/ DeleteAnswered
     \/ \E b \in BOOLEAN : TypeName(b)

-----------------------------------------------------------------------------
\* Every field is in its range.
SettingsTypeOK ==
  /\ settings \in SettingsState
  /\ project \in [exists : BOOLEAN, retention : Days]

\* The days the form says are saved are those in force, unless another tab
\* changed them; and they are between 1 and 90.
ToldIsInForce ==
  /\ settings.told # NoDays /\ ~settings.moved => project.retention = settings.told
  /\ project.retention \in 1 .. 90

\* A project is deleted only after its name was typed since the dialog was
\* opened, or was left in it by Cancel.
DeletionWasConfirmed ==
  /\ settings.asked # "neither"
  /\ ~project.exists => settings.asked # "no"
=============================================================================
