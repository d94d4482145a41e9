----------------------------- MODULE ProjectsPage -----------------------------
(***************************************************************************)
(* The list of projects, its create dialogs, and the layout that opens one *)
(* project.  As on the keys page, one dialog is in the header and one in   *)
(* the note that stands for an empty list.  External: auth-api; another    *)
(* tab that deletes a project.                                             *)
(***************************************************************************)
EXTENDS Integers, Sequences, DashboardApi

CONSTANTS
  Project,   \* projects of the user
  NoProject,
  MaxCalls   \* bound: server actions that wait or run

ProjectAssumption == NoProject \notin Project /\ MaxCalls \in Nat \ {0}

VARIABLES
  projects,  \* the page's state, see ProjectsState
  table,     \* SUBSET Project: the rows at auth-api
  sent,      \* where the browser was sent: "no", "project", "notfound", ...
  session

Place == {"header", "empty"}

NotOpen == [open |-> FALSE, pending |-> FALSE]

\* A server action that waits or runs: the dialog that made it, and whether
\* that one, not another in its place, is mounted.
Call == [at : Place, mounted : BOOLEAN]

\* calls: the server actions that wait or run.  The rest is history:
\* unsure: a project may have been created or deleted unseen;
\* entered: the project that was opened; blind: it was opened while the list
\* could not be read.
ProjectsState ==
  [listed : SUBSET Project, error : BOOLEAN,
   create : [Place -> [open : BOOLEAN, pending : BOOLEAN]],
   calls : Seq(Call), refresh : BOOLEAN,
   unsure : BOOLEAN, entered : Project \cup {NoProject}, blind : BOOLEAN]

Mounted(listed) ==
  [listed |-> listed, error |-> FALSE, create |-> [p \in Place |-> NotOpen],
   calls |-> <<>>, refresh |-> FALSE,
   unsure |-> FALSE, entered |-> NoProject, blind |-> FALSE]

\* A list with projects has no note, and the dialog in it is unmounted.
StillMounted(listed, c) ==
  IF c.at = "header" \/ listed = {} THEN c ELSE [c EXCEPT !.mounted = FALSE]

\* The page with another list.
Render(t, listed, error) ==
  [t EXCEPT !.listed = listed, !.error = error,
            !.create["empty"] = IF listed = {} THEN @ ELSE NotOpen,
            !.calls = [i \in DOMAIN @ |-> StillMounted(listed, @[i])]]

\* ProjectsPage on the server, with the answer a to listProjects.
ProjectsPageRenders(t, rows, a) ==
  LET result == PageResult(session, AuthRequest(a))
  IN  CASE result = "page"  -> projects' = Render(t, rows, FALSE) /\ UNCHANGED sent
        [] result = "throw" -> projects' = Render(t, {}, TRUE) /\ UNCHANGED sent
        [] OTHER            -> projects' = t /\ sent' = result

Open(p) ==
  /\ \A x \in Place : ~projects.create[x].open
  /\ p = "empty" => projects.listed = {}
  /\ projects' = [projects EXCEPT !.create[p].open = TRUE]
  /\ UNCHANGED <<table, sent>>

\* The cross, Escape or Cancel.
Close(p) ==
  /\ projects.create[p].open
  /\ projects' = [projects EXCEPT !.create[p].open = FALSE]
  /\ UNCHANGED <<table, sent>>

\* The input must not be empty.
Submit(p) ==
  /\ projects.create[p].open /\ ~projects.create[p].pending
  /\ Len(projects.calls) < MaxCalls
  /\ projects' = [projects EXCEPT !.create[p].pending = TRUE,
                                  !.calls = Append(@, [at |-> p, mounted |-> TRUE])]
  /\ UNCHANGED <<table, sent>>

\* createProject with the trimmed name, which may be empty, and what the
\* dialog does with its result.  The row of a new project is n.
Created(p, n) ==
  /\ projects.calls # <<>> /\ Head(projects.calls).at = p
  /\ n \notin table
  /\ \E blank \in BOOLEAN, a \in Answers(session), done \in BOOLEAN :
       LET mounted == Head(projects.calls).mounted
           t == [projects EXCEPT !.calls = Tail(@)]
           result == IF ~HasSession(session) THEN "rejected"
                     ELSE IF blank THEN "error"
                     ELSE ActionResult(session, AuthRequest(a))
       IN  /\ done \in (IF blank THEN {FALSE} ELSE MayBeDone(session, a))
           /\ table' = IF done THEN table \cup {n} ELSE table
           /\ CASE result = "rejected" -> projects' = t /\ sent' = "error"
                [] result = "error" ->
                     /\ projects' = [t EXCEPT !.create[p].pending = @ /\ ~mounted,
                                              !.unsure = @ \/ done]
                     /\ UNCHANGED sent
                [] result = "ok" ->
                     \E b \in Answers(session) :
                       ProjectsPageRenders([t EXCEPT !.create[p] = IF mounted THEN NotOpen ELSE @,
                                                     !.refresh = TRUE], table', b)

Refreshed ==
  /\ projects.refresh
  /\ \E a \in Answers(session) :
       ProjectsPageRenders([projects EXCEPT !.refresh = FALSE], table, a)
  /\ UNCHANGED table

\* Mutant of Layout: a list that cannot be read counts as one without it.
LayoutStrict(id, listed) == IF id \notin listed THEN "notfound" ELSE "project"

\* ProjectLayout: listed is empty also when it cannot be read.
Layout(id, listed) ==
  IF id \notin listed /\ listed # {} THEN "notfound" ELSE "project"

\* A card of the list is clicked; the layout reads the projects again.
Enter(id) ==
  /\ id \in projects.listed
  /\ \A x \in Place : ~projects.create[x].open
  /\ \E a \in Answers(session) :
       LET result == PageResult(session, AuthRequest(a))
       IN  /\ sent' = CASE result = "page"  -> Layout(id, table)
                        [] result = "throw" -> Layout(id, {})
                        [] OTHER            -> result
           /\ projects' = [projects EXCEPT !.entered = id,
                                           !.blind = (result = "throw")]
  /\ UNCHANGED table

\* External: another tab.
DeletedElsewhere(id) ==
  /\ id \in table
  /\ table' = table \ {id}
  /\ projects' = [projects EXCEPT !.unsure = TRUE]
  /\ UNCHANGED sent

Step ==
  /\ sent = "no"
  /\ \/ Refreshed
     \/ \E p \in Place :
          Open(p) \/ Close(p) \/ Submit(p) \/ \E n \in Project : Created(p, n)
     \/ \E id \in Project : Enter(id) \/ DeletedElsewhere(id)

-----------------------------------------------------------------------------
\* Every field is in its range.
ProjectsTypeOK ==
  /\ projects \in ProjectsState
  /\ table \subseteq Project

\* With nothing in progress and no error, the list is the table at auth-api,
\* unless the answer to a write was lost or another tab wrote.
ProjectListIsFresh ==
  sent = "no" /\ projects.calls = <<>> /\ ~projects.refresh /\ ~projects.error =>
    projects.listed = table \/ projects.unsure

\* A project that exists is never "not found", and one that does not opens
\* only when the list could not be read or is empty.
OpeningIsHonest ==
  /\ sent = "notfound" => projects.entered \notin table
  /\ sent = "project" =>
       projects.entered \in table \/ projects.blind \/ table = {}
=============================================================================
