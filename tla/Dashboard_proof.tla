--------------------------- MODULE Dashboard_proof ---------------------------
(***************************************************************************)
(* Proofs about the ten pages.  A page stays open, so each has an          *)
(* invariant of its own under page = "...", and a pair of lemmas: Init...  *)
(* and Next....  First the pages that write (the settings of a key and of  *)
(* a project, the list of projects, the account forms, the keys and their  *)
(* secrets), then those that read (live tail, sheet, analytics, logs,      *)
(* integration guide).  The theorems about all pages are at the end.       *)
(***************************************************************************)
EXTENDS Dashboard, FiniteSetTheorems, TLAPS

\* Without constants to depend on: what a step of another page leaves alone.
LEMMA PageStays ==
  ASSUME [Next]_vars
  PROVE  page' = page
BY DEF Next, vars

-----------------------------------------------------------------------------
(* The settings of a key. *)

\* Where nobody has edited the field, the form holds and a save would write what
\* it was mounted with; so does auth-api, unless somebody else changed it.
FormAgrees(w, f) ==
  f \notin w.edited =>
    /\ w.fields[f] = w.mounted[f]
    /\ w.pending => w.saving[f] = w.mounted[f]

ServerAgrees(w, s, f) == f \notin w.edited \cup w.elsewhere => s[f] = w.mounted[f]

KeyFormInv ==
  page = "key settings" =>
    /\ KeyForm!FormTypeOK
    /\ KeyForm!UneditedGoesBack
    /\ \A f \in Field : FormAgrees(view, f) /\ ServerAgrees(view, server, f)

LEMMA InitKeyForm == Init => KeyFormInv
<1> SUFFICES ASSUME Init, page = "key settings" PROVE KeyFormInv
  BY DEF KeyFormInv
<1>1. server \in [Field -> Value] /\ view = KeyForm!Mounted(server)
  BY DEF Init, OpensLive, OpensSheet, OpensStats, OpensLogs, OpensKeys, OpensKeyForm,
         OpensSettings, OpensProjects, OpensGuide, OpensSignIn
<1>2. KeyForm!FormTypeOK
  BY <1>1 DEF KeyForm!FormTypeOK, KeyForm!FormState, KeyForm!Mounted
<1> QED
  BY <1>1, <1>2 DEF KeyFormInv, KeyForm!UneditedGoesBack, KeyForm!Mounted,
                    FormAgrees, ServerAgrees

LEMMA NextKeyForm == KeyFormInv /\ [Next]_vars => KeyFormInv'
<1> SUFFICES ASSUME KeyFormInv, [Next]_vars, page = "key settings" PROVE KeyFormInv'
  BY PageStays DEF KeyFormInv
<1>0. page' = page
  BY PageStays
<1> DEFINE Explained(w) == \A f \in Field : \A v \in w.imposed[f] :
                             f \in w.elsewhere /\ v = w.mounted[f]
<1>1. /\ view \in KeyForm!FormState /\ server \in [Field -> Value]
      /\ Explained(view)
      /\ \A f \in Field : FormAgrees(view, f) /\ ServerAgrees(view, server, f)
  BY DEF KeyFormInv, KeyForm!FormTypeOK, KeyForm!UneditedGoesBack
<1>2. Zero \in Value /\ Blank \notin Value
  BY PagesAssumption DEF KeyForm!KeySettingsAssumption
<1>a. ASSUME view' \in KeyForm!FormState, server' \in [Field -> Value], Explained(view'),
             \A f \in Field : FormAgrees(view', f) /\ ServerAgrees(view', server', f)
      PROVE  KeyFormInv'
  BY <1>a DEF KeyFormInv, KeyForm!FormTypeOK, KeyForm!UneditedGoesBack, KeyForm!FormState,
              FormAgrees, ServerAgrees
<1>3. CASE UNCHANGED <<view, server>>
  BY <1>1, <1>3, <1>a
<1>4. ASSUME NEW f \in Field, NEW v \in Value \cup {Blank}, KeyForm!Edit(f, v)
      PROVE  KeyFormInv'
  <2>1. /\ view' = [view EXCEPT !.fields = [view.fields EXCEPT ![f] = v],
                                !.edited = view.edited \cup {f}]
        /\ server' = server
    BY <1>4 DEF KeyForm!Edit
  <2>2. view' \in KeyForm!FormState
    BY <1>1, <2>1 DEF KeyForm!FormState
  <2>3. /\ view'.edited = view.edited \cup {f} /\ view'.elsewhere = view.elsewhere
        /\ view'.imposed = view.imposed /\ view'.pending = view.pending
        /\ view'.saving = view.saving /\ view'.mounted = view.mounted
        /\ \A g \in Field : g # f => view'.fields[g] = view.fields[g]
    BY <1>1, <2>1 DEF KeyForm!FormState
  <2>4. ASSUME NEW g \in Field
        PROVE  FormAgrees(view', g) /\ ServerAgrees(view', server', g)
    <3>1. CASE g = f
      BY <2>3, <3>1 DEF FormAgrees, ServerAgrees
    <3>2. CASE g # f
      <4>1. /\ g \in view'.edited => g \in view.edited
            /\ view'.fields[g] = view.fields[g]
            /\ view.edited \subseteq view'.edited
        BY <2>3, <3>2
      <4>2. FormAgrees(view, g) /\ ServerAgrees(view, server, g)
        BY <1>1
      <4>3. FormAgrees(view', g)
        BY <2>3, <4>1, <4>2 DEF FormAgrees
      <4>4. ServerAgrees(view', server', g)
        BY <2>1, <2>3, <4>1, <4>2 DEF ServerAgrees
      <4> QED
        BY <4>3, <4>4
    <3> QED
      BY <3>1, <3>2
  <2>5. Explained(view')
    BY <1>1, <2>3
  <2> QED
    BY <1>a, <1>1, <2>1, <2>2, <2>4, <2>5
<1>5. CASE KeyForm!Submit
  <2>1. /\ view' = [view EXCEPT !.pending = TRUE, !.saving = KeyForm!Payload(view.fields),
                                !.told = FALSE]
        /\ server' = server
    BY <1>5 DEF KeyForm!Submit
  <2>2. /\ KeyForm!Payload(view.fields) \in [Field -> Value]
        /\ \A f \in Field : view.fields[f] # Blank =>
             KeyForm!Payload(view.fields)[f] = view.fields[f]
    BY <1>1, <1>2 DEF KeyForm!Payload, KeyForm!FormState
  <2>3. view' \in KeyForm!FormState
    BY <1>1, <2>1, <2>2 DEF KeyForm!FormState
  <2>4. /\ view'.edited = view.edited /\ view'.elsewhere = view.elsewhere
        /\ view'.imposed = view.imposed /\ view'.fields = view.fields
        /\ view'.mounted = view.mounted
        /\ view'.saving = KeyForm!Payload(view.fields)
    BY <1>1, <2>1 DEF KeyForm!FormState
  <2>5. ASSUME NEW f \in Field
        PROVE  FormAgrees(view', f) /\ ServerAgrees(view', server', f)
    <3>1. view.mounted[f] # Blank
      BY <1>1, <1>2 DEF KeyForm!FormState
    <3>2. FormAgrees(view, f) /\ ServerAgrees(view, server, f)
      BY <1>1
    <3>3. FormAgrees(view', f)
      BY <2>2, <2>4, <3>1, <3>2 DEF FormAgrees
    <3>4. ServerAgrees(view', server', f)
      BY <2>1, <2>4, <3>2 DEF ServerAgrees
    <3> QED
      BY <3>3, <3>4
  <2> QED
    BY <1>a, <1>1, <2>1, <2>3, <2>4, <2>5
<1>6. CASE KeyForm!Saved
  <2>1. view.pending /\ server' \in {server, view.saving}
    BY <1>6 DEF KeyForm!Saved
  <2>2. server' \in [Field -> Value]
    BY <1>1, <2>1 DEF KeyForm!FormState
  <2> DEFINE imposed == [f \in Field |-> view.imposed[f] \cup
                           (IF f \notin view.edited /\ server'[f] # server[f]
                            THEN {server'[f]} ELSE {})]
  <2>3. PICK told \in BOOLEAN :
          view' = [view EXCEPT !.pending = FALSE, !.told = told, !.imposed = imposed]
    BY <1>6, Zenon DEF KeyForm!Saved
  <2>4. imposed \in [Field -> SUBSET Value]
    <3>1. ASSUME NEW f \in Field
          PROVE  view.imposed[f] \cup (IF f \notin view.edited /\ server'[f] # server[f]
                                      THEN {server'[f]} ELSE {}) \in SUBSET Value
      <4>1. view.imposed[f] \subseteq Value /\ server'[f] \in Value
        BY <1>1, <2>2 DEF KeyForm!FormState
      <4> QED
        BY <4>1
    <3> QED
      BY <3>1
  <2>5. ASSUME NEW f \in Field, NEW v \in imposed[f]
        PROVE  f \in view.elsewhere /\ v = view.mounted[f]
    <3>1. CASE v \in view.imposed[f]
      BY <1>1, <3>1
    <3>2. CASE f \notin view.edited /\ server'[f] # server[f] /\ v = server'[f]
      BY <1>1, <2>1, <3>2 DEF FormAgrees, ServerAgrees
    <3> QED
      BY <3>1, <3>2
  <2> HIDE DEF imposed
  <2>6. view' \in KeyForm!FormState
    BY <1>1, <2>3, <2>4 DEF KeyForm!FormState
  <2>7. /\ view'.edited = view.edited /\ view'.elsewhere = view.elsewhere
        /\ view'.fields = view.fields /\ view'.pending = FALSE
        /\ view'.mounted = view.mounted /\ view'.imposed = imposed
    BY <1>1, <2>3 DEF KeyForm!FormState
  <2>8. ASSUME NEW f \in Field
        PROVE  FormAgrees(view', f) /\ ServerAgrees(view', server', f)
    <3>1. FormAgrees(view, f) /\ ServerAgrees(view, server, f)
      BY <1>1
    <3>2. FormAgrees(view', f)
      BY <2>7, <3>1 DEF FormAgrees
    <3>3. f \notin view.edited \cup view.elsewhere => server'[f] = view.mounted[f]
      BY <2>1, <3>1 DEF FormAgrees, ServerAgrees
    <3>4. ServerAgrees(view', server', f)
      BY <2>7, <3>3 DEF ServerAgrees
    <3> QED
      BY <3>2, <3>4
  <2>9. Explained(view')
    BY <2>5, <2>7
  <2> QED
    BY <1>a, <2>2, <2>6, <2>8, <2>9
<1>7. ASSUME NEW f \in Field, NEW v \in Value, KeyForm!EditedElsewhere(f, v)
      PROVE  KeyFormInv'
  <2>1. /\ view' = [view EXCEPT !.elsewhere = view.elsewhere \cup {f}]
        /\ server' = [server EXCEPT ![f] = v]
    BY <1>7 DEF KeyForm!EditedElsewhere
  <2>2. view' \in KeyForm!FormState /\ server' \in [Field -> Value]
    BY <1>1, <2>1 DEF KeyForm!FormState
  <2>3. /\ view'.edited = view.edited /\ view'.elsewhere = view.elsewhere \cup {f}
        /\ view'.imposed = view.imposed /\ view'.pending = view.pending
        /\ view'.saving = view.saving /\ view'.fields = view.fields
        /\ view'.mounted = view.mounted
    BY <1>1, <2>1 DEF KeyForm!FormState
  <2>4. \A g \in Field : g # f => server'[g] = server[g]
    BY <1>1, <2>1
  <2>5. \A g \in Field : FormAgrees(view', g) /\ ServerAgrees(view', server', g)
    BY <1>1, <2>3, <2>4 DEF FormAgrees, ServerAgrees
  <2> QED
    BY <1>a, <1>1, <2>2, <2>3, <2>5
<1>8. CASE KeyForm!Step
  BY <1>4, <1>5, <1>6, <1>7, <1>8 DEF KeyForm!Step
<1>9. CASE Next
  <2>1. KeyFormSteps \/ SessionEnds
    BY <1>9 DEF Next, LiveSteps, EventArrives, SheetSteps, StatsSteps, LogsSteps,
                KeysSteps, SettingsSteps, ProjectsSteps, GuideSteps, SignInSteps
  <2> QED
    BY <1>3, <1>8, <2>1 DEF KeyFormSteps, SessionEnds
<1> QED
  BY <1>3, <1>9 DEF vars
-----------------------------------------------------------------------------
(* The settings of a project. *)

\* Days that are being saved are valid and nothing is said of them yet; a name
\* in the input was typed in this dialog or left there by Cancel; a delete
\* that runs was confirmed.
SettingsInv ==
  page = "settings" =>
    /\ Settings!SettingsTypeOK
    /\ Settings!ToldIsInForce
    /\ Settings!DeletionWasConfirmed
    /\ view.saving # Settings!NoDays =>
         Settings!IsValid(view.saving) /\ view.told = Settings!NoDays
    /\ view.typed => view.now \/ view.left
    /\ ~view.open /\ view.typed => view.left
    /\ view.deleting => view.asked # "no"

\* Only an answer of auth-api makes an action say that it worked; a write
\* behind such an answer was done.
LEMMA OkIsDone ==
  ASSUME NEW a \in Settings!Answers(session), NEW done \in Settings!MayBeDone(session, a),
         \/ Settings!ActionResult(session, Settings!AuthRequest(a)) = "ok"
         \/ Settings!ActionResult(session, Settings!DeleteProjectCall(a)) = "ok"
  PROVE  done = TRUE
<1>1. a \in {"ok", "unauthorized", "failed"}
  BY DEF Settings!Answers
<1>2. a = "ok"
  BY <1>1 DEF Settings!ActionResult, Settings!AuthRequest, Settings!DeleteProjectCall
<1> QED
  BY <1>2 DEF Settings!MayBeDone

LEMMA InitSettings == Init => SettingsInv
<1> SUFFICES ASSUME Init, page = "settings" PROVE SettingsInv
  BY DEF SettingsInv
<1>1. OpensSettings
  BY DEF Init, OpensLive, OpensSheet, OpensStats, OpensLogs, OpensKeys, OpensKeyForm,
         OpensProjects, OpensGuide, OpensSignIn
<1>2. PICK d \in Days \cap (1 .. 90) : server = [exists |-> TRUE, retention |-> d]
  BY <1>1 DEF OpensSettings
<1>3. view = Settings!Mounted(server) /\ server.retention = d /\ server.exists = TRUE
  BY <1>1, <1>2 DEF OpensSettings
<1>4. Settings!SettingsTypeOK
  BY <1>2, <1>3 DEF Settings!SettingsTypeOK, Settings!SettingsState, Settings!Mounted,
                    Settings!NoDays
<1>5. /\ view.told = Settings!NoDays /\ view.saving = Settings!NoDays
      /\ ~view.typed /\ ~view.deleting /\ view.asked = "no"
  BY <1>3 DEF Settings!Mounted
<1> QED
  BY <1>2, <1>3, <1>4, <1>5
     DEF SettingsInv, Settings!ToldIsInForce, Settings!DeletionWasConfirmed

LEMMA NextSettings == SettingsInv /\ [Next]_vars => SettingsInv'
<1> SUFFICES ASSUME SettingsInv, [Next]_vars, page = "settings" PROVE SettingsInv'
  BY PageStays DEF SettingsInv
<1>0. page' = page
  BY PageStays
<1> DEFINE Row == [exists : BOOLEAN, retention : Days]
           Inv(w, s) ==
             /\ w.told # 0 /\ ~w.moved => s.retention = w.told
             /\ s.retention \in 1 .. 90
             /\ w.asked # "neither"
             /\ ~s.exists => w.asked # "no"
             /\ w.saving # 0 => w.saving \in 1 .. 90 /\ w.told = 0
             /\ w.typed => w.now \/ w.left
             /\ ~w.open /\ w.typed => w.left
             /\ w.deleting => w.asked # "no"
<1>1. view \in Settings!SettingsState /\ server \in Row /\ Inv(view, server)
  BY DEF SettingsInv, Settings!SettingsTypeOK, Settings!ToldIsInForce,
         Settings!DeletionWasConfirmed, Settings!IsValid, Settings!NoDays
<1>2. ASSUME view' \in Settings!SettingsState, server' \in Row, Inv(view', server')
      PROVE  SettingsInv'
  BY <1>2 DEF SettingsInv, Settings!SettingsTypeOK, Settings!ToldIsInForce,
              Settings!DeletionWasConfirmed, Settings!IsValid, Settings!NoDays
<1>3. CASE UNCHANGED <<view, server>>
  BY <1>0, <1>1, <1>2, <1>3
<1>4. /\ Days \subseteq Int /\ Offered \subseteq Days \cap (1 .. 90)
      /\ 0 \notin 1 .. 90
  BY PagesAssumption DEF Settings!SettingsAssumption
<1>5. ASSUME NEW p \in Offered \cup {OtherDays}, Settings!SetPreset(p) PROVE SettingsInv'
  <2>1. view' = [view EXCEPT !.preset = p] /\ server' = server
    BY <1>5 DEF Settings!SetPreset
  <2>2. view' \in Settings!SettingsState
    BY <1>1, <2>1 DEF Settings!SettingsState
  <2>3. Inv(view', server')
    BY <1>1, <2>1 DEF Settings!SettingsState
  <2> QED
    BY <1>1, <1>2, <2>1, <2>2, <2>3
<1>6. ASSUME NEW d \in Days, Settings!SetCustom(d) PROVE SettingsInv'
  <2>1. view' = [view EXCEPT !.custom = d] /\ server' = server
    BY <1>6 DEF Settings!SetCustom
  <2>2. view' \in Settings!SettingsState
    BY <1>1, <2>1 DEF Settings!SettingsState
  <2>3. Inv(view', server')
    BY <1>1, <2>1 DEF Settings!SettingsState
  <2> QED
    BY <1>1, <1>2, <2>1, <2>2, <2>3
<1>7. CASE Settings!SubmitRetention
  <2> DEFINE d == Settings!ChosenDays
  <2>1. /\ view' = [view EXCEPT !.saving = d, !.told = 0] /\ server' = server
        /\ d \in 1 .. 90
    BY <1>7 DEF Settings!SubmitRetention, Settings!NoDays, Settings!IsValid
  <2>2. d \in Days
    <3>1. view.custom \in Days /\ view.preset \in Offered \cup {OtherDays}
      BY <1>1 DEF Settings!SettingsState
    <3> QED
      BY <1>4, <3>1 DEF Settings!ChosenDays
  <2> HIDE DEF d
  <2>3. view' \in Settings!SettingsState
    BY <1>1, <2>1, <2>2 DEF Settings!SettingsState, Settings!NoDays
  <2>4. Inv(view', server')
    BY <1>1, <2>1 DEF Settings!SettingsState
  <2> QED
    BY <1>1, <1>2, <2>1, <2>3, <2>4
<1>8. CASE Settings!RetentionAnswered
  <2> DEFINE d    == view.saving
             t    == [view EXCEPT !.saving = Settings!NoDays]
             told == [t EXCEPT !.told = d]
             row  == [server EXCEPT !.retention = d]
  <2>1. d # 0 /\ d \in 1 .. 90 /\ d \in Days
    BY <1>1, <1>8 DEF Settings!RetentionAnswered, Settings!NoDays, Settings!SettingsState
  <2>2. /\ server' \in {server, row}
        /\ \/ view' = t
           \/ /\ server' = row
              /\ view' = told \/ view' = [told EXCEPT !.initial = server'.retention]
    <3>1. PICK a \in Settings!Answers(session), done \in BOOLEAN :
            /\ done \in Settings!MayBeDone(session, a)
            /\ server' = IF done /\ server.exists /\ Settings!IsValid(d) THEN row ELSE server
            /\ LET result == Settings!ActionResult(session, Settings!AuthRequest(a))
               IN  CASE result = "rejected" -> view' = t /\ sent' = "error"
                     [] result = "error" \/ ~server.exists -> view' = t /\ UNCHANGED sent
                     [] OTHER -> \E b \in Settings!Answers(session) :
                                   Settings!SettingsPageRenders(told, server', b)
      BY <1>8 DEF Settings!RetentionAnswered
    <3>2. Settings!ActionResult(session, Settings!AuthRequest(a)) \in {"rejected", "error", "ok"}
      BY DEF Settings!ActionResult
    <3>3. CASE Settings!ActionResult(session, Settings!AuthRequest(a)) = "ok" /\ server.exists
      <4>1. server' = row
        BY <2>1, <3>1, <3>3, OkIsDone DEF Settings!IsValid
      <4>2. PICK b \in Settings!Answers(session) : Settings!SettingsPageRenders(told, server', b)
        BY <3>1, <3>3
      <4>3. view' = told \/ view' = [told EXCEPT !.initial = server'.retention]
        BY <4>2 DEF Settings!SettingsPageRenders
      <4> QED
        BY <4>1, <4>3
    <3>4. CASE ~(Settings!ActionResult(session, Settings!AuthRequest(a)) = "ok" /\ server.exists)
      BY <3>1, <3>2, <3>4
    <3> QED
      BY <3>3, <3>4
  <2>3. /\ row \in Row /\ row.exists = server.exists /\ row.retention = d
    BY <1>1, <2>1
  <2>4. /\ t \in Settings!SettingsState
        /\ t.saving = 0 /\ t.told = 0 /\ t.asked = view.asked /\ t.typed = view.typed
        /\ t.now = view.now /\ t.left = view.left /\ t.open = view.open
        /\ t.deleting = view.deleting
    BY <1>1, <2>1 DEF Settings!SettingsState, Settings!NoDays
  <2> HIDE DEF t
  <2>5. ASSUME NEW w, w = told \/ w = [told EXCEPT !.initial = d]
        PROVE  /\ w \in Settings!SettingsState
               /\ w.saving = 0 /\ w.told = d /\ w.asked = t.asked /\ w.typed = t.typed
               /\ w.now = t.now /\ w.left = t.left /\ w.open = t.open
               /\ w.deleting = t.deleting
    BY <2>1, <2>4, <2>5 DEF Settings!SettingsState, Settings!NoDays
  <2> HIDE DEF told, row
  <2>6. CASE view' = t
    BY <1>1, <1>2, <2>1, <2>2, <2>3, <2>4, <2>6
  <2>7. CASE server' = row /\ (view' = told \/ view' = [told EXCEPT !.initial = d])
    BY <1>1, <1>2, <2>1, <2>3, <2>4, <2>5, <2>7
  <2> QED
    BY <2>2, <2>3, <2>6, <2>7
<1>9. ASSUME NEW d \in Days, Settings!RetentionElsewhere(d) PROVE SettingsInv'
  <2>1. /\ view' = [view EXCEPT !.moved = TRUE] /\ d \in 1 .. 90
        /\ server' = [server EXCEPT !.retention = d]
    BY <1>9 DEF Settings!RetentionElsewhere, Settings!IsValid
  <2>2. view' \in Settings!SettingsState /\ server' \in Row
    BY <1>1, <2>1 DEF Settings!SettingsState
  <2>3. Inv(view', server')
    BY <1>1, <2>1 DEF Settings!SettingsState
  <2> QED
    BY <1>2, <2>2, <2>3
<1>10. CASE Settings!OpenDelete
  <2>1. /\ view' = [view EXCEPT !.open = TRUE, !.now = FALSE] /\ server' = server
        /\ ~view.open
    BY <1>10 DEF Settings!OpenDelete
  <2>2. view' \in Settings!SettingsState
    BY <1>1, <2>1 DEF Settings!SettingsState
  <2>3. Inv(view', server')
    BY <1>1, <2>1 DEF Settings!SettingsState
  <2> QED
    BY <1>1, <1>2, <2>1, <2>2, <2>3
<1>11. CASE Settings!DismissDelete
  <2>1. /\ view' = [view EXCEPT !.open = FALSE, !.typed = FALSE, !.left = FALSE]
        /\ server' = server
    BY <1>11 DEF Settings!DismissDelete
  <2>2. view' \in Settings!SettingsState
    BY <1>1, <2>1 DEF Settings!SettingsState
  <2>3. Inv(view', server')
    BY <1>1, <2>1 DEF Settings!SettingsState
  <2> QED
    BY <1>1, <1>2, <2>1, <2>2, <2>3
<1>12. CASE Settings!CancelDelete
  <2>1. /\ view' = [view EXCEPT !.open = FALSE, !.left = view.typed]
        /\ server' = server
    BY <1>12 DEF Settings!CancelDelete
  <2>2. view' \in Settings!SettingsState
    BY <1>1, <2>1 DEF Settings!SettingsState
  <2>3. Inv(view', server')
    BY <1>1, <2>1 DEF Settings!SettingsState
  <2> QED
    BY <1>1, <1>2, <2>1, <2>2, <2>3
<1>13. ASSUME NEW b \in BOOLEAN, Settings!TypeName(b) PROVE SettingsInv'
  <2>1. /\ view' = [view EXCEPT !.typed = b, !.now = b, !.left = FALSE]
        /\ server' = server /\ view.open
    BY <1>13 DEF Settings!TypeName
  <2>2. view' \in Settings!SettingsState
    BY <1>1, <2>1 DEF Settings!SettingsState
  <2>3. Inv(view', server')
    BY <1>1, <2>1 DEF Settings!SettingsState
  <2> QED
    BY <1>1, <1>2, <2>1, <2>2, <2>3
<1>14. CASE Settings!SubmitDelete
  <2>1. view.now \/ view.left
    BY <1>1, <1>14 DEF Settings!SubmitDelete
  <2>2. PICK asked \in {"typed", "left"} :
          view' = [view EXCEPT !.deleting = TRUE, !.asked = asked] /\ server' = server
    BY <1>14, <2>1 DEF Settings!SubmitDelete
  <2>3. view' \in Settings!SettingsState
    BY <1>1, <2>2 DEF Settings!SettingsState
  <2>4. Inv(view', server')
    BY <1>1, <2>2 DEF Settings!SettingsState
  <2> QED
    BY <1>1, <1>2, <2>2, <2>3, <2>4
<1>15. CASE Settings!DeleteAnswered
  <2>1. /\ view.deleting /\ view' = [view EXCEPT !.deleting = FALSE]
        /\ \E done \in BOOLEAN : server' = [server EXCEPT !.exists = @ /\ ~done]
    BY <1>15 DEF Settings!DeleteAnswered
  <2>2. view' \in Settings!SettingsState
    BY <1>1, <2>1 DEF Settings!SettingsState
  <2>3. server' \in Row /\ server'.retention = server.retention
    BY <1>1, <2>1
  <2>4. Inv(view', server')
    BY <1>1, <2>1, <2>3 DEF Settings!SettingsState
  <2> QED
    BY <1>1, <1>2, <2>1, <2>2, <2>3, <2>4
<1>16. CASE Settings!Step
  BY <1>5, <1>6, <1>7, <1>8, <1>9, <1>10, <1>11, <1>12, <1>13, <1>14, <1>15, <1>16
     DEF Settings!Step
<1>17. CASE Next
  <2>1. SettingsSteps \/ SessionEnds
    BY <1>17 DEF Next, LiveSteps, EventArrives, SheetSteps, StatsSteps, LogsSteps,
                 KeysSteps, KeyFormSteps, ProjectsSteps, GuideSteps, SignInSteps
  <2> QED
    BY <1>3, <1>16, <2>1 DEF SettingsSteps, SessionEnds
<1> QED
  BY <1>3, <1>17 DEF vars

\* A save of a key puts back what the form was mounted with where the user has
\* not edited and somebody else has; what the project's page says is saved is in
\* force; a deletion was confirmed.
THEOREM WritesHaveTheirReasons == Spec => []WritesAreExplained
<1>1. Init => KeyFormInv /\ SettingsInv
  BY InitKeyForm, InitSettings
<1>2. KeyFormInv /\ SettingsInv /\ [Next]_vars => (KeyFormInv /\ SettingsInv)'
  BY NextKeyForm, NextSettings
<1>3. KeyFormInv /\ SettingsInv => WritesAreExplained
  BY DEF KeyFormInv, SettingsInv, WritesAreExplained
<1> QED
  BY <1>1, <1>2, <1>3, PTL DEF Spec
-----------------------------------------------------------------------------
(* The list of projects. *)

ProjectsInv ==
  page = "projects" => Projects!ProjectsTypeOK /\ Projects!OpeningIsHonest

\* A page that is rendered with another list keeps its type.
LEMMA RendersProjects ==
  ASSUME NEW t \in Projects!ProjectsState, NEW listed \in SUBSET Project, NEW e \in BOOLEAN
  PROVE  Projects!Render(t, listed, e) \in Projects!ProjectsState
<1> DEFINE create == [t.create EXCEPT !["empty"] = IF listed = {} THEN @
                                                   ELSE Projects!NotOpen]
           calls  == [i \in DOMAIN t.calls |-> Projects!StillMounted(listed, t.calls[i])]
<1>1. t.calls \in Seq(Projects!Call) /\ DOMAIN t.calls = 1 .. Len(t.calls)
        /\ Len(t.calls) \in Nat
  BY DEF Projects!ProjectsState
<1>2. \A c \in Projects!Call : Projects!StillMounted(listed, c) \in Projects!Call
  BY DEF Projects!StillMounted, Projects!Call
<1>3. calls \in Seq(Projects!Call)
  <2>1. calls \in [1 .. Len(t.calls) -> Projects!Call]
    BY <1>1, <1>2
  <2> QED
    BY <1>1, <2>1
<1>4. create \in [Projects!Place -> [open : BOOLEAN, pending : BOOLEAN]]
  BY DEF Projects!ProjectsState, Projects!NotOpen, Projects!Place
<1>5. Projects!Render(t, listed, e)
        = [t EXCEPT !.listed = listed, !.error = e, !.create = create, !.calls = calls]
  BY Zenon DEF Projects!Render
<1> HIDE DEF create, calls
<1> QED
  BY <1>3, <1>4, <1>5 DEF Projects!ProjectsState

\* What becomes of a page that is rendered on the server.
LEMMA ResultOfPage ==
  ASSUME NEW a \in Projects!Answers(session)
  PROVE  Projects!PageResult(session, Projects!AuthRequest(a))
           \in {"login", "page", "signout", "throw"}
<1>1. a \in {"ok", "unauthorized", "failed"}
  BY DEF Projects!Answers
<1> QED
  BY <1>1 DEF Projects!PageResult, Projects!AuthRequest

LEMMA InitProjects == Init => ProjectsInv
<1> SUFFICES ASSUME Init, page = "projects" PROVE ProjectsInv
  BY DEF ProjectsInv
<1>1. OpensProjects /\ sent = "no"
  BY DEF Init, OpensLive, OpensSheet, OpensStats, OpensLogs, OpensKeys, OpensKeyForm,
         OpensSettings, OpensGuide, OpensSignIn
<1>2. \A listed \in SUBSET Project : Projects!Mounted(listed) \in Projects!ProjectsState
  BY DEF Projects!Mounted, Projects!ProjectsState, Projects!NotOpen
<1>3. Projects!Render(Projects!Mounted({}), {}, TRUE) \in Projects!ProjectsState
  BY <1>2, RendersProjects
<1>4. Projects!ProjectsTypeOK
  BY <1>1, <1>2, <1>3 DEF OpensProjects, Projects!ProjectsTypeOK
<1> QED
  BY <1>1, <1>4 DEF ProjectsInv, Projects!OpeningIsHonest

LEMMA NextProjects == ProjectsInv /\ [Next]_vars => ProjectsInv'
<1> SUFFICES ASSUME ProjectsInv, [Next]_vars, page = "projects" PROVE ProjectsInv'
  BY PageStays DEF ProjectsInv
<1>0. page' = page
  BY PageStays
<1>1. view \in Projects!ProjectsState /\ server \subseteq Project
      /\ Projects!OpeningIsHonest
  BY DEF ProjectsInv, Projects!ProjectsTypeOK
<1>2. ASSUME view' \in Projects!ProjectsState, server' \subseteq Project,
             sent' \notin {"project", "notfound"}
      PROVE  ProjectsInv'
  BY <1>2 DEF ProjectsInv, Projects!ProjectsTypeOK, Projects!OpeningIsHonest
<1>3. CASE UNCHANGED <<view, server, sent>>
  BY <1>0, <1>1, <1>3 DEF ProjectsInv, Projects!ProjectsTypeOK, Projects!OpeningIsHonest
<1> DEFINE Dialog == [open : BOOLEAN, pending : BOOLEAN]
<1>4. /\ DOMAIN view.create = Projects!Place /\ view.create \in [Projects!Place -> Dialog]
      /\ view.calls \in Seq(Projects!Call)
  BY <1>1 DEF Projects!ProjectsState
<1>5. ASSUME NEW t \in Projects!ProjectsState, NEW rows \in SUBSET Project,
             NEW a \in Projects!Answers(session),
             Projects!ProjectsPageRenders(t, rows, a), sent = "no"
      PROVE  view' \in Projects!ProjectsState /\ sent' \notin {"project", "notfound"}
  <2> DEFINE result == Projects!PageResult(session, Projects!AuthRequest(a))
  <2>1. CASE result = "page"
    BY <1>5, <2>1, RendersProjects DEF Projects!ProjectsPageRenders
  <2>2. CASE result = "throw"
    BY <1>5, <2>2, RendersProjects DEF Projects!ProjectsPageRenders
  <2>3. CASE result \in {"login", "signout"}
    BY <1>5, <2>3 DEF Projects!ProjectsPageRenders
  <2> QED
    BY <2>1, <2>2, <2>3, ResultOfPage
<1>6. ASSUME NEW p \in Projects!Place, sent = "no", Projects!Open(p) \/ Projects!Close(p)
      PROVE  ProjectsInv'
  <2>1. PICK open \in BOOLEAN :
          view' = [view EXCEPT !.create = [view.create EXCEPT
                                 ![p] = [view.create[p] EXCEPT !.open = open]]]
    BY <1>6 DEF Projects!Open, Projects!Close
  <2>2. [view.create[p] EXCEPT !.open = open] \in Dialog
    BY <1>4
  <2>3. [view.create EXCEPT ![p] = [view.create[p] EXCEPT !.open = open]]
          \in [Projects!Place -> Dialog]
    BY <1>4, <2>2
  <2>4. view' \in Projects!ProjectsState
    BY <1>1, <2>1, <2>3 DEF Projects!ProjectsState
  <2> QED
    BY <1>1, <1>2, <1>6, <2>4 DEF Projects!Open, Projects!Close
<1>7. ASSUME NEW p \in Projects!Place, sent = "no", Projects!Submit(p)
      PROVE  ProjectsInv'
  <2> DEFINE create == [view.create EXCEPT ![p] = [view.create[p] EXCEPT !.pending = TRUE]]
             calls  == Append(view.calls, [at |-> p, mounted |-> TRUE])
  <2>1. view' = [view EXCEPT !.create = create, !.calls = calls]
    BY <1>7 DEF Projects!Submit
  <2>2. [view.create[p] EXCEPT !.pending = TRUE] \in Dialog
    BY <1>4
  <2>3. create \in [Projects!Place -> Dialog] /\ calls \in Seq(Projects!Call)
    BY <1>4, <2>2 DEF Projects!Call
  <2> HIDE DEF create, calls
  <2>4. view' \in Projects!ProjectsState
    BY <1>1, <2>1, <2>3 DEF Projects!ProjectsState
  <2> QED
    BY <1>1, <1>2, <1>7, <2>4 DEF Projects!Submit
<1>8. ASSUME NEW p \in Projects!Place, NEW n \in Project, sent = "no", Projects!Created(p, n)
      PROVE  ProjectsInv'
  <2> DEFINE t == [view EXCEPT !.calls = Tail(view.calls)]
  <2> DEFINE mounted == Head(view.calls).mounted
  <2>1. Tail(view.calls) \in Seq(Projects!Call) /\ mounted \in BOOLEAN
    <3>1. view.calls # <<>>
      BY <1>8 DEF Projects!Created
    <3>2. Tail(view.calls) \in Seq(Projects!Call) /\ Head(view.calls) \in Projects!Call
      BY <1>4, <3>1
    <3> QED
      BY <3>2 DEF Projects!Call
  <2>2. t \in Projects!ProjectsState
    BY <1>1, <2>1 DEF Projects!ProjectsState
  <2> DEFINE more == [t EXCEPT !.create = [t.create EXCEPT
                                  ![p] = IF mounted THEN Projects!NotOpen ELSE @],
                               !.refresh = TRUE]
  <2>3. more \in Projects!ProjectsState
    BY <2>2 DEF Projects!ProjectsState, Projects!NotOpen
  <2>4. server' \subseteq Project
    BY <1>1, <1>8 DEF Projects!Created
  <2>5. \/ view' = t /\ sent' = "error"
        \/ /\ \E pending, unsure \in BOOLEAN :
                view' = [t EXCEPT !.create = [t.create EXCEPT
                                    ![p] = [t.create[p] EXCEPT !.pending = pending]],
                                  !.unsure = unsure]
           /\ sent' = sent
        \/ \E b \in Projects!Answers(session) :
             Projects!ProjectsPageRenders(more, server', b)
    BY <1>8, <2>2 DEF Projects!Created, Projects!ActionResult, Projects!ProjectsState
  <2>6. CASE view' = t /\ sent' = "error"
    BY <1>2, <2>2, <2>4, <2>6
  <2>7. ASSUME NEW pending \in BOOLEAN, NEW unsure \in BOOLEAN, sent' = sent,
               view' = [t EXCEPT !.create = [t.create EXCEPT
                                    ![p] = [t.create[p] EXCEPT !.pending = pending]],
                                 !.unsure = unsure]
        PROVE  ProjectsInv'
    <3>1. t.create \in [Projects!Place -> Dialog]
      BY <2>2 DEF Projects!ProjectsState
    <3>2. [t.create[p] EXCEPT !.pending = pending] \in Dialog
      BY <3>1
    <3>3. [t.create EXCEPT ![p] = [t.create[p] EXCEPT !.pending = pending]]
            \in [Projects!Place -> Dialog]
      BY <3>1, <3>2
    <3> HIDE DEF t
    <3>4. view' \in Projects!ProjectsState
      BY <2>2, <2>7, <3>3 DEF Projects!ProjectsState
    <3> QED
      BY <1>2, <1>8, <2>4, <2>7, <3>4
  <2>8. ASSUME NEW b \in Projects!Answers(session),
               Projects!ProjectsPageRenders(more, server', b)
        PROVE  ProjectsInv'
    <3> HIDE DEF more
    <3> QED
      BY <1>2, <1>5, <1>8, <2>3, <2>4, <2>8
  <2> QED
    BY <2>5, <2>6, <2>7, <2>8
<1>9. ASSUME sent = "no", Projects!Refreshed PROVE ProjectsInv'
  <2> DEFINE t == [view EXCEPT !.refresh = FALSE]
  <2>1. PICK a \in Projects!Answers(session) : Projects!ProjectsPageRenders(t, server, a)
    BY <1>9 DEF Projects!Refreshed
  <2>2. t \in Projects!ProjectsState
    BY <1>1 DEF Projects!ProjectsState
  <2> HIDE DEF t
  <2>3. server' = server
    BY <1>9 DEF Projects!Refreshed
  <2> QED
    BY <1>1, <1>2, <1>5, <1>9, <2>1, <2>2, <2>3
<1>10. ASSUME NEW id \in Project, sent = "no", Projects!Enter(id) PROVE ProjectsInv'
  <2>1. PICK a \in Projects!Answers(session) :
          LET result == Projects!PageResult(session, Projects!AuthRequest(a))
          IN  /\ sent' = CASE result = "page"  -> Projects!Layout(id, server)
                          [] result = "throw" -> Projects!Layout(id, {})
                          [] OTHER            -> result
              /\ view' = [view EXCEPT !.entered = id, !.blind = (result = "throw")]
    BY <1>10 DEF Projects!Enter
  <2> DEFINE result == Projects!PageResult(session, Projects!AuthRequest(a))
  <2>2. result \in {"login", "page", "signout", "throw"}
    BY ResultOfPage
  <2>3. PICK blind \in BOOLEAN : /\ blind = (result = "throw")
                                 /\ view' = [view EXCEPT !.entered = id, !.blind = blind]
    BY <2>1
  <2>4. /\ sent' = "notfound" => id \notin server
        /\ sent' = "project" => id \in server \/ blind \/ server = {}
    BY <2>1, <2>2, <2>3 DEF Projects!Layout
  <2>5. /\ view' \in Projects!ProjectsState /\ view'.entered = id /\ view'.blind = blind
    BY <1>1, <2>3 DEF Projects!ProjectsState
  <2>6. server' = server
    BY <1>10 DEF Projects!Enter
  <2> QED
    BY <1>1, <2>4, <2>5, <2>6
       DEF ProjectsInv, Projects!ProjectsTypeOK, Projects!OpeningIsHonest
<1>11. ASSUME NEW id \in Project, sent = "no", Projects!DeletedElsewhere(id)
       PROVE  ProjectsInv'
  <2>1. /\ view' = [view EXCEPT !.unsure = TRUE] /\ server' = server \ {id}
        /\ sent' = sent
    BY <1>11 DEF Projects!DeletedElsewhere
  <2>2. view' \in Projects!ProjectsState
    BY <1>1, <2>1 DEF Projects!ProjectsState
  <2> QED
    BY <1>1, <1>2, <1>11, <2>1, <2>2
<1>12. CASE Projects!Step
  BY <1>6, <1>7, <1>8, <1>9, <1>10, <1>11, <1>12 DEF Projects!Step
<1>13. CASE Next
  <2>1. ProjectsSteps \/ SessionEnds
    BY <1>13 DEF Next, LiveSteps, EventArrives, SheetSteps, StatsSteps, LogsSteps,
                 KeysSteps, KeyFormSteps, SettingsSteps, GuideSteps, SignInSteps
  <2> QED
    BY <1>3, <1>12, <2>1 DEF ProjectsSteps, SessionEnds
<1> QED
  BY <1>3, <1>13 DEF vars

-----------------------------------------------------------------------------
(* The two account forms. *)

\* The second call of a sign-up is made for an account that exists.
SignInInv ==
  page = "sign in" =>
    /\ SignIn!AccountTypeOK
    /\ SignIn!SignInIsHonest
    /\ view.form = "signup" /\ view.call = "signin" => server
    /\ session \in Session

LEMMA InitSignIn == Init => SignInInv
<1> SUFFICES ASSUME Init, page = "sign in" PROVE SignInInv
  BY DEF SignInInv
<1>1. OpensSignIn /\ sent = "no" /\ session \in Session
  BY DEF Init, OpensLive, OpensSheet, OpensStats, OpensLogs, OpensKeys, OpensKeyForm,
         OpensSettings, OpensProjects, OpensGuide, Session
<1>2. PICK form \in {"login", "signup"}, correct \in BOOLEAN :
        view = SignIn!Mounted(form, correct /\ server)
  BY <1>1 DEF OpensSignIn
<1>3. server \in BOOLEAN /\ (correct /\ server) \in BOOLEAN
  BY <1>1 DEF OpensSignIn
<1> QED
  BY <1>1, <1>2, <1>3
     DEF SignInInv, SignIn!AccountTypeOK, SignIn!AccountState, SignIn!SignInIsHonest,
         SignIn!Mounted

LEMMA NextSignIn == SignInInv /\ [Next]_vars => SignInInv'
<1> SUFFICES ASSUME SignInInv, [Next]_vars, page = "sign in" PROVE SignInInv'
  BY PageStays DEF SignInInv
<1>0. page' = page
  BY PageStays
<1> DEFINE Inv(w, s, to, cookie) ==
             /\ to = "projects" => cookie = "good" /\ s /\ w.correct
             /\ w.told = "created" => s
             /\ w.pending /\ w.call = "none" => w.rejected
             /\ w.form = "signup" /\ w.call = "signin" => s
             /\ cookie \in Session
<1>1. /\ view \in SignIn!AccountState /\ server \in BOOLEAN
      /\ Inv(view, server, sent, session)
  BY DEF SignInInv, SignIn!AccountTypeOK, SignIn!SignInIsHonest
<1>2. ASSUME view' \in SignIn!AccountState, server' \in BOOLEAN,
             Inv(view', server', sent', session')
      PROVE  SignInInv'
  BY <1>2 DEF SignInInv, SignIn!AccountTypeOK, SignIn!SignInIsHonest
<1>3. CASE UNCHANGED <<view, server, sent, session>>
  BY <1>1, <1>2, <1>3
<1>4. ASSUME sent = "no", SignIn!Submit PROVE SignInInv'
  <2>1. PICK call \in {"signup", "signin"} :
          /\ view' = [view EXCEPT !.pending = TRUE, !.call = call]
          /\ call = "signin" => view.form # "signup"
    BY <1>4 DEF SignIn!Submit
  <2>2. view' \in SignIn!AccountState
    BY <1>1, <2>1 DEF SignIn!AccountState
  <2>3. UNCHANGED <<server, sent, session>>
    BY <1>4 DEF SignIn!Submit
  <2>4. Inv(view', server', sent', session')
    BY <1>1, <2>1, <2>3 DEF SignIn!AccountState
  <2> QED
    BY <1>1, <1>2, <2>2, <2>3, <2>4
<1>5. ASSUME sent = "no", SignIn!Rejects PROVE SignInInv'
  <2>1. /\ view' = [view EXCEPT !.call = "none", !.rejected = TRUE]
        /\ UNCHANGED <<server, sent, session>>
    BY <1>5 DEF SignIn!Rejects
  <2>2. view' \in SignIn!AccountState
    BY <1>1, <2>1 DEF SignIn!AccountState
  <2>3. Inv(view', server', sent', session')
    BY <1>1, <2>1 DEF SignIn!AccountState
  <2> QED
    BY <1>1, <1>2, <2>1, <2>2, <2>3
<1>6. ASSUME sent = "no", SignIn!SignedUp PROVE SignInInv'
  <2>1. PICK answer \in {"ok", "failed"}, done \in BOOLEAN :
          /\ answer = "ok" => done
          /\ server' = (server \/ done)
          /\ view' = IF answer = "ok"
                     THEN [view EXCEPT !.call = "signin", !.correct = TRUE]
                     ELSE [view EXCEPT !.call = "none", !.pending = FALSE,
                             !.told = "failed", !.correct = view.correct \/ done,
                             !.unsure = view.unsure \/ done]
    BY <1>6 DEF SignIn!SignedUp
  <2>2. UNCHANGED <<sent, session>>
    BY <1>6 DEF SignIn!SignedUp
  <2>3. CASE answer = "ok"
    <3>1. view' = [view EXCEPT !.call = "signin", !.correct = TRUE] /\ server'
      BY <2>1, <2>3
    <3>2. view' \in SignIn!AccountState /\ server' \in BOOLEAN
      BY <1>1, <2>1, <3>1 DEF SignIn!AccountState
    <3>3. Inv(view', server', sent', session')
      BY <1>1, <2>2, <3>1 DEF SignIn!AccountState
    <3> QED
      BY <1>2, <3>2, <3>3
  <2>4. CASE answer = "failed"
    <3>1. PICK correct \in BOOLEAN, unsure \in BOOLEAN :
            view' = [view EXCEPT !.call = "none", !.pending = FALSE,
                       !.told = "failed", !.correct = correct, !.unsure = unsure]
      BY <2>1, <2>4
    <3>2. view' \in SignIn!AccountState /\ server' \in BOOLEAN
      BY <1>1, <2>1, <3>1 DEF SignIn!AccountState
    <3>3. Inv(view', server', sent', session')
      BY <1>1, <1>6, <2>2, <3>1 DEF SignIn!AccountState
    <3> QED
      BY <1>2, <3>2, <3>3
  <2> QED
    BY <2>3, <2>4
<1>7. ASSUME sent = "no", SignIn!SignedIn PROVE SignInInv'
  <2> DEFINE t == [view EXCEPT !.call = "none", !.pending = FALSE]
  <2>1. /\ server' = server
        /\ \/ /\ server /\ view.correct
              /\ session' = "good" /\ sent' = "projects" /\ view' = t
           \/ /\ view.form = "signup" /\ session' = session
              /\ sent' = "login" /\ view' = [t EXCEPT !.told = "created"]
           \/ /\ session' = session
              /\ sent' = "no" /\ view' = [t EXCEPT !.told = "invalid"]
    BY <1>7 DEF SignIn!SignedIn, SignIn!Authorize
  <2>2. /\ t \in SignIn!AccountState /\ t.call = "none" /\ t.pending = FALSE
        /\ t.correct = view.correct /\ t.told = view.told
    BY <1>1 DEF SignIn!AccountState
  <2>3. ASSUME NEW told \in {"created", "invalid"}
        PROVE  LET w == [t EXCEPT !.told = told]
               IN  /\ w \in SignIn!AccountState /\ w.call = "none" /\ w.pending = FALSE
                   /\ w.told = told
    BY <2>2 DEF SignIn!AccountState
  <2>4. view.call = "signin"
    BY <1>7 DEF SignIn!SignedIn
  <2> HIDE DEF t
  <2>5. view' \in SignIn!AccountState
    BY <2>1, <2>2, <2>3
  <2>6. Inv(view', server', sent', session')
    <3>1. CASE view' = t /\ session' = "good" /\ sent' = "projects" /\ server /\ view.correct
      BY <1>1, <2>1, <2>2, <3>1 DEF Session
    <3>2. CASE /\ view' = [t EXCEPT !.told = "created"] /\ view.form = "signup"
               /\ session' = session /\ sent' = "login"
      BY <1>1, <2>1, <2>3, <2>4, <3>2
    <3>3. CASE view' = [t EXCEPT !.told = "invalid"] /\ session' = session /\ sent' = "no"
      BY <1>1, <2>1, <2>3, <3>3
    <3> QED
      BY <2>1, <3>1, <3>2, <3>3
  <2> QED
    BY <1>1, <1>2, <2>1, <2>5, <2>6
<1>8. CASE SignIn!Step
  BY <1>4, <1>5, <1>6, <1>7, <1>8 DEF SignIn!Step
<1>9. CASE Next
  <2>1. SignInSteps
    BY <1>9 DEF Next, LiveSteps, EventArrives, SheetSteps, StatsSteps, LogsSteps,
                KeysSteps, KeyFormSteps, SettingsSteps, ProjectsSteps, GuideSteps,
                SessionEnds
  <2> QED
    BY <1>8, <2>1 DEF SignInSteps
<1> QED
  BY <1>3, <1>9 DEF vars

\* A browser is sent where it belongs.
THEOREM BrowserGoesWhereItBelongs == Spec => []SentWhereItBelongs
<1>1. Init => ProjectsInv /\ SignInInv
  BY InitProjects, InitSignIn
<1>2. ProjectsInv /\ SignInInv /\ [Next]_vars => (ProjectsInv /\ SignInInv)'
  BY NextProjects, NextSignIn
<1>3. ProjectsInv /\ SignInInv => SentWhereItBelongs
  BY DEF ProjectsInv, SignInInv, SentWhereItBelongs
<1> QED
  BY <1>1, <1>2, <1>3, PTL DEF Spec

-----------------------------------------------------------------------------
(* The secrets of new keys. *)

\* A call whose result the create dialog at p will get.
Own(c, p) == c.op = "create" /\ c.mounted /\ c.at = p

\* A secret that came to the header's dialog is there, or saved.
SecretsKnown(w) ==
  \A k \in w.delivered["header"] : w.create["header"].created = k \/ k \in w.saved

\* The secret of a dialog is saved if the box is ticked, and the box is not
\* ticked without a secret.
DialogsAgree(w) ==
  \A p \in Keys!Place :
    /\ w.create[p].created = NoKey => w.create[p].confirmedSaved = FALSE
    /\ w.create[p].created # NoKey /\ w.create[p].confirmedSaved
         => w.create[p].created \in w.saved

\* The header is never unmounted.
HeaderStays(w) ==
  \A i \in DOMAIN w.calls : w.calls[i].op = "create" /\ w.calls[i].at = "header" =>
    w.calls[i].mounted

\* A dialog waits for one call at most, and without a secret.
OneCallEach(w) ==
  \A p \in Keys!Place : \A i \in DOMAIN w.calls : Own(w.calls[i], p) =>
    /\ w.create[p].pending /\ w.create[p].created = NoKey
    /\ \A j \in DOMAIN w.calls : Own(w.calls[j], p) => j = i

KeysCore(w) ==
  /\ SecretsKnown(w)
  /\ DialogsAgree(w)
  /\ HeaderStays(w)
  /\ OneCallEach(w)

KeysInv == page = "keys" => Keys!KeysTypeOK /\ KeysCore(view)

\* The first call of the queue is answered.
LEMMA TailOfCalls ==
  ASSUME NEW w \in Keys!KeysState, KeysCore(w), w.calls # <<>>,
         NEW t, t = [w EXCEPT !.calls = Tail(w.calls)]
  PROVE  /\ t \in Keys!KeysState /\ KeysCore(t)
         /\ Head(w.calls) \in Keys!Call
         /\ Head(w.calls).op = "create" /\ Head(w.calls).at = "header"
              => Head(w.calls).mounted
         /\ \A p \in Keys!Place : Own(Head(w.calls), p) =>
              /\ t.create[p].created = NoKey
              /\ \A i \in DOMAIN t.calls : ~Own(t.calls[i], p)
<1>1. /\ w.calls \in Seq(Keys!Call) /\ Len(w.calls) \in Nat \ {0}
      /\ DOMAIN w.calls = 1 .. Len(w.calls)
  BY DEF Keys!KeysState
<1>2. /\ Tail(w.calls) \in Seq(Keys!Call) /\ Head(w.calls) \in Keys!Call
      /\ Head(w.calls) = w.calls[1] /\ 1 \in DOMAIN w.calls
  BY <1>1
<1>3. \A i \in DOMAIN Tail(w.calls) :
        i + 1 \in DOMAIN w.calls /\ i + 1 # 1 /\ Tail(w.calls)[i] = w.calls[i + 1]
          /\ i \in Nat
  BY <1>1
<1>4. t \in Keys!KeysState
  BY <1>2 DEF Keys!KeysState
<1>5. /\ t.calls = Tail(w.calls) /\ t.create = w.create /\ t.delivered = w.delivered
      /\ t.saved = w.saved
  BY DEF Keys!KeysState
<1>6. OneCallEach(w)
  BY DEF KeysCore
<1>7. OneCallEach(t)
  <2> SUFFICES ASSUME NEW p \in Keys!Place, NEW i \in DOMAIN t.calls, Own(t.calls[i], p)
               PROVE  /\ t.create[p].pending /\ t.create[p].created = NoKey
                      /\ \A j \in DOMAIN t.calls : Own(t.calls[j], p) => j = i
    BY DEF OneCallEach
  <2>1. i + 1 \in DOMAIN w.calls /\ Own(w.calls[i + 1], p)
    BY <1>3, <1>5
  <2>2. \A j \in DOMAIN t.calls : Own(t.calls[j], p) => j + 1 = i + 1
    BY <1>3, <1>5, <1>6, <2>1 DEF OneCallEach
  <2>3. \A j \in DOMAIN t.calls : j \in Nat
    BY <1>3, <1>5
  <2> QED
    BY <1>5, <1>6, <2>1, <2>2, <2>3 DEF OneCallEach
<1>8. ASSUME NEW p \in Keys!Place, Own(Head(w.calls), p)
      PROVE  /\ t.create[p].created = NoKey
             /\ \A i \in DOMAIN t.calls : ~Own(t.calls[i], p)
  BY <1>2, <1>3, <1>5, <1>6, <1>8 DEF OneCallEach
<1>9. HeaderStays(t)
  BY <1>3, <1>5 DEF KeysCore, HeaderStays
<1>10. KeysCore(t)
  BY <1>5, <1>7, <1>9 DEF KeysCore, SecretsKnown, DialogsAgree
<1>11. Head(w.calls).op = "create" /\ Head(w.calls).at = "header" => Head(w.calls).mounted
  BY <1>2 DEF KeysCore, HeaderStays
<1> QED
  BY <1>2, <1>4, <1>8, <1>10, <1>11

\* Another list: the secret in a dialog that has no place is taken away.
LEMMA RendersKeys ==
  ASSUME NEW t \in Keys!KeysState, NEW listed \in [Key -> Keys!KeyStatus],
         NEW e \in BOOLEAN, KeysCore(t),
         NEW r, r = Keys!Render(t, listed, e)
  PROVE  /\ r \in Keys!KeysState /\ KeysCore(r)
         /\ \A p \in Keys!Place : r.create[p].created \in {t.create[p].created, NoKey}
         /\ DOMAIN r.calls = DOMAIN t.calls
         /\ \A p \in Keys!Place : \A i \in DOMAIN t.calls :
              Own(r.calls[i], p) => Own(t.calls[i], p)
<1> DEFINE gone   == ~Keys!IsEmpty(listed)
           create == [t.create EXCEPT !["empty"] = IF Keys!IsEmpty(listed) THEN @ ELSE Keys!Closed]
           calls  == [i \in DOMAIN t.calls |-> Keys!StillMounted(listed, t.calls[i])]
           revoke == [k \in Key |-> IF listed[k] = "active" THEN t.revoke[k]
                                                            ELSE Keys!NotOpen]
<1>1. r = [t EXCEPT !.listed = listed, !.error = e, !.calls = calls, !.create = create,
                    !.revoke = revoke]
  BY Zenon DEF Keys!Render
<1>2. /\ t.calls \in Seq(Keys!Call) /\ DOMAIN t.calls = 1 .. Len(t.calls)
      /\ Len(t.calls) \in Nat
      /\ t.create \in [Keys!Place -> Keys!CreateDialog]
      /\ t.revoke \in [Key -> Keys!RevokeDialog]
  BY DEF Keys!KeysState
<1>3. \A c \in Keys!Call : Keys!StillMounted(listed, c) \in Keys!Call
  BY DEF Keys!StillMounted, Keys!Call
<1>4. calls \in Seq(Keys!Call)
  <2>1. calls \in [1 .. Len(t.calls) -> Keys!Call]
    BY <1>2, <1>3
  <2> QED
    BY <1>2, <2>1
<1>5. Keys!Closed \in Keys!CreateDialog /\ Keys!NotOpen \in Keys!RevokeDialog
        /\ "empty" \in Keys!Place /\ "header" \in Keys!Place
  BY DEF Keys!Closed, Keys!CreateDialog, Keys!NotOpen, Keys!RevokeDialog, Keys!Place
<1>6. /\ create \in [Keys!Place -> Keys!CreateDialog]
      /\ create["header"] = t.create["header"]
      /\ create["empty"] = IF gone THEN Keys!Closed ELSE t.create["empty"]
  BY <1>2, <1>5
<1>7. revoke \in [Key -> Keys!RevokeDialog]
  BY <1>2, <1>5
<1>8. \A c \in Keys!Call : \A p \in Keys!Place :
        Own(Keys!StillMounted(listed, c), p) => Own(c, p) /\ (p = "empty" => ~gone)
  BY DEF Keys!StillMounted, Keys!HasPlace, Keys!Call, Own
<1>9. \A i \in DOMAIN t.calls : t.calls[i] \in Keys!Call
        /\ calls[i] = Keys!StillMounted(listed, t.calls[i])
  BY <1>2
<1>10. Keys!Closed.created = NoKey /\ Keys!Closed.confirmedSaved = FALSE
  BY DEF Keys!Closed
<1>11. DOMAIN calls = DOMAIN t.calls
  OBVIOUS
<1>12. \A c \in Keys!Call : c.op = "create" /\ c.at = "header" =>
         Keys!StillMounted(listed, c) = c
  BY DEF Keys!StillMounted, Keys!HasPlace
<1> HIDE DEF create, calls, revoke
<1>13. /\ r \in Keys!KeysState
       /\ r.delivered = t.delivered /\ r.saved = t.saved
       /\ r.create = create /\ r.calls = calls
  BY <1>1, <1>2, <1>4, <1>6, <1>7, ZenonT(40) DEF Keys!KeysState
<1>14. \A p \in Keys!Place : p = "header" \/ p = "empty"
  BY DEF Keys!Place
<1>15. \A p \in Keys!Place : create[p] = t.create[p] \/ (p = "empty" /\ gone /\ create[p] = Keys!Closed)
  BY <1>6, <1>14
<1>16. SecretsKnown(r)
  BY <1>6, <1>13 DEF KeysCore, SecretsKnown
<1>17. DialogsAgree(r)
  BY <1>10, <1>13, <1>15 DEF KeysCore, DialogsAgree
<1>18. OneCallEach(r)
  BY <1>8, <1>9, <1>11, <1>13, <1>15 DEF KeysCore, OneCallEach
<1>19. HeaderStays(r)
  <2> SUFFICES ASSUME NEW i \in DOMAIN t.calls,
                      calls[i].op = "create", calls[i].at = "header"
               PROVE  calls[i].mounted
    BY <1>11, <1>13 DEF HeaderStays
  <2>1. t.calls[i].op = "create" /\ t.calls[i].at = "header"
    BY <1>9 DEF Keys!StillMounted, Keys!Call
  <2> QED
    BY <1>9, <1>12, <2>1 DEF KeysCore, HeaderStays
<1>20. KeysCore(r)
  BY <1>16, <1>17, <1>18, <1>19 DEF KeysCore
<1> QED
  BY <1>8, <1>9, <1>10, <1>11, <1>13, <1>15, <1>20

\* The create dialog at p becomes d: it opens, closes, is ticked or waits.
Becomes(w, u, p, d) ==
  /\ d \in Keys!CreateDialog
  /\ u.create = [w.create EXCEPT ![p] = d] /\ w.saved \subseteq u.saved
  /\ u.delivered = w.delivered
  /\ d.created \in {w.create[p].created, NoKey}
  /\ d.created = NoKey =>
       /\ d.confirmedSaved = FALSE
       /\ w.create[p].created # NoKey => w.create[p].created \in u.saved
  /\ d.created # NoKey /\ d.confirmedSaved => d.created \in u.saved

LEMMA DialogChanges ==
  ASSUME NEW w \in Keys!KeysState, KeysCore(w),
         NEW p \in Keys!Place, NEW d, NEW u \in Keys!KeysState,
         Becomes(w, u, p, d), HeaderStays(u), OneCallEach(u)
  PROVE  KeysCore(u)
<1>1. /\ w.create \in [Keys!Place -> Keys!CreateDialog]
      /\ w.delivered["header"] \subseteq Key
      /\ "header" \in Keys!Place
  BY DEF Keys!KeysState, Keys!Place
<1>2. /\ u.create[p] = d
      /\ \A q \in Keys!Place : q # p => u.create[q] = w.create[q]
  BY <1>1 DEF Becomes
<1>3. NoKey \notin Key
  BY PagesAssumption DEF Keys!KeysAssumption
<1>4. SecretsKnown(u)
  <2> SUFFICES ASSUME NEW k \in w.delivered["header"]
               PROVE  u.create["header"].created = k \/ k \in u.saved
    BY DEF SecretsKnown, Becomes
  <2>1. k # NoKey /\ (w.create["header"].created = k \/ k \in w.saved)
    BY <1>1, <1>3 DEF KeysCore, SecretsKnown
  <2>2. CASE p = "header"
    BY <1>2, <2>1, <2>2 DEF Becomes
  <2>3. CASE p # "header"
    BY <1>1, <1>2, <2>1, <2>3 DEF Becomes
  <2> QED
    BY <2>2, <2>3
<1>5. DialogsAgree(u)
  <2> SUFFICES ASSUME NEW q \in Keys!Place
               PROVE  /\ u.create[q].created = NoKey => u.create[q].confirmedSaved = FALSE
                      /\ u.create[q].created # NoKey /\ u.create[q].confirmedSaved
                           => u.create[q].created \in u.saved
    BY DEF DialogsAgree
  <2>1. CASE q = p
    BY <1>2, <2>1 DEF Becomes
  <2>2. CASE q # p
    BY <1>2, <2>2 DEF Becomes, KeysCore, DialogsAgree
  <2> QED
    BY <2>1, <2>2
<1> QED
  BY <1>4, <1>5 DEF KeysCore

\* A new secret goes to the dialog that waits for it.
LEMMA DeliversKeys ==
  ASSUME NEW t \in Keys!KeysState, KeysCore(t),
         NEW c \in Keys!Call, c.op = "create", NEW k \in Key,
         c.at = "header" => c.mounted,
         \A p \in Keys!Place : Own(c, p) =>
           /\ t.create[p].created = NoKey
           /\ \A i \in DOMAIN t.calls : ~Own(t.calls[i], p),
         NEW u, u = Keys!Deliver(t, c, k)
  PROVE  u \in Keys!KeysState /\ KeysCore(u)
<1> DEFINE p         == c.at
           here      == c.mounted /\ Keys!HasPlace(t.listed, c)
           d         == IF here THEN [t.create[p] EXCEPT !.created = k, !.pending = FALSE]
                                ELSE t.create[p]
           create    == [t.create EXCEPT ![p] = d]
           delivered == [t.delivered EXCEPT ![p] = t.delivered[p] \cup {k}]
<1>1. /\ t.create \in [Keys!Place -> Keys!CreateDialog]
      /\ t.delivered \in [Keys!Place -> SUBSET Key]
      /\ p \in Keys!Place /\ "header" \in Keys!Place
  BY DEF Keys!KeysState, Keys!Call, Keys!Place
<1>2. p = "header" => here
  BY DEF Keys!HasPlace
<1>3. u = [t EXCEPT !.delivered = delivered, !.create = create]
  BY Zenon DEF Keys!Deliver
<1>4. here => /\ t.create[p].created = NoKey /\ t.create[p].confirmedSaved = FALSE
              /\ \A i \in DOMAIN t.calls : ~Own(t.calls[i], p)
  BY <1>1 DEF Own, KeysCore, DialogsAgree
<1>5. /\ t.create[p] \in Keys!CreateDialog
      /\ d \in Keys!CreateDialog
      /\ here => d.created = k /\ d.confirmedSaved = FALSE
      /\ ~here => d = t.create[p]
  <2>1. t.create[p] \in Keys!CreateDialog
    BY <1>1
  <2> HIDE DEF here, p
  <2>2. here => d \in Keys!CreateDialog /\ d.created = k
                  /\ d.confirmedSaved = t.create[p].confirmedSaved
    BY <2>1 DEF Keys!CreateDialog
  <2> QED
    BY <1>4, <2>1, <2>2
<1> HIDE DEF p, here, d
<1>6. /\ create \in [Keys!Place -> Keys!CreateDialog] /\ create[p] = d
      /\ \A q \in Keys!Place : q # p => create[q] = t.create[q]
  BY <1>1, <1>5
<1>7. /\ delivered \in [Keys!Place -> SUBSET Key]
      /\ delivered["header"] = IF p = "header" THEN t.delivered["header"] \cup {k}
                                              ELSE t.delivered["header"]
  BY <1>1
<1> HIDE DEF create, delivered
<1>8. /\ u \in Keys!KeysState
      /\ u.create = create /\ u.delivered = delivered /\ u.saved = t.saved
      /\ u.calls = t.calls
  BY <1>3, <1>6, <1>7 DEF Keys!KeysState
<1>9. SecretsKnown(u)
  <2>1. CASE p = "header"
    <3>1. \A x \in t.delivered["header"] : x \in Key /\ x # NoKey
      BY <1>1, PagesAssumption DEF Keys!KeysAssumption
    <3>2. \A x \in t.delivered["header"] : x \in t.saved
      BY <1>2, <1>4, <2>1, <3>1 DEF KeysCore, SecretsKnown
    <3> QED
      BY <1>2, <1>5, <1>6, <1>7, <1>8, <2>1, <3>2 DEF SecretsKnown
  <2>2. CASE p # "header"
    BY <1>1, <1>6, <1>7, <1>8, <2>2 DEF KeysCore, SecretsKnown
  <2> QED
    BY <2>1, <2>2
<1>10. DialogsAgree(u)
  <2> SUFFICES ASSUME NEW q \in Keys!Place
               PROVE  /\ create[q].created = NoKey => create[q].confirmedSaved = FALSE
                      /\ create[q].created # NoKey /\ create[q].confirmedSaved
                           => create[q].created \in t.saved
    BY <1>8 DEF DialogsAgree
  <2>1. CASE q = p /\ here
    <3>1. k # NoKey
      BY PagesAssumption DEF Keys!KeysAssumption
    <3> QED
      BY <1>5, <1>6, <2>1, <3>1
  <2>2. CASE ~(q = p /\ here)
    BY <1>5, <1>6, <2>2 DEF KeysCore, DialogsAgree
  <2> QED
    BY <2>1, <2>2
<1>11. HeaderStays(u)
  BY <1>8 DEF KeysCore, HeaderStays
<1>12. OneCallEach(u)
  <2> SUFFICES ASSUME NEW q \in Keys!Place, NEW i \in DOMAIN t.calls, Own(t.calls[i], q)
               PROVE  /\ create[q].pending /\ create[q].created = NoKey
                      /\ \A j \in DOMAIN t.calls : Own(t.calls[j], q) => j = i
    BY <1>8 DEF OneCallEach
  <2>1. ~(q = p /\ here)
    BY <1>4
  <2>2. create[q] = t.create[q]
    BY <1>5, <1>6, <2>1
  <2> QED
    BY <2>2 DEF KeysCore, OneCallEach
<1> QED
  BY <1>8, <1>9, <1>10, <1>11, <1>12 DEF KeysCore

\* What else is in the state does not matter.
LEMMA SameSecrets ==
  ASSUME NEW w, NEW u, KeysCore(w),
         u.create = w.create, u.calls = w.calls, u.delivered = w.delivered,
         u.saved = w.saved
  PROVE  KeysCore(u)
BY DEF KeysCore, SecretsKnown, DialogsAgree, HeaderStays, OneCallEach

\* No call is made or answered: a dialog that waits for one goes on waiting.
LEMMA SameCalls ==
  ASSUME NEW w \in Keys!KeysState, NEW u \in Keys!KeysState, NEW p \in Keys!Place,
         NEW d, OneCallEach(w), HeaderStays(w), u.create = [w.create EXCEPT ![p] = d], u.calls = w.calls,
         w.create[p].created = NoKey => d.created = NoKey,
         w.create[p].pending /\ ~d.pending => \A i \in DOMAIN w.calls : ~Own(w.calls[i], p)
  PROVE  OneCallEach(u) /\ HeaderStays(u)
<1>1. /\ w.create \in [Keys!Place -> Keys!CreateDialog] /\ u.create[p] = d
      /\ \A q \in Keys!Place : q # p => u.create[q] = w.create[q]
  BY DEF Keys!KeysState
<1> QED
  BY <1>1 DEF OneCallEach, HeaderStays

\* The page is rendered again, or the browser is sent away.
LEMMA PageRendersKeys ==
  ASSUME NEW t \in Keys!KeysState, NEW table \in [Key -> Keys!KeyStatus],
         KeysCore(t), NEW a, Keys!KeysPageRenders(t, table, a)
  PROVE  view' \in Keys!KeysState /\ KeysCore(view')
<1>1. Keys!NoRows \in [Key -> Keys!KeyStatus]
  BY DEF Keys!NoRows, Keys!KeyStatus
<1>2. \/ view' = Keys!Render(t, table, FALSE)
      \/ view' = Keys!Render(t, Keys!NoRows, TRUE)
      \/ view' = t
  <2> DEFINE result == Keys!PageResult(session, Keys!AuthRequest(a))
  <2>1. CASE result = "page"
    BY <2>1 DEF Keys!KeysPageRenders
  <2>2. CASE result = "throw"
    BY <2>2 DEF Keys!KeysPageRenders
  <2>3. CASE result # "page" /\ result # "throw"
    BY <2>3 DEF Keys!KeysPageRenders
  <2> QED
    BY <2>1, <2>2, <2>3
<1>3. CASE view' = Keys!Render(t, table, FALSE)
  BY <1>3, RendersKeys
<1>4. CASE view' = Keys!Render(t, Keys!NoRows, TRUE)
  BY <1>1, <1>4, RendersKeys
<1> QED
  BY <1>2, <1>3, <1>4

LEMMA InitKeys == Init => KeysInv
<1> SUFFICES ASSUME Init, page = "keys" PROVE KeysInv
  BY DEF KeysInv
<1>1. OpensKeys
  BY DEF Init, OpensLive, OpensSheet, OpensStats, OpensLogs, OpensKeyForm,
         OpensSettings, OpensProjects, OpensGuide, OpensSignIn
<1>2. Keys!NoRows \in [Key -> Keys!KeyStatus]
  BY DEF Keys!NoRows, Keys!KeyStatus
<1>3. ASSUME NEW listed \in [Key -> Keys!KeyStatus]
      PROVE  /\ Keys!Mounted(listed) \in Keys!KeysState
             /\ KeysCore(Keys!Mounted(listed))
  <2> DEFINE m == Keys!Mounted(listed)
  <2>1. /\ \A q \in Keys!Place : m.create[q] = Keys!Closed
        /\ m.delivered["header"] = {} /\ m.calls = <<>>
    BY DEF Keys!Mounted, Keys!Place
  <2>2. Keys!Closed \in Keys!CreateDialog /\ Keys!NotOpen \in Keys!RevokeDialog
          /\ Keys!Closed.created = NoKey /\ Keys!Closed.confirmedSaved = FALSE
    BY DEF Keys!Closed, Keys!CreateDialog, Keys!NotOpen, Keys!RevokeDialog
  <2>3. m \in Keys!KeysState
    BY <2>2 DEF Keys!Mounted, Keys!KeysState
  <2> HIDE DEF m
  <2>4. KeysCore(m)
    BY <2>1, <2>2 DEF KeysCore, SecretsKnown, DialogsAgree, HeaderStays, OneCallEach
  <2> QED
    BY <2>3, <2>4 DEF m
<1>4. view \in Keys!KeysState /\ KeysCore(view)
  BY <1>1, <1>2, <1>3, RendersKeys DEF OpensKeys
<1> QED
  BY <1>1, <1>4 DEF KeysInv, Keys!KeysTypeOK, OpensKeys

LEMMA NextKeys == KeysInv /\ [Next]_vars => KeysInv'
<1> SUFFICES ASSUME KeysInv, [Next]_vars, page = "keys" PROVE KeysInv'
  BY PageStays DEF KeysInv
<1>0. page' = page
  BY PageStays
<1>1. /\ view \in Keys!KeysState /\ server \in [Key -> Keys!KeyStatus]
      /\ KeysCore(view) /\ OneCallEach(view) /\ HeaderStays(view) /\ DialogsAgree(view)
      /\ NoKey \notin Key
  BY PagesAssumption DEF KeysInv, Keys!KeysTypeOK, KeysCore, Keys!KeysAssumption
<1>2. /\ view.create \in [Keys!Place -> Keys!CreateDialog]
      /\ view.revoke \in [Key -> Keys!RevokeDialog]
      /\ view.calls \in Seq(Keys!Call) /\ Len(view.calls) \in Nat
      /\ DOMAIN view.calls = 1 .. Len(view.calls)
      /\ view.saved \subseteq Key
      /\ view.refresh \in BOOLEAN
  BY <1>1 DEF Keys!KeysState
<1>a. ASSUME view' \in Keys!KeysState, server' \in [Key -> Keys!KeyStatus],
             KeysCore(view')
      PROVE  KeysInv'
  BY <1>a DEF KeysInv, Keys!KeysTypeOK, KeysCore, SecretsKnown, DialogsAgree,
              HeaderStays, OneCallEach, Own, Keys!KeysState, Keys!KeyStatus,
              Keys!Place, Keys!CreateDialog, Keys!RevokeDialog, Keys!Call
<1>3. CASE UNCHANGED <<view, server>>
  BY <1>1, <1>3, <1>a
<1>4. ASSUME Keys!Refreshed PROVE KeysInv'
  <2> DEFINE t == [view EXCEPT !.refresh = FALSE]
  <2>1. server' = server /\ \E a \in Keys!Answers(session) : Keys!KeysPageRenders(t, server, a)
    BY <1>4 DEF Keys!Refreshed
  <2>2. /\ t \in Keys!KeysState
        /\ t.create = view.create /\ t.calls = view.calls /\ t.delivered = view.delivered
        /\ t.saved = view.saved
    BY <1>1 DEF Keys!KeysState
  <2> HIDE DEF t
  <2>3. KeysCore(t)
    BY <1>1, <2>2, SameSecrets
  <2> QED
    BY <1>1, <1>a, <2>1, <2>2, <2>3, PageRendersKeys
<1>5. ASSUME NEW p \in Keys!Place, Keys!Open(p) PROVE KeysInv'
  <2> DEFINE d      == [view.create[p] EXCEPT !.open = TRUE]
             create == [view.create EXCEPT ![p] = d]
  <2>1. view' = [view EXCEPT !.create = create] /\ server' = server
    BY <1>5, Zenon DEF Keys!Open
  <2>2. /\ d \in Keys!CreateDialog /\ d.created = view.create[p].created
        /\ d.pending = view.create[p].pending
        /\ d.confirmedSaved = view.create[p].confirmedSaved
    BY <1>2, ZenonT(40) DEF Keys!CreateDialog
  <2>3. create \in [Keys!Place -> Keys!CreateDialog] /\ create = [view.create EXCEPT ![p] = d]
    BY <1>2, <2>2
  <2> HIDE DEF d, create
  <2>4. /\ view' \in Keys!KeysState
        /\ view'.create = create /\ view'.saved = view.saved
        /\ view'.delivered = view.delivered
        /\ view'.calls = view.calls
    BY <1>1, <2>1, <2>3 DEF Keys!KeysState
  <2>5. OneCallEach(view') /\ HeaderStays(view')
    BY <1>1, <2>2, <2>3, <2>4, SameCalls
  <2>6. Becomes(view, view', p, d)
    BY <1>1, <2>2, <2>3, <2>4 DEF Becomes, DialogsAgree
  <2>7. KeysCore(view')
    BY <1>1, <2>4, <2>5, <2>6, DialogChanges
  <2> QED
    BY <1>1, <1>a, <2>1, <2>4, <2>7
<1>6. ASSUME NEW p \in Keys!Place, Keys!Dismiss(p) PROVE KeysInv'
  <2> DEFINE d      == [view.create[p] EXCEPT !.open = FALSE, !.created = NoKey,
                                              !.confirmedSaved = FALSE]
             create == [view.create EXCEPT ![p] = d]
  <2>0. PICK again \in BOOLEAN : again = (view.refresh \/ view.create[p].created # NoKey)
    OBVIOUS
  <2>1. /\ view' = [view EXCEPT !.create = create, !.refresh = again]
        /\ view.create[p].created # NoKey => view.create[p].confirmedSaved
        /\ server' = server
    BY <1>6, <2>0, Zenon DEF Keys!Dismiss
  <2>2. /\ d \in Keys!CreateDialog /\ d.created = NoKey /\ d.confirmedSaved = FALSE
        /\ d.pending = view.create[p].pending
    BY <1>2 DEF Keys!CreateDialog
  <2>3. create \in [Keys!Place -> Keys!CreateDialog] /\ create = [view.create EXCEPT ![p] = d]
    BY <1>2, <2>2
  <2> HIDE DEF d, create
  <2>4. /\ view' \in Keys!KeysState
        /\ view'.create = create /\ view'.saved = view.saved
        /\ view'.delivered = view.delivered
        /\ view'.calls = view.calls
    BY <1>1, <2>1, <2>3 DEF Keys!KeysState
  <2>5. OneCallEach(view') /\ HeaderStays(view')
    BY <1>1, <2>2, <2>3, <2>4, SameCalls
  <2>6. view.create[p].created # NoKey => view.create[p].created \in view.saved
    BY <1>1, <2>1 DEF DialogsAgree
  <2>7. Becomes(view, view', p, d)
    BY <2>2, <2>3, <2>4, <2>6 DEF Becomes
  <2>8. KeysCore(view')
    BY <1>1, <2>4, <2>5, <2>7, DialogChanges
  <2> QED
    BY <1>1, <1>a, <2>1, <2>4, <2>8
<1>7. ASSUME NEW p \in Keys!Place, Keys!Cancel(p) \/ Keys!Done(p) PROVE KeysInv'
  <2> DEFINE d      == [view.create[p] EXCEPT !.open = FALSE]
             create == [view.create EXCEPT ![p] = d]
  <2>1. /\ view' = [view EXCEPT !.create = create]
        /\ view.create[p].created # NoKey => view.create[p].confirmedSaved
        /\ server' = server
    BY <1>7 DEF Keys!Cancel, Keys!Done
  <2>2. /\ d \in Keys!CreateDialog /\ d.created = view.create[p].created
        /\ d.pending = view.create[p].pending
        /\ d.confirmedSaved = view.create[p].confirmedSaved
    BY <1>2, ZenonT(40) DEF Keys!CreateDialog
  <2>3. create \in [Keys!Place -> Keys!CreateDialog] /\ create = [view.create EXCEPT ![p] = d]
    BY <1>2, <2>2
  <2> HIDE DEF d, create
  <2>4. /\ view' \in Keys!KeysState
        /\ view'.create = create /\ view'.saved = view.saved
        /\ view'.delivered = view.delivered
        /\ view'.calls = view.calls
    BY <1>1, <2>1, <2>3 DEF Keys!KeysState
  <2>5. OneCallEach(view') /\ HeaderStays(view')
    BY <1>1, <2>2, <2>3, <2>4, SameCalls
  <2>6. /\ view.create[p].created = NoKey => view.create[p].confirmedSaved = FALSE
        /\ view.create[p].created # NoKey => view.create[p].created \in view.saved
    BY <1>1, <2>1 DEF DialogsAgree
  <2>7. Becomes(view, view', p, d)
    BY <2>2, <2>3, <2>4, <2>6 DEF Becomes
  <2>8. KeysCore(view')
    BY <1>1, <2>4, <2>5, <2>7, DialogChanges
  <2> QED
    BY <1>1, <1>a, <2>1, <2>4, <2>8
<1>8. ASSUME NEW p \in Keys!Place, Keys!ToggleSaved(p) PROVE KeysInv'
  <2> DEFINE k      == view.create[p].created
             d      == [view.create[p] EXCEPT !.confirmedSaved = ~view.create[p].confirmedSaved]
             create == [view.create EXCEPT ![p] = d]
             saved  == view.saved \cup {k}
  <2>1. /\ view' = [view EXCEPT !.create = create, !.saved = saved]
        /\ k # NoKey /\ server' = server
    BY <1>8, Zenon DEF Keys!ToggleSaved
  <2>2. d \in Keys!CreateDialog /\ d.created = k /\ d.pending = view.create[p].pending
    BY <1>2 DEF Keys!CreateDialog
  <2>3. /\ create \in [Keys!Place -> Keys!CreateDialog]
        /\ create = [view.create EXCEPT ![p] = d]
    BY <1>2, <2>2
  <2>4. saved \in SUBSET Key /\ k \in saved /\ view.saved \subseteq saved
    BY <1>2, <2>1 DEF Keys!CreateDialog
  <2> HIDE DEF d, create, saved
  <2>5. /\ view' \in Keys!KeysState
        /\ view'.create = create /\ view'.saved = saved
        /\ view'.delivered = view.delivered
        /\ view'.calls = view.calls
    BY <1>1, <2>1, <2>3, <2>4 DEF Keys!KeysState
  <2>6. OneCallEach(view') /\ HeaderStays(view')
    BY <1>1, <2>2, <2>3, <2>5, SameCalls
  <2>7. Becomes(view, view', p, d)
    BY <2>1, <2>2, <2>3, <2>4, <2>5 DEF Becomes
  <2>8. KeysCore(view')
    BY <1>1, <2>5, <2>6, <2>7, DialogChanges
  <2> QED
    BY <1>1, <1>a, <2>1, <2>5, <2>8
<1>9. ASSUME NEW p \in Keys!Place, Keys!SubmitCreate(p) PROVE KeysInv'
  <2> DEFINE d      == [view.create[p] EXCEPT !.pending = TRUE]
             create == [view.create EXCEPT ![p] = d]
             c      == [op |-> "create", at |-> p, mounted |-> TRUE]
             calls  == Append(view.calls, c)
             n      == Len(view.calls) + 1
  <2>1. /\ view' = [view EXCEPT !.create = create, !.calls = calls]
        /\ view.create[p].created = NoKey /\ ~view.create[p].pending /\ server' = server
    BY <1>9, Zenon DEF Keys!SubmitCreate
  <2>2. /\ d \in Keys!CreateDialog /\ d.created = NoKey /\ d.pending = TRUE
        /\ d.confirmedSaved = view.create[p].confirmedSaved
    BY <1>2, <2>1 DEF Keys!CreateDialog
  <2>3. /\ create \in [Keys!Place -> Keys!CreateDialog] /\ create[p] = d
        /\ create = [view.create EXCEPT ![p] = d]
        /\ \A q \in Keys!Place : q # p => create[q] = view.create[q]
    BY <1>2, <2>2
  <2>4. /\ c \in Keys!Call /\ c.mounted
        /\ Own(c, p) /\ \A q \in Keys!Place : Own(c, q) => q = p
    BY DEF Keys!Call, Own
  <2> HIDE DEF c
  <2>5. /\ calls \in Seq(Keys!Call) /\ DOMAIN calls = 1 .. n /\ calls[n] = c
        /\ n \in Nat
        /\ \A i \in 1 .. n : i # n => i \in DOMAIN view.calls /\ calls[i] = view.calls[i]
    BY <1>2, <2>4
  <2> HIDE DEF d, create, calls, n
  <2>6. /\ view' \in Keys!KeysState
        /\ view'.create = create /\ view'.saved = view.saved
        /\ view'.delivered = view.delivered
        /\ view'.calls = calls
    BY <1>1, <2>1, <2>3, <2>5 DEF Keys!KeysState
  <2>7. \A i \in DOMAIN view.calls : ~Own(view.calls[i], p)
    BY <1>1, <2>1 DEF OneCallEach
  <2>8. OneCallEach(view')
    <3> SUFFICES ASSUME NEW q \in Keys!Place, NEW i \in 1 .. n, Own(calls[i], q)
                 PROVE  /\ create[q].pending /\ create[q].created = NoKey
                        /\ \A j \in 1 .. n : Own(calls[j], q) => j = i
      BY <2>5, <2>6 DEF OneCallEach
    <3>1. CASE q = p
      BY <2>2, <2>3, <2>5, <2>7, <3>1
    <3>2. CASE q # p
      BY <1>1, <2>3, <2>4, <2>5, <3>2 DEF OneCallEach
    <3> QED
      BY <3>1, <3>2
  <2>9. d.confirmedSaved = FALSE
    BY <1>1, <2>1, <2>2 DEF DialogsAgree
  <2>10. Becomes(view, view', p, d)
    BY <2>1, <2>2, <2>3, <2>6, <2>9 DEF Becomes
  <2>11. HeaderStays(view')
    BY <1>1, <2>4, <2>5, <2>6 DEF HeaderStays
  <2>12. KeysCore(view')
    BY <1>1, <2>6, <2>8, <2>10, <2>11, DialogChanges
  <2> QED
    BY <1>1, <1>a, <2>1, <2>6, <2>12
<1>10. ASSUME NEW p \in Keys!Place, NEW k \in Key, Keys!CreateAnswered(p, k) PROVE KeysInv'
  <2> DEFINE c == Head(view.calls)
             t == [view EXCEPT !.calls = Tail(view.calls)]
  <2>1. /\ view.calls # <<>> /\ c.op = "create" /\ c.at = p /\ server[k] = "none"
    BY <1>10 DEF Keys!CreateAnswered
  <2>2. /\ t \in Keys!KeysState /\ KeysCore(t) /\ c \in Keys!Call
        /\ c.at = "header" => c.mounted
        /\ \A q \in Keys!Place : Own(c, q) =>
             t.create[q].created = NoKey /\ \A i \in DOMAIN t.calls : ~Own(t.calls[i], q)
    BY <1>1, <2>1, TailOfCalls
  <2>3. PICK a \in Keys!Answers(session), done \in BOOLEAN :
          /\ done \in Keys!MayBeDone(session, a)
          /\ server' = IF done THEN [server EXCEPT ![k] = "active"] ELSE server
          /\ \/ view' = t
             \/ view' = [t EXCEPT !.create[p].pending = IF c.mounted THEN FALSE ELSE @,
                                  !.unsure = @ \/ done]
             \/ /\ Keys!ActionResult(session, Keys!AuthRequest(a)) = "ok"
                /\ \/ view' = Keys!Deliver(Keys!Render(t, server', FALSE), c, k)
                   \/ view' = Keys!Deliver(Keys!Render(t, Keys!NoRows, TRUE), c, k)
    <3> DEFINE result(a) == Keys!ActionResult(session, Keys!AuthRequest(a))
    <3>1. PICK a \in Keys!Answers(session), done \in BOOLEAN :
            /\ done \in Keys!MayBeDone(session, a)
            /\ server' = IF done THEN [server EXCEPT ![k] = "active"] ELSE server
            /\ CASE result(a) = "rejected" -> view' = t /\ sent' = "error"
                 [] result(a) = "error" ->
                      /\ view' = [t EXCEPT !.create[p].pending = IF c.mounted THEN FALSE ELSE @,
                                           !.unsure = @ \/ done]
                      /\ UNCHANGED sent
                 [] result(a) = "ok" ->
                      \E b \in Keys!Answers(session) :
                        LET r == IF b = "ok" THEN Keys!Render(t, server', FALSE)
                                 ELSE Keys!Render(t, Keys!NoRows, TRUE)
                        IN  view' = Keys!Deliver(r, c, k) /\ UNCHANGED sent
      BY <1>10, Zenon DEF Keys!CreateAnswered
    <3>2. result(a) \in {"rejected", "error", "ok"}
      BY DEF Keys!ActionResult
    <3> HIDE DEF t, c
    <3>3. CASE result(a) = "rejected"
      BY <3>1, <3>3
    <3>4. CASE result(a) = "error"
      BY <3>1, <3>4
    <3>5. CASE result(a) = "ok"
      BY <3>1, <3>5
    <3> QED
      BY <3>1, <3>2, <3>3, <3>4, <3>5
  <2>4. server' \in [Key -> Keys!KeyStatus]
    BY <1>1, <2>3 DEF Keys!KeyStatus
  <2> HIDE DEF c, t
  <2>6. CASE view' = t
    BY <1>a, <2>2, <2>4, <2>6
  <2>7. CASE view' = [t EXCEPT !.create[p].pending = IF c.mounted THEN FALSE ELSE @,
                               !.unsure = @ \/ done]
    <3> DEFINE d      == [t.create[p] EXCEPT !.pending = IF c.mounted THEN FALSE
                                                                     ELSE t.create[p].pending]
               create == [t.create EXCEPT ![p] = d]
    <3>0. PICK unsure \in BOOLEAN : unsure = (t.unsure \/ done)
      OBVIOUS
    <3>1. view' = [t EXCEPT !.create = create, !.unsure = unsure]
      BY <2>7, <3>0, Zenon
    <3>2. /\ t.create \in [Keys!Place -> Keys!CreateDialog]
          /\ c.mounted \in BOOLEAN
      BY <2>2 DEF Keys!KeysState, Keys!Call
    <3>3. /\ d \in Keys!CreateDialog /\ d.created = t.create[p].created
          /\ d.open = t.create[p].open /\ d.confirmedSaved = t.create[p].confirmedSaved
          /\ d.pending = IF c.mounted THEN FALSE ELSE t.create[p].pending
      BY <3>2 DEF Keys!CreateDialog
    <3>4. create \in [Keys!Place -> Keys!CreateDialog] /\ create = [t.create EXCEPT ![p] = d]
      BY <3>2, <3>3
    <3> HIDE DEF d, create
    <3>5. /\ view' \in Keys!KeysState
          /\ view'.create = create /\ view'.saved = t.saved
          /\ view'.delivered = t.delivered
          /\ view'.calls = t.calls
      BY <2>2, <3>1, <3>4 DEF Keys!KeysState
    <3>6. t.create[p].pending /\ ~d.pending => \A i \in DOMAIN t.calls : ~Own(t.calls[i], p)
      BY <2>1, <2>2, <3>3 DEF Own
    <3>7. OneCallEach(view') /\ HeaderStays(view')
      <4>1. OneCallEach(t) /\ HeaderStays(t)
        BY <2>2 DEF KeysCore
      <4>2. view'.create = [t.create EXCEPT ![p] = d] /\ view'.calls = t.calls
        BY <3>4, <3>5
      <4>3. t.create[p].created = NoKey => d.created = NoKey
        BY <3>3
      <4> QED
        BY <2>2, <3>5, <3>6, <4>1, <4>2, <4>3, SameCalls
    <3>8. Becomes(t, view', p, d)
      <4>1. DialogsAgree(t)
        BY <2>2 DEF KeysCore
      <4> QED
        BY <3>3, <3>4, <3>5, <4>1 DEF Becomes, DialogsAgree
    <3>9. KeysCore(view')
      BY <2>2, <3>5, <3>7, <3>8, DialogChanges
    <3> QED
      BY <1>a, <2>4, <3>5, <3>9
  <2>8. CASE /\ Keys!ActionResult(session, Keys!AuthRequest(a)) = "ok"
             /\ \/ view' = Keys!Deliver(Keys!Render(t, server', FALSE), c, k)
                \/ view' = Keys!Deliver(Keys!Render(t, Keys!NoRows, TRUE), c, k)
    <3>2. PICK listed \in [Key -> Keys!KeyStatus], e \in BOOLEAN :
            view' = Keys!Deliver(Keys!Render(t, listed, e), c, k)
      BY <2>4, <2>8 DEF Keys!NoRows, Keys!KeyStatus
    <3> DEFINE r == Keys!Render(t, listed, e)
    <3>3. /\ r \in Keys!KeysState /\ KeysCore(r)
          /\ \A q \in Keys!Place : r.create[q].created \in {t.create[q].created, NoKey}
          /\ DOMAIN r.calls = DOMAIN t.calls
          /\ \A q \in Keys!Place : \A i \in DOMAIN t.calls :
               Own(r.calls[i], q) => Own(t.calls[i], q)
      BY <2>2, RendersKeys
    <3>4. view' = Keys!Deliver(r, c, k)
      BY <3>2
    <3> HIDE DEF r
    <3>5. \A q \in Keys!Place : Own(c, q) =>
            r.create[q].created = NoKey /\ \A i \in DOMAIN r.calls : ~Own(r.calls[i], q)
      BY <2>2, <3>3
    <3>6. view' \in Keys!KeysState /\ KeysCore(view')
      BY <2>1, <2>2, <3>3, <3>4, <3>5, DeliversKeys
    <3> QED
      BY <1>a, <2>4, <3>6
  <2> QED
    BY <2>3, <2>6, <2>7, <2>8
<1>11. ASSUME NEW k \in Key, Keys!OpenRevoke(k) \/ Keys!CloseRevoke(k) PROVE KeysInv'
  <2>1. PICK open \in BOOLEAN :
          /\ view' = [view EXCEPT !.revoke = [view.revoke EXCEPT
                                ![k] = [view.revoke[k] EXCEPT !.open = open]]]
          /\ server' = server
    BY <1>11 DEF Keys!OpenRevoke, Keys!CloseRevoke
  <2>2. [view.revoke EXCEPT ![k] = [view.revoke[k] EXCEPT !.open = open]]
          \in [Key -> Keys!RevokeDialog]
    <3>1. [view.revoke[k] EXCEPT !.open = open] \in Keys!RevokeDialog
      BY <1>2 DEF Keys!RevokeDialog
    <3> QED
      BY <1>2, <3>1
  <2>3. /\ view' \in Keys!KeysState
        /\ view'.create = view.create /\ view'.calls = view.calls
        /\ view'.delivered = view.delivered /\ view'.saved = view.saved
    BY <1>1, <2>1, <2>2 DEF Keys!KeysState
  <2>4. KeysCore(view')
    BY <1>1, <2>3, SameSecrets
  <2> QED
    BY <1>1, <1>a, <2>1, <2>3, <2>4
<1>12. ASSUME NEW k \in Key, Keys!SubmitRevoke(k) PROVE KeysInv'
  <2> DEFINE c      == [op |-> "revoke", at |-> k, mounted |-> TRUE]
             calls  == Append(view.calls, c)
             n      == Len(view.calls) + 1
             revoke == [view.revoke EXCEPT ![k] = [view.revoke[k] EXCEPT !.pending = TRUE]]
  <2>1. view' = [view EXCEPT !.revoke = revoke, !.calls = calls] /\ server' = server
    BY <1>12, Zenon DEF Keys!SubmitRevoke
  <2>2. [view.revoke[k] EXCEPT !.pending = TRUE] \in Keys!RevokeDialog
    BY <1>2 DEF Keys!RevokeDialog
  <2>3. revoke \in [Key -> Keys!RevokeDialog]
    BY <1>2, <2>2
  <2>4. c \in Keys!Call /\ c.op = "revoke" /\ \A q \in Keys!Place : ~Own(c, q)
    BY DEF Keys!Call, Own
  <2> HIDE DEF c
  <2>5. /\ calls \in Seq(Keys!Call) /\ DOMAIN calls = 1 .. n /\ calls[n] = c
        /\ n \in Nat
        /\ \A i \in 1 .. n : i # n => i \in DOMAIN view.calls /\ calls[i] = view.calls[i]
    BY <1>2, <2>4
  <2> HIDE DEF calls, n, revoke
  <2>6. /\ view' \in Keys!KeysState
        /\ view'.create = view.create /\ view'.calls = calls
        /\ view'.delivered = view.delivered /\ view'.saved = view.saved
    BY <1>1, <2>1, <2>3, <2>5 DEF Keys!KeysState
  <2>7. OneCallEach(view')
    <3> SUFFICES ASSUME NEW q \in Keys!Place, NEW i \in 1 .. n, Own(calls[i], q)
                 PROVE  /\ view.create[q].pending /\ view.create[q].created = NoKey
                        /\ \A j \in 1 .. n : Own(calls[j], q) => j = i
      BY <2>5, <2>6 DEF OneCallEach
    <3> QED
      BY <1>1, <2>4, <2>5 DEF OneCallEach
  <2>8. HeaderStays(view')
    BY <1>1, <2>4, <2>5, <2>6 DEF HeaderStays
  <2>9. KeysCore(view')
    BY <1>1, <2>6, <2>7, <2>8 DEF KeysCore, SecretsKnown, DialogsAgree
  <2> QED
    BY <1>1, <1>a, <2>1, <2>6, <2>9
<1>13. ASSUME NEW k \in Key, Keys!RevokeAnswered(k) PROVE KeysInv'
  <2> DEFINE c == Head(view.calls)
             w == [view EXCEPT !.calls = Tail(view.calls)]
             t == [view EXCEPT !.calls = Tail(@),
                               !.revoke[k].pending = IF c.mounted THEN FALSE ELSE @]
             s == [t EXCEPT !.revoke[k].open = IF c.mounted THEN FALSE ELSE @,
                            !.refresh = TRUE]
  <2>1. view.calls # <<>>
    BY <1>13 DEF Keys!RevokeAnswered
  <2>2. PICK a \in Keys!Answers(session), done \in BOOLEAN :
          /\ server' = IF done THEN [server EXCEPT ![k] = "revoked"] ELSE server
          /\ IF Keys!ActionResult(session, Keys!RevokeCall(a)) = "ok"
             THEN \E b \in Keys!Answers(session) : Keys!KeysPageRenders(s, server', b)
             ELSE view' = [t EXCEPT !.unsure = @ \/ done]
    BY <1>13 DEF Keys!RevokeAnswered
  <2>3. server' \in [Key -> Keys!KeyStatus]
    BY <1>1, <2>2 DEF Keys!KeyStatus
  <2>4. w \in Keys!KeysState /\ KeysCore(w) /\ c \in Keys!Call
    BY <1>1, <2>1, TailOfCalls
  <2>5. c.mounted \in BOOLEAN /\ Tail(view.calls) \in Seq(Keys!Call)
    BY <1>2, <2>1, <2>4 DEF Keys!Call
  <2> HIDE DEF c
  <2>6. ASSUME NEW u, u.create = w.create, u.calls = w.calls, u.delivered = w.delivered,
               u.saved = w.saved
        PROVE  KeysCore(u)
    BY <2>4, <2>6, SameSecrets
  <2>7. /\ t \in Keys!KeysState
        /\ t.create = w.create /\ t.calls = w.calls /\ t.delivered = w.delivered
        /\ t.saved = w.saved
    <3> DEFINE pending == IF c.mounted THEN FALSE ELSE view.revoke[k].pending
               revoke  == [view.revoke EXCEPT ![k] = [view.revoke[k] EXCEPT !.pending = pending]]
    <3>1. t = [view EXCEPT !.calls = Tail(view.calls), !.revoke = revoke]
      BY Zenon
    <3>2. [view.revoke[k] EXCEPT !.pending = pending] \in Keys!RevokeDialog
      BY <1>2, <2>5 DEF Keys!RevokeDialog
    <3>3. revoke \in [Key -> Keys!RevokeDialog]
      BY <1>2, <3>2
    <3> HIDE DEF t, revoke
    <3> QED
      BY <1>1, <2>5, <3>1, <3>3 DEF Keys!KeysState
  <2> HIDE DEF t
  <2>8. /\ s \in Keys!KeysState
        /\ s.create = w.create /\ s.calls = w.calls /\ s.delivered = w.delivered
        /\ s.saved = w.saved
    <3> DEFINE open   == IF c.mounted THEN FALSE ELSE t.revoke[k].open
               revoke == [t.revoke EXCEPT ![k] = [t.revoke[k] EXCEPT !.open = open]]
    <3>1. s = [t EXCEPT !.revoke = revoke, !.refresh = TRUE]
      BY Zenon
    <3>2. t.revoke \in [Key -> Keys!RevokeDialog]
      BY <2>7 DEF Keys!KeysState
    <3>3. [t.revoke[k] EXCEPT !.open = open] \in Keys!RevokeDialog
      BY <2>5, <3>2 DEF Keys!RevokeDialog
    <3>4. revoke \in [Key -> Keys!RevokeDialog]
      BY <3>2, <3>3
    <3> HIDE DEF s, revoke
    <3> QED
      BY <2>7, <3>1, <3>4 DEF Keys!KeysState
  <2> HIDE DEF s
  <2>9. CASE \E b \in Keys!Answers(session) : Keys!KeysPageRenders(s, server', b)
    BY <1>a, <2>3, <2>6, <2>8, <2>9, PageRendersKeys
  <2>10. CASE view' = [t EXCEPT !.unsure = @ \/ done]
    <3>1. PICK unsure \in BOOLEAN : unsure = (t.unsure \/ done)
      OBVIOUS
    <3>2. view' = [t EXCEPT !.unsure = unsure]
      BY <2>10, <3>1, Zenon
    <3>3. /\ view' \in Keys!KeysState
          /\ view'.create = w.create /\ view'.calls = w.calls /\ view'.delivered = w.delivered
          /\ view'.saved = w.saved
      BY <2>7, <3>2 DEF Keys!KeysState
    <3> QED
      BY <1>a, <2>3, <2>6, <3>3
  <2> QED
    BY <2>2, <2>9, <2>10
<1>14. CASE Keys!Step
  BY <1>4, <1>5, <1>6, <1>7, <1>8, <1>9, <1>10, <1>11, <1>12, <1>13, <1>14 DEF Keys!Step
<1>15. CASE Next
  <2>1. KeysSteps \/ UNCHANGED <<view, server>>
    BY <1>15 DEF Next, LiveSteps, EventArrives, SheetSteps, StatsSteps, LogsSteps,
                 KeyFormSteps, SettingsSteps, ProjectsSteps, GuideSteps, SignInSteps,
                 SessionEnds
  <2> QED
    BY <1>3, <1>14, <2>1 DEF KeysSteps
<1> QED
  BY <1>3, <1>15 DEF vars

\* The secret of a key made in the header's dialog stays in that dialog until
\* the user has ticked that it is saved.
THEOREM SecretsAreKeptOrSaved == Spec => []SecretIsKeptOrSaved
<1>1. KeysInv => SecretIsKeptOrSaved
  BY DEF KeysInv, KeysCore, SecretsKnown, SecretIsKeptOrSaved,
         Keys!SecretIsKeptOrSaved, Keys!Held
<1> QED
  BY <1>1, InitKeys, NextKeys, PTL DEF Spec

-----------------------------------------------------------------------------
(* The list of projects and the table. *)

\* The list is what it was rendered with: the table, unless there is an error
\* or a write nobody told the page of.
ProjectsFresh ==
  page = "projects" /\ sent = "no" =>
    view.error \/ view.unsure \/ view.listed = server

LEMMA RenderedProjects ==
  ASSUME NEW t \in Projects!ProjectsState, NEW listed \in SUBSET Project, NEW e \in BOOLEAN
  PROVE  LET w == Projects!Render(t, listed, e)
         IN  w.listed = listed /\ w.error = e /\ w.unsure = t.unsure
BY DEF Projects!Render, Projects!ProjectsState

LEMMA InitProjectsFresh == Init => ProjectsFresh
<1> SUFFICES ASSUME Init, page = "projects" PROVE ProjectsFresh
  BY DEF ProjectsFresh
<1>1. OpensProjects
  BY DEF Init, OpensLive, OpensSheet, OpensStats, OpensLogs, OpensKeys, OpensKeyForm,
         OpensSettings, OpensGuide, OpensSignIn
<1>2. CASE view = Projects!Mounted(server)
  BY <1>2 DEF ProjectsFresh, Projects!Mounted
<1>3. CASE view = Projects!Render(Projects!Mounted({}), {}, TRUE)
  <2>1. Projects!Mounted({}) \in Projects!ProjectsState
    BY DEF Projects!Mounted, Projects!ProjectsState, Projects!NotOpen
  <2>2. view.error = TRUE
    BY <1>3, <2>1, RenderedProjects
  <2> QED
    BY <2>2 DEF ProjectsFresh
<1> QED
  BY <1>1, <1>2, <1>3 DEF OpensProjects

LEMMA NextProjectsFresh ==
  ProjectsInv /\ ProjectsFresh /\ [Next]_vars => ProjectsFresh'
<1> SUFFICES ASSUME ProjectsInv, ProjectsFresh, [Next]_vars, page = "projects"
             PROVE  ProjectsFresh'
  BY PageStays DEF ProjectsFresh
<1>0. page' = page
  BY PageStays
<1>1. view \in Projects!ProjectsState /\ server \subseteq Project
  BY DEF ProjectsInv, Projects!ProjectsTypeOK
<1>2. ASSUME view'.error = view.error, view'.listed = view.listed, server' = server,
             sent = "no", view.unsure => view'.unsure
      PROVE  ProjectsFresh'
  BY <1>2 DEF ProjectsFresh
<1>3. CASE UNCHANGED <<view, server, sent>>
  BY <1>0, <1>3 DEF ProjectsFresh
<1>4. ASSUME NEW t \in Projects!ProjectsState, NEW rows \in SUBSET Project,
             NEW a \in Projects!Answers(session),
             Projects!ProjectsPageRenders(t, rows, a), server' = rows
      PROVE  ProjectsFresh'
  <2> DEFINE result == Projects!PageResult(session, Projects!AuthRequest(a))
  <2>1. CASE result = "page"
    <3>1. view' = Projects!Render(t, rows, FALSE)
      BY <1>4, <2>1 DEF Projects!ProjectsPageRenders
    <3>2. view'.listed = rows
      BY <3>1, RenderedProjects
    <3> QED
      BY <1>4, <3>2 DEF ProjectsFresh
  <2>2. CASE result = "throw"
    <3>1. view' = Projects!Render(t, {}, TRUE)
      BY <1>4, <2>2 DEF Projects!ProjectsPageRenders
    <3>2. view'.error = TRUE
      BY <3>1, RenderedProjects
    <3> QED
      BY <3>2 DEF ProjectsFresh
  <2>3. CASE result \in {"login", "signout"}
    BY <1>4, <2>3 DEF Projects!ProjectsPageRenders, ProjectsFresh
  <2> QED
    BY <2>1, <2>2, <2>3, ResultOfPage
<1>5. ASSUME NEW p \in Projects!Place, sent = "no",
             Projects!Open(p) \/ Projects!Close(p) \/ Projects!Submit(p)
      PROVE  ProjectsFresh'
  <2>1. /\ view'.error = view.error /\ view'.listed = view.listed
        /\ view'.unsure = view.unsure /\ server' = server
    BY <1>1, <1>5 DEF Projects!Open, Projects!Close, Projects!Submit, Projects!ProjectsState
  <2> QED
    BY <1>2, <1>5, <2>1
<1>6. ASSUME NEW p \in Projects!Place, NEW n \in Project, sent = "no", Projects!Created(p, n)
      PROVE  ProjectsFresh'
  <2> DEFINE t == [view EXCEPT !.calls = Tail(view.calls)]
  <2>1. PICK a \in Projects!Answers(session), done \in BOOLEAN, blank \in BOOLEAN :
          LET mounted == Head(view.calls).mounted
              result == IF ~Projects!HasSession(session) THEN "rejected"
                        ELSE IF blank THEN "error"
                        ELSE Projects!ActionResult(session, Projects!AuthRequest(a))
          IN  /\ server' = IF done THEN server \cup {n} ELSE server
              /\ CASE result = "rejected" -> view' = t /\ sent' = "error"
                   [] result = "error" ->
                        /\ view' = [t EXCEPT !.create[p].pending = @ /\ ~mounted,
                                             !.unsure = @ \/ done]
                        /\ UNCHANGED sent
                   [] result = "ok" ->
                        \E b \in Projects!Answers(session) :
                          Projects!ProjectsPageRenders(
                            [t EXCEPT !.create[p] = IF mounted THEN Projects!NotOpen ELSE @,
                                      !.refresh = TRUE], server', b)
    BY <1>6, ZenonT(40) DEF Projects!Created
  <2> DEFINE mounted == Head(view.calls).mounted
             more == [t EXCEPT !.create[p] = IF mounted THEN Projects!NotOpen ELSE @,
                               !.refresh = TRUE]
  <2>2. \/ view' = t /\ sent' = "error"
        \/ /\ view' = [t EXCEPT !.create[p].pending = @ /\ ~mounted, !.unsure = @ \/ done]
           /\ sent' = sent
        \/ \E b \in Projects!Answers(session) :
             Projects!ProjectsPageRenders(more, server', b)
    BY <2>1 DEF Projects!ActionResult
  <2>3. CASE view' = t /\ sent' = "error"
    BY <2>3 DEF ProjectsFresh
  <2>4. CASE view' = [t EXCEPT !.create[p].pending = @ /\ ~mounted, !.unsure = @ \/ done]
    <3>1. /\ view'.error = view.error /\ view'.listed = view.listed
          /\ view'.unsure = (view.unsure \/ done)
      BY <1>1, <2>4 DEF Projects!ProjectsState
    <3>2. CASE done
      BY <3>1, <3>2 DEF ProjectsFresh
    <3>3. CASE ~done
      BY <1>2, <1>6, <2>1, <3>1, <3>3
    <3> QED
      BY <3>2, <3>3
  <2>5. ASSUME NEW b \in Projects!Answers(session),
               Projects!ProjectsPageRenders(more, server', b)
        PROVE  ProjectsFresh'
    <3>1. more \in Projects!ProjectsState
      <4>1. view.calls \in Seq(Projects!Call) /\ view.calls # <<>>
        BY <1>1, <1>6 DEF Projects!ProjectsState, Projects!Created
      <4>2. Tail(view.calls) \in Seq(Projects!Call)
        BY <4>1
      <4>3. t \in Projects!ProjectsState
        BY <1>1, <4>2 DEF Projects!ProjectsState
      <4> HIDE DEF t
      <4> QED
        BY <4>3 DEF Projects!ProjectsState, Projects!NotOpen
    <3>2. server' \in SUBSET Project
      BY <1>1, <2>1
    <3> HIDE DEF more
    <3> QED
      BY <1>4, <2>5, <3>1, <3>2
  <2> QED
    BY <2>2, <2>3, <2>4, <2>5
<1>7. ASSUME sent = "no", Projects!Refreshed PROVE ProjectsFresh'
  <2> DEFINE t == [view EXCEPT !.refresh = FALSE]
  <2>1. PICK a \in Projects!Answers(session) : Projects!ProjectsPageRenders(t, server, a)
    BY <1>7 DEF Projects!Refreshed
  <2>2. t \in Projects!ProjectsState
    BY <1>1 DEF Projects!ProjectsState
  <2> HIDE DEF t
  <2>3. server' = server
    BY <1>7 DEF Projects!Refreshed
  <2> QED
    BY <1>1, <1>4, <2>1, <2>2, <2>3
<1>8. ASSUME NEW id \in Project, sent = "no", Projects!Enter(id) PROVE ProjectsFresh'
  <2>1. PICK blind \in BOOLEAN : view' = [view EXCEPT !.entered = id, !.blind = blind]
    BY <1>8 DEF Projects!Enter
  <2>2. /\ view'.error = view.error /\ view'.listed = view.listed
        /\ view'.unsure = view.unsure
    BY <1>1, <2>1 DEF Projects!ProjectsState
  <2>3. server' = server
    BY <1>8 DEF Projects!Enter
  <2> QED
    BY <1>2, <1>8, <2>2, <2>3
<1>9. ASSUME NEW id \in Project, sent = "no", Projects!DeletedElsewhere(id)
      PROVE  ProjectsFresh'
  <2>1. view'.unsure = TRUE
    BY <1>1, <1>9 DEF Projects!DeletedElsewhere, Projects!ProjectsState
  <2> QED
    BY <2>1 DEF ProjectsFresh
<1>10. CASE Projects!Step
  BY <1>5, <1>6, <1>7, <1>8, <1>9, <1>10 DEF Projects!Step
<1>11. CASE Next
  <2>1. ProjectsSteps \/ SessionEnds
    BY <1>11 DEF Next, LiveSteps, EventArrives, SheetSteps, StatsSteps, LogsSteps,
                 KeysSteps, KeyFormSteps, SettingsSteps, GuideSteps, SignInSteps
  <2> QED
    BY <1>3, <1>10, <2>1 DEF ProjectsSteps, SessionEnds
<1> QED
  BY <1>3, <1>11 DEF vars

-----------------------------------------------------------------------------
(* The list of keys and the table. *)

\* The list is what it was rendered with: the table, unless there is an error
\* or a write nobody told the page of.
KeysFresh ==
  page = "keys" /\ sent = "no" => view.error \/ view.unsure \/ view.listed = server

LEMMA RenderedKeys ==
  ASSUME NEW t \in Keys!KeysState, NEW listed, NEW e \in BOOLEAN
  PROVE  LET r == Keys!Render(t, listed, e)
         IN  r.listed = listed /\ r.error = e
BY DEF Keys!Render, Keys!KeysState

LEMMA InitKeysFresh == Init => KeysFresh
<1> SUFFICES ASSUME Init, page = "keys" PROVE KeysFresh
  BY DEF KeysFresh
<1>1. OpensKeys
  BY DEF Init, OpensLive, OpensSheet, OpensStats, OpensLogs, OpensKeyForm,
         OpensSettings, OpensProjects, OpensGuide, OpensSignIn
<1>2. CASE view = Keys!Mounted(server)
  BY <1>2 DEF KeysFresh, Keys!Mounted
<1>3. CASE view = Keys!Render(Keys!Mounted(Keys!NoRows), Keys!NoRows, TRUE)
  <2>1. Keys!Mounted(Keys!NoRows) \in Keys!KeysState
    BY DEF Keys!Mounted, Keys!NoRows, Keys!KeysState, Keys!KeyStatus, Keys!CreateDialog,
           Keys!Closed, Keys!RevokeDialog, Keys!NotOpen
  <2>2. view.error = TRUE
    BY <1>3, <2>1, RenderedKeys
  <2> QED
    BY <2>2 DEF KeysFresh
<1> QED
  BY <1>1, <1>2, <1>3 DEF OpensKeys

LEMMA NextKeysFresh == KeysInv /\ KeysFresh /\ [Next]_vars => KeysFresh'
<1> SUFFICES ASSUME KeysInv, KeysFresh, [Next]_vars, page = "keys" PROVE KeysFresh'
  BY PageStays DEF KeysFresh
<1>0. page' = page
  BY PageStays
<1>1. view \in Keys!KeysState
  BY DEF KeysInv, Keys!KeysTypeOK
<1>2. ASSUME view'.error = view.error, view'.listed = view.listed, server' = server,
             sent = "no", view.unsure => view'.unsure
      PROVE  KeysFresh'
  BY <1>2 DEF KeysFresh
<1>3. CASE UNCHANGED <<view, server, sent>>
  BY <1>0, <1>3 DEF KeysFresh
<1>4. ASSUME NEW t \in Keys!KeysState, NEW table, NEW a \in Keys!Answers(session),
             Keys!KeysPageRenders(t, table, a), server' = table
      PROVE  KeysFresh'
  <2> DEFINE result == Keys!PageResult(session, Keys!AuthRequest(a))
  <2>1. CASE result = "page"
    <3>1. view' = Keys!Render(t, table, FALSE)
      BY <1>4, <2>1 DEF Keys!KeysPageRenders
    <3>2. view'.listed = table
      BY <3>1, RenderedKeys
    <3> QED
      BY <1>4, <3>2 DEF KeysFresh
  <2>2. CASE result = "throw"
    <3>1. view' = Keys!Render(t, Keys!NoRows, TRUE)
      BY <1>4, <2>2 DEF Keys!KeysPageRenders
    <3>2. view'.error = TRUE
      BY <3>1, RenderedKeys
    <3> QED
      BY <3>2 DEF KeysFresh
  <2>3. CASE result \in {"login", "signout"}
    BY <1>4, <2>3 DEF Keys!KeysPageRenders, KeysFresh
  <2>4. result \in {"login", "page", "signout", "throw"}
    <3>1. a \in {"ok", "unauthorized", "failed"}
      BY DEF Keys!Answers
    <3> QED
      BY <3>1 DEF Keys!PageResult, Keys!AuthRequest
  <2> QED
    BY <2>1, <2>2, <2>3, <2>4
<1>5. ASSUME sent = "no", Keys!Refreshed PROVE KeysFresh'
  <2> DEFINE t == [view EXCEPT !.refresh = FALSE]
  <2>1. PICK a \in Keys!Answers(session) : Keys!KeysPageRenders(t, server, a)
    BY <1>5 DEF Keys!Refreshed
  <2>2. t \in Keys!KeysState
    BY <1>1 DEF Keys!KeysState
  <2> HIDE DEF t
  <2>3. server' = server
    BY <1>5 DEF Keys!Refreshed
  <2> QED
    BY <1>4, <2>1, <2>2, <2>3
<1>6. ASSUME NEW p \in Keys!Place, sent = "no",
             \/ Keys!Open(p) \/ Keys!Dismiss(p) \/ Keys!Cancel(p) \/ Keys!ToggleSaved(p)
             \/ Keys!Done(p) \/ Keys!SubmitCreate(p)
      PROVE  KeysFresh'
  <2>1. /\ view'.error = view.error /\ view'.listed = view.listed
        /\ view'.unsure = view.unsure /\ server' = server
    BY <1>1, <1>6 DEF Keys!Open, Keys!Dismiss, Keys!Cancel, Keys!ToggleSaved, Keys!Done,
                      Keys!SubmitCreate, Keys!KeysState
  <2> QED
    BY <1>2, <1>6, <2>1
<1>7. ASSUME NEW k \in Key, sent = "no",
             Keys!OpenRevoke(k) \/ Keys!CloseRevoke(k) \/ Keys!SubmitRevoke(k)
      PROVE  KeysFresh'
  <2>1. /\ view'.error = view.error /\ view'.listed = view.listed
        /\ view'.unsure = view.unsure /\ server' = server
    BY <1>1, <1>7 DEF Keys!OpenRevoke, Keys!CloseRevoke, Keys!SubmitRevoke, Keys!KeysState
  <2> QED
    BY <1>2, <1>7, <2>1
<1>8. \A t : t = [view EXCEPT !.calls = Tail(view.calls)] /\ view.calls # <<>> =>
        /\ t \in Keys!KeysState /\ t.error = view.error /\ t.listed = view.listed
        /\ t.unsure = view.unsure
  <2>1. view.calls \in Seq(Keys!Call)
    BY <1>1 DEF Keys!KeysState
  <2>2. view.calls # <<>> => Tail(view.calls) \in Seq(Keys!Call)
    BY <2>1
  <2> QED
    BY <1>1, <2>2 DEF Keys!KeysState
<1>9. ASSUME NEW p \in Keys!Place, NEW k \in Key, sent = "no", Keys!CreateAnswered(p, k)
      PROVE  KeysFresh'
  <2> DEFINE c == Head(view.calls)
             t == [view EXCEPT !.calls = Tail(view.calls)]
  <2>1. PICK a \in Keys!Answers(session), done \in BOOLEAN :
          LET result == Keys!ActionResult(session, Keys!AuthRequest(a))
          IN  /\ server' = IF done THEN [server EXCEPT ![k] = "active"] ELSE server
              /\ CASE result = "rejected" -> view' = t /\ sent' = "error"
                   [] result = "error" ->
                        /\ view' = [t EXCEPT !.create[p].pending = IF c.mounted THEN FALSE ELSE @,
                                             !.unsure = @ \/ done]
                        /\ UNCHANGED sent
                   [] result = "ok" ->
                        \E b \in Keys!Answers(session) :
                          LET r == IF b = "ok" THEN Keys!Render(t, server', FALSE)
                                   ELSE Keys!Render(t, Keys!NoRows, TRUE)
                          IN  view' = Keys!Deliver(r, c, k) /\ UNCHANGED sent
    BY <1>9 DEF Keys!CreateAnswered
  <2>2. \/ sent' = "error"
        \/ view' = [t EXCEPT !.create[p].pending = IF c.mounted THEN FALSE ELSE @,
                             !.unsure = @ \/ done]
        \/ view' = Keys!Deliver(Keys!Render(t, server', FALSE), c, k)
        \/ view' = Keys!Deliver(Keys!Render(t, Keys!NoRows, TRUE), c, k)
    BY <2>1 DEF Keys!ActionResult
  <2>3. t \in Keys!KeysState /\ t.error = view.error /\ t.listed = view.listed
          /\ t.unsure = view.unsure
    BY <1>8, <1>9 DEF Keys!CreateAnswered
  <2> HIDE DEF t, c
  <2>4. CASE sent' = "error"
    BY <2>4 DEF KeysFresh
  <2>5. CASE view' = [t EXCEPT !.create[p].pending = IF c.mounted THEN FALSE ELSE @,
                               !.unsure = @ \/ done]
    <3>1. /\ view'.error = t.error /\ view'.listed = t.listed
          /\ view'.unsure = (t.unsure \/ done)
      BY <2>3, <2>5 DEF Keys!KeysState
    <3>2. CASE done
      BY <3>1, <3>2 DEF KeysFresh
    <3>3. CASE ~done
      BY <1>2, <1>9, <2>1, <2>3, <3>1, <3>3
    <3> QED
      BY <3>2, <3>3
  <2>6. CASE view' = Keys!Deliver(Keys!Render(t, server', FALSE), c, k)
    <3>1. PICK table : table = server' /\ view' = Keys!Deliver(Keys!Render(t, table, FALSE), c, k)
      BY <2>6
    <3>2. view'.listed = table
      BY <2>3, <3>1, RenderedKeys DEF Keys!Deliver, Keys!Render, Keys!KeysState
    <3> QED
      BY <3>1, <3>2 DEF KeysFresh
  <2>7. CASE view' = Keys!Deliver(Keys!Render(t, Keys!NoRows, TRUE), c, k)
    <3>1. view'.error = TRUE
      BY <2>3, <2>7, RenderedKeys DEF Keys!Deliver, Keys!Render, Keys!KeysState
    <3> QED
      BY <3>1 DEF KeysFresh
  <2> QED
    BY <2>2, <2>4, <2>5, <2>6, <2>7
<1>10. ASSUME NEW k \in Key, sent = "no", Keys!RevokeAnswered(k) PROVE KeysFresh'
  <2> DEFINE c    == Head(view.calls)
             u    == [view EXCEPT !.calls = Tail(view.calls)]
             t    == [u EXCEPT !.revoke[k].pending = IF c.mounted THEN FALSE ELSE @]
             more == [t EXCEPT !.revoke[k].open = IF c.mounted THEN FALSE ELSE @,
                               !.refresh = TRUE]
  <2>1. PICK done \in BOOLEAN :
          /\ server' = IF done THEN [server EXCEPT ![k] = "revoked"] ELSE server
          /\ \/ \E b \in Keys!Answers(session) : Keys!KeysPageRenders(more, server', b)
             \/ view' = [t EXCEPT !.unsure = @ \/ done]
    BY <1>1, <1>10 DEF Keys!RevokeAnswered, Keys!KeysState
  <2>2. u \in Keys!KeysState /\ u.error = view.error /\ u.listed = view.listed
          /\ u.unsure = view.unsure
    BY <1>8, <1>10 DEF Keys!RevokeAnswered
  <2>a. view.calls \in Seq(Keys!Call) /\ view.calls # <<>> /\ c.mounted \in BOOLEAN
    <3>1. view.calls \in Seq(Keys!Call) /\ view.calls # <<>>
      BY <1>1, <1>10 DEF Keys!KeysState, Keys!RevokeAnswered
    <3>2. Head(view.calls) \in Keys!Call
      BY <3>1
    <3> QED
      BY <3>1, <3>2 DEF Keys!Call
  <2> HIDE DEF u, c
  <2>3. /\ t \in Keys!KeysState /\ t.error = view.error /\ t.listed = view.listed
        /\ t.unsure = view.unsure
    <3> DEFINE d      == [u.revoke[k] EXCEPT !.pending = IF c.mounted THEN FALSE ELSE @]
               revoke == [u.revoke EXCEPT ![k] = d]
    <3>1. u.revoke \in [Key -> Keys!RevokeDialog]
      BY <2>2 DEF Keys!KeysState
    <3>2. d \in Keys!RevokeDialog
      BY <2>a, <3>1 DEF Keys!RevokeDialog
    <3>3. revoke \in [Key -> Keys!RevokeDialog]
      BY <3>1, <3>2
    <3>4. t = [u EXCEPT !.revoke = revoke]
      OBVIOUS
    <3> HIDE DEF revoke, t
    <3> QED
      BY <2>2, <3>3, <3>4 DEF Keys!KeysState
  <2> HIDE DEF t
  <2>4. more \in Keys!KeysState
    <3> DEFINE d      == [t.revoke[k] EXCEPT !.open = IF c.mounted THEN FALSE ELSE @]
               revoke == [t.revoke EXCEPT ![k] = d]
    <3>1. t.revoke \in [Key -> Keys!RevokeDialog]
      BY <2>3 DEF Keys!KeysState
    <3>2. d \in Keys!RevokeDialog
      BY <2>a, <3>1 DEF Keys!RevokeDialog
    <3>3. revoke \in [Key -> Keys!RevokeDialog]
      BY <3>1, <3>2
    <3>4. more = [t EXCEPT !.revoke = revoke, !.refresh = TRUE]
      OBVIOUS
    <3> HIDE DEF revoke
    <3> QED
      BY <2>3, <3>3, <3>4 DEF Keys!KeysState
  <2> HIDE DEF more
  <2>5. CASE \E b \in Keys!Answers(session) : Keys!KeysPageRenders(more, server', b)
    BY <1>4, <2>4, <2>5
  <2>6. CASE view' = [t EXCEPT !.unsure = @ \/ done]
    <3>1. /\ view'.error = t.error /\ view'.listed = t.listed
          /\ view'.unsure = (t.unsure \/ done)
      BY <2>3, <2>6 DEF Keys!KeysState
    <3>2. CASE done
      BY <3>1, <3>2 DEF KeysFresh
    <3>3. CASE ~done
      BY <1>2, <1>10, <2>1, <2>3, <3>1, <3>3
    <3> QED
      BY <3>2, <3>3
  <2> QED
    BY <2>1, <2>5, <2>6
<1>11. CASE Keys!Step
  BY <1>5, <1>6, <1>7, <1>9, <1>10, <1>11 DEF Keys!Step
<1>12. CASE Next
  <2>1. KeysSteps \/ SessionEnds
    BY <1>12 DEF Next, LiveSteps, EventArrives, SheetSteps, StatsSteps, LogsSteps,
                 KeyFormSteps, SettingsSteps, ProjectsSteps, GuideSteps, SignInSteps
  <2> QED
    BY <1>3, <1>11, <2>1 DEF KeysSteps, SessionEnds
<1> QED
  BY <1>3, <1>12 DEF vars

-----------------------------------------------------------------------------
(* The live tail. *)

\* What a rendering does with one update.
Upd(t, u) == IF u.reset THEN Live!ResetRows(t) ELSE Live!Merge(t, u)

Updates == INSTANCE Folding WITH Op <- Upd

NoTwice(s) == \A i, j \in 1 .. Len(s) : s[i] = s[j] => i = j

\* The defining equation of the recursive function in Fresh, up to n.
Kept(g, n, rows, seen) ==
  g = [k \in 0 .. n |->
         IF k = 0 THEN <<>>
         ELSE IF rows[k] \in seen THEN g[k - 1] ELSE Append(g[k - 1], rows[k])]

LEMMA KeptExists ==
  ASSUME NEW rows, NEW seen
  PROVE  \A n \in Nat : \E g : Kept(g, n, rows, seen)
<1> DEFINE S == {n \in Nat : \E g : Kept(g, n, rows, seen)}
<1>1. 0 \in S
  <2> DEFINE g == [k \in 0 .. 0 |-> <<>>]
  <2>1. Kept(g, 0, rows, seen)
    BY DEF Kept
  <2> QED
    BY <2>1
<1>2. ASSUME NEW n \in Nat, n \in S PROVE n + 1 \in S
  <2>1. PICK g : Kept(g, n, rows, seen)
    BY <1>2
  <2> DEFINE more == IF rows[n + 1] \in seen THEN g[n] ELSE Append(g[n], rows[n + 1])
             h == [k \in 0 .. n + 1 |-> IF k = n + 1 THEN more ELSE g[k]]
             Rhs(k) == IF k = 0 THEN <<>>
                       ELSE IF rows[k] \in seen THEN h[k - 1] ELSE Append(h[k - 1], rows[k])
  <2>2. ASSUME NEW k \in 0 .. n + 1
        PROVE  h[k] = Rhs(k)
    <3>1. CASE k = n + 1
      <4>1. h[k - 1] = g[n] /\ h[k] = more
        BY <3>1
      <4> QED
        BY <3>1, <4>1
    <3>2. CASE k # n + 1 /\ k # 0
      <4>1. h[k - 1] = g[k - 1] /\ h[k] = g[k] /\ k \in 0 .. n
        BY <3>2
      <4> QED
        BY <2>1, <3>2, <4>1 DEF Kept
    <3>3. CASE k = 0
      BY <2>1, <3>3 DEF Kept
    <3> QED
      BY <3>1, <3>2, <3>3
  <2>3. h = [k \in 0 .. n + 1 |-> Rhs(k)]
    BY <2>2
  <2>4. Kept(h, n + 1, rows, seen)
    BY <2>3 DEF Kept
  <2> QED
    BY <2>4
<1> HIDE DEF S
<1>3. Nat \subseteq S
  BY <1>1, <1>2, Updates!SetInduction
<1> QED
  BY <1>3 DEF S

\* s holds, once each, the first k rows that seen does not.
Keeps(s, k, rows, seen) ==
  /\ s \in Seq(Event)
  /\ NoTwice(s)
  /\ \A i \in 1 .. Len(s) : s[i] \notin seen
  /\ \A i \in 1 .. Len(s) : \E j \in 1 .. k : rows[j] = s[i]
  /\ \A j \in 1 .. k : rows[j] \in seen \/ \E i \in 1 .. Len(s) : s[i] = rows[j]

LEMMA FreshRows ==
  ASSUME NEW rows \in Seq(Event), NEW seen, NoTwice(rows)
  PROVE  Keeps(Live!Fresh(rows, seen), Len(rows), rows, seen)
<1> DEFINE g == CHOOSE f : Kept(f, Len(rows), rows, seen)
<1>1. Len(rows) \in Nat
  OBVIOUS
<1>2. Kept(g, Len(rows), rows, seen)
  BY <1>1, KeptExists
<1>3. Live!Fresh(rows, seen) = g[Len(rows)]
  BY DEF Live!Fresh, Kept
<1> HIDE DEF g
<1> DEFINE S == {k \in Nat : k <= Len(rows) => Keeps(g[k], k, rows, seen)}
<1>4. 0 \in S
  <2>1. g[0] = <<>>
    BY <1>1, <1>2 DEF Kept
  <2>2. Keeps(<<>>, 0, rows, seen)
    BY DEF Keeps, NoTwice
  <2> QED
    BY <2>1, <2>2
<1>5. ASSUME NEW k \in Nat, k \in S PROVE k + 1 \in S
  <2>n. k + 1 \in Nat
    OBVIOUS
  <2>0. (k + 1 <= Len(rows) => Keeps(g[k + 1], k + 1, rows, seen)) => k + 1 \in S
    BY Zenon, <2>n DEF S
  <2> SUFFICES ASSUME k + 1 <= Len(rows) PROVE Keeps(g[k + 1], k + 1, rows, seen)
    BY <2>0
  <2> DEFINE s == g[k]
             e == rows[k + 1]
  <2>1. Keeps(s, k, rows, seen)
    <3>1. k <= Len(rows)
      BY <1>1
    <3> QED
      BY <1>5, <3>1
  <2>2. g[k + 1] = IF e \in seen THEN s ELSE Append(s, e)
    <3>1. k + 1 \in 0 .. Len(rows) /\ k + 1 # 0 /\ (k + 1) - 1 = k
      BY <1>1
    <3> QED
      BY <1>2, <3>1 DEF Kept
  <2>3. e \in Event /\ \A j \in 1 .. k : rows[j] # e
    <3>1. k + 1 \in 1 .. Len(rows) /\ \A j \in 1 .. k : j \in 1 .. Len(rows) /\ j # k + 1
      BY <1>1
    <3> QED
      BY <3>1 DEF NoTwice
  <2>4. \A j \in 1 .. k + 1 : j \in 1 .. k \/ j = k + 1
    OBVIOUS
  <2>m. \A j \in 1 .. k : j \in 1 .. k + 1
    OBVIOUS
  <2>u. /\ s \in Seq(Event) /\ NoTwice(s)
        /\ \A i \in 1 .. Len(s) : s[i] \notin seen
        /\ \A i \in 1 .. Len(s) : \E j \in 1 .. k : rows[j] = s[i]
        /\ \A j \in 1 .. k : rows[j] \in seen \/ \E i \in 1 .. Len(s) : s[i] = rows[j]
    BY <2>1 DEF Keeps
  <2> HIDE DEF s, e
  <2>5. CASE e \in seen
    <3>1. g[k + 1] = s
      BY <2>2, <2>5
    <3> QED
      BY <2>u, <2>4, <2>5, <2>m, <3>1 DEF e, Keeps
  <2>6. CASE e \notin seen
    <3> DEFINE r == Append(s, e)
    <3>1. /\ r \in Seq(Event) /\ Len(r) = Len(s) + 1 /\ r[Len(s) + 1] = e
          /\ \A i \in 1 .. Len(s) : r[i] = s[i]
          /\ Len(s) \in Nat
      BY <2>u, <2>3
    <3>2. \A i \in 1 .. Len(s) + 1 : i \in 1 .. Len(s) \/ i = Len(s) + 1
      BY <3>1
    <3>3. \A i \in 1 .. Len(s) : s[i] # e
      BY <2>u, <2>3
    <3> HIDE DEF r
    <3>4. NoTwice(r)
      <4> SUFFICES ASSUME NEW i \in 1 .. Len(s) + 1, NEW j \in 1 .. Len(s) + 1, r[i] = r[j]
                   PROVE  i = j
        BY <3>1 DEF NoTwice
      <4>1. CASE i \in 1 .. Len(s) /\ j \in 1 .. Len(s)
        BY <2>u, <3>1, <4>1 DEF NoTwice
      <4>2. CASE i = Len(s) + 1 /\ j \in 1 .. Len(s)
        BY <3>1, <3>3, <4>2
      <4>3. CASE j = Len(s) + 1 /\ i \in 1 .. Len(s)
        BY <3>1, <3>3, <4>3
      <4> QED
        BY <3>2, <4>1, <4>2, <4>3
    <3>5. \A i \in 1 .. Len(r) : r[i] \notin seen
      BY <2>u, <2>6, <3>1, <3>2
    <3>6. ASSUME NEW i \in 1 .. Len(r) PROVE \E j \in 1 .. k + 1 : rows[j] = r[i]
      <4>1. CASE i \in 1 .. Len(s)
        BY <2>u, <2>m, <3>1, <4>1
      <4>2. CASE i = Len(s) + 1
        <5>1. k + 1 \in 1 .. k + 1
          OBVIOUS
        <5> QED
          BY <3>1, <4>2, <5>1 DEF e
      <4> QED
        BY <3>1, <3>2, <4>1, <4>2
    <3>7. ASSUME NEW j \in 1 .. k + 1
          PROVE  rows[j] \in seen \/ \E i \in 1 .. Len(r) : r[i] = rows[j]
      <4>0. Len(s) + 1 \in 1 .. Len(r) /\ \A i \in 1 .. Len(s) : i \in 1 .. Len(r)
        BY <3>1
      <4>1. CASE j \in 1 .. k
        BY <2>u, <3>1, <4>0, <4>1
      <4>2. CASE j = k + 1
        BY <3>1, <4>0, <4>2 DEF e
      <4> QED
        BY <2>4, <4>1, <4>2
    <3>8. g[k + 1] = r
      BY <2>2, <2>6 DEF r
    <3> QED
      BY <3>1, <3>4, <3>5, <3>6, <3>7, <3>8 DEF Keeps
  <2> QED
    BY <2>5, <2>6
<1> HIDE DEF S
<1>6. Nat \subseteq S
  BY <1>4, <1>5, Updates!SetInduction
<1>7. Keeps(g[Len(rows)], Len(rows), rows, seen)
  BY <1>1, <1>6 DEF S
<1> QED
  BY <1>3, <1>7
\* The rows of a list are known, were asked for under d, and nothing known is
\* missing without a cause.
Sound(t, d) ==
  /\ NoTwice(t.events) /\ Len(t.events) <= MaxRows
  /\ \A i \in 1 .. Len(t.events) : t.events[i] \in t.seen
  /\ t.events # <<>> => t.rowsOf = d
  /\ \/ Len(t.events) = MaxRows
     \/ \A e \in t.seen :
          e \in t.swallowed \/ \E i \in 1 .. Len(t.events) : t.events[i] = e

LEMMA WindowRows ==
  ASSUME NEW rows \in Seq(Event)
  PROVE  /\ Live!Window(rows) \in Seq(Event)
         /\ Len(Live!Window(rows)) = Live!Smaller(MaxRows, Len(rows))
         /\ \A i \in 1 .. Len(Live!Window(rows)) :
              i \in 1 .. Len(rows) /\ Live!Window(rows)[i] = rows[i]
<1>1. MaxRows \in Nat \ {0}
  BY PagesAssumption DEF Live!TailAssumption
<1> QED
  BY <1>1 DEF Live!Window, Live!Smaller

\* The fields that a merge changes.
LEMMA Merged ==
  ASSUME NEW t \in Live!TailState, NEW u \in Live!Update, NoTwice(u.page),
         Live!Fresh(u.page, t.seen) # <<>>
  PROVE  LET fresh == Live!Fresh(u.page, t.seen)
             rows  == Live!Window(fresh \o t.events)
             m     == Live!Merge(t, u)
         IN  /\ m \in Live!TailState
             /\ m.events = rows
             /\ m.swallowed = t.swallowed /\ m.queue = t.queue /\ m.direction = t.direction
             /\ m.rowsOf = (IF t.events = <<>> \/ t.rowsOf = u.dir THEN u.dir ELSE "mixed")
             /\ \/ m.seen = t.seen \cup Live!Range(u.page)
                \/ m.seen = Live!Range(rows)
<1> DEFINE fresh == Live!Fresh(u.page, t.seen)
           rows == Live!Window(fresh \o t.events)
<1>1. u.page \in Seq(Event) /\ u.dir \in Live!Dir
  BY DEF Live!Update
<1>2. fresh \in Seq(Event)
  BY <1>1, FreshRows DEF Keeps
<1>3. t.events \in Seq(Event) /\ t.seen \subseteq Event
  BY DEF Live!TailState
<1>4. rows \in Seq(Event)
  <2>1. fresh \o t.events \in Seq(Event)
    BY <1>2, <1>3
  <2> QED
    BY <2>1, WindowRows
<1>5. Live!Range(rows) \subseteq Event /\ Live!Range(u.page) \subseteq Event
  BY <1>1, <1>4 DEF Live!Range
<1> DEFINE seen == IF Live!Cardinality(t.seen \cup Live!Range(u.page)) > MaxRows * 2
                   THEN Live!Range(rows) ELSE t.seen \cup Live!Range(u.page)
           of == IF t.events = <<>> \/ t.rowsOf = u.dir THEN u.dir ELSE "mixed"
<1>6. Live!Merge(t, u) = [t EXCEPT !.events = rows, !.seen = seen, !.rowsOf = of]
  BY DEF Live!Merge
<1>7. seen \subseteq Event /\ of \in Live!Dir \cup {"mixed"}
  BY <1>1, <1>3, <1>5
<1>8. \/ seen = t.seen \cup Live!Range(u.page)
      \/ seen = Live!Range(rows)
  OBVIOUS
<1>9. of = IF t.events = <<>> \/ t.rowsOf = u.dir THEN u.dir ELSE "mixed"
  OBVIOUS
<1> HIDE DEF seen, of, rows
<1>10. /\ Live!Merge(t, u) \in Live!TailState
       /\ Live!Merge(t, u).events = rows /\ Live!Merge(t, u).seen = seen
       /\ Live!Merge(t, u).rowsOf = of
       /\ Live!Merge(t, u).swallowed = t.swallowed
       /\ Live!Merge(t, u).queue = t.queue
       /\ Live!Merge(t, u).direction = t.direction
  BY <1>4, <1>6, <1>7, ZenonT(40) DEF Live!TailState
<1> QED
  BY <1>8, <1>9, <1>10 DEF rows

LEMMA Unmerged ==
  ASSUME NEW t \in Live!TailState, NEW u \in Live!Update,
         Live!Fresh(u.page, t.seen) = <<>>
  PROVE  Live!Merge(t, u) = t
BY DEF Live!Merge

\* New rows in front of known ones: nothing is listed twice, and what is pushed
\* out leaves a full list.
LEMMA MergeIsSound ==
  ASSUME NEW t \in Live!TailState, NEW u \in Live!Update, NoTwice(u.page), Sound(t, u.dir)
  PROVE  Sound(Live!Merge(t, u), u.dir)
<1> DEFINE fresh == Live!Fresh(u.page, t.seen)
           both == fresh \o t.events
           rows == Live!Window(both)
           m == Live!Merge(t, u)
<1>1. CASE fresh = <<>>
  BY <1>1, Unmerged
<1>2. CASE fresh # <<>>
  <2>1. u.page \in Seq(Event) /\ t.events \in Seq(Event) /\ MaxRows \in Nat \ {0}
    BY PagesAssumption DEF Live!Update, Live!TailState, Live!TailAssumption
  <2>2. /\ fresh \in Seq(Event) /\ NoTwice(fresh)
        /\ \A i \in 1 .. Len(fresh) : fresh[i] \notin t.seen
        /\ \A i \in 1 .. Len(fresh) : \E j \in 1 .. Len(u.page) : u.page[j] = fresh[i]
        /\ \A j \in 1 .. Len(u.page) :
             u.page[j] \in t.seen \/ \E i \in 1 .. Len(fresh) : fresh[i] = u.page[j]
    BY <2>1, FreshRows DEF Keeps
  <2>3. /\ m.events = rows
        /\ m.swallowed = t.swallowed
        /\ m.rowsOf = (IF t.events = <<>> \/ t.rowsOf = u.dir THEN u.dir ELSE "mixed")
        /\ \/ m.seen = t.seen \cup Live!Range(u.page)
           \/ m.seen = Live!Range(rows)
    BY <1>2, Merged
  <2> HIDE DEF fresh, m
  <2>4. /\ both \in Seq(Event) /\ Len(both) = Len(fresh) + Len(t.events)
        /\ \A i \in 1 .. Len(fresh) : both[i] = fresh[i]
        /\ \A i \in 1 .. Len(t.events) : both[Len(fresh) + i] = t.events[i]
        /\ Len(fresh) \in Nat \ {0} /\ Len(t.events) \in Nat
    BY <1>2, <2>1, <2>2
  <2>5. /\ rows \in Seq(Event)
        /\ Len(rows) = Live!Smaller(MaxRows, Len(both))
        /\ \A i \in 1 .. Len(rows) : i \in 1 .. Len(both) /\ rows[i] = both[i]
    BY <2>4, WindowRows
  <2> HIDE DEF both, rows
  <2>6. Len(rows) <= MaxRows /\ (Len(rows) # MaxRows => Len(rows) = Len(both))
    BY <2>1, <2>4, <2>5 DEF Live!Smaller
  <2>7. \A i \in 1 .. Len(both) : \/ i \in 1 .. Len(fresh)
                                  \/ \E k \in 1 .. Len(t.events) : i = Len(fresh) + k
    <3> SUFFICES ASSUME NEW i \in 1 .. Len(both), i \notin 1 .. Len(fresh)
                 PROVE  \E k \in 1 .. Len(t.events) : i = Len(fresh) + k
      OBVIOUS
    <3>1. i - Len(fresh) \in 1 .. Len(t.events) /\ i = Len(fresh) + (i - Len(fresh))
      BY <2>4
    <3> QED
      BY <3>1
  <2>8. \A i \in 1 .. Len(t.events) : t.events[i] \in t.seen
    BY DEF Sound
  <2>9. NoTwice(both)
    <3> SUFFICES ASSUME NEW i \in 1 .. Len(both), NEW j \in 1 .. Len(both), both[i] = both[j]
                 PROVE  i = j
      BY DEF NoTwice
    <3>1. CASE i \in 1 .. Len(fresh) /\ j \in 1 .. Len(fresh)
      BY <2>2, <2>4, <3>1 DEF NoTwice
    <3>2. ASSUME NEW k \in 1 .. Len(t.events), i = Len(fresh) + k, j \in 1 .. Len(fresh)
          PROVE  FALSE
      BY <2>2, <2>4, <2>8, <3>2
    <3>3. ASSUME NEW k \in 1 .. Len(t.events), j = Len(fresh) + k, i \in 1 .. Len(fresh)
          PROVE  FALSE
      BY <2>2, <2>4, <2>8, <3>3
    <3>4. ASSUME NEW k \in 1 .. Len(t.events), NEW l \in 1 .. Len(t.events),
                 i = Len(fresh) + k, j = Len(fresh) + l
          PROVE  i = j
      <4>1. t.events[k] = t.events[l]
        BY <2>4, <3>4
      <4>2. k = l
        BY <4>1 DEF Sound, NoTwice
      <4> QED
        BY <3>4, <4>2
    <3> QED
      BY <2>7, <3>1, <3>2, <3>3, <3>4
  <2>10. NoTwice(rows)
    BY <2>5, <2>9 DEF NoTwice
  <2>11. ASSUME NEW i \in 1 .. Len(rows) PROVE rows[i] \in m.seen
    <3>1. rows[i] \in Live!Range(rows)
      BY <2>5 DEF Live!Range
    <3>2. ASSUME i \in 1 .. Len(fresh)
          PROVE  rows[i] \in Live!Range(u.page)
      <4>1. rows[i] = fresh[i]
        BY <2>4, <2>5, <3>2
      <4>2. PICK j \in 1 .. Len(u.page) : u.page[j] = fresh[i]
        BY <2>2, <3>2
      <4> QED
        BY <2>1, <4>1, <4>2 DEF Live!Range
    <3>3. ASSUME NEW k \in 1 .. Len(t.events), i = Len(fresh) + k
          PROVE  rows[i] \in t.seen
      BY <2>4, <2>5, <2>8, <3>3
    <3>4. i \in 1 .. Len(both)
      BY <2>5
    <3>5. rows[i] \in t.seen \cup Live!Range(u.page)
      BY <2>7, <3>2, <3>3, <3>4
    <3> QED
      BY <2>3, <3>1, <3>5
  <2>12. m.rowsOf = u.dir
    <3>1. t.events # <<>> => t.rowsOf = u.dir
      BY DEF Sound
    <3> QED
      BY <2>3, <3>1
  <2>13. ASSUME Len(rows) # MaxRows, NEW e \in m.seen
         PROVE  e \in m.swallowed \/ \E i \in 1 .. Len(rows) : rows[i] = e
    <3>1. Len(rows) = Len(both) /\ Len(both) < MaxRows
      BY <2>1, <2>4, <2>5, <2>6, <2>13
    <3>2. CASE e \in Live!Range(rows)
      BY <2>5, <3>2 DEF Live!Range
    <3>3. ASSUME NEW i \in 1 .. Len(fresh), fresh[i] = e
          PROVE  \E k \in 1 .. Len(rows) : rows[k] = e
      <4>1. i \in 1 .. Len(rows)
        BY <2>4, <3>1
      <4> QED
        BY <2>4, <2>5, <3>3, <4>1
    <3>4. CASE e \in t.seen
      <4>1. Len(t.events) # MaxRows
        BY <2>1, <2>4, <3>1
      <4>2. e \in t.swallowed \/ \E i \in 1 .. Len(t.events) : t.events[i] = e
        BY <3>4, <4>1 DEF Sound
      <4>3. ASSUME NEW i \in 1 .. Len(t.events), t.events[i] = e
            PROVE  \E k \in 1 .. Len(rows) : rows[k] = e
        <5>1. Len(fresh) + i \in 1 .. Len(rows)
          BY <2>4, <3>1
        <5> QED
          BY <2>4, <2>5, <4>3, <5>1
      <4> QED
        BY <2>3, <4>2, <4>3
    <3>5. CASE e \in Live!Range(u.page) /\ e \notin t.seen
      <4>1. PICK j \in 1 .. Len(u.page) : u.page[j] = e
        BY <2>1, <3>5 DEF Live!Range
      <4>2. PICK i \in 1 .. Len(fresh) : fresh[i] = e
        BY <2>2, <3>5, <4>1
      <4> QED
        BY <3>3, <4>2
    <3> QED
      BY <2>3, <3>2, <3>4, <3>5
  <2>14. Sound(m, u.dir)
    BY <2>3, <2>6, <2>10, <2>11, <2>12, <2>13 DEF Sound
  <2> QED
    BY <2>14 DEF m
<1> QED
  BY <1>1, <1>2
\* What a rendering will leave is sound: there is a point in the queue, its
\* start or a reset, where the list is sound, and behind it no page that was
\* asked for under another direction.
LiveCore(w) ==
  /\ NoTwice(w.events) /\ Len(w.events) <= MaxRows
  /\ \A i \in 1 .. Len(w.queue) : NoTwice(w.queue[i].page)
  /\ \E j \in 0 .. Len(w.queue) :
       /\ IF j = 0 THEN Sound(w, w.direction) ELSE w.queue[j].reset
       /\ \A i \in 1 .. Len(w.queue) :
            i > j => w.queue[i].reset \/ w.queue[i].dir = w.direction

LiveInv ==
  page = "live" => server \subseteq Event /\ Live!TailTypeOK /\ LiveCore(view)

LEMMA ResetIsSound ==
  ASSUME NEW t \in Live!TailState, NEW d
  PROVE  Sound(Live!ResetRows(t), d)
<1>1. MaxRows \in Nat \ {0}
  BY PagesAssumption DEF Live!TailAssumption
<1> DEFINE r == Live!ResetRows(t)
<1>2. r.events = <<>> /\ r.seen = t.seen /\ r.swallowed = t.seen
  BY DEF Live!ResetRows, Live!TailState
<1> HIDE DEF r
<1>3. Sound(r, d)
  BY <1>1, <1>2 DEF Sound, NoTwice
<1> QED
  BY <1>3 DEF r

LEMMA UpdIsTyped ==
  ASSUME NEW t \in Live!TailState, NEW u \in Live!Update, NoTwice(u.page)
  PROVE  /\ Upd(t, u) \in Live!TailState
         /\ Upd(t, u).queue = t.queue /\ Upd(t, u).direction = t.direction
<1>1. CASE u.reset
  <2> DEFINE r == [t EXCEPT !.events = <<>>, !.swallowed = t.seen]
  <2>1. Upd(t, u) = r
    BY <1>1 DEF Upd, Live!ResetRows
  <2>2. t.seen \in SUBSET Event /\ <<>> \in Seq(Event)
    BY DEF Live!TailState
  <2>3. r \in Live!TailState /\ r.queue = t.queue /\ r.direction = t.direction
    BY <2>2 DEF Live!TailState
  <2> QED
    BY <2>1, <2>3
<1>2. CASE ~u.reset /\ Live!Fresh(u.page, t.seen) = <<>>
  BY <1>2, Unmerged DEF Upd
<1>3. CASE ~u.reset /\ Live!Fresh(u.page, t.seen) # <<>>
  BY <1>3, Merged DEF Upd
<1> QED
  BY <1>1, <1>2, <1>3

LEMMA EventsAreFinite ==
  ASSUME NEW S \in SUBSET Event
  PROVE  IsFiniteSet(S) /\ Live!Cardinality(S) = Cardinality(S) /\ Cardinality(S) \in Nat
<1>1. IsFiniteSet(Event)
  BY PagesAssumption DEF Live!TailAssumption, Live!IsFiniteSet, IsFiniteSet
<1>2. IsFiniteSet(S)
  BY <1>1, FS_Subset
<1>3. Cardinality(S) \in Nat
  BY <1>2, FS_CardinalityType
<1>4. Live!Cardinality(S) = Cardinality(S)
  BY DEF Live!Cardinality, Cardinality
<1> QED
  BY <1>2, <1>3, <1>4

\* The pages hold every event at most once.
LEMMA PagesAreRows ==
  ASSUME server \subseteq Event, NEW p \in Live!Pages
  PROVE  p \in Seq(Event) /\ NoTwice(p)
<1> DEFINE n == Live!Smaller(PageLimit, Live!Cardinality(server))
<1>1. Live!Cardinality(server) \in Nat
  BY EventsAreFinite
<1>2. n \in Nat
  BY <1>1, PagesAssumption DEF Live!Smaller, Live!TailAssumption
<1>3. p \in [1 .. n -> server] /\ \A i, j \in 1 .. n : i < j => p[i] > p[j]
  BY DEF Live!Pages
<1> HIDE DEF n
<1>4. p \in Seq(Event) /\ Len(p) = n
  BY <1>2, <1>3
<1>5. Event \subseteq Nat
  BY PagesAssumption DEF Live!TailAssumption
<1>6. ASSUME NEW i \in 1 .. n, NEW j \in 1 .. n, p[i] = p[j]
      PROVE  i = j
  <2>1. p[i] \in Nat
    BY <1>3, <1>5
  <2>2. ~ (p[i] > p[j]) /\ ~ (p[j] > p[i])
    BY <1>6, <2>1
  <2>3. ~ (i < j) /\ ~ (j < i)
    BY <1>3, <2>2
  <2> QED
    BY <1>2, <2>3
<1> QED
  BY <1>4, <1>6 DEF NoTwice

\* A rendering keeps what LiveCore says.
LEMMA RenderIsSound ==
  ASSUME view \in Live!TailState, LiveCore(view), Live!Render
  PROVE  /\ view' \in Live!TailState
         /\ view'.queue = <<>>
         /\ Sound(view', view'.direction)
<1> DEFINE b == [view EXCEPT !.queue = <<>>]
           q == view.queue
           d == view.direction
<1>0. q \in Seq(Live!Update) /\ <<>> \in Seq(Live!Update)
  BY DEF Live!TailState
<1>1. /\ b \in Live!TailState /\ b.queue = <<>> /\ b.direction = d
      /\ b.events = view.events /\ b.seen = view.seen /\ b.swallowed = view.swallowed
      /\ b.rowsOf = view.rowsOf
  BY <1>0 DEF Live!TailState
<1>2. view' = Updates!Fold(b, q)
  BY DEF Live!Render, Upd, Updates!Fold, Updates!FoldLeft, Updates!MapThenFoldSet,
         Live!FoldLeft, Live!MapThenFoldSet, Live!Max, Updates!Max
<1>3. PICK j \in 0 .. Len(q) :
        /\ IF j = 0 THEN Sound(view, d) ELSE q[j].reset
        /\ \A i \in 1 .. Len(q) : i > j => q[i].reset \/ q[i].dir = d
  BY DEF LiveCore
<1>4. \A i \in 1 .. Len(q) : NoTwice(q[i].page)
  BY DEF LiveCore
<1>5. j = 0 => Sound(b, d)
  BY <1>1, <1>3 DEF Sound
<1> HIDE DEF b, q, d
<1>6. PICK st : Updates!Stepwise(st, b, q) /\ Updates!Fold(b, q) = st[Len(q)]
  BY <1>0, Updates!FoldIsStepwise
<1>7. st[0] = b
  BY <1>6 DEF Updates!Stepwise
<1>8. \A k \in 1 .. Len(q) : st[k] = Upd(st[k - 1], q[k])
  BY <1>6 DEF Updates!Stepwise, Upd
<1>9. Len(q) \in Nat /\ \A k \in 1 .. Len(q) : q[k] \in Live!Update
  BY <1>0
<1> DEFINE Typed(t) == t \in Live!TailState /\ t.queue = <<>> /\ t.direction = d
           S == {k \in Nat : k <= Len(q) =>
                               Typed(st[k]) /\ (k >= j => Sound(st[k], d))}
<1> HIDE DEF Typed
<1>10. 0 \in S
  <2>1. Typed(st[0])
    BY <1>1, <1>7 DEF Typed
  <2>2. 0 >= j => Sound(st[0], d)
    BY <1>5, <1>7
  <2> QED
    BY <2>1, <2>2
<1>11. ASSUME NEW k \in Nat, k \in S PROVE k + 1 \in S
  <2> DEFINE u == q[k + 1]
  <2> SUFFICES ASSUME k + 1 <= Len(q)
               PROVE  Typed(st[k + 1]) /\ (k + 1 >= j => Sound(st[k + 1], d))
    OBVIOUS
  <2>1. k + 1 \in 1 .. Len(q) /\ (k + 1) - 1 = k /\ k <= Len(q)
    BY <1>9
  <2>2. Typed(st[k]) /\ (k >= j => Sound(st[k], d))
    BY <1>11, <2>1
  <2>3. st[k + 1] = Upd(st[k], u)
    BY <1>8, <2>1
  <2>4. u \in Live!Update /\ NoTwice(u.page) /\ st[k] \in Live!TailState
    BY <1>4, <1>9, <2>1, <2>2 DEF Typed
  <2>5. Typed(st[k + 1])
    BY <2>2, <2>3, <2>4, UpdIsTyped DEF Typed
  <2>6. CASE u.reset
    <3>1. st[k + 1] = Live!ResetRows(st[k])
      BY <2>3, <2>6 DEF Upd
    <3> QED
      BY <2>4, <2>5, <3>1, ResetIsSound
  <2>7. CASE ~u.reset
    <3>1. st[k + 1] = Live!Merge(st[k], u)
      BY <2>3, <2>7 DEF Upd
    <3>2. SUFFICES ASSUME k + 1 >= j PROVE Sound(st[k + 1], d)
      BY <2>5
    <3>3. k >= j
      <4>1. k + 1 # j
        BY <1>3, <2>1, <2>7
      <4> QED
        BY <3>2, <4>1, <1>3, <1>9
    <3>4. u.dir = d
      BY <1>3, <2>1, <2>7, <3>3, <1>9
    <3> QED
      BY <2>2, <2>4, <3>1, <3>3, <3>4, MergeIsSound
  <2> QED
    BY <2>6, <2>7
<1> HIDE DEF S
<1>12. Nat \subseteq S
  BY <1>10, <1>11, Updates!SetInduction
<1>13. Typed(st[Len(q)]) /\ Sound(st[Len(q)], d)
  <2>1. Len(q) \in S /\ Len(q) >= j
    BY <1>3, <1>9, <1>12
  <2> QED
    BY <1>9, <2>1 DEF S
<1> QED
  BY <1>2, <1>6, <1>13 DEF Typed
LEMMA InitLive == Init => LiveInv
<1> SUFFICES ASSUME Init, page = "live" PROVE LiveInv
  BY DEF LiveInv
<1>1. view = Live!Mounted /\ server = {}
  BY DEF Init, OpensLive, OpensSheet, OpensStats, OpensLogs, OpensKeys, OpensKeyForm,
         OpensSettings, OpensProjects, OpensGuide, OpensSignIn, Live!Init
<1>2. view \in Live!TailState
  BY <1>1 DEF Live!TailState, Live!Mounted, Live!Dir
<1>3. MaxRows \in Nat
  BY PagesAssumption DEF Live!TailAssumption
<1>4. LiveCore(view)
  <2>1. view.events = <<>> /\ view.queue = <<>> /\ view.seen = {}
    BY <1>1 DEF Live!Mounted
  <2>2. Sound(view, view.direction)
    BY <1>3, <2>1 DEF Sound, NoTwice
  <2> QED
    BY <1>3, <2>1, <2>2 DEF LiveCore, NoTwice
<1> QED
  BY <1>1, <1>2, <1>4 DEF LiveInv, Live!TailTypeOK

LEMMA NextLive == LiveInv /\ [Next]_vars => LiveInv'
<1> SUFFICES ASSUME LiveInv, [Next]_vars, page = "live" PROVE LiveInv'
  BY PageStays DEF LiveInv
<1>0. page' = page
  BY PageStays
<1>1. view \in Live!TailState /\ LiveCore(view) /\ server \subseteq Event
  BY DEF LiveInv, Live!TailTypeOK
<1>2. ASSUME view' \in Live!TailState, LiveCore(view'), server' \subseteq Event
      PROVE  LiveInv'
  BY <1>2 DEF LiveInv, LiveCore, Sound, NoTwice, Live!TailTypeOK
<1>3. CASE UNCHANGED <<view, server>>
  BY <1>1, <1>2, <1>3
<1>4. /\ view.queue \in Seq(Live!Update) /\ view.direction \in Live!Dir
      /\ view.stale \in SUBSET Live!Dir /\ view.paused \in BOOLEAN
  BY <1>1 DEF Live!TailState
\* A step that leaves the list and the queue alone.
<1>5. ASSUME NEW w, w \in Live!TailState, w.events = view.events, w.seen = view.seen,
             w.swallowed = view.swallowed, w.rowsOf = view.rowsOf,
             w.queue = view.queue, w.direction = view.direction
      PROVE  LiveCore(w)
  BY <1>1, <1>5 DEF LiveCore, Sound
\* An update of the direction that is selected, or a reset, is added.
<1>6. ASSUME NEW w, w \in Live!TailState, NEW u \in Live!Update, NoTwice(u.page),
             u.reset \/ u.dir = view.direction,
             w.events = view.events, w.seen = view.seen,
             w.swallowed = view.swallowed, w.rowsOf = view.rowsOf,
             w.queue = Append(view.queue, u), w.direction = view.direction
      PROVE  LiveCore(w)
  <2> DEFINE n == Len(view.queue)
             r == w.queue
  <2>1. /\ n \in Nat /\ Len(r) = n + 1 /\ r[n + 1] = u
        /\ \A i \in 1 .. n : r[i] = view.queue[i]
    BY <1>4, <1>6
  <2>2. \A i \in 1 .. n + 1 : i \in 1 .. n \/ i = n + 1
    BY <2>1
  <2>3. PICK j \in 0 .. n :
          /\ IF j = 0 THEN Sound(view, view.direction) ELSE view.queue[j].reset
          /\ \A i \in 1 .. n : i > j => view.queue[i].reset \/ view.queue[i].dir = view.direction
    BY <1>1 DEF LiveCore
  <2>4. \A i \in 1 .. n : NoTwice(view.queue[i].page)
    BY <1>1 DEF LiveCore
  <2> HIDE DEF n, r
  <2>5. j \in 0 .. Len(r) /\ (j # 0 => j \in 1 .. n)
    BY <2>1
  <2>6. IF j = 0 THEN Sound(w, w.direction) ELSE r[j].reset
    BY <1>6, <2>1, <2>3, <2>5 DEF Sound
  <2>7. \A i \in 1 .. Len(r) : i > j => r[i].reset \/ r[i].dir = w.direction
    BY <1>6, <2>1, <2>2, <2>3
  <2>8. \A i \in 1 .. Len(r) : NoTwice(r[i].page)
    BY <1>6, <2>1, <2>2, <2>4
  <2>9. NoTwice(w.events) /\ Len(w.events) <= MaxRows
    BY <1>1, <1>6 DEF LiveCore
  <2> QED
    BY <2>5, <2>6, <2>7, <2>8, <2>9 DEF LiveCore, r
\* A step behind which the queue ends with a reset.
<1>7. ASSUME NEW w, w \in Live!TailState, w.events = view.events,
             w.queue = Live!ThenReset(view.queue)
      PROVE  LiveCore(w)
  <2> DEFINE q == view.queue
             r == w.queue
  <2>1. /\ r \in Seq(Live!Update) /\ Len(r) \in 1 .. Len(r)
        /\ r[Len(r)].reset
        /\ \A i \in 1 .. Len(r) : NoTwice(r[i].page)
    <3>0. \A i \in 1 .. Len(q) : NoTwice(q[i].page)
      BY <1>1 DEF LiveCore
    <3>1. CASE q # <<>> /\ Live!Last(q) = Live!Reset
      <4>1. r = q /\ q[Len(q)] = Live!Reset
        BY <1>7, <3>1 DEF Live!ThenReset, Live!Last
      <4> QED
        BY <1>4, <3>0, <3>1, <4>1 DEF Live!Reset
    <3>2. CASE ~ (q # <<>> /\ Live!Last(q) = Live!Reset)
      <4>1. r = Append(q, Live!Reset)
        BY <1>7, <3>2 DEF Live!ThenReset
      <4>2. Live!Reset \in Live!Update /\ NoTwice(Live!Reset.page) /\ Live!Reset.reset
        BY DEF Live!Reset, Live!Update, Live!Dir, NoTwice
      <4>3. /\ r \in Seq(Live!Update) /\ Len(r) = Len(q) + 1 /\ r[Len(q) + 1] = Live!Reset
            /\ \A i \in 1 .. Len(q) : r[i] = q[i]
            /\ Len(q) \in Nat
        BY <1>4, <4>1, <4>2
      <4> HIDE DEF q, r
      <4>4. \A i \in 1 .. Len(r) : i \in 1 .. Len(q) \/ i = Len(q) + 1
        BY <4>3
      <4>5. Len(r) \in 1 .. Len(r)
        BY <4>3
      <4>6. \A i \in 1 .. Len(r) : NoTwice(r[i].page)
        BY <3>0, <4>2, <4>3, <4>4
      <4> QED
        BY <4>2, <4>3, <4>5, <4>6
    <3> QED
      BY <3>1, <3>2
  <2>2. NoTwice(w.events) /\ Len(w.events) <= MaxRows
    BY <1>1, <1>7 DEF LiveCore
  <2> DEFINE j == Len(r)
  <2>3. j \in 0 .. Len(r) /\ j # 0 /\ \A i \in 1 .. Len(r) : ~ (i > j)
    BY <2>1
  <2> QED
    BY <2>1, <2>2, <2>3 DEF LiveCore
<1>8. ASSUME LiveSteps PROVE LiveInv'
  <2>0. server' = server
    BY <1>8 DEF LiveSteps
  <2>1. CASE Live!PollAnswers
    <3>1. CASE view' = [view EXCEPT !.error = TRUE, !.poll = "timer"]
      <4> DEFINE w == [view EXCEPT !.error = TRUE, !.poll = "timer"]
      <4>1. /\ w \in Live!TailState /\ w.events = view.events /\ w.seen = view.seen
            /\ w.swallowed = view.swallowed /\ w.rowsOf = view.rowsOf
            /\ w.queue = view.queue /\ w.direction = view.direction
        BY <1>1 DEF Live!TailState
      <4>2. LiveCore(w)
        BY <1>5, <4>1
      <4> QED
        BY <1>1, <1>2, <2>0, <3>1, <4>1, <4>2
    <3>2. ASSUME NEW p \in Live!Pages,
                 view' \in Live!Offer([view EXCEPT !.error = FALSE, !.poll = "timer"],
                                      [page |-> p, dir |-> view.direction, reset |-> FALSE])
          PROVE  LiveInv'
      <4> DEFINE t == [view EXCEPT !.error = FALSE, !.poll = "timer"]
                 u == [page |-> p, dir |-> view.direction, reset |-> FALSE]
      <4>1. /\ t \in Live!TailState /\ t.events = view.events /\ t.seen = view.seen
            /\ t.swallowed = view.swallowed /\ t.rowsOf = view.rowsOf
            /\ t.queue = view.queue /\ t.direction = view.direction
        BY <1>1 DEF Live!TailState
      <4>2. p \in Seq(Event) /\ NoTwice(p)
        BY <1>1, PagesAreRows
      <4>3. u \in Live!Update /\ u.page = p /\ u.dir = view.direction /\ u.reset = FALSE
        BY <1>4, <4>2 DEF Live!Update
      <4>4. view' \in Live!Offer(t, u)
        BY <3>2
      <4> HIDE DEF t, u
      <4>5. CASE view' = [t EXCEPT !.queue = Append(@, u)]
        <5>1. Append(t.queue, u) \in Seq(Live!Update)
          BY <1>4, <4>1, <4>3
        <5>2. /\ view' \in Live!TailState /\ view'.events = t.events /\ view'.seen = t.seen
              /\ view'.swallowed = t.swallowed /\ view'.rowsOf = t.rowsOf
              /\ view'.queue = Append(t.queue, u) /\ view'.direction = t.direction
          BY <4>1, <4>5, <5>1 DEF Live!TailState
        <5>3. LiveCore(view')
          BY <1>6, <4>1, <4>2, <4>3, <5>2
        <5> QED
          BY <1>1, <1>2, <2>0, <5>2, <5>3
      <4>6. CASE t.queue = <<>> /\ view' = Live!Merge(t, u)
        <5>1. Sound(t, u.dir)
          <6>1. Sound(view, view.direction)
            BY <1>1, <4>1, <4>6 DEF LiveCore
          <6> QED
            BY <4>1, <4>3, <6>1 DEF Sound
        <5>2. Sound(view', u.dir)
          BY <4>1, <4>2, <4>3, <4>6, <5>1, MergeIsSound
        <5>3. view' \in Live!TailState /\ view'.queue = t.queue /\ view'.direction = t.direction
          BY <4>1, <4>2, <4>3, <4>6, UpdIsTyped DEF Upd
        <5>4. LiveCore(view')
          BY <4>1, <4>3, <4>6, <5>2, <5>3 DEF LiveCore, Sound
        <5> QED
          BY <1>1, <1>2, <2>0, <5>3, <5>4
      <4> QED
        BY <4>4, <4>5, <4>6 DEF Live!Offer
    <3> QED
      BY <2>1, <3>1, <3>2 DEF Live!PollAnswers
  <2>2. CASE Live!PollAgain
    <3>1. view' = [view EXCEPT !.poll = "asked"]
      BY <2>2 DEF Live!PollAgain
    <3>2. /\ view' \in Live!TailState /\ view'.events = view.events /\ view'.seen = view.seen
          /\ view'.swallowed = view.swallowed /\ view'.rowsOf = view.rowsOf
          /\ view'.queue = view.queue /\ view'.direction = view.direction
      BY <1>1, <3>1 DEF Live!TailState
    <3>3. LiveCore(view')
      BY <1>5, <3>2
    <3> QED
      BY <1>1, <1>2, <2>0, <3>2, <3>3
  <2>3. CASE Live!Render
    <3>1. view' \in Live!TailState /\ view'.queue = <<>> /\ Sound(view', view'.direction)
      BY <1>1, <2>3, RenderIsSound
    <3>2. LiveCore(view')
      BY <3>1 DEF LiveCore, Sound
    <3> QED
      BY <1>1, <1>2, <2>0, <3>1, <3>2
  <2> DEFINE c == Live!Cancelled(view)
  <2>c. /\ c \in Live!TailState /\ c.events = view.events /\ c.seen = view.seen
        /\ c.swallowed = view.swallowed /\ c.rowsOf = view.rowsOf
        /\ c.queue = view.queue /\ c.direction = view.direction /\ c.paused = view.paused
    <3> DEFINE late == view.stale \cup (IF view.poll = "asked" THEN {view.direction} ELSE {})
    <3>1. c = [view EXCEPT !.stale = late, !.poll = "none"]
      BY DEF Live!Cancelled
    <3>2. late \in SUBSET Live!Dir
      BY <1>4
    <3> HIDE DEF late, c
    <3> QED
      BY <1>1, <3>1, <3>2 DEF Live!TailState
  <2>r. /\ Live!ThenReset(view.queue) \in Seq(Live!Update)
    <3>1. Live!Reset \in Live!Update
      BY DEF Live!Reset, Live!Update, Live!Dir
    <3> QED
      BY <1>4, <3>1 DEF Live!ThenReset
  <2>4. CASE Live!TogglePause
    <3> DEFINE p == IF view.paused THEN "asked" ELSE "none"
    <3>1. view' = [c EXCEPT !.paused = ~@, !.poll = p]
      BY <2>4 DEF Live!TogglePause
    <3>2. p \in {"none", "asked", "timer"}
      OBVIOUS
    <3> HIDE DEF p, c
    <3>3. /\ view' \in Live!TailState /\ view'.events = c.events /\ view'.seen = c.seen
          /\ view'.swallowed = c.swallowed /\ view'.rowsOf = c.rowsOf
          /\ view'.queue = c.queue /\ view'.direction = c.direction
      BY <2>c, <3>1, <3>2 DEF Live!TailState
    <3>4. LiveCore(view')
      BY <1>5, <2>c, <3>3
    <3> QED
      BY <1>1, <1>2, <2>0, <3>3, <3>4
  <2>5. CASE Live!Clear
    <3> DEFINE r == Live!ThenReset(view.queue)
    <3>1. view' = [view EXCEPT !.seen = {}, !.swallowed = {}, !.queue = r]
      BY <2>5 DEF Live!Clear
    <3>0. r \in Seq(Live!Update)
      BY <2>r
    <3> HIDE DEF r
    <3>2. view' \in Live!TailState /\ view'.events = view.events /\ view'.queue = r
      BY <1>1, <3>0, <3>1 DEF Live!TailState
    <3>3. LiveCore(view')
      BY <1>7, <3>2 DEF r
    <3> QED
      BY <1>1, <1>2, <2>0, <3>2, <3>3
  <2>6. ASSUME NEW d \in Live!Dir, Live!SetDirection(d) PROVE LiveInv'
    <3> DEFINE r == Live!ThenReset(c.queue)
               p == IF view.paused THEN "none" ELSE "asked"
    <3>1. view' = [c EXCEPT !.direction = d, !.seen = {}, !.swallowed = {},
                            !.queue = r, !.poll = p]
      BY <2>6 DEF Live!SetDirection
    <3>0. r \in Seq(Live!Update) /\ p \in {"none", "asked", "timer"}
      BY <2>r, <2>c
    <3> HIDE DEF r, p, c
    <3>2. view' \in Live!TailState /\ view'.events = c.events /\ view'.queue = r
      BY <2>c, <2>6, <3>0, <3>1 DEF Live!TailState
    <3>3. LiveCore(view')
      BY <1>7, <2>c, <3>2 DEF r
    <3> QED
      BY <1>1, <1>2, <2>0, <3>2, <3>3
  <2>7. ASSUME NEW d \in Live!Dir, Live!StalePollEnds(d) PROVE LiveInv'
    <3>1. view' = [view EXCEPT !.stale = view.stale \ {d}]
      BY <2>7 DEF Live!StalePollEnds
    <3>0. view.stale \ {d} \in SUBSET Live!Dir
      BY <1>4
    <3>2. /\ view' \in Live!TailState /\ view'.events = view.events /\ view'.seen = view.seen
          /\ view'.swallowed = view.swallowed /\ view'.rowsOf = view.rowsOf
          /\ view'.queue = view.queue /\ view'.direction = view.direction
      BY <1>1, <3>0, <3>1 DEF Live!TailState
    <3>3. LiveCore(view')
      BY <1>5, <3>2
    <3> QED
      BY <1>1, <1>2, <2>0, <3>2, <3>3
  <2> QED
    BY <1>8, <2>1, <2>2, <2>3, <2>4, <2>5, <2>6, <2>7 DEF LiveSteps, Live!Step
<1>9. CASE EventArrives
  BY <1>1, <1>2, <1>9 DEF EventArrives, Live!Ingest
<1>10. CASE SessionEnds
  BY <1>3, <1>10 DEF SessionEnds
<1>11. CASE Next
  BY <1>8, <1>9, <1>10, <1>11
     DEF Next, SheetSteps, StatsSteps, LogsSteps, KeysSteps, KeyFormSteps,
         SettingsSteps, ProjectsSteps, GuideSteps, SignInSteps
<1> QED
  BY <1>3, <1>11 DEF vars

\* The three properties of the live tail.
LEMMA LiveShows ==
  ASSUME LiveInv, page = "live"
  PROVE  Live!RowsAreOfItsPolls /\ Live!ListIsCoherent /\ Live!HiddenHasACause
<1>1. view \in Live!TailState /\ LiveCore(view)
  BY DEF LiveInv, Live!TailTypeOK
<1>2. view.queue = <<>> => Sound(view, view.direction)
  BY <1>1 DEF LiveCore
<1> DEFINE s == view.events
<1>3. /\ s \in Seq(Event) /\ Len(s) \in Nat /\ NoTwice(s) /\ Len(s) <= MaxRows
  BY <1>1 DEF LiveCore, Live!TailState
<1>4. Live!Range(s) = {s[i] : i \in 1 .. Len(s)}
  BY <1>3 DEF Live!Range
<1> HIDE DEF s
<1>5. Cardinality(1 .. Len(s)) = Len(s) /\ IsFiniteSet(1 .. Len(s))
  <2> DEFINE n == Len(s)
  <2>1. n \in Int /\ 1 \in Int /\ n >= 0
    BY <1>3
  <2> HIDE DEF n
  <2>2. IsFiniteSet(1 .. n) /\ Cardinality(1 .. n) = (IF 1 > n THEN 0 ELSE n - 1 + 1)
    BY <2>1, FS_Interval
  <2>3. (IF 1 > n THEN 0 ELSE n - 1 + 1) = n
    BY <2>1
  <2> QED
    BY <2>2, <2>3 DEF n
<1>6. Live!Cardinality(Live!Range(s)) = Len(s)
  <2> DEFINE f == [i \in 1 .. Len(s) |-> s[i]]
  <2>1. f \in Bijection(1 .. Len(s), Live!Range(s))
    <3>1. f \in [1 .. Len(s) -> Live!Range(s)]
      BY <1>4
    <3>2. \A i, j \in 1 .. Len(s) : f[i] = f[j] => i = j
      BY <1>3 DEF NoTwice
    <3>3. \A e \in Live!Range(s) : \E i \in 1 .. Len(s) : f[i] = e
      BY <1>4
    <3> HIDE DEF f
    <3> QED
      BY <3>1, <3>2, <3>3 DEF Bijection, Injection, Surjection, IsInjective
  <2>2. Cardinality(Live!Range(s)) = Len(s)
    BY <1>5, <2>1, FS_Bijection DEF ExistsBijection
  <2>3. Live!Range(s) \in SUBSET Event
    BY <1>3 DEF Live!Range
  <2> QED
    BY <2>2, <2>3, EventsAreFinite
<1>7. view.queue = <<>> =>
        /\ \A e \in Live!Range(s) : e \in view.seen
        /\ s # <<>> => view.rowsOf = view.direction
        /\ \/ Len(s) = MaxRows
           \/ \A e \in view.seen : e \in view.swallowed \/ e \in Live!Range(s)
  BY <1>2, <1>4 DEF Sound, s
<1> QED
  BY <1>3, <1>6, <1>7
     DEF s, Live!RowsAreOfItsPolls, Live!ListIsCoherent, Live!HiddenHasACause, Live!Listed

-----------------------------------------------------------------------------
(* The sheet of an event. *)

\* An effect asks for the selected event and the sheet loads for as long; once
\* it was answered the sheet shows an error or that event.
SheetCore(w) ==
  /\ w.selected = NoEvent => w.asked = NoEvent
  /\ w.selected # NoEvent =>
       IF w.asked = NoEvent THEN ~w.loading /\ (w.error \/ w.event = w.selected)
       ELSE w.asked = w.selected /\ w.loading

SheetInv == page = "sheet" => Sheet!SheetTypeOK /\ SheetCore(view)

LEMMA InitSheet == Init => SheetInv
<1> SUFFICES ASSUME Init, page = "sheet" PROVE SheetInv
  BY DEF SheetInv
<1>1. view = Sheet!Mounted
  BY DEF Init, OpensLive, OpensSheet, OpensStats, OpensLogs, OpensKeys, OpensKeyForm,
         OpensSettings, OpensProjects, OpensGuide, OpensSignIn, Sheet!Init
<1> QED
  BY <1>1 DEF SheetInv, SheetCore, Sheet!SheetTypeOK, Sheet!SheetState, Sheet!Mounted

LEMMA NextSheet == SheetInv /\ [Next]_vars => SheetInv'
<1> SUFFICES ASSUME SheetInv, [Next]_vars, page = "sheet" PROVE SheetInv'
  BY PageStays DEF SheetInv
<1>0. page' = page
  BY PageStays
<1>1. view \in Sheet!SheetState /\ SheetCore(view)
  BY DEF SheetInv, Sheet!SheetTypeOK
<1>2. ASSUME view' \in Sheet!SheetState, SheetCore(view') PROVE SheetInv'
  BY <1>2 DEF SheetInv, Sheet!SheetTypeOK
<1>3. CASE UNCHANGED view
  BY <1>0, <1>1, <1>2, <1>3
<1>4. ASSUME NEW e \in Event, Sheet!Select(e) PROVE SheetInv'
  <2>1. /\ view' = [view EXCEPT !.selected = e, !.loading = TRUE, !.error = FALSE,
                                !.asked = e]
        /\ e # NoEvent
    BY <1>4, PagesAssumption DEF Sheet!Select, Sheet!SheetAssumption
  <2>2. view' \in Sheet!SheetState
    BY <1>1, <2>1 DEF Sheet!SheetState
  <2>3. SheetCore(view')
    BY <1>1, <2>1 DEF SheetCore, Sheet!SheetState
  <2> QED
    BY <1>2, <2>2, <2>3
<1>5. CASE Sheet!Close
  <2>1. view' = [view EXCEPT !.selected = NoEvent, !.asked = NoEvent,
                             !.stale = view.stale \cup ({view.asked} \ {NoEvent})]
    BY <1>5 DEF Sheet!Close
  <2>2. view' \in Sheet!SheetState
    BY <1>1, <2>1 DEF Sheet!SheetState
  <2>3. SheetCore(view')
    BY <1>1, <2>1 DEF SheetCore, Sheet!SheetState
  <2> QED
    BY <1>2, <2>2, <2>3
<1>6. CASE Sheet!Loads
  <2>1. view.asked # NoEvent /\ view.selected = view.asked
    BY <1>1, <1>6 DEF Sheet!Loads, SheetCore
  <2>2. \/ view' = [view EXCEPT !.event = view.asked, !.asked = NoEvent, !.loading = FALSE]
        \/ view' = [view EXCEPT !.error = TRUE, !.asked = NoEvent, !.loading = FALSE]
    BY <1>6 DEF Sheet!Loads
  <2>3. view' \in Sheet!SheetState
    BY <1>1, <2>2 DEF Sheet!SheetState
  <2>4. SheetCore(view')
    BY <1>1, <2>1, <2>2 DEF SheetCore, Sheet!SheetState
  <2> QED
    BY <1>2, <2>3, <2>4
<1>7. ASSUME NEW e \in Event, Sheet!StaleEnds(e) PROVE SheetInv'
  <2>1. view' = [view EXCEPT !.stale = view.stale \ {e}]
    BY <1>7 DEF Sheet!StaleEnds
  <2>2. view' \in Sheet!SheetState
    BY <1>1, <2>1 DEF Sheet!SheetState
  <2>3. SheetCore(view')
    BY <1>1, <2>1 DEF SheetCore, Sheet!SheetState
  <2> QED
    BY <1>2, <2>2, <2>3
<1>8. CASE Next
  <2>1. SheetSteps \/ SessionEnds
    BY <1>8 DEF Next, LiveSteps, EventArrives, StatsSteps, LogsSteps, KeysSteps,
                KeyFormSteps, SettingsSteps, ProjectsSteps, GuideSteps, SignInSteps
  <2>2. CASE SheetSteps
    BY <1>4, <1>5, <1>6, <1>7, <2>2 DEF SheetSteps, Sheet!Step
  <2> QED
    BY <1>3, <2>1, <2>2 DEF SessionEnds
<1> QED
  BY <1>3, <1>8 DEF vars

\* What the invariant says of the screen.
LEMMA SheetShows ==
  ASSUME SheetInv, page = "sheet"
  PROVE  Sheet!SheetTypeOK /\ Sheet!SheetIsHonest
BY DEF SheetInv, SheetCore, Sheet!SheetTypeOK, Sheet!SheetIsHonest, Sheet!Title, Sheet!Body

-----------------------------------------------------------------------------
(* The analytics page. *)

\* The page loads while an effect waits.  Otherwise what is shown was asked
\* with the filters that are set, or there is an error.
StatsCore(w) ==
  /\ w.loading = w.asking
  /\ ~w.loading /\ ~w.error =>
       w.dataOf = w.filter /\ w.hostsOf = Stats!HostQuery(w.filter)

StatsInv == page = "stats" => Stats!StatsTypeOK /\ StatsCore(view)

LEMMA InitStats == Init => StatsInv
<1> SUFFICES ASSUME Init, page = "stats" PROVE StatsInv
  BY DEF StatsInv
<1>1. view = Stats!Mounted
  BY DEF Init, OpensLive, OpensSheet, OpensStats, OpensLogs, OpensKeys, OpensKeyForm,
         OpensSettings, OpensProjects, OpensGuide, OpensSignIn, Stats!Init
<1>2. view \in Stats!StatsState
  BY <1>1 DEF Stats!StatsState, Stats!Mounted, Stats!Query, Stats!RangeValue
<1>3. StatsCore(view)
  BY <1>1 DEF StatsCore, Stats!Mounted
<1> QED
  BY <1>2, <1>3 DEF StatsInv, Stats!StatsTypeOK

LEMMA SeriesAreSeries == Stats!SeriesAnswers \subseteq Seq(Bucket)
BY DEF Stats!SeriesAnswers, Stats!BoundedSeq, Stats!SeqOf

LEMMA NextStats == StatsInv /\ [Next]_vars => StatsInv'
<1> SUFFICES ASSUME StatsInv, [Next]_vars, page = "stats" PROVE StatsInv'
  BY PageStays DEF StatsInv
<1>0. page' = page
  BY PageStays
<1>1. view \in Stats!StatsState /\ StatsCore(view)
  BY DEF StatsInv, Stats!StatsTypeOK
<1>2. ASSUME view' \in Stats!StatsState, StatsCore(view') PROVE StatsInv'
  BY <1>2 DEF StatsInv, Stats!StatsTypeOK
<1>3. CASE UNCHANGED view
  BY <1>0, <1>1, <1>2, <1>3
<1>4. /\ view.filter \in Stats!Query /\ view.pathInput \in FilterPath \cup {"any"}
      /\ view.hosts \subseteq FilterHost /\ view.stale \subseteq Stats!Query
  BY <1>1 DEF Stats!StatsState
<1>5. ASSUME NEW f \in Stats!Query, NEW p \in FilterPath \cup {"any"},
             view' = [view EXCEPT !.filter = f, !.pathInput = p, !.loading = TRUE,
                        !.error = FALSE, !.asking = TRUE,
                        !.stale = view.stale \cup (IF view.asking THEN {view.filter}
                                                   ELSE {})]
      PROVE  StatsInv'
  <2>1. view' \in Stats!StatsState
    BY <1>1, <1>4, <1>5 DEF Stats!StatsState
  <2>2. StatsCore(view')
    BY <1>1, <1>5 DEF Stats!StatsState, StatsCore
  <2> QED
    BY <1>2, <2>1, <2>2
<1>6. ASSUME NEW f \in Stats!Query, Stats!Effect(f) PROVE StatsInv'
  <2>1. view' = [view EXCEPT !.filter = f, !.pathInput = view.pathInput, !.loading = TRUE,
                   !.error = FALSE, !.asking = TRUE,
                   !.stale = view.stale \cup (IF view.asking THEN {view.filter} ELSE {})]
    BY <1>1, <1>6 DEF Stats!Effect, Stats!StatsState
  <2> QED
    BY <1>4, <1>5, <2>1
<1>7. CASE Stats!SetRange
  <2>1. PICK r \in Stats!Picked : Stats!Effect([view.filter EXCEPT !.range = r])
    BY <1>7 DEF Stats!SetRange
  <2>2. [view.filter EXCEPT !.range = r] \in Stats!Query
    BY <1>4 DEF Stats!Query, Stats!RangeValue
  <2> QED
    BY <1>6, <2>1, <2>2
<1>8. CASE Stats!SetDirection
  <2>1. PICK d \in Direction \cup {"any"} :
          Stats!Effect([view.filter EXCEPT !.direction = d])
    BY <1>8 DEF Stats!SetDirection
  <2>2. [view.filter EXCEPT !.direction = d] \in Stats!Query
    BY <1>4 DEF Stats!Query
  <2> QED
    BY <1>6, <2>1, <2>2
<1>9. CASE Stats!SetKey
  <2>1. PICK k \in FilterKey \cup {"any"} : Stats!Effect([view.filter EXCEPT !.key = k])
    BY <1>9 DEF Stats!SetKey
  <2>2. [view.filter EXCEPT !.key = k] \in Stats!Query
    BY <1>4 DEF Stats!Query
  <2> QED
    BY <1>6, <2>1, <2>2
<1>10. CASE Stats!SetMethod
  <2>1. PICK m \in FilterMethod \cup {"any"} :
          Stats!Effect([view.filter EXCEPT !.method = m])
    BY <1>10 DEF Stats!SetMethod
  <2>2. [view.filter EXCEPT !.method = m] \in Stats!Query
    BY <1>4 DEF Stats!Query
  <2> QED
    BY <1>6, <2>1, <2>2
<1>11. CASE Stats!SetHost
  <2>1. PICK h \in view.hosts \cup {"any"} :
          Stats!Effect([view.filter EXCEPT !.host = h])
    BY <1>11 DEF Stats!SetHost
  <2>2. [view.filter EXCEPT !.host = h] \in Stats!Query
    BY <1>4 DEF Stats!Query
  <2> QED
    BY <1>6, <2>1, <2>2
<1>12. ASSUME NEW p \in FilterPath \cup {"any"}, Stats!TypePath(p) PROVE StatsInv'
  <2>1. view' = [view EXCEPT !.pathInput = p]
    BY <1>12 DEF Stats!TypePath
  <2>2. view' \in Stats!StatsState
    BY <1>1, <2>1 DEF Stats!StatsState
  <2>3. StatsCore(view')
    BY <1>1, <2>1 DEF Stats!StatsState, StatsCore
  <2> QED
    BY <1>2, <2>2, <2>3
<1>13. CASE Stats!SubmitPath
  <2>1. [view.filter EXCEPT !.path = view.pathInput] \in Stats!Query
    BY <1>4 DEF Stats!Query
  <2> QED
    BY <1>6, <1>13, <2>1 DEF Stats!SubmitPath
<1>14. CASE Stats!ClearPath
  <2> DEFINE f == [view.filter EXCEPT !.path = "any"]
  <2>1. f \in Stats!Query
    BY <1>4 DEF Stats!Query
  <2>2. view' = [view EXCEPT !.filter = f, !.pathInput = "any", !.loading = TRUE,
                   !.error = FALSE, !.asking = TRUE,
                   !.stale = view.stale \cup (IF view.asking THEN {view.filter} ELSE {})]
    BY <1>1, <1>14 DEF Stats!ClearPath
  <2> HIDE DEF f
  <2> QED
    BY <1>5, <2>1, <2>2
<1>15. CASE Stats!Refresh
  BY <1>4, <1>6, <1>15 DEF Stats!Refresh
<1>16. CASE Stats!Answered
  <2>1. \/ \E s \in Stats!SeriesAnswers, h \in SUBSET FilterHost :
             view' = [view EXCEPT !.asking = FALSE, !.dataOf = view.filter,
                        !.hostsOf = Stats!HostQuery(view.filter), !.series = s,
                        !.hosts = h, !.loading = FALSE]
        \/ view' = [view EXCEPT !.asking = FALSE, !.error = TRUE, !.loading = FALSE]
    <3> DEFINE t == [view EXCEPT !.asking = FALSE]
    <3>1. \/ Stats!Shown(t, view.filter)
          \/ view' = [t EXCEPT !.error = TRUE, !.loading = FALSE]
      BY <1>16 DEF Stats!Answered
    <3>2. ASSUME NEW s \in Stats!SeriesAnswers, NEW h \in SUBSET FilterHost,
                 view' = [t EXCEPT !.dataOf = view.filter,
                            !.hostsOf = Stats!HostQuery(view.filter), !.series = s,
                            !.hosts = h, !.loading = FALSE]
          PROVE  view' = [view EXCEPT !.asking = FALSE, !.dataOf = view.filter,
                            !.hostsOf = Stats!HostQuery(view.filter), !.series = s,
                            !.hosts = h, !.loading = FALSE]
      BY <1>1, <3>2 DEF Stats!StatsState
    <3>3. CASE Stats!Shown(t, view.filter)
      <4>1. PICK s \in Stats!SeriesAnswers, h \in SUBSET FilterHost :
              view' = [t EXCEPT !.dataOf = view.filter,
                         !.hostsOf = Stats!HostQuery(view.filter), !.series = s,
                         !.hosts = h, !.loading = FALSE]
        BY <3>3 DEF Stats!Shown
      <4> QED
        BY <3>2, <4>1
    <3>4. CASE view' = [t EXCEPT !.error = TRUE, !.loading = FALSE]
      BY <1>1, <3>4 DEF Stats!StatsState
    <3> QED
      BY <3>1, <3>3, <3>4
  <2>2. ASSUME NEW s \in Stats!SeriesAnswers, NEW h \in SUBSET FilterHost,
               view' = [view EXCEPT !.asking = FALSE, !.dataOf = view.filter,
                          !.hostsOf = Stats!HostQuery(view.filter), !.series = s,
                          !.hosts = h, !.loading = FALSE]
        PROVE  StatsInv'
    <3>1. Stats!HostQuery(view.filter) \in Stats!Query /\ s \in Seq(Bucket)
      BY <1>4, SeriesAreSeries DEF Stats!HostQuery, Stats!Query
    <3>2. view' \in Stats!StatsState
      BY <1>1, <1>4, <2>2, <3>1 DEF Stats!StatsState
    <3>3. StatsCore(view')
      BY <1>1, <2>2 DEF Stats!StatsState, StatsCore
    <3> QED
      BY <1>2, <3>2, <3>3
  <2>3. ASSUME view' = [view EXCEPT !.asking = FALSE, !.error = TRUE, !.loading = FALSE]
        PROVE  StatsInv'
    <3>1. view' \in Stats!StatsState
      BY <1>1, <2>3 DEF Stats!StatsState
    <3>2. StatsCore(view')
      BY <1>1, <2>3 DEF Stats!StatsState, StatsCore
    <3> QED
      BY <1>2, <3>1, <3>2
  <2> QED
    BY <2>1, <2>2, <2>3
<1>17. ASSUME NEW q \in view.stale, Stats!StaleAnswered(q) PROVE StatsInv'
  <2>1. view' = [view EXCEPT !.stale = view.stale \ {q}]
    BY <1>17 DEF Stats!StaleAnswered
  <2>2. view' \in Stats!StatsState
    BY <1>1, <2>1 DEF Stats!StatsState
  <2>3. StatsCore(view')
    BY <1>1, <2>1 DEF Stats!StatsState, StatsCore
  <2> QED
    BY <1>2, <2>2, <2>3
<1>18. CASE Next
  <2>1. StatsSteps \/ SessionEnds
    BY <1>18 DEF Next, LiveSteps, EventArrives, SheetSteps, LogsSteps, KeysSteps,
                 KeyFormSteps, SettingsSteps, ProjectsSteps, GuideSteps, SignInSteps
  <2>2. CASE StatsSteps
    BY <1>7, <1>8, <1>9, <1>10, <1>11, <1>12, <1>13, <1>14, <1>15, <1>16, <1>17, <2>2
       DEF StatsSteps, Stats!Step
  <2> QED
    BY <1>3, <2>1, <2>2 DEF SessionEnds
<1> QED
  BY <1>3, <1>18 DEF vars

\* The figures of a series, each as a fold.
AddRequests(sum, b) == sum + (b.ok + b.e4 + b.e5)
AddErrors(sum, b)   == sum + (b.e4 + b.e5)
AddP50(sum, b)      == sum + b.p50
AddP95(sum, b)      == sum + b.p95
AddP99(sum, b)      == sum + b.p99
KeepMax(m, b)       == Stats!Larger(m, b.max)

Requests == INSTANCE Folding WITH Op <- AddRequests
Errors   == INSTANCE Folding WITH Op <- AddErrors
P50      == INSTANCE Folding WITH Op <- AddP50
P95      == INSTANCE Folding WITH Op <- AddP95
P99      == INSTANCE Folding WITH Op <- AddP99
Maximum  == INSTANCE Folding WITH Op <- KeepMax

LEMMA SummaryFolds ==
  ASSUME NEW s
  PROVE  /\ Stats!Summary(s).requests = Requests!Fold(0, s)
         /\ Stats!Summary(s).errors = Errors!Fold(0, s)
         /\ Stats!Summary(s).p50 = P50!Fold(0, s)
         /\ Stats!Summary(s).p95 = P95!Fold(0, s)
         /\ Stats!Summary(s).p99 = P99!Fold(0, s)
         /\ Stats!Summary(s).max = Maximum!Fold(0, s)
<1> DEFINE k == Stats!Summary(s)
<1>1. k.requests = Requests!Fold(0, s)
  BY DEF Stats!Summary, Stats!Total, Requests!Fold, AddRequests,
         Stats!FoldLeft, Stats!MapThenFoldSet, Stats!Max,
         Requests!FoldLeft, Requests!MapThenFoldSet, Requests!Max
<1>2. k.errors = Errors!Fold(0, s)
  BY DEF Stats!Summary, Stats!Total, Errors!Fold, AddErrors,
         Stats!FoldLeft, Stats!MapThenFoldSet, Stats!Max,
         Errors!FoldLeft, Errors!MapThenFoldSet, Errors!Max
<1>3. k.p50 = P50!Fold(0, s)
  BY DEF Stats!Summary, Stats!Total, P50!Fold, AddP50,
         Stats!FoldLeft, Stats!MapThenFoldSet, Stats!Max,
         P50!FoldLeft, P50!MapThenFoldSet, P50!Max
<1>4. k.p95 = P95!Fold(0, s)
  BY DEF Stats!Summary, Stats!Total, P95!Fold, AddP95,
         Stats!FoldLeft, Stats!MapThenFoldSet, Stats!Max,
         P95!FoldLeft, P95!MapThenFoldSet, P95!Max
<1>5. k.p99 = P99!Fold(0, s)
  BY DEF Stats!Summary, Stats!Total, P99!Fold, AddP99,
         Stats!FoldLeft, Stats!MapThenFoldSet, Stats!Max,
         P99!FoldLeft, P99!MapThenFoldSet, P99!Max
<1>6. k.max = Maximum!Fold(0, s)
  BY DEF Stats!Summary, Stats!Total, Maximum!Fold, KeepMax,
         Stats!FoldLeft, Stats!MapThenFoldSet, Stats!Max,
         Maximum!FoldLeft, Maximum!MapThenFoldSet, Maximum!Max
<1> HIDE DEF k
<1> QED
  BY <1>1, <1>2, <1>3, <1>4, <1>5, <1>6 DEF k

\* The latencies of a bucket are in order.
LEMMA Buckets ==
  ASSUME NEW b \in Bucket
  PROVE  /\ b.ok \in Nat /\ b.e4 \in Nat /\ b.e5 \in Nat
         /\ b.p50 \in Nat /\ b.p95 \in Nat /\ b.p99 \in Nat /\ b.max \in Nat
         /\ b.p50 <= b.p95 /\ b.p95 <= b.p99 /\ b.p99 <= b.max
<1>1. /\ b \in [at : Nat, ok : Nat, e4 : Nat, e5 : Nat,
                p50 : Nat, p95 : Nat, p99 : Nat, max : Nat]
      /\ b.p50 <= b.p95 /\ b.p95 <= b.p99 /\ b.p99 <= b.max
  BY PagesAssumption DEF Stats!BucketAssumption
<1> QED
  BY <1>1

\* A larger factor makes a larger product.
LEMMA ProductGrows ==
  ASSUME NEW p \in Nat, NEW q \in Nat, NEW n \in Nat, p <= q
  PROVE  p * n <= q * n
<1>1. PICK d \in Nat : q = p + d
  <2>1. q - p \in Nat /\ q = p + (q - p)
    OBVIOUS
  <2> QED
    BY <2>1
<1>2. q * n = p * n + d * n
  BY <1>1
<1>3. p * n \in Nat /\ d * n \in Nat
  OBVIOUS
<1> QED
  BY <1>2, <1>3

LEMMA ProductSteps ==
  ASSUME NEW p \in Nat, NEW n \in Nat
  PROVE  p * n \in Nat /\ p * (n + 1) = p * n + p
OBVIOUS

LEMMA ErrorsAreRequests ==
  ASSUME NEW ok \in Nat, NEW e4 \in Nat, NEW e5 \in Nat
  PROVE  ok + e4 + e5 \in Nat /\ e4 + e5 \in Nat /\ e4 + e5 <= ok + e4 + e5
OBVIOUS

\* The totals of a series, however long, agree with each other (deriveSummary in
\* analytics-dashboard.tsx): no more errors than requests, sums of percentiles in
\* order and at most what the maximum allows.
THEOREM FiguresOfSeries ==
  ASSUME NEW s \in Seq(Bucket)
  PROVE  LET k == Stats!Summary(s)
         IN  /\ k.errors <= k.requests
             /\ k.p50 <= k.p95 /\ k.p95 <= k.p99 /\ k.p99 <= k.max * Len(s)
<1> DEFINE k == Stats!Summary(s)
<1> HIDE DEF k
<1>1. /\ k.requests = Requests!Fold(0, s) /\ k.errors = Errors!Fold(0, s)
      /\ k.p50 = P50!Fold(0, s) /\ k.p95 = P95!Fold(0, s)
      /\ k.p99 = P99!Fold(0, s) /\ k.max = Maximum!Fold(0, s)
  BY SummaryFolds DEF k
<1>2. PICK r : Requests!Stepwise(r, 0, s) /\ Requests!Fold(0, s) = r[Len(s)]
  BY Requests!FoldIsStepwise
<1>3. PICK e : Errors!Stepwise(e, 0, s) /\ Errors!Fold(0, s) = e[Len(s)]
  BY Errors!FoldIsStepwise
<1>4. PICK a : P50!Stepwise(a, 0, s) /\ P50!Fold(0, s) = a[Len(s)]
  BY P50!FoldIsStepwise
<1>5. PICK b : P95!Stepwise(b, 0, s) /\ P95!Fold(0, s) = b[Len(s)]
  BY P95!FoldIsStepwise
<1>6. PICK c : P99!Stepwise(c, 0, s) /\ P99!Fold(0, s) = c[Len(s)]
  BY P99!FoldIsStepwise
<1>7. PICK m : Maximum!Stepwise(m, 0, s) /\ Maximum!Fold(0, s) = m[Len(s)]
  BY Maximum!FoldIsStepwise
<1>8. r[0] = 0 /\ e[0] = 0 /\ a[0] = 0 /\ b[0] = 0 /\ c[0] = 0 /\ m[0] = 0
  BY <1>2, <1>3, <1>4, <1>5, <1>6, <1>7
     DEF Requests!Stepwise, Errors!Stepwise, P50!Stepwise, P95!Stepwise, P99!Stepwise,
         Maximum!Stepwise
<1>9. \A n \in 1 .. Len(s) :
        /\ r[n] = r[n - 1] + (s[n].ok + s[n].e4 + s[n].e5)
        /\ e[n] = e[n - 1] + (s[n].e4 + s[n].e5)
        /\ a[n] = a[n - 1] + s[n].p50
        /\ b[n] = b[n - 1] + s[n].p95
        /\ c[n] = c[n - 1] + s[n].p99
        /\ m[n] = Stats!Larger(m[n - 1], s[n].max)
  BY <1>2, <1>3, <1>4, <1>5, <1>6, <1>7
     DEF Requests!Stepwise, Errors!Stepwise, P50!Stepwise, P95!Stepwise, P99!Stepwise,
         Maximum!Stepwise, AddRequests, AddErrors, AddP50, AddP95, AddP99, KeepMax
<1> DEFINE Agree(n) ==
             /\ r[n] \in Nat /\ e[n] \in Nat /\ a[n] \in Nat
             /\ b[n] \in Nat /\ c[n] \in Nat /\ m[n] \in Nat
             /\ e[n] <= r[n] /\ a[n] <= b[n] /\ b[n] <= c[n] /\ c[n] <= m[n] * n
           S == {n \in Nat : n <= Len(s) => Agree(n)}
<1>10. 0 \in S
  <2>1. m[0] * 0 = 0
    BY <1>8
  <2>2. Agree(0)
    BY <1>8, <2>1
  <2> QED
    BY <2>2
<1>11. ASSUME NEW n \in Nat, n \in S PROVE n + 1 \in S
  <2>0. n + 1 \in Nat
    OBVIOUS
  <2>1. SUFFICES ASSUME n + 1 <= Len(s) PROVE Agree(n + 1)
    BY <2>0
  <2> DEFINE x == s[n + 1]
  <2>2. n + 1 \in 1 .. Len(s) /\ (n + 1) - 1 = n /\ n <= Len(s)
    BY <2>1
  <2>3. Agree(n)
    BY <1>11, <2>2
  <2>4. x \in Bucket
    BY <2>2
  <2>5. /\ r[n + 1] = r[n] + (x.ok + x.e4 + x.e5)
        /\ e[n + 1] = e[n] + (x.e4 + x.e5)
        /\ a[n + 1] = a[n] + x.p50 /\ b[n + 1] = b[n] + x.p95
        /\ c[n + 1] = c[n] + x.p99
        /\ m[n + 1] = Stats!Larger(m[n], x.max)
    BY <1>9, <2>2
  <2> HIDE DEF x
  <2>6. /\ x.ok \in Nat /\ x.e4 \in Nat /\ x.e5 \in Nat
        /\ x.p50 \in Nat /\ x.p95 \in Nat /\ x.p99 \in Nat /\ x.max \in Nat
        /\ x.p50 <= x.p95 /\ x.p95 <= x.p99 /\ x.p99 <= x.max
    BY <2>4, Buckets
  <2>7. m[n + 1] \in Nat /\ m[n] <= m[n + 1] /\ x.max <= m[n + 1]
    BY <2>3, <2>5, <2>6, SMTT(30) DEF Stats!Larger
  <2> DEFINE u == m[n] * n
             v == m[n + 1] * n
             w == m[n + 1] * (n + 1)
  <2>8. /\ r[n] \in Nat /\ e[n] \in Nat /\ a[n] \in Nat
        /\ b[n] \in Nat /\ c[n] \in Nat /\ m[n] \in Nat
        /\ e[n] <= r[n] /\ a[n] <= b[n] /\ b[n] <= c[n] /\ c[n] <= u
    BY <2>3
  <2>9. u <= v
    BY <2>7, <2>8, ProductGrows
  <2>10. w = v + m[n + 1] /\ u \in Nat /\ v \in Nat
    BY <2>7, <2>8, ProductSteps
  <2> HIDE DEF u, v, w
  <2>11. c[n + 1] <= w
    <3>1. c[n + 1] = c[n] + x.p99
      BY <2>5
    <3>2. x.p99 \in Nat /\ x.p99 <= m[n + 1]
      BY <2>6, <2>7
    <3>3. c[n] \in Nat /\ c[n] <= v
      BY <2>8, <2>9, <2>10
    <3>4. c[n] + x.p99 <= v + m[n + 1]
      BY <2>7, <2>10, <3>2, <3>3
    <3> QED
      BY <2>10, <3>1, <3>4
  <2>12. /\ r[n + 1] \in Nat /\ e[n + 1] \in Nat /\ a[n + 1] \in Nat
         /\ b[n + 1] \in Nat /\ c[n + 1] \in Nat
         /\ e[n + 1] <= r[n + 1] /\ a[n + 1] <= b[n + 1] /\ b[n + 1] <= c[n + 1]
    <3>1. r[n + 1] \in Nat /\ e[n + 1] \in Nat /\ e[n + 1] <= r[n + 1]
      <4> DEFINE y == x.ok + x.e4 + x.e5
                 z == x.e4 + x.e5
      <4>1. r[n + 1] = r[n] + y /\ e[n + 1] = e[n] + z
        BY <2>5
      <4>2. r[n] \in Nat /\ e[n] \in Nat /\ e[n] <= r[n]
        BY <2>8
      <4>3. x.ok \in Nat /\ x.e4 \in Nat /\ x.e5 \in Nat
        BY <2>6
      <4>4. y \in Nat /\ z \in Nat /\ z <= y
        BY ONLY <4>3, ErrorsAreRequests
      <4> HIDE DEF y, z
      <4>5. r[n] + y \in Nat /\ e[n] + z \in Nat /\ e[n] + z <= r[n] + y
        BY <4>2, <4>4
      <4> QED
        BY <4>1, <4>5
    <3>2. a[n + 1] \in Nat /\ b[n + 1] \in Nat /\ a[n + 1] <= b[n + 1]
      <4>1. a[n + 1] = a[n] + x.p50 /\ b[n + 1] = b[n] + x.p95
        BY <2>5
      <4>a. a[n] \in Nat /\ b[n] \in Nat /\ a[n] <= b[n]
        BY <2>8
      <4>b. x.p50 \in Nat /\ x.p95 \in Nat /\ x.p50 <= x.p95
        BY <2>6
      <4>2. /\ a[n] + x.p50 \in Nat /\ b[n] + x.p95 \in Nat
            /\ a[n] + x.p50 <= b[n] + x.p95
        BY <4>a, <4>b
      <4> QED
        BY <4>1, <4>2
    <3>3. c[n + 1] \in Nat /\ b[n + 1] <= c[n + 1]
      <4>1. c[n + 1] = c[n] + x.p99 /\ b[n + 1] = b[n] + x.p95
        BY <2>5
      <4>a. b[n] \in Nat /\ c[n] \in Nat /\ b[n] <= c[n]
        BY <2>8
      <4>b. x.p95 \in Nat /\ x.p99 \in Nat /\ x.p95 <= x.p99
        BY <2>6
      <4>2. c[n] + x.p99 \in Nat /\ b[n] + x.p95 <= c[n] + x.p99
        BY <4>a, <4>b
      <4> QED
        BY <4>1, <4>2
    <3> QED
      BY <3>1, <3>2, <3>3
  <2> QED
    BY <2>7, <2>11, <2>12 DEF w
<1> HIDE DEF S
<1>12. Nat \subseteq S
  BY <1>10, <1>11, Requests!SetInduction
<1>13. Agree(Len(s))
  <2>1. Len(s) \in Nat
    OBVIOUS
  <2> QED
    BY <1>12, <2>1 DEF S
<1> QED
  BY <1>1, <1>2, <1>3, <1>4, <1>5, <1>6, <1>7, <1>13 DEF k

LEMMA StatsShow ==
  ASSUME StatsInv, page = "stats"
  PROVE  Stats!StatsTypeOK /\ Stats!FiguresAnswerFilters /\ Stats!FiguresAgree
<1>1. view \in Stats!StatsState /\ StatsCore(view)
  BY DEF StatsInv, Stats!StatsTypeOK
<1>2. Stats!FiguresAnswerFilters
  BY <1>1 DEF StatsCore, Stats!FiguresAnswerFilters, Stats!HostQuery
<1>3. view.filter.host # "any" => view.filter.host \in Stats!ActiveFilters
  BY DEF Stats!ActiveFilters
<1>4. view.series \in Seq(Bucket)
  BY <1>1 DEF Stats!StatsState
<1>5. Stats!FiguresAgree
  BY <1>3, <1>4, FiguresOfSeries DEF Stats!FiguresAgree
<1> QED
  BY <1>1, <1>2, <1>5 DEF Stats!StatsTypeOK

-----------------------------------------------------------------------------
(* The logs page. *)

\* A url that the form may have written: its range is one of the picker's.
Written == {u \in Logs!Url : Logs!ResolveRange(u) \in Logs!RangeValue}

\* A question q asks for the direction, the stream filter and the range of f.
AsksFor(q, f) ==
  /\ q.direction = IF f.direction = "all" THEN "" ELSE f.direction
  /\ q.stream = IF f.stream = "any" THEN "" ELSE f.stream
  /\ q.range = f.range

\* Every url was written by the form.  The navigation in progress asks for what
\* the form shows, and so did the last one that arrived.
LogsCore(w) ==
  /\ w.url \in Written /\ w.trail \in Seq(Written)
  /\ w.next # Logs!NoUrl => w.next \in Written /\ AsksFor(Logs!Asked(w.next), w.form)
  /\ w.next = Logs!NoUrl => w.wentBack \/ AsksFor(w.rowsOf, w.form)

LogsInv == page = "logs" => Logs!ListTypeOK /\ LogsCore(view)

LEMMA KindsOfRange ==
  ASSUME NEW r \in Logs!RangeValue
  PROVE  \/ \E p \in Presets \cup {"1h"} : r = Logs!Preset(p)
         \/ \E a, b \in Nat \ {NoInstant} : r = Logs!Custom(a, b)
<1>1. CASE r = Logs!Preset("1h")
  BY <1>1
<1>2. CASE r # Logs!Preset("1h")
  <2>1. r \in Logs!Picked
    BY <1>2 DEF Logs!RangeValue
  <2>2. CASE \E p \in Presets : r = Logs!Preset(p)
    BY <2>2
  <2>3. CASE ~ \E p \in Presets : r = Logs!Preset(p)
    <3>1. PICK x \in Logs!Input \X Logs!Input :
            /\ Logs!Submit(x[1], x[2]) = "apply"
            /\ r = Logs!Custom(x[1], x[2])
      BY <2>1, <2>3 DEF Logs!Picked
    <3>2. x[1] # NoInstant /\ x[2] # NoInstant
      BY <3>1 DEF Logs!Submit
    <3>3. \A d \in Instant : Logs!ToLocalInput(d) \in Nat
      <4> SUFFICES ASSUME NEW d \in Instant PROVE Logs!ToLocalInput(d) \in Nat
        OBVIOUS
      <4>1. d \in Nat
        BY PagesAssumption DEF Stats!TimeRangeAssumption
      <4>2. d % 60 \in Nat /\ d % 60 <= d
        BY <4>1, SMT
      <4> QED
        BY <4>1, <4>2 DEF Logs!ToLocalInput, Logs!Minute
    <3>4. x[1] \in Nat /\ x[2] \in Nat
      BY <3>1, <3>2, <3>3 DEF Logs!Input
    <3> QED
      BY <3>1, <3>2, <3>4
  <2> QED
    BY <2>2, <2>3
<1> QED
  BY <1>1, <1>2

LEMMA NoUrlIsNoUrl == Logs!NoUrl \notin Logs!Url
<1>1. "status" \notin DOMAIN Logs!NoUrl
  BY DEF Logs!NoUrl
<1>2. \A u \in Logs!Url : "status" \in DOMAIN u
  BY DEF Logs!Url
<1> QED
  BY <1>1, <1>2

\* What the form writes, the page on the server reads.
LEMMA BuiltUrl ==
  ASSUME NEW f \in Logs!Form
  PROVE  /\ Logs!BuildParams(f) \in Written
         /\ Logs!BuildParams(f) # Logs!NoUrl
         /\ AsksFor(Logs!Asked(Logs!BuildParams(f)), f)
<1> DEFINE u == Logs!BuildParams(f)
<1>1. /\ f.method \in Method \cup {"any"} /\ f.status \in Status \cup {""}
      /\ f.path \in Path \cup {""} /\ f.direction \in Direction \cup {"all"}
      /\ f.stream \in Stream \cup {"any"} /\ f.range \in Logs!RangeValue
  BY DEF Logs!Form
<1>2. /\ u = [method    |-> IF f.method = "any" THEN "" ELSE f.method,
              status    |-> f.status,
              path      |-> f.path,
              direction |-> IF f.direction = "all" THEN "" ELSE f.direction,
              is_stream |-> IF f.stream = "any" THEN "" ELSE f.stream,
              range     |-> u.range, from |-> u.from, to |-> u.to]
      /\ u.direction = IF f.direction = "all" THEN "" ELSE f.direction
      /\ u.is_stream = IF f.stream = "any" THEN "" ELSE f.stream
  BY DEF Logs!BuildParams
<1>3. /\ u.range \in Presets \cup {""}
      /\ u.from \in Nat \cup {NoInstant} /\ u.to \in Nat \cup {NoInstant}
      /\ Logs!ResolveRange(u) = f.range
  <2>1. CASE \E p \in Presets \cup {"1h"} : f.range = Logs!Preset(p)
    <3>1. PICK p \in Presets \cup {"1h"} : f.range = Logs!Preset(p)
      BY <2>1
    <3>2. f.range.kind = "preset" /\ f.range.preset = p
      BY <3>1 DEF Logs!Preset
    <3>3. u.from = NoInstant /\ u.to = NoInstant
          /\ u.range = IF f.range = Logs!Preset("1h") THEN "" ELSE p
      BY <3>2 DEF Logs!BuildParams
    <3>4. "" \notin DOMAIN Logs!PresetSpan /\ Presets \subseteq DOMAIN Logs!PresetSpan
      BY PagesAssumption DEF Logs!PresetSpan, Stats!TimeRangeAssumption, Stats!PresetSpan
    <3> QED
      BY <3>1, <3>3, <3>4 DEF Logs!ResolveRange
  <2>2. CASE \E a, b \in Nat \ {NoInstant} : f.range = Logs!Custom(a, b)
    <3>1. PICK a \in Nat \ {NoInstant}, b \in Nat \ {NoInstant} :
            f.range = Logs!Custom(a, b)
      BY <2>2
    <3>2. f.range.kind = "custom" /\ f.range.from = a /\ f.range.to = b
      BY <3>1 DEF Logs!Custom
    <3>3. u.from = a /\ u.to = b /\ u.range = ""
      BY <3>2 DEF Logs!BuildParams
    <3> QED
      BY <3>1, <3>3 DEF Logs!ResolveRange
  <2> QED
    BY <1>1, <2>1, <2>2, KindsOfRange
<1> HIDE DEF u
<1>4. u \in Logs!Url
  <2>1. /\ (IF f.method = "any" THEN "" ELSE f.method) \in Method \cup {""}
        /\ (IF f.direction = "all" THEN "" ELSE f.direction) \in Direction \cup {""}
        /\ (IF f.stream = "any" THEN "" ELSE f.stream) \in Stream \cup {""}
    BY <1>1
  <2>2. PICK a \in Presets \cup {""}, b \in Nat \cup {NoInstant}, c \in Nat \cup {NoInstant} :
          a = u.range /\ b = u.from /\ c = u.to
    BY <1>3
  <2>3. PICK m \in Method \cup {""}, d \in Direction \cup {""}, i \in Stream \cup {""} :
          u = [method |-> m, status |-> f.status, path |-> f.path, direction |-> d,
               is_stream |-> i, range |-> a, from |-> b, to |-> c]
    BY <1>2, <2>1, <2>2
  <2> QED
    BY <1>1, <2>3 DEF Logs!Url
<1>5. AsksFor(Logs!Asked(u), f)
  BY <1>2, <1>3 DEF AsksFor, Logs!Asked
<1> QED
  BY <1>1, <1>3, <1>4, <1>5, NoUrlIsNoUrl DEF u, Written

LEMMA ReadUrl ==
  ASSUME NEW u \in Written
  PROVE  Logs!Asked(u) \in Logs!Question /\ Logs!InitialForm(u) \in Logs!Form
BY DEF Written, Logs!Url, Logs!Asked, Logs!Question, Logs!InitialForm, Logs!Form

LEMMA InitLogs == Init => LogsInv
<1> SUFFICES ASSUME Init, page = "logs" PROVE LogsInv
  BY DEF LogsInv
<1>1. OpensLogs
  BY DEF Init, OpensLive, OpensSheet, OpensStats, OpensKeys, OpensKeyForm,
         OpensSettings, OpensProjects, OpensGuide, OpensSignIn
<1>2. PICK r \in Logs!RangeValue :
        view = Logs!Mounted(Logs!BuildParams([Logs!EmptyForm EXCEPT !.range = r]))
  BY <1>1 DEF OpensLogs
<1> DEFINE f == [Logs!EmptyForm EXCEPT !.range = r]
           u == Logs!BuildParams(f)
<1>3. f \in Logs!Form /\ f.direction = "all" /\ f.stream = "any" /\ f.range = r
  BY DEF Logs!EmptyForm, Logs!Form
<1> HIDE DEF f
<1>4. u \in Written /\ AsksFor(Logs!Asked(u), f)
  BY <1>3, BuiltUrl
<1>5. u.direction = "" /\ u.is_stream = ""
  BY <1>3 DEF Logs!BuildParams
<1> HIDE DEF u
<1>6. view = Logs!Mounted(u)
  BY <1>2 DEF u, f
<1>7. AsksFor(Logs!Asked(u), Logs!InitialForm(u))
  BY <1>5 DEF AsksFor, Logs!Asked, Logs!InitialForm
<1>8. view \in Logs!ListState
  BY <1>4, <1>6, ReadUrl DEF Logs!ListState, Logs!Mounted, Written
<1>9. LogsCore(view)
  BY <1>4, <1>6, <1>7 DEF LogsCore, Logs!Mounted
<1> QED
  BY <1>8, <1>9 DEF LogsInv, Logs!ListTypeOK

LEMMA BoundedTrail ==
  ASSUME NEW S, NEW u \in S, NEW t \in Seq(S)
  PROVE  Logs!Bounded(<<u>> \o t) \in Seq(S)
<1>1. <<u>> \o t \in Seq(S)
  OBVIOUS
<1>2. MaxTrail \in Nat \ {0}
  BY PagesAssumption DEF Logs!ListAssumption
<1> DEFINE s == <<u>> \o t
<1> HIDE DEF s
<1>3. Len(s) \in Nat /\ (Len(s) > MaxTrail => SubSeq(s, 1, MaxTrail) \in Seq(S))
  BY <1>1, <1>2 DEF s
<1> QED
  BY <1>1, <1>2, <1>3 DEF Logs!Bounded, s

LEMMA NextLogs == LogsInv /\ [Next]_vars => LogsInv'
<1> SUFFICES ASSUME LogsInv, [Next]_vars, page = "logs" PROVE LogsInv'
  BY PageStays DEF LogsInv
<1>0. page' = page
  BY PageStays
<1>1. view \in Logs!ListState /\ LogsCore(view)
  BY DEF LogsInv, Logs!ListTypeOK
<1>2. ASSUME view' \in Logs!ListState, LogsCore(view') PROVE LogsInv'
  BY <1>2 DEF LogsInv, Logs!ListTypeOK
<1>3. CASE UNCHANGED view
  BY <1>0, <1>1, <1>2, <1>3
<1>4. /\ view.form \in Logs!Form /\ view.trail \in Seq(Written) /\ view.url \in Written
      /\ view.next # Logs!NoUrl => view.next \in Written
      /\ Written \subseteq Logs!Url /\ Seq(Written) \subseteq Seq(Logs!Url)
  <2>1. Written \subseteq Logs!Url
    BY DEF Written
  <2> QED
    BY <1>1, <2>1 DEF LogsCore, Logs!ListState
<1>5. ASSUME NEW f \in Logs!Form, Logs!Push(f) PROVE LogsInv'
  <2> DEFINE u == Logs!BuildParams(f)
  <2>1. u \in Written /\ u # Logs!NoUrl /\ AsksFor(Logs!Asked(u), f)
    BY BuiltUrl
  <2> HIDE DEF u
  <2>2. view' = [view EXCEPT !.form = f, !.next = u, !.wentBack = FALSE]
    BY <1>5 DEF Logs!Push, u
  <2>3. view' \in Logs!ListState
    BY <1>1, <1>4, <2>1, <2>2 DEF Logs!ListState
  <2>4. LogsCore(view')
    BY <1>1, <2>1, <2>2 DEF Logs!ListState, LogsCore
  <2> QED
    BY <1>2, <2>3, <2>4
<1>6. ASSUME NEW f \in Logs!Form, view' = [view EXCEPT !.form = f],
             f.direction = view.form.direction, f.stream = view.form.stream,
             f.range = view.form.range
      PROVE  LogsInv'
  <2>1. view' \in Logs!ListState
    BY <1>1, <1>6 DEF Logs!ListState
  <2>2. LogsCore(view')
    BY <1>1, <1>6 DEF Logs!ListState, LogsCore, AsksFor
  <2> QED
    BY <1>2, <2>1, <2>2
<1>7. CASE Logs!SubmitForm
  BY <1>4, <1>5, <1>7 DEF Logs!SubmitForm
<1>8. ASSUME NEW d \in Direction \cup {"all"}, Logs!OnDirectionChange(d) PROVE LogsInv'
  <2>1. [view.form EXCEPT !.direction = d] \in Logs!Form
    BY <1>4 DEF Logs!Form
  <2> QED
    BY <1>5, <1>8, <2>1 DEF Logs!OnDirectionChange
<1>9. ASSUME NEW s \in Stream \cup {"any"}, Logs!OnStreamChange(s) PROVE LogsInv'
  <2>1. [view.form EXCEPT !.stream = s] \in Logs!Form
    BY <1>4 DEF Logs!Form
  <2> QED
    BY <1>5, <1>9, <2>1 DEF Logs!OnStreamChange
<1>10. CASE Logs!OnRangeChange
  <2>1. PICK r \in Logs!Picked : Logs!Push([view.form EXCEPT !.range = r])
    BY <1>10 DEF Logs!OnRangeChange
  <2>2. [view.form EXCEPT !.range = r] \in Logs!Form
    BY <1>4 DEF Logs!Form, Logs!RangeValue
  <2> QED
    BY <1>5, <2>1, <2>2
<1>11. CASE Logs!Clear
  <2>1. Logs!EmptyForm \in Logs!Form
    BY DEF Logs!Form, Logs!EmptyForm, Logs!RangeValue
  <2> QED
    BY <1>5, <1>11, <2>1 DEF Logs!Clear
<1>12. ASSUME NEW m \in Method \cup {"any"}, Logs!SetMethod(m) PROVE LogsInv'
  <2> DEFINE f == [view.form EXCEPT !.method = m]
  <2>1. /\ f \in Logs!Form /\ f.direction = view.form.direction
        /\ f.stream = view.form.stream /\ f.range = view.form.range
    BY <1>4 DEF Logs!Form
  <2>2. view' = [view EXCEPT !.form = f]
    BY <1>1, <1>12 DEF Logs!SetMethod
  <2> QED
    BY <1>6, <2>1, <2>2
<1>13. ASSUME NEW s \in Status \cup {""}, Logs!SetStatus(s) PROVE LogsInv'
  <2> DEFINE f == [view.form EXCEPT !.status = s]
  <2>1. /\ f \in Logs!Form /\ f.direction = view.form.direction
        /\ f.stream = view.form.stream /\ f.range = view.form.range
    BY <1>4 DEF Logs!Form
  <2>2. view' = [view EXCEPT !.form = f]
    BY <1>1, <1>13 DEF Logs!SetStatus
  <2> QED
    BY <1>6, <2>1, <2>2
<1>14. ASSUME NEW p \in Path \cup {""}, Logs!SetPath(p) PROVE LogsInv'
  <2> DEFINE f == [view.form EXCEPT !.path = p]
  <2>1. /\ f \in Logs!Form /\ f.direction = view.form.direction
        /\ f.stream = view.form.stream /\ f.range = view.form.range
    BY <1>4 DEF Logs!Form
  <2>2. view' = [view EXCEPT !.form = f]
    BY <1>1, <1>14 DEF Logs!SetPath
  <2> QED
    BY <1>6, <2>1, <2>2
<1>15. ASSUME NEW u \in Written, NEW t \in Seq(Written), NEW e \in BOOLEAN,
              NEW b \in BOOLEAN,
              view' = [view EXCEPT !.url = u, !.next = Logs!NoUrl, !.trail = t,
                                   !.rowsOf = Logs!Asked(u), !.error = e, !.wentBack = b],
              b \/ AsksFor(Logs!Asked(u), view.form)
       PROVE  LogsInv'
  <2>1. view' \in Logs!ListState
    BY <1>1, <1>4, <1>15, ReadUrl DEF Logs!ListState
  <2>2. LogsCore(view')
    BY <1>1, <1>15 DEF Logs!ListState, LogsCore
  <2> QED
    BY <1>2, <2>1, <2>2
<1>16. CASE Logs!Arrive
  <2> DEFINE u == view.next
             t == IF u = view.url THEN view.trail ELSE Logs!Bounded(<<view.url>> \o view.trail)
  <2>1. u \in Written /\ AsksFor(Logs!Asked(u), view.form)
    BY <1>1, <1>16 DEF Logs!Arrive, LogsCore
  <2>2. t \in Seq(Written)
    BY <1>4, BoundedTrail
  <2>3. \/ view' = view
        \/ \E e \in BOOLEAN : view' = [Logs!Visit(u, t) EXCEPT !.error = e]
    BY <1>16 DEF Logs!Arrive
  <2> HIDE DEF u, t
  <2>4. ASSUME NEW e \in BOOLEAN, view' = [Logs!Visit(u, t) EXCEPT !.error = e]
        PROVE  LogsInv'
    <3>1. view' = [view EXCEPT !.url = u, !.next = Logs!NoUrl, !.trail = t,
                     !.rowsOf = Logs!Asked(u), !.error = e, !.wentBack = view.wentBack]
      BY <1>1, <2>4 DEF Logs!Visit, Logs!ListState
    <3>2. view.wentBack \in BOOLEAN
      BY <1>1 DEF Logs!ListState
    <3> QED
      BY <1>15, <2>1, <2>2, <3>1, <3>2
  <2> QED
    BY <1>3, <2>3, <2>4
<1>17. CASE Logs!Back
  <2> DEFINE u == view.trail[1]
             t == Tail(view.trail)
  <2>1. u \in Written /\ t \in Seq(Written)
    BY <1>4, <1>17 DEF Logs!Back
  <2> HIDE DEF u, t
  <2>2. view' = [view EXCEPT !.url = u, !.next = Logs!NoUrl, !.trail = t,
                   !.rowsOf = Logs!Asked(u), !.error = FALSE, !.wentBack = TRUE]
    BY <1>1, <1>17 DEF Logs!Back, Logs!Visit, Logs!ListState, u, t
  <2> QED
    BY <1>15, <2>1, <2>2
<1>18. CASE Next
  <2>1. LogsSteps \/ SessionEnds
    BY <1>18 DEF Next, LiveSteps, EventArrives, SheetSteps, StatsSteps, KeysSteps,
                 KeyFormSteps, SettingsSteps, ProjectsSteps, GuideSteps, SignInSteps
  <2>2. CASE LogsSteps
    BY <1>7, <1>8, <1>9, <1>10, <1>11, <1>12, <1>13, <1>14, <1>16, <1>17, <2>2
       DEF LogsSteps, Logs!Step, Logs!FormStep
  <2> QED
    BY <1>3, <2>1, <2>2 DEF SessionEnds
<1> QED
  BY <1>3, <1>18 DEF vars

LEMMA LogsShows ==
  ASSUME LogsInv, page = "logs"
  PROVE  Logs!ListTypeOK /\ Logs!FormTellsTheRows
BY DEF LogsInv, LogsCore, AsksFor, Logs!FormTellsTheRows

-----------------------------------------------------------------------------
(* The integration guide. *)

\* What is memoised is what would be computed now; the selected key is one of
\* the keys; the open snippet is one of the open section.
GuideCore(w) ==
  /\ w.vars = Guide!Vars(w)
  /\ w.keys # {} => w.keyId \in w.keys
  /\ w.active \in Guide!Sections[w.section]

GuideInv == page = "integrate" => Guide!GuideTypeOK /\ GuideCore(view)

LEMMA SnippetsOfSections ==
  /\ DOMAIN Guide!Sections = {"outbound", "inbound"}
  /\ \A s \in DOMAIN Guide!Sections :
       /\ Guide!FirstOf[s] \in Guide!Sections[s]
       /\ Guide!Sections[s] \subseteq Guide!ProxySnippets \cup Guide!SdkSnippets
BY DEF Guide!Sections, Guide!FirstOf, Guide!ProxySnippets, Guide!SdkSnippets

\* What is filled in is a key and four endpoints.
LEMMA VarsAreTyped ==
  ASSUME NEW t, t.keyId \in Key \cup {NoKey}, t.pasteKey \in Key \cup {NoKey},
         t.endpoints \in [Guide!Endpoint -> Text]
  PROVE  Guide!Vars(t) \in [apiKey : Guide!ApiKey, endpoints : [Guide!Endpoint -> Text]]
BY DEF Guide!Vars, Guide!Selected, Guide!ApiKey

LEMMA InitGuide == Init => GuideInv
<1> SUFFICES ASSUME Init, page = "integrate" PROVE GuideInv
  BY DEF GuideInv
<1>1. OpensGuide
  BY DEF Init, OpensLive, OpensSheet, OpensStats, OpensLogs, OpensKeys, OpensKeyForm,
         OpensSettings, OpensProjects, OpensSignIn
<1>2. PICK active \in SUBSET Key : \E k \in IF active = {} THEN {NoKey} ELSE active :
        view = Guide!Mounted(active, k, DefaultText)
  BY <1>1 DEF OpensGuide
<1>3. PICK k \in IF active = {} THEN {NoKey} ELSE active :
        view = Guide!Mounted(active, k, DefaultText)
  BY <1>2
<1> DEFINE blank == [apiKey |-> [key |-> NoKey, whole |-> FALSE],
                     endpoints |-> [e \in Guide!Endpoint |-> DefaultText]]
           t == [keys |-> active, keyId |-> k, pasteKey |-> NoKey,
                 endpoints |-> [e \in Guide!Endpoint |-> DefaultText],
                 section |-> "outbound", active |-> Guide!FirstOf["outbound"],
                 vars |-> blank]
<1>4. view = [t EXCEPT !.vars = Guide!Vars(t)]
  BY <1>3 DEF Guide!Mounted
<1>5. k \in Key \cup {NoKey} /\ DefaultText \in Text
  BY PagesAssumption
<1>6. Guide!Vars(t) \in [apiKey : Guide!ApiKey, endpoints : [Guide!Endpoint -> Text]]
  BY <1>5, VarsAreTyped
<1>7. /\ view.keys = active /\ view.keyId = k /\ view.pasteKey = NoKey
      /\ view.endpoints = t.endpoints /\ view.section = "outbound"
      /\ view.active = Guide!FirstOf["outbound"] /\ view.vars = Guide!Vars(t)
  BY <1>4
<1>8. Guide!Vars(view) = Guide!Vars(t)
  BY <1>7 DEF Guide!Vars, Guide!Selected
<1>9. view \in Guide!GuideState
  BY <1>4, <1>5, <1>6, SnippetsOfSections DEF Guide!GuideState
<1> QED
  BY <1>7, <1>8, <1>9, SnippetsOfSections DEF GuideInv, GuideCore, Guide!GuideTypeOK

\* Whatever the page goes over to, what is filled in follows.
LEMMA GoesOn ==
  ASSUME NEW t \in Guide!GuideState, view \in Guide!GuideState, GuideCore(view),
         t.vars = view.vars, t.keys # {} => t.keyId \in t.keys,
         t.active \in Guide!Sections[t.section], Guide!Goes(t)
  PROVE  view' \in Guide!GuideState /\ GuideCore(view')
<1>1. view.vars = Guide!Vars(view)
  BY DEF GuideCore
<1>2. CASE Guide!Dependencies(t) = Guide!Dependencies(view)
  <2>1. view' = t
    BY <1>2 DEF Guide!Goes
  <2>2. /\ t.pasteKey = view.pasteKey /\ Guide!Selected(t) = Guide!Selected(view)
        /\ t.endpoints = view.endpoints
    BY <1>2 DEF Guide!Dependencies
  <2>3. Guide!Vars(t) = Guide!Vars(view)
    BY <2>2 DEF Guide!Vars
  <2> QED
    BY <1>1, <2>1, <2>3 DEF GuideCore
<1>3. CASE Guide!Dependencies(t) # Guide!Dependencies(view)
  <2>1. view' = [t EXCEPT !.vars = Guide!Vars(t)]
    BY <1>3 DEF Guide!Goes
  <2>2. Guide!Vars(t) \in [apiKey : Guide!ApiKey, endpoints : [Guide!Endpoint -> Text]]
    BY VarsAreTyped DEF Guide!GuideState
  <2>3. view' \in Guide!GuideState
    BY <2>1, <2>2 DEF Guide!GuideState
  <2>4. /\ view'.vars = Guide!Vars(t) /\ view'.keys = t.keys /\ view'.keyId = t.keyId
        /\ view'.pasteKey = t.pasteKey /\ view'.endpoints = t.endpoints
        /\ view'.section = t.section /\ view'.active = t.active
    BY <2>1 DEF Guide!GuideState
  <2>5. Guide!Vars(view') = Guide!Vars(t)
    BY <2>4 DEF Guide!Vars, Guide!Selected
  <2> QED
    BY <2>3, <2>4, <2>5 DEF GuideCore
<1> QED
  BY <1>2, <1>3

LEMMA NextGuide == GuideInv /\ [Next]_vars => GuideInv'
<1> SUFFICES ASSUME GuideInv, [Next]_vars, page = "integrate" PROVE GuideInv'
  BY PageStays DEF GuideInv
<1>0. page' = page
  BY PageStays
<1>1. view \in Guide!GuideState /\ GuideCore(view)
  BY DEF GuideInv, Guide!GuideTypeOK
<1>2. ASSUME view' \in Guide!GuideState, GuideCore(view') PROVE GuideInv'
  BY <1>2 DEF GuideInv, Guide!GuideTypeOK
<1>3. CASE UNCHANGED view
  BY <1>0, <1>1, <1>2, <1>3
<1>a. /\ view.keys # {} => view.keyId \in view.keys
      /\ view.active \in Guide!Sections[view.section]
      /\ view.keys \subseteq Key /\ view.section \in DOMAIN Guide!Sections
  BY <1>1 DEF GuideCore, Guide!GuideState
<1>4. CASE Guide!SelectKey
  <2>1. PICK k \in view.keys : Guide!Goes([view EXCEPT !.keyId = k])
    BY <1>4 DEF Guide!SelectKey
  <2> DEFINE t == [view EXCEPT !.keyId = k]
  <2>2. /\ t \in Guide!GuideState /\ t.vars = view.vars /\ t.keyId = k
        /\ t.keys = view.keys /\ t.section = view.section /\ t.active = view.active
    BY <1>1, <1>a DEF Guide!GuideState
  <2> HIDE DEF t
  <2> QED
    BY <1>1, <1>2, <1>a, <2>1, <2>2, GoesOn DEF t
<1>5. CASE Guide!Paste
  <2>1. PICK k \in Key \cup {NoKey} : Guide!Goes([view EXCEPT !.pasteKey = k])
    BY <1>5 DEF Guide!Paste
  <2> DEFINE t == [view EXCEPT !.pasteKey = k]
  <2>2. /\ t \in Guide!GuideState /\ t.vars = view.vars /\ t.keyId = view.keyId
        /\ t.keys = view.keys /\ t.section = view.section /\ t.active = view.active
    BY <1>1, <1>a DEF Guide!GuideState
  <2> QED
    BY <1>1, <1>2, <1>a, <2>1, <2>2, GoesOn
<1>6. CASE Guide!TypeEndpoint
  <2>1. PICK e \in Guide!Endpoint, v \in Text :
          Guide!Goes([view EXCEPT !.endpoints[e] = v])
    BY <1>6 DEF Guide!TypeEndpoint
  <2> DEFINE t == [view EXCEPT !.endpoints[e] = v]
  <2>2. /\ t \in Guide!GuideState /\ t.vars = view.vars /\ t.keyId = view.keyId
        /\ t.keys = view.keys /\ t.section = view.section /\ t.active = view.active
    BY <1>1, <1>a DEF Guide!GuideState
  <2> QED
    BY <1>1, <1>2, <1>a, <2>1, <2>2, GoesOn
<1>7. CASE Guide!OpenSection
  <2>1. PICK s \in DOMAIN Guide!Sections :
          Guide!Goes([view EXCEPT !.section = s, !.active = Guide!FirstOf[s]])
    BY <1>7 DEF Guide!OpenSection
  <2> DEFINE t == [view EXCEPT !.section = s, !.active = Guide!FirstOf[s]]
  <2>2. /\ t \in Guide!GuideState /\ t.vars = view.vars /\ t.keyId = view.keyId
        /\ t.keys = view.keys /\ t.section = s /\ t.active = Guide!FirstOf[s]
    BY <1>1, <1>a, SnippetsOfSections DEF Guide!GuideState
  <2>3. t.active \in Guide!Sections[t.section]
    BY <2>2, SnippetsOfSections
  <2> QED
    BY <1>1, <1>2, <1>a, <2>1, <2>2, <2>3, GoesOn
<1>8. CASE Guide!OpenSnippet
  <2>1. PICK s \in Guide!Sections[view.section] : Guide!Goes([view EXCEPT !.active = s])
    BY <1>8 DEF Guide!OpenSnippet
  <2> DEFINE t == [view EXCEPT !.active = s]
  <2>2. /\ t \in Guide!GuideState /\ t.vars = view.vars /\ t.keyId = view.keyId
        /\ t.keys = view.keys /\ t.section = view.section /\ t.active = s
    BY <1>1, <1>a, SnippetsOfSections DEF Guide!GuideState
  <2> QED
    BY <1>1, <1>2, <1>a, <2>1, <2>2, GoesOn
<1>9. CASE Next
  <2>1. GuideSteps \/ SessionEnds
    BY <1>9 DEF Next, LiveSteps, EventArrives, SheetSteps, StatsSteps, LogsSteps,
                KeysSteps, KeyFormSteps, SettingsSteps, ProjectsSteps, SignInSteps
  <2>2. CASE GuideSteps
    BY <1>4, <1>5, <1>6, <1>7, <1>8, <2>2 DEF GuideSteps, Guide!Step
  <2> QED
    BY <1>3, <2>1, <2>2 DEF SessionEnds
<1> QED
  BY <1>3, <1>9 DEF vars

LEMMA GuideShows ==
  ASSUME GuideInv, page = "integrate"
  PROVE  Guide!GuideTypeOK /\ Guide!SnippetIsCurrent
<1>1. view.vars = Guide!Vars(view) /\ (view.keys # {} => view.keyId \in view.keys)
      /\ view.active \in Guide!Sections[view.section]
  BY DEF GuideInv, GuideCore
<1> QED
  BY <1>1 DEF GuideInv, Guide!SnippetIsCurrent, Guide!Vars, Guide!Selected, Guide!Warned,
              Guide!Uses

-----------------------------------------------------------------------------
(* All pages. *)

\* The cookie is one of those there are: only an account form and the end of a
\* session change it.
SessionInv == session \in Session

LEMMA NextSession == SignInInv /\ SessionInv /\ [Next]_vars => SessionInv'
<1> SUFFICES ASSUME SignInInv, session \in Session, [Next]_vars
             PROVE  session' \in Session
  BY DEF SessionInv
<1>1. CASE UNCHANGED session
  BY <1>1
<1>2. CASE SignInSteps
  <2>1. page = "sign in" /\ page' = "sign in"
    BY <1>2, PageStays DEF SignInSteps
  <2>2. SignInInv'
    BY NextSignIn
  <2> QED
    BY <2>1, <2>2 DEF SignInInv
<1>3. CASE SessionEnds
  BY <1>3 DEF SessionEnds, Session
<1>4. CASE Next
  BY <1>1, <1>2, <1>3, <1>4
     DEF Next, LiveSteps, EventArrives, SheetSteps, StatsSteps, LogsSteps, KeysSteps,
         KeyFormSteps, SettingsSteps, ProjectsSteps, GuideSteps
<1> QED
  BY <1>1, <1>4 DEF vars

\* Every field of every page stays in its range, whatever the user, the
\* services and the other tabs do.
THEOREM TypeCorrect == Spec => []TypeOK
<1>1. Init => SessionInv
  BY DEF Init, Session, SessionInv
<1>2. SessionInv /\ LiveInv /\ SheetInv /\ StatsInv /\ LogsInv /\ KeysInv
        /\ KeyFormInv /\ SettingsInv /\ ProjectsInv /\ GuideInv /\ SignInInv => TypeOK
  BY DEF TypeOK, SessionInv, LiveInv, SheetInv, StatsInv, LogsInv, KeysInv, KeyFormInv, SettingsInv,
         ProjectsInv, GuideInv, SignInInv
<1> QED
  BY <1>1, <1>2, InitLive, NextLive, InitSheet, NextSheet, InitStats, NextStats,
     InitLogs, NextLogs, InitKeys, NextKeys, InitKeyForm, NextKeyForm, InitSettings,
     NextSettings, InitProjects, NextProjects, InitGuide, NextGuide, InitSignIn,
     NextSignIn, NextSession, PTL DEF Spec

\* What a reading page shows came with an answer to the question its controls
\* ask now: an answer for an earlier tab, filter, event or section never stays
\* on the screen.
THEOREM ScreensShowWhatWasAsked == Spec => []ShownWasAskedFor
<1>1. LiveInv /\ SheetInv /\ StatsInv /\ LogsInv /\ GuideInv => ShownWasAskedFor
  BY LiveShows, SheetShows, StatsShow, LogsShows, GuideShows DEF ShownWasAskedFor
<1> QED
  BY <1>1, InitLive, NextLive, InitSheet, NextSheet, InitStats, NextStats,
     InitLogs, NextLogs, InitGuide, NextGuide, PTL DEF Spec

\* The live tail lists no event twice and hides none without a cause, the tiles
\* of the analytics page agree with its series, and the lists of keys and of
\* projects are the tables after every write the page knows the outcome of.
THEOREM ListsStayTrue == Spec => []ListsAreTrue
<1>1. ASSUME KeysFresh, page = "keys" PROVE Keys!KeyListIsFresh
  BY <1>1 DEF KeysFresh, Keys!KeyListIsFresh
<1>2. ASSUME ProjectsFresh, page = "projects" PROVE Projects!ProjectListIsFresh
  BY <1>2 DEF ProjectsFresh, Projects!ProjectListIsFresh
<1>3. LiveInv /\ StatsInv /\ KeysFresh /\ ProjectsFresh => ListsAreTrue
  BY <1>1, <1>2, LiveShows, StatsShow DEF ListsAreTrue
<1> QED
  BY <1>3, InitLive, NextLive, InitStats, NextStats, InitKeys, NextKeys, InitKeysFresh,
     NextKeysFresh, InitProjects, NextProjects, InitProjectsFresh, NextProjectsFresh,
     PTL DEF Spec
=============================================================================
