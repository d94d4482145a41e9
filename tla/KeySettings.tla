----------------------------- MODULE KeySettings -----------------------------
(***************************************************************************)
(* The settings form of one API key.  Its fields are taken from the key    *)
(* when the form is mounted; Save sends all of them, whatever was edited.  *)
(* External: auth-api, which another tab, or another user of the account,  *)
(* may tell to change the same key.                                        *)
(***************************************************************************)
EXTENDS DashboardApi

CONSTANTS
  Field,      \* the fields of the form
  Number,     \* those that are numbers: body_cap, rate_limit_rps
  Value,      \* values of a field
  Zero,       \* what an empty number field is saved as
  Blank       \* an empty number field

KeySettingsAssumption ==
  /\ Number \subseteq Field
  /\ Zero \in Value
  /\ Blank \notin Value

VARIABLES
  form,       \* the form's state, see FormState
  stored,     \* [Field -> Value]: the key at auth-api
  sent,
  session

\* saving: the payload of the action in progress.  told: the form has said that
\* the key is updated.  The rest is history: mounted: the key the form was
\* mounted with; edited: fields the user changed; elsewhere: fields changed by
\* somebody else since then; imposed: what saves wrote over another value in a
\* field the user had not edited.
FormState ==
  [fields : [Field -> Value \cup {Blank}], pending : BOOLEAN,
   saving : [Field -> Value], told : BOOLEAN,
   mounted : [Field -> Value], edited : SUBSET Field, elsewhere : SUBSET Field,
   imposed : [Field -> SUBSET Value]]

Mounted(key) ==
  [fields |-> key, pending |-> FALSE, saving |-> key, told |-> FALSE,
   mounted |-> key, edited |-> {}, elsewhere |-> {},
   imposed |-> [f \in Field |-> {}]]

\* Mutant of Payload: an empty number is sent as it is.
PayloadRaw(fields) == fields

\* Mutant of Payload: the numbers are not sent.
PayloadWithoutNumbers(fields) ==
  [f \in Field |-> IF f \in Number THEN Zero ELSE fields[f]]

\* Number(s) || 0
Payload(fields) ==
  [f \in Field |-> IF fields[f] = Blank THEN Zero ELSE fields[f]]

Edit(f, v) ==
  /\ v # form.fields[f]
  /\ v = Blank => f \in Number
  /\ form' = [form EXCEPT !.fields[f] = v, !.edited = @ \cup {f}]
  /\ UNCHANGED <<stored, sent>>

Submit ==
  /\ ~form.pending
  /\ form' = [form EXCEPT !.pending = TRUE, !.saving = Payload(form.fields),
                          !.told = FALSE]
  /\ UNCHANGED <<stored, sent>>

\* updateKeyAction and what follows it.  The fields stay as they are.
Saved ==
  /\ form.pending
  /\ \E a \in Answers(session), done \in BOOLEAN :
       LET result == ActionResult(session, AuthRequest(a))
       IN  /\ done \in MayBeDone(session, a)
           /\ stored' = IF done THEN form.saving ELSE stored
           /\ sent' = IF result = "rejected" THEN "error" ELSE sent
           /\ form' = [form EXCEPT !.pending = FALSE, !.told = (result = "ok"),
                         !.imposed = [f \in Field |->
                            @[f] \cup (IF f \notin form.edited /\ stored'[f] # stored[f]
                                      THEN {stored'[f]} ELSE {})]]

\* External: somebody else changes the key.
EditedElsewhere(f, v) ==
  /\ v # stored[f]
  /\ stored' = [stored EXCEPT ![f] = v]
  /\ form' = [form EXCEPT !.elsewhere = @ \cup {f}]
  /\ UNCHANGED sent

Step ==
  /\ sent = "no"
  /\ \/ Submit \/ Saved
     \/ \E f \in Field, v \in Value \cup {Blank} : Edit(f, v)
     \/ \E f \in Field, v \in Value : EditedElsewhere(f, v)

-----------------------------------------------------------------------------
\* Every field is in its range.
FormTypeOK ==
  /\ form \in FormState
  /\ stored \in [Field -> Value]

\* What a save does to a field that the user has not edited: nothing, unless
\* somebody else changed it after the form was mounted, and then it puts back
\* the value of that time.  Their change is lost: no version is compared.
UneditedGoesBack ==
  \A f \in Field : \A v \in form.imposed[f] :
    f \in form.elsewhere /\ v = form.mounted[f]
=============================================================================
