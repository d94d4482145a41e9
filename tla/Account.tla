------------------------------- MODULE Account -------------------------------
(***************************************************************************)
(* The sign-up and the login form, and the session they lead to.  Sign-up  *)
(* is two calls: one makes the account, one signs in.  External: NextAuth, *)
(* which keeps the session in a cookie; auth-api; the network between the  *)
(* browser and the dashboard, which may fail a call as a whole.            *)
(***************************************************************************)
EXTENDS DashboardApi

VARIABLES
  account,   \* the page's state, see AccountState
  exists,    \* BOOLEAN: auth-api has an account with this address
  sent,      \* where the browser was sent: "no", "projects", "login"
  session

\* call: the call in progress.  correct: the password in the form is the
\* account's.  The rest is history: rejected: a call rejected; told: the last
\* message; unsure: an account was made by a call that failed.
AccountState ==
  [form : {"login", "signup"}, pending : BOOLEAN, call : {"none", "signup", "signin"},
   correct : BOOLEAN, rejected : BOOLEAN, unsure : BOOLEAN,
   told : {"nothing", "invalid", "failed", "created"}]

Mounted(page, correct) ==
  [form |-> page, pending |-> FALSE, call |-> "none", correct |-> correct,
   rejected |-> FALSE, unsure |-> FALSE, told |-> "nothing"]

Submit ==
  /\ ~account.pending
  /\ account' = [account EXCEPT !.pending = TRUE,
                   !.call = IF account.form = "signup" THEN "signup" ELSE "signin"]
  /\ UNCHANGED <<exists, sent, session>>

\* External: the call rejects in the browser; the handler ends where it is.
Rejects ==
  /\ account.call # "none"
  /\ account' = [account EXCEPT !.call = "none", !.rejected = TRUE]
  /\ UNCHANGED <<exists, sent, session>>

\* signupAction: an address that has an account is an error.
SignedUp ==
  /\ account.call = "signup"
  /\ \E answer \in {"ok", "failed"}, done \in BOOLEAN :
       /\ done \in (IF answer = "ok" THEN {TRUE} ELSE BOOLEAN)
       /\ done => ~exists
       /\ exists' = (exists \/ done)
       /\ account' = IF answer = "ok"
                     THEN [account EXCEPT !.call = "signin", !.correct = TRUE]
                     ELSE [account EXCEPT !.call = "none", !.pending = FALSE,
                             !.told = "failed", !.correct = @ \/ done,
                             !.unsure = @ \/ done]
  /\ UNCHANGED <<sent, session>>

\* Mutant of Authorize: an error of auth-api lets the user in.
AuthorizeOnError(answer) ==
  IF exists /\ account.correct THEN "user" ELSE IF answer = "ok" THEN "null" ELSE "user"

\* authorize: every error of auth-api is a null, as is a wrong password.
Authorize(answer) ==
  IF answer = "ok" /\ exists /\ account.correct THEN "user" ELSE "null"

\* signIn, and what each form does with its result.
SignedIn ==
  /\ account.call = "signin"
  /\ \E answer \in {"ok", "failed"} :
       LET t == [account EXCEPT !.call = "none", !.pending = FALSE]
       IN  IF Authorize(answer) = "user"
           THEN /\ session' = "good" /\ sent' = "projects" /\ account' = t
           ELSE /\ UNCHANGED session
                /\ IF account.form = "signup"
                   THEN sent' = "login" /\ account' = [t EXCEPT !.told = "created"]
                   ELSE sent' = "no" /\ account' = [t EXCEPT !.told = "invalid"]
  /\ UNCHANGED exists

Step == sent = "no" /\ (Submit \/ Rejects \/ SignedUp \/ SignedIn)

-----------------------------------------------------------------------------
\* Every field is in its range.
AccountTypeOK == account \in AccountState /\ exists \in BOOLEAN

\* A browser is sent to its projects with a session that auth-api gave it for
\* an account that exists; "account created" is said of one that does; and a
\* form that waits with no call in progress had a call reject.
SignInIsHonest ==
  /\ sent = "projects" => session = "good" /\ exists /\ account.correct
  /\ account.told = "created" => exists
  /\ account.pending /\ account.call = "none" => account.rejected
=============================================================================
