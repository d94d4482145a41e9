------------------------------ MODULE KeysPage ------------------------------
(***************************************************************************)
(* The API keys page: the list a server component renders, the dialog that *)
(* creates a key and shows its secret once, and the dialogs that revoke.   *)
(* There are two create dialogs: one in the header, and one in the note    *)
(* that stands for an empty list and is unmounted when the list fills.     *)
(*                                                                         *)
(* External: auth-api, whose answer to a write may be lost after the write *)
(* was done; the router, which runs one server action at a time and        *)
(* renders the page again when an action has revalidated it.  A dialog is  *)
(* modal: while one is open no other one can be opened.                    *)
(***************************************************************************)
EXTENDS Integers, Sequences, DashboardApi

CONSTANTS
  Key,      \* keys of the project
  NoKey     \* no secret in a dialog

KeysAssumption == NoKey \notin Key

VARIABLES
  keys,     \* the page's state, see KeysState
  rows,     \* [Key -> "none", "active", "revoked"]: the table at auth-api
  sent,     \* where the browser was sent: "no", "signout", "login", "error"
  session

Place  == {"header", "empty"}
KeyStatus == {"none", "active", "revoked"}

\* CreateKeyDialog: created is the key whose secret it holds.
CreateDialog == [open : BOOLEAN, pending : BOOLEAN, created : Key \cup {NoKey},
                 confirmedSaved : BOOLEAN]

Closed == [open |-> FALSE, pending |-> FALSE, created |-> NoKey, confirmedSaved |-> FALSE]

\* RevokeKeyButton
RevokeDialog == [open : BOOLEAN, pending : BOOLEAN]

NotOpen == [open |-> FALSE, pending |-> FALSE]

\* A server action that waits or runs.  mounted: so is the dialog it is for;
\* one that is mounted later in its place does not get the result.
Call == [op : {"create"}, at : Place, mounted : BOOLEAN]
          \cup [op : {"revoke"}, at : Key, mounted : BOOLEAN]

\* listed: what the page was rendered with.  refresh: a router.refresh runs.
\* The rest is history: delivered: keys whose secret came back to a call of
\* the dialog at a place; saved: keys whose checkbox was ticked; unsure: a write
\* may have been done although its answer was an error.
KeysState ==
  [listed : [Key -> KeyStatus], error : BOOLEAN,
   create : [Place -> CreateDialog], revoke : [Key -> RevokeDialog],
   calls : Seq(Call), refresh : BOOLEAN,
   delivered : [Place -> SUBSET Key], saved : SUBSET Key, unsure : BOOLEAN]

IsEmpty(listed) == \A k \in Key : listed[k] = "none"

Mounted(listed) ==
  [listed |-> listed, error |-> FALSE,
   create |-> [p \in Place |-> Closed], revoke |-> [k \in Key |-> NotOpen],
   calls |-> <<>>, refresh |-> FALSE,
   delivered |-> [p \in Place |-> {}], saved |-> {}, unsure |-> FALSE]

DialogIsOpen ==
  \/ \E p \in Place : keys.create[p].open
  \/ \E k \in Key : keys.revoke[k].open

-----------------------------------------------------------------------------
(* Rendering. *)

\* The dialog a call is for has its place in the page.
HasPlace(listed, c) ==
  IF c.op = "create" THEN c.at = "header" \/ IsEmpty(listed)
                     ELSE listed[c.at] = "active"

StillMounted(listed, c) ==
  IF HasPlace(listed, c) THEN c ELSE [c EXCEPT !.mounted = FALSE]

\* The page with another list: what is no longer rendered is unmounted, the
\* dialog of the empty list, with any secret in it, and the buttons of keys that
\* are not active.
Render(t, listed, error) ==
  [t EXCEPT !.listed = listed, !.error = error,
            !.calls = [i \in DOMAIN @ |-> StillMounted(listed, @[i])],
            !.create["empty"] = IF IsEmpty(listed) THEN @ ELSE Closed,
            !.revoke = [k \in Key |-> IF listed[k] = "active" THEN @[k] ELSE NotOpen]]

NoRows == [k \in Key |-> "none"]

\* KeysPage on the server: an error leaves an empty list under a banner.  t is
\* the page as it is when the answer a to listAPIKeys is rendered.
KeysPageRenders(t, table, a) ==
  LET result == PageResult(session, AuthRequest(a))
  IN  CASE result = "page"  -> keys' = Render(t, table, FALSE) /\ UNCHANGED sent
        [] result = "throw" -> keys' = Render(t, NoRows, TRUE) /\ UNCHANGED sent
        [] OTHER            -> keys' = t /\ sent' = result

Refreshed ==
  /\ keys.refresh
  /\ \E a \in Answers(session) :
       KeysPageRenders([keys EXCEPT !.refresh = FALSE], rows, a)
  /\ UNCHANGED rows

-----------------------------------------------------------------------------
(* The create dialog. *)

\* A dialog that holds a secret shows it.
Open(p) ==
  /\ ~DialogIsOpen
  /\ p = "empty" => IsEmpty(keys.listed)
  /\ keys' = [keys EXCEPT !.create[p].open = TRUE]
  /\ UNCHANGED <<rows, sent>>

\* Mutant of Dismiss: an unconfirmed secret does not keep the dialog open.
DismissAnyway(p) ==
  /\ keys.create[p].open
  /\ keys' = [keys EXCEPT !.create[p] = [@ EXCEPT !.open = FALSE, !.created = NoKey,
                                                  !.confirmedSaved = FALSE]]
  /\ UNCHANGED <<rows, sent>>

\* onOpenChange(false), by the cross or Escape.
Dismiss(p) ==
  /\ keys.create[p].open
  /\ keys.create[p].created # NoKey => keys.create[p].confirmedSaved
  /\ keys' = [keys EXCEPT !.create[p] = [@ EXCEPT !.open = FALSE, !.created = NoKey,
                                                  !.confirmedSaved = FALSE],
                          !.refresh = @ \/ keys.create[p].created # NoKey]
  /\ UNCHANGED <<rows, sent>>

\* Cancel of the form: setOpen alone.
Cancel(p) ==
  /\ keys.create[p].open /\ keys.create[p].created = NoKey
  /\ keys' = [keys EXCEPT !.create[p].open = FALSE]
  /\ UNCHANGED <<rows, sent>>

ToggleSaved(p) ==
  /\ keys.create[p].open /\ keys.create[p].created # NoKey
  /\ keys' = [keys EXCEPT !.create[p].confirmedSaved = ~@,
                          !.saved = @ \cup {keys.create[p].created}]
  /\ UNCHANGED <<rows, sent>>

\* Done: setOpen alone, so the secret stays in the dialog.
Done(p) ==
  /\ keys.create[p].open /\ keys.create[p].created # NoKey
  /\ keys.create[p].confirmedSaved
  /\ keys' = [keys EXCEPT !.create[p].open = FALSE]
  /\ UNCHANGED <<rows, sent>>

SubmitCreate(p) ==
  /\ keys.create[p].open /\ keys.create[p].created = NoKey /\ ~keys.create[p].pending
  /\ keys' = [keys EXCEPT !.create[p].pending = TRUE,
                          !.calls = Append(@, [op |-> "create", at |-> p, mounted |-> TRUE])]
  /\ UNCHANGED <<rows, sent>>

\* The secret k comes back to the dialog that made the call c: it is put there
\* if that dialog is still mounted, and nowhere if not.
Deliver(t, c, k) ==
  [t EXCEPT !.delivered[c.at] = @ \cup {k},
            !.create[c.at] = IF c.mounted /\ HasPlace(t.listed, c)
                             THEN [@ EXCEPT !.created = k, !.pending = FALSE] ELSE @]

\* createKeyAction and what the dialog does with its result.  An action that
\* rejects brings the error page.
CreateAnswered(p, k) ==
  /\ keys.calls # <<>> /\ Head(keys.calls).op = "create" /\ Head(keys.calls).at = p
  /\ rows[k] = "none"
  /\ \E a \in Answers(session), done \in BOOLEAN :
       LET result == ActionResult(session, AuthRequest(a))
           c      == Head(keys.calls)
           t      == [keys EXCEPT !.calls = Tail(@)]
       IN  /\ done \in MayBeDone(session, a)
           /\ rows' = IF done THEN [rows EXCEPT ![k] = "active"] ELSE rows
           /\ CASE result = "rejected" -> keys' = t /\ sent' = "error"
                [] result = "error" ->
                     /\ keys' = [t EXCEPT !.create[p].pending = IF c.mounted THEN FALSE ELSE @,
                                          !.unsure = @ \/ done]
                     /\ UNCHANGED sent
                [] result = "ok" ->
                     \E b \in Answers(session) :
                       LET r == IF b = "ok" THEN Render(t, rows', FALSE)
                                ELSE Render(t, NoRows, TRUE)
                       IN  keys' = Deliver(r, c, k) /\ UNCHANGED sent

-----------------------------------------------------------------------------
(* The revoke dialog. *)

OpenRevoke(k) ==
  /\ ~DialogIsOpen
  /\ keys.listed[k] = "active"
  /\ keys' = [keys EXCEPT !.revoke[k].open = TRUE]
  /\ UNCHANGED <<rows, sent>>

CloseRevoke(k) ==
  /\ keys.revoke[k].open
  /\ keys' = [keys EXCEPT !.revoke[k].open = FALSE]
  /\ UNCHANGED <<rows, sent>>

SubmitRevoke(k) ==
  /\ keys.revoke[k].open /\ ~keys.revoke[k].pending
  /\ keys' = [keys EXCEPT !.revoke[k].pending = TRUE,
                          !.calls = Append(@, [op |-> "revoke", at |-> k, mounted |-> TRUE])]
  /\ UNCHANGED <<rows, sent>>

\* revokeKeyAction lets every error through and the button catches it.
RevokeAnswered(k) ==
  /\ keys.calls # <<>> /\ Head(keys.calls).op = "revoke" /\ Head(keys.calls).at = k
  /\ \E a \in Answers(session), done \in BOOLEAN :
       LET c == Head(keys.calls)
           t == [keys EXCEPT !.calls = Tail(@),
                             !.revoke[k].pending = IF c.mounted THEN FALSE ELSE @]
       IN  /\ done \in MayBeDone(session, a)
           /\ rows' = IF done THEN [rows EXCEPT ![k] = "revoked"] ELSE rows
           /\ IF ActionResult(session, RevokeCall(a)) = "ok"
              THEN \E b \in Answers(session) :
                     KeysPageRenders([t EXCEPT !.revoke[k].open = IF c.mounted THEN FALSE ELSE @,
                                               !.refresh = TRUE], rows', b)
              ELSE /\ keys' = [t EXCEPT !.unsure = @ \/ done]
                   /\ UNCHANGED sent

Step ==
  /\ sent = "no"
  /\ \/ Refreshed
     \/ \E p \in Place :
          \/ Open(p) \/ Dismiss(p) \/ Cancel(p) \/ ToggleSaved(p) \/ Done(p)
          \/ SubmitCreate(p)
          \/ \E k \in Key : CreateAnswered(p, k)
     \/ \E k \in Key :
          OpenRevoke(k) \/ CloseRevoke(k) \/ SubmitRevoke(k) \/ RevokeAnswered(k)

-----------------------------------------------------------------------------
\* Every field is in its range.
KeysTypeOK ==
  /\ keys \in KeysState
  /\ rows \in [Key -> KeyStatus]

Held(k, places) == \E p \in places : keys.create[p].created = k

\* The secret of a key made in the header's dialog stays in that dialog until
\* the user has ticked that it is saved, whatever is pressed, rendered again or
\* answered by an error in the meantime; only the error page takes it away.
SecretIsKeptOrSaved ==
  sent = "no" =>
    \A k \in keys.delivered["header"] : Held(k, {"header"}) \/ k \in keys.saved

\* The same of the dialog in the note of an empty list, where the first key is
\* made: what create-dialog.tsx promises of every key.
NoSecretIsLost ==
  sent = "no" =>
    \A p \in Place : \A k \in keys.delivered[p] : Held(k, Place) \/ k \in keys.saved

\* With nothing in progress and no error, the list is the table at auth-api,
\* unless the answer to a write was lost.
KeyListIsFresh ==
  sent = "no" /\ keys.calls = <<>> /\ ~keys.refresh /\ ~keys.error =>
    keys.listed = rows \/ keys.unsure
=============================================================================
