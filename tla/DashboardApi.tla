---------------------------- MODULE DashboardApi ----------------------------
(***************************************************************************)
(* How an answer of auth-api or stats-api reaches the screen: the API      *)
(* clients in lib/api, the route handlers under app/api, which the browser *)
(* fetches from, and the server actions, which forms call.                 *)
(*                                                                         *)
(* A session is the NextAuth cookie and the token in it.  The token ends   *)
(* before the cookie does: it is then "stale" and both services answer it  *)
(* with 401.                                                               *)
(***************************************************************************)

Session == {"none", "good", "stale"}

\* External: the answers a service may give to a token.
Answers(session) ==
  (IF session = "good" THEN {"ok"} ELSE {"unauthorized"}) \cup {"failed"}

\* get<T> and request<T>: data, a redirect to the sign-out page, or an error.
StatsGet(answer) ==
  [ok |-> "data", unauthorized |-> "redirect", failed |-> "throw"][answer]

AuthRequest(answer) ==
  [ok |-> "data", unauthorized |-> "redirect", failed |-> "throw"][answer]

\* deleteProject answers 401 itself; revokeAPIKey takes it for an error.
DeleteProjectCall(answer) ==
  [ok |-> "data", unauthorized |-> "redirect", failed |-> "throw"][answer]

RevokeCall(answer) ==
  [ok |-> "data", unauthorized |-> "throw", failed |-> "throw"][answer]

\* getSession: it throws without a session.
HasSession(session) == session # "none"

\* GET handlers: without a session the handler itself fails; a redirect is
\* thrown on, and fetch follows it to an HTML page; an error becomes a 500.
RouteHandler(session, call) ==
  IF ~HasSession(session) THEN "500"
  ELSE [data |-> "json", redirect |-> "page", throw |-> "500"][call]

\* What a component makes of it: r.json() of a page fails like a bad status.
FetchResult(response) == IF response = "json" THEN "data" ELSE "error"

\* The results a fetch of the browser may have.
Results(session) ==
  {FetchResult(RouteHandler(session, StatsGet(a))) : a \in Answers(session)}

\* Pages under /projects: the middleware sends a browser without a session to
\* the login page.  With one, a redirect of the server component is followed.
\* The page itself decides about an error.
PageResult(session, call) ==
  IF ~HasSession(session) THEN "login"
  ELSE [data |-> "page", redirect |-> "signout", throw |-> "throw"][call]

\* A server action: without a session it rejects; one that catches everything
\* reports a redirect as an error.
ActionResult(session, call) ==
  IF ~HasSession(session) THEN "rejected"
  ELSE IF call = "data" THEN "ok" ELSE "error"

\* External: whether the write behind an answer was done.  An error may stand
\* for a write whose answer was lost.
MayBeDone(session, answer) ==
  CASE answer = "ok" -> {TRUE}
    [] answer = "failed" /\ session = "good" -> BOOLEAN
    [] OTHER -> {FALSE}
=============================================================================
