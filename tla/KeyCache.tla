------------------------------ MODULE KeyCache ------------------------------
(***************************************************************************)
(* API keys from the control plane to the hot path: auth-api writes the    *)
(* rows of api_keys in Postgres, proxy-gateway and ingest-api answer       *)
(* requests from an in-memory cache filled on a miss, and the gateway's    *)
(* Loader copies the whole table into its cache on a ticker.               *)
(*                                                                         *)
(* A row is its status and the revision of its configuration (allowlist,   *)
(* body cap, rate, redaction rules), which the later tests of a request    *)
(* read from the entry the cache returned.                                 *)
(*                                                                         *)
(* External: Postgres (one statement is atomic; a deleted project takes    *)
(* its keys along, and a key of a missing project is not inserted) and the *)
(* ristretto cache (Set replaces a present entry at once; an absent one is *)
(* admitted later, or never).                                              *)
(***************************************************************************)
EXTENDS Naturals, FiniteSets

CONSTANTS
  Project,
  Key,
  ProjectOf,   \* [Key -> Project]
  Service,     \* processes with a key cache
  Refreshed,   \* those that run a Loader (proxy-gateway)
  Request,     \* requests to the services
  Admin,       \* requests to auth-api
  NoEntry,     \* no cached value, no row
  MaxRev,      \* bound: edits of a key
  MaxOutages,  \* bound: times Postgres becomes unreachable
  MaxRestarts  \* bound: restarts of services

ASSUME ConstantsAssumption ==
  /\ ProjectOf \in [Key -> Project]
  /\ Refreshed \subseteq Service
  /\ MaxRev \in Nat /\ MaxOutages \in Nat /\ MaxRestarts \in Nat
  /\ NoEntry \notin [status : {"active", "revoked"}, rev : 0..MaxRev]

VARIABLES
  project,   \* [Project -> {"none", "live", "gone"}]: table projects
  row,       \* [Key -> Entry \cup {NoEntry}]: table api_keys
  used,      \* SUBSET Key: hashes ever inserted (a raw key is random)
  admin,     \* [Admin -> AdminCall \cup {NoEntry}]: past the ownership check
  dbUp,      \* BOOLEAN: Postgres answers
  cache,     \* [Service -> [Key -> Entry \cup {NoEntry}]]
  inbox,     \* [Service -> [Key -> Entry \cup {NoEntry}]]: not yet admitted
  loader,    \* [Service -> LoaderState]
  todo,      \* [Service -> [Key -> Entry \cup {NoEntry}]]: rest of a sweep
  at,        \* [Request -> {"idle", "query", "store"}]
  asks,      \* [Request -> Service \X Key]
  held,      \* [Request -> Entry \cup {NoEntry}]: the row a request read
  verdict,   \* [Request -> Verdict]
  existed,   \* history: [Request -> BOOLEAN]: the row was there on arrival
  outages,
  restarts

dbVars      == <<project, row, used>>
cacheVars   == <<cache, inbox>>
loaderVars  == <<loader, todo>>
requestVars == <<at, asks, held, verdict, existed>>
vars == <<project, row, used, admin, dbUp, cache, inbox, loader, todo,
          at, asks, held, verdict, existed, outages, restarts>>

Entry       == [status : {"active", "revoked"}, rev : 0..MaxRev]
AdminCall   == [op : {"create", "update", "revoke"}, key : Key]
LoaderState == {"initial", "initialset", "wait", "set"}
Verdict     == {"none", "use", "revoked", "notfound", "error"}

\* main starts its server once Initial has returned.
Serving(s) == loader[s] \notin {"initial", "initialset"}

Init ==
  /\ project  = [p \in Project |-> "none"]
  /\ row      = [k \in Key |-> NoEntry]
  /\ used     = {}
  /\ admin    = [a \in Admin |-> NoEntry]
  /\ dbUp     = TRUE
  /\ cache    = [s \in Service |-> [k \in Key |-> NoEntry]]
  /\ inbox    = [s \in Service |-> [k \in Key |-> NoEntry]]
  /\ loader   = [s \in Service |-> IF s \in Refreshed THEN "initial" ELSE "wait"]
  /\ todo     = [s \in Service |-> [k \in Key |-> NoEntry]]
  /\ at       = [q \in Request |-> "idle"]
  /\ asks     \in [Request -> Service \X Key]
  /\ held     = [q \in Request |-> NoEntry]
  /\ verdict  = [q \in Request |-> "none"]
  /\ existed  = [q \in Request |-> FALSE]
  /\ outages  = 0
  /\ restarts = 0

-----------------------------------------------------------------------------
(* auth-api.  APIKeys.Create, Update and Revoke read the project first and *)
(* write in a second statement; there is no transaction around the two.    *)

CreateProject(p) ==
  /\ dbUp
  /\ project[p] = "none"
  /\ project' = [project EXCEPT ![p] = "live"]
  /\ UNCHANGED <<row, used, admin, dbUp, cacheVars, loaderVars, requestVars,
                 outages, restarts>>

\* The foreign key deletes the project's keys in the same statement.
DeleteProject(p) ==
  /\ dbUp
  /\ project[p] = "live"
  /\ project' = [project EXCEPT ![p] = "gone"]
  /\ row' = [k \in Key |-> IF ProjectOf[k] = p THEN NoEntry ELSE row[k]]
  /\ UNCHANGED <<used, admin, dbUp, cacheVars, loaderVars, requestVars,
                 outages, restarts>>

\* projects.Get succeeds.  Create draws a hash nobody else has.
CheckOwner(a, op, k) ==
  /\ dbUp
  /\ admin[a] = NoEntry
  /\ project[ProjectOf[k]] = "live"
  /\ op = "create" =>
       /\ k \notin used
       /\ \A b \in Admin : admin[b] # [op |-> "create", key |-> k]
  /\ op # "create" => k \in used
  /\ admin' = [admin EXCEPT ![a] = [op |-> op, key |-> k]]
  /\ UNCHANGED <<dbVars, dbUp, cacheVars, loaderVars, requestVars,
                 outages, restarts>>

\* Mutant of InsertKey: no foreign key, the row is inserted anyway.
InsertKeyUnchecked(k) ==
  /\ row'  = [row EXCEPT ![k] = [status |-> "active", rev |-> 0]]
  /\ used' = used \cup {k}

\* keys.Create: the insert fails on the foreign key if the project is gone.
InsertKey(k) ==
  IF project[ProjectOf[k]] = "live"
  THEN /\ row'  = [row EXCEPT ![k] = [status |-> "active", rev |-> 0]]
       /\ used' = used \cup {k}
  ELSE UNCHANGED <<row, used>>

\* Mutant of UpdateKey: the whole row is written back, status included.
UpdateKeyWritesStatus(k) ==
  /\ row' = IF row[k] # NoEntry /\ row[k].rev < MaxRev
            THEN [row EXCEPT ![k] = [status |-> "active", rev |-> @.rev + 1]]
            ELSE row
  /\ UNCHANGED used

\* keys.Update sets the configuration columns and leaves the status alone.
UpdateKey(k) ==
  /\ row' = IF row[k] # NoEntry /\ row[k].rev < MaxRev
            THEN [row EXCEPT ![k].rev = @ + 1]
            ELSE row
  /\ UNCHANGED used

RevokeKey(k) ==
  /\ row' = IF row[k] # NoEntry
            THEN [row EXCEPT ![k].status = "revoked"]
            ELSE row
  /\ UNCHANGED used

\* The second statement.  If Postgres has gone the call fails.
WriteKey(a) ==
  /\ admin[a] # NoEntry
  /\ \/ /\ dbUp
        /\ \/ admin[a].op = "create" /\ InsertKey(admin[a].key)
           \/ admin[a].op = "update" /\ UpdateKey(admin[a].key)
           \/ admin[a].op = "revoke" /\ RevokeKey(admin[a].key)
     \/ ~dbUp /\ UNCHANGED <<row, used>>
  /\ admin' = [admin EXCEPT ![a] = NoEntry]
  /\ UNCHANGED <<project, dbUp, cacheVars, loaderVars, requestVars,
                 outages, restarts>>

-----------------------------------------------------------------------------
(* The cache. *)

\* RistrettoCache.Set: an entry that is present is replaced at once; else the
\* value is queued for admission, unless it is dropped, and one queued behind
\* another for the same key may lose to it.
CacheSet(s, k, e) ==
  IF cache[s][k] # NoEntry
  THEN /\ cache' = [cache EXCEPT ![s][k] = e]
       /\ UNCHANGED inbox
  ELSE /\ \/ inbox' = [inbox EXCEPT ![s][k] = e]
          \/ UNCHANGED inbox
       /\ UNCHANGED cache

Admit(s, k) ==
  /\ inbox[s][k] # NoEntry
  /\ cache' = [cache EXCEPT ![s][k] = inbox[s][k]]
  /\ inbox' = [inbox EXCEPT ![s][k] = NoEntry]
  /\ UNCHANGED <<dbVars, admin, dbUp, loaderVars, requestVars, outages, restarts>>

-----------------------------------------------------------------------------
(* Loader.refresh, once before serving (Initial) and then on every tick.   *)

\* repo.List: one statement, one snapshot.
LoaderList(s) ==
  /\ s \in Refreshed
  /\ loader[s] \in {"initial", "wait"}
  /\ dbUp
  /\ todo'   = [todo EXCEPT ![s] = row]
  /\ loader' = [loader EXCEPT ![s] = IF @ = "initial" THEN "initialset" ELSE "set"]
  /\ UNCHANGED <<dbVars, admin, dbUp, cacheVars, requestVars, outages, restarts>>

\* The error is logged: main starts with an empty cache, Run waits for a tick.
LoaderListFails(s) ==
  /\ s \in Refreshed
  /\ loader[s] \in {"initial", "wait"}
  /\ ~dbUp
  /\ loader' = [loader EXCEPT ![s] = "wait"]
  /\ UNCHANGED <<dbVars, admin, dbUp, cacheVars, todo, requestVars, outages,
                 restarts>>

\* Mutant of LoaderSet: only keys the cache does not know are stored.
LoaderSetMissing(s, k) ==
  /\ loader[s] \in {"initialset", "set"}
  /\ todo[s][k] # NoEntry
  /\ IF cache[s][k] = NoEntry THEN CacheSet(s, k, todo[s][k])
                              ELSE UNCHANGED cacheVars
  /\ todo' = [todo EXCEPT ![s][k] = NoEntry]
  /\ UNCHANGED <<dbVars, admin, dbUp, loader, requestVars, outages, restarts>>

\* One turn of the loop over the listed keys.  Keys the list does not contain
\* are left as they are.
LoaderSet(s, k) ==
  /\ loader[s] \in {"initialset", "set"}
  /\ todo[s][k] # NoEntry
  /\ CacheSet(s, k, todo[s][k])
  /\ todo' = [todo EXCEPT ![s][k] = NoEntry]
  /\ UNCHANGED <<dbVars, admin, dbUp, loader, requestVars, outages, restarts>>

LoaderDone(s) ==
  /\ loader[s] \in {"initialset", "set"}
  /\ \A k \in Key : todo[s][k] = NoEntry
  /\ loader' = [loader EXCEPT ![s] = "wait"]
  /\ UNCHANGED <<dbVars, admin, dbUp, cacheVars, todo, requestVars, outages,
                 restarts>>

-----------------------------------------------------------------------------
(* A request: ValidateAPIKey.Execute, and the head of Ingest.Execute.      *)

Judge(e) == IF e.status = "revoked" THEN "revoked" ELSE "use"

\* cache.Get: a hit is judged without I/O, a miss goes to Postgres.
Lookup(q, s, k) ==
  /\ Serving(s)
  /\ at[q] = "idle"
  /\ asks'    = [asks EXCEPT ![q] = <<s, k>>]
  /\ existed' = [existed EXCEPT ![q] = row[k] # NoEntry]
  /\ IF cache[s][k] # NoEntry
     THEN /\ verdict' = [verdict EXCEPT ![q] = Judge(cache[s][k])]
          /\ UNCHANGED at
     ELSE /\ verdict' = [verdict EXCEPT ![q] = "none"]
          /\ at' = [at EXCEPT ![q] = "query"]
  /\ UNCHANGED <<dbVars, admin, dbUp, cacheVars, loaderVars, held, outages,
                 restarts>>

\* Mutant of GetByHash: an empty result is taken for a row.
GetByHashIgnoresNoRows(q) ==
  /\ at[q] = "query"
  /\ IF dbUp
     THEN /\ held' = [held EXCEPT ![q] = row[asks[q][2]]]
          /\ at'   = [at EXCEPT ![q] = "store"]
          /\ UNCHANGED verdict
     ELSE /\ verdict' = [verdict EXCEPT ![q] = "error"]
          /\ at' = [at EXCEPT ![q] = "idle"]
          /\ UNCHANGED held
  /\ UNCHANGED <<dbVars, admin, dbUp, cacheVars, loaderVars, asks, existed,
                 outages, restarts>>

\* repo.GetByHash; neither a missing row nor an error is cached.
GetByHash(q) ==
  LET k == asks[q][2]
  IN  /\ at[q] = "query"
      /\ \/ /\ dbUp
            /\ row[k] # NoEntry
            /\ held' = [held EXCEPT ![q] = row[k]]
            /\ at'   = [at EXCEPT ![q] = "store"]
            /\ UNCHANGED verdict
         \/ /\ dbUp => row[k] = NoEntry
            /\ verdict' = [verdict EXCEPT ![q] = IF dbUp THEN "notfound" ELSE "error"]
            /\ at' = [at EXCEPT ![q] = "idle"]
            /\ UNCHANGED held
      /\ UNCHANGED <<dbVars, admin, dbUp, cacheVars, loaderVars, asks, existed,
                     outages, restarts>>

\* Mutant of StoreAndJudge: the request answers from what the cache holds now.
StoreAndJudgeReread(q) ==
  LET s == asks[q][1]
      k == asks[q][2]
  IN  /\ at[q] = "store"
      /\ CacheSet(s, k, held[q])
      /\ verdict' = [verdict EXCEPT ![q] =
                       IF cache'[s][k] # NoEntry THEN Judge(held[q]) ELSE "notfound"]
      /\ at'   = [at EXCEPT ![q] = "idle"]
      /\ held' = [held EXCEPT ![q] = NoEntry]
      /\ UNCHANGED <<dbVars, admin, dbUp, loaderVars, asks, existed, outages,
                     restarts>>

\* cache.Set of the row that was read, which may have changed since.
StoreAndJudge(q) ==
  /\ at[q] = "store"
  /\ CacheSet(asks[q][1], asks[q][2], held[q])
  /\ verdict' = [verdict EXCEPT ![q] = Judge(held[q])]
  /\ at'   = [at EXCEPT ![q] = "idle"]
  /\ held' = [held EXCEPT ![q] = NoEntry]
  /\ UNCHANGED <<dbVars, admin, dbUp, loaderVars, asks, existed, outages, restarts>>

-----------------------------------------------------------------------------
(* Failures. *)

DbFails ==
  /\ dbUp
  /\ outages < MaxOutages
  /\ dbUp'    = FALSE
  /\ outages' = outages + 1
  /\ UNCHANGED <<dbVars, admin, cacheVars, loaderVars, requestVars, restarts>>

DbRecovers ==
  /\ ~dbUp
  /\ dbUp' = TRUE
  /\ UNCHANGED <<dbVars, admin, cacheVars, loaderVars, requestVars, outages,
                 restarts>>

\* The process starts again with an empty cache; its requests are gone.
Restart(s) ==
  /\ restarts < MaxRestarts
  /\ restarts' = restarts + 1
  /\ cache'  = [cache EXCEPT ![s] = [k \in Key |-> NoEntry]]
  /\ inbox'  = [inbox EXCEPT ![s] = [k \in Key |-> NoEntry]]
  /\ todo'   = [todo EXCEPT ![s] = [k \in Key |-> NoEntry]]
  /\ loader' = [loader EXCEPT ![s] = IF s \in Refreshed THEN "initial" ELSE "wait"]
  /\ at'   = [q \in Request |-> IF asks[q][1] = s THEN "idle" ELSE at[q]]
  /\ held' = [q \in Request |-> IF asks[q][1] = s THEN NoEntry ELSE held[q]]
  /\ UNCHANGED <<dbVars, admin, dbUp, asks, verdict, existed, outages>>

-----------------------------------------------------------------------------

AdminStep ==
  \/ \E p \in Project : CreateProject(p) \/ DeleteProject(p)
  \/ \E a \in Admin :
       \/ \E op \in {"create", "update", "revoke"}, k \in Key : CheckOwner(a, op, k)
       \/ WriteKey(a)

LoaderStep(s) ==
  \/ LoaderList(s) \/ LoaderListFails(s) \/ LoaderDone(s)
  \/ \E k \in Key : LoaderSet(s, k)

RequestStep(q) == GetByHash(q) \/ StoreAndJudge(q)

Next ==
  \/ AdminStep
  \/ \E s \in Service :
       \/ LoaderStep(s) \/ Restart(s)
       \/ \E k \in Key : Admit(s, k)
  \/ \E q \in Request :
       \/ \E s \in Service, k \in Key : Lookup(q, s, k)
       \/ RequestStep(q)
  \/ DbFails
  \/ DbRecovers

Spec == Init /\ [][Next]_vars

\* The Loader's goroutine and its ticker run, a request that has begun goes
\* on, ristretto drains its buffer and Postgres comes back.  Nobody has to
\* send requests or edit keys.
Fairness ==
  /\ \A s \in Service : WF_vars(LoaderStep(s))
  /\ \A s \in Service, k \in Key : WF_vars(Admit(s, k))
  /\ \A q \in Request : WF_vars(RequestStep(q))
  /\ WF_vars(DbRecovers)

FairSpec == Spec /\ Fairness

-----------------------------------------------------------------------------
(* Properties. *)

MaybeEntry == Entry \cup {NoEntry}

\* Every variable has its type; a request holds a row exactly while it is
\* about to store it.
TypeOK ==
  /\ project  \in [Project -> {"none", "live", "gone"}]
  /\ row      \in [Key -> MaybeEntry]
  /\ used     \subseteq Key
  /\ admin    \in [Admin -> AdminCall \cup {NoEntry}]
  /\ dbUp     \in BOOLEAN
  /\ cache    \in [Service -> [Key -> MaybeEntry]]
  /\ inbox    \in [Service -> [Key -> MaybeEntry]]
  /\ loader   \in [Service -> LoaderState]
  /\ todo     \in [Service -> [Key -> MaybeEntry]]
  /\ at       \in [Request -> {"idle", "query", "store"}]
  /\ asks     \in [Request -> Service \X Key]
  /\ held     \in [Request -> MaybeEntry]
  /\ verdict  \in [Request -> Verdict]
  /\ existed  \in [Request -> BOOLEAN]
  /\ outages  \in 0..MaxOutages
  /\ restarts \in 0..MaxRestarts
  /\ \A q \in Request : at[q] = "store" <=> held[q] # NoEntry

\* Create checks the project and inserts in a second statement, and the
\* project may be deleted in between: still no key outlives its project.
NoOrphanKeys ==
  \A k \in Key : row[k] # NoEntry => project[ProjectOf[k]] = "live"

\* A request that was refused as revoked was refused rightly and for good: the
\* row is revoked or gone, whatever edits, sweeps and misses ran meanwhile.
RefusalIsFinal ==
  \A q \in Request :
    verdict[q] = "revoked" =>
      LET k == asks[q][2]
      IN  k \in used /\ (row[k] = NoEntry \/ row[k].status = "revoked")

\* A key whose row was there when its request arrived is not answered "not
\* found" unless the row has been deleted: there is no negative caching, so a
\* new key works at once.  This is stronger than docs/runbook.md:119, where a
\* new key takes up to the refresh interval: that is so of edits only.
NotFoundIsHonest ==
  \A q \in Request :
    verdict[q] = "notfound" /\ existed[q] => row[asks[q][2]] = NoEntry

\* The cache stays warm: an entry disappears only when its process restarts,
\* never because Postgres is unreachable (docs/architecture.md:61).
WarmCacheStaysWarm ==
  [][\A s \in Service, k \in Key :
       cache[s][k] # NoEntry /\ cache'[s][k] = NoEntry => restarts' > restarts]_vars

\* Once a row keeps its value, the cache of a refreshed service ends up with
\* that value or none: a row read before the last edit and stored after it is
\* repaired by a later sweep, whatever order they come in.
SweepsConverge ==
  \A s \in Refreshed, k \in Key, e \in Entry :
    <>[](row[k] = e) => <>[](cache[s][k] \in {e, NoEntry})

\* What docs/architecture.md:63 promises for a revoked key: every service stops
\* using it, after a refresh interval or the TTL of its cache.
RevocationIsSeen ==
  \A s \in Service, k \in Key, r \in 0..MaxRev :
    <>[](row[k] = [status |-> "revoked", rev |-> r]) =>
      <>[](cache[s][k] = NoEntry \/ cache[s][k].status = "revoked")
=============================================================================
