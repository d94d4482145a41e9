--------------------------- MODULE KeyCache_proof ---------------------------
(***************************************************************************)
(* Safety of KeyCache for every set of services, keys, requests and        *)
(* callers of auth-api.                                                    *)
(*                                                                         *)
(* The argument: a hash is inserted at most once (Fresh), so what has been *)
(* seen of a key never starts over; and every copy of a revoked row, on    *)
(* whichever path it travels to a cache, stays true (CopiesAgree).         *)
(***************************************************************************)
EXTENDS KeyCache, TLAPS

\* What a revoked copy of the row of k tells for good.
Over(k) == k \in used /\ (row[k] = NoEntry \/ row[k].status = "revoked")

IsRevoked(e) == e # NoEntry /\ e.status = "revoked"

\* Keys that were inserted have been drawn, and nobody draws one again.
Fresh ==
  /\ \A k \in Key : row[k] # NoEntry => k \in used
  /\ \A a \in Admin : admin[a] # NoEntry /\ admin[a].op = "create" =>
       /\ admin[a].key \notin used
       /\ \A b \in Admin : admin[b] = admin[a] => b = a

\* A revoked copy, in a cache, its queue, a sweep or a request, is right.
CopiesAgree ==
  /\ \A s \in Service, k \in Key :
       IsRevoked(cache[s][k]) \/ IsRevoked(inbox[s][k]) \/ IsRevoked(todo[s][k])
         => Over(k)
  /\ \A q \in Request : IsRevoked(held[q]) => Over(asks[q][2])

\* A row that a request found on arrival was inserted.
ExistedWasInserted == \A q \in Request : existed[q] => asks[q][2] \in used

IInv ==
  /\ TypeOK
  /\ NoOrphanKeys
  /\ Fresh
  /\ CopiesAgree
  /\ ExistedWasInserted
  /\ RefusalIsFinal
  /\ NotFoundIsHonest

-----------------------------------------------------------------------------
(* The initial state. *)

\* The initial state satisfies the inductive invariant.
LEMMA InitInv == Init => IInv
<1>. SUFFICES ASSUME Init PROVE IInv
  OBVIOUS
<1>. USE ConstantsAssumption DEF Init
<1>1. TypeOK
  BY DEF TypeOK, MaybeEntry, LoaderState, Verdict
<1>2. NoOrphanKeys /\ Fresh /\ ExistedWasInserted
  BY DEF NoOrphanKeys, Fresh, ExistedWasInserted
<1>3. CopiesAgree
  BY DEF CopiesAgree, IsRevoked
<1>4. RefusalIsFinal /\ NotFoundIsHonest
  BY DEF RefusalIsFinal, NotFoundIsHonest
<1>. QED
  BY <1>1, <1>2, <1>3, <1>4 DEF IInv

-----------------------------------------------------------------------------
(* Types. *)

\* Updating one value of a table of tables keeps its type.
LEMMA NestedUpdate ==
  ASSUME NEW S, NEW K, NEW T, NEW f \in [S -> [K -> T]],
         NEW s \in S, NEW k \in K, NEW e \in T
  PROVE  [f EXCEPT ![s][k] = e] \in [S -> [K -> T]]
<1>1. [f[s] EXCEPT ![k] = e] \in [K -> T]
  OBVIOUS
<1>. QED
  BY <1>1

\* A write to a cache keeps its type.
LEMMA CacheSetType ==
  ASSUME TypeOK, NEW s \in Service, NEW k \in Key, NEW e \in Entry, CacheSet(s, k, e)
  PROVE  /\ cache' \in [Service -> [Key -> MaybeEntry]]
         /\ inbox' \in [Service -> [Key -> MaybeEntry]]
<1>1. /\ cache \in [Service -> [Key -> MaybeEntry]]
      /\ inbox \in [Service -> [Key -> MaybeEntry]]
      /\ e \in MaybeEntry
  BY DEF TypeOK, MaybeEntry
<1>2. /\ [cache EXCEPT ![s][k] = e] \in [Service -> [Key -> MaybeEntry]]
      /\ [inbox EXCEPT ![s][k] = e] \in [Service -> [Key -> MaybeEntry]]
  BY <1>1, NestedUpdate
<1>. QED
  BY <1>1, <1>2 DEF CacheSet

\* A write of auth-api keeps the type of the rows.
LEMMA WriteType ==
  ASSUME TypeOK, NEW k \in Key, InsertKey(k) \/ UpdateKey(k) \/ RevokeKey(k)
  PROVE  row' \in [Key -> MaybeEntry] /\ used' \subseteq Key
<1>1. row \in [Key -> MaybeEntry] /\ used \subseteq Key
  BY DEF TypeOK
<1>2. CASE InsertKey(k)
  <2>1. [status |-> "active", rev |-> 0] \in MaybeEntry
    BY ConstantsAssumption DEF MaybeEntry, Entry
  <2>. QED
    BY <1>1, <1>2, <2>1 DEF InsertKey
<1>3. CASE UpdateKey(k)
  <2>1. CASE row' = row
    BY <1>1, <1>3, <2>1 DEF UpdateKey
  <2>2. CASE /\ row[k] # NoEntry
             /\ row[k].rev < MaxRev
             /\ row' = [row EXCEPT ![k].rev = @ + 1]
    <3>1. row[k] \in Entry
      BY <1>1, <2>2 DEF MaybeEntry
    <3>2. [row[k] EXCEPT !.rev = @ + 1] \in MaybeEntry
      BY <3>1, <2>2, ConstantsAssumption DEF MaybeEntry, Entry
    <3>. QED
      BY <1>1, <1>3, <2>2, <3>2 DEF UpdateKey
  <2>. QED
    BY <1>3, <2>1, <2>2 DEF UpdateKey
<1>4. CASE RevokeKey(k)
  <2>1. CASE row' = row
    BY <1>1, <1>4, <2>1 DEF RevokeKey
  <2>2. CASE row[k] # NoEntry /\ row' = [row EXCEPT ![k].status = "revoked"]
    <3>1. row[k] \in Entry
      BY <1>1, <2>2 DEF MaybeEntry
    <3>2. [row[k] EXCEPT !.status = "revoked"] \in MaybeEntry
      BY <3>1 DEF MaybeEntry, Entry
    <3>. QED
      BY <1>1, <1>4, <2>2, <3>2 DEF RevokeKey
  <2>. QED
    BY <1>4, <2>1, <2>2 DEF RevokeKey
<1>. QED
  BY <1>2, <1>3, <1>4

\* Every step keeps the types.
LEMMA TypeStep == TypeOK /\ [Next]_vars => TypeOK'
<1>. SUFFICES ASSUME TypeOK, [Next]_vars PROVE TypeOK'
  OBVIOUS
<1>. USE ConstantsAssumption DEF TypeOK, MaybeEntry, LoaderState, Verdict
<1>1. ASSUME NEW p \in Project, CreateProject(p) PROVE TypeOK'
  BY <1>1 DEF CreateProject, cacheVars, loaderVars, requestVars
<1>2. ASSUME NEW p \in Project, DeleteProject(p) PROVE TypeOK'
  BY <1>2 DEF DeleteProject, cacheVars, loaderVars, requestVars
<1>3. ASSUME NEW a \in Admin, NEW op \in {"create", "update", "revoke"}, NEW k \in Key, CheckOwner(a, op, k) PROVE TypeOK'
  BY <1>3 DEF CheckOwner, AdminCall, dbVars, cacheVars, loaderVars, requestVars
<1>4. ASSUME NEW a \in Admin, WriteKey(a) PROVE TypeOK'
  <2>1. CASE UNCHANGED <<row, used>>
    BY <1>4, <2>1 DEF WriteKey, cacheVars, loaderVars, requestVars
  <2>2. CASE \E k \in Key : InsertKey(k) \/ UpdateKey(k) \/ RevokeKey(k)
    <3>1. row' \in [Key -> MaybeEntry] /\ used' \subseteq Key
      BY <2>2, WriteType
    <3>. QED
      BY <1>4, <3>1 DEF WriteKey, cacheVars, loaderVars, requestVars
  <2>. QED
    BY <1>4, <2>1, <2>2 DEF WriteKey, AdminCall
<1>5. ASSUME NEW s \in Service, LoaderList(s) PROVE TypeOK'
  BY <1>5 DEF LoaderList, dbVars, cacheVars, loaderVars, requestVars
<1>6. ASSUME NEW s \in Service, LoaderListFails(s) PROVE TypeOK'
  BY <1>6 DEF LoaderListFails, dbVars, cacheVars, loaderVars, requestVars
<1>7. ASSUME NEW s \in Service, LoaderDone(s) PROVE TypeOK'
  BY <1>7 DEF LoaderDone, dbVars, cacheVars, loaderVars, requestVars
<1>8. ASSUME NEW s \in Service, NEW k \in Key, LoaderSet(s, k) PROVE TypeOK'
  <2>1. todo[s][k] \in Entry
    BY <1>8 DEF LoaderSet
  <2>2. /\ cache' \in [Service -> [Key -> MaybeEntry]]
        /\ inbox' \in [Service -> [Key -> MaybeEntry]]
    BY <1>8, <2>1, CacheSetType DEF LoaderSet
  <2>. QED
    BY <1>8, <2>2 DEF LoaderSet, dbVars, requestVars
<1>9. ASSUME NEW s \in Service, Restart(s) PROVE TypeOK'
  BY <1>9 DEF Restart, dbVars, cacheVars, loaderVars, requestVars
<1>10. ASSUME NEW s \in Service, NEW k \in Key, Admit(s, k) PROVE TypeOK'
  <2>1. /\ cache' \in [Service -> [Key -> MaybeEntry]]
        /\ inbox' \in [Service -> [Key -> MaybeEntry]]
    <3>1. inbox[s][k] \in MaybeEntry /\ NoEntry \in MaybeEntry
      OBVIOUS
    <3>. HIDE DEF MaybeEntry
    <3>. QED
      BY <1>10, <3>1, NestedUpdate DEF Admit
  <2>. QED
    BY <1>10, <2>1 DEF Admit, dbVars, loaderVars, requestVars
<1>11. ASSUME NEW q \in Request, NEW s \in Service, NEW k \in Key, Lookup(q, s, k) PROVE TypeOK'
  BY <1>11, ZenonT(40) DEF Lookup, dbVars, cacheVars, loaderVars, requestVars, Judge
<1>12. ASSUME NEW q \in Request, GetByHash(q) PROVE TypeOK'
  <2>1. asks[q][2] \in Key
    OBVIOUS
  <2>2. CASE dbUp /\ row[asks[q][2]] # NoEntry
    <3>1. /\ held' = [held EXCEPT ![q] = row[asks[q][2]]]
          /\ at' = [at EXCEPT ![q] = "store"]
          /\ UNCHANGED verdict
      BY <1>12, <2>2 DEF GetByHash
    <3>. QED
      BY <1>12, <2>1, <2>2, <3>1 DEF GetByHash, dbVars, cacheVars, loaderVars
  <2>3. CASE ~(dbUp /\ row[asks[q][2]] # NoEntry)
    <3>1. /\ at[q] = "query"
          /\ verdict' \in [Request -> Verdict]
          /\ at' = [at EXCEPT ![q] = "idle"]
          /\ UNCHANGED held
      BY <1>12, <2>3 DEF GetByHash
    <3>. QED
      BY <1>12, <3>1 DEF GetByHash, dbVars, cacheVars, loaderVars
  <2>. QED
    BY <2>2, <2>3
<1>13. ASSUME NEW q \in Request, StoreAndJudge(q) PROVE TypeOK'
  <2>1. held[q] \in Entry /\ asks[q][1] \in Service /\ asks[q][2] \in Key
    BY <1>13 DEF StoreAndJudge
  <2>2. /\ cache' \in [Service -> [Key -> MaybeEntry]]
        /\ inbox' \in [Service -> [Key -> MaybeEntry]]
    BY <1>13, <2>1, CacheSetType DEF StoreAndJudge
  <2>. QED
    BY <1>13, <2>2 DEF StoreAndJudge, Judge, dbVars, loaderVars
<1>14. CASE DbFails
  <2>1. outages' \in 0..MaxOutages
    BY <1>14 DEF DbFails
  <2>2. dbUp' \in BOOLEAN
    BY <1>14 DEF DbFails
  <2>. QED
    BY <1>14, <2>1, <2>2 DEF DbFails, dbVars, cacheVars, loaderVars, requestVars
<1>15. CASE DbRecovers
  BY <1>15 DEF DbRecovers, dbVars, cacheVars, loaderVars, requestVars
<1>16. CASE UNCHANGED vars
  BY <1>16 DEF vars
<1>. QED
  BY <1>1, <1>2, <1>3, <1>4, <1>5, <1>6, <1>7, <1>8, <1>9, <1>10, <1>11, <1>12, <1>13, <1>14, <1>15, <1>16
     DEF Next, AdminStep, LoaderStep, RequestStep

-----------------------------------------------------------------------------
(* The rows. *)

\* The steps of the services and of the network leave the tables alone.
LEMMA OnlyAdminWrites ==
  ASSUME [Next]_vars, ~AdminStep
  PROVE  UNCHANGED <<project, row, used, admin>>
BY DEF Next, LoaderStep, RequestStep, vars, dbVars, Restart, Admit, Lookup, GetByHash,
       StoreAndJudge, DbFails, DbRecovers, LoaderList, LoaderListFails, LoaderDone,
       LoaderSet

\* A write of auth-api through the second statement of a call.
LEMMA WriteStep ==
  ASSUME TypeOK, NoOrphanKeys, Fresh, NEW a \in Admin, WriteKey(a)
  PROVE  /\ NoOrphanKeys'
         /\ Fresh'
         /\ used \subseteq used'
         /\ \A k \in Key : /\ Over(k) => Over(k)'
                           /\ k \in used /\ row[k] = NoEntry => row'[k] = NoEntry
<1>. DEFINE k0 == admin[a].key
<1>1. /\ row \in [Key -> MaybeEntry]
      /\ admin \in [Admin -> AdminCall \cup {NoEntry}]
      /\ admin' = [admin EXCEPT ![a] = NoEntry]
      /\ project' = project
      /\ admin[a] \in AdminCall /\ admin[a] # NoEntry
      /\ k0 \in Key
  BY DEF TypeOK, WriteKey, AdminCall
<1>2. CASE UNCHANGED <<row, used>>
  BY <1>1, <1>2 DEF NoOrphanKeys, Fresh, Over
<1>3. CASE admin[a].op = "create" /\ InsertKey(k0) /\ ~UNCHANGED <<row, used>>
  <2>1. /\ project[ProjectOf[k0]] = "live"
        /\ row' = [row EXCEPT ![k0] = [status |-> "active", rev |-> 0]]
        /\ used' = used \cup {k0}
    BY <1>3 DEF InsertKey
  <2>2. k0 \notin used /\ \A b \in Admin : admin[b] = admin[a] => b = a
    BY <1>1, <1>3 DEF Fresh
  <2>3. NoOrphanKeys'
    BY <1>1, <2>1 DEF NoOrphanKeys
  <2>4. \A b \in Admin : admin'[b] # NoEntry /\ admin'[b].op = "create" =>
          b # a /\ admin'[b] = admin[b] /\ admin[b].key # k0
    <3>. SUFFICES ASSUME NEW b \in Admin, admin'[b] # NoEntry, admin'[b].op = "create"
                  PROVE  b # a /\ admin'[b] = admin[b] /\ admin[b].key # k0
      OBVIOUS
    <3>1. b # a /\ admin'[b] = admin[b] /\ admin[b] \in AdminCall
      BY <1>1 DEF AdminCall
    <3>2. admin[b].key = k0 => admin[b] = admin[a]
      BY <1>1, <1>3, <3>1 DEF AdminCall
    <3>. QED
      BY <2>2, <3>1, <3>2
  <2>5. Fresh'
    <3>1. \A k \in Key : row'[k] # NoEntry => k \in used'
      BY <1>1, <2>1 DEF Fresh
    <3>. QED
      BY <1>1, <2>1, <2>4, <3>1 DEF Fresh
  <2>6. \A k \in Key : k \in used => k # k0 /\ row'[k] = row[k] /\ k \in used'
    BY <1>1, <2>1, <2>2
  <2>. QED
    BY <2>1, <2>3, <2>5, <2>6 DEF Over
<1>4. CASE /\ UpdateKey(k0) \/ RevokeKey(k0)
           /\ ~UNCHANGED <<row, used>>
  <2>1. /\ row[k0] # NoEntry /\ row[k0] \in Entry
        /\ used' = used
    BY <1>1, <1>4 DEF UpdateKey, RevokeKey, MaybeEntry
  <2>2. /\ \A k \in Key : k # k0 => row'[k] = row[k]
        /\ row'[k0] \in Entry
        /\ row[k0].status = "revoked" => row'[k0].status = "revoked"
    <3>1. CASE UpdateKey(k0)
      <4>1. row' = [row EXCEPT ![k0] = [row[k0] EXCEPT !.rev = @ + 1]]
            /\ row[k0].rev < MaxRev
        BY <1>4, <3>1 DEF UpdateKey
      <4>2. [row[k0] EXCEPT !.rev = @ + 1] \in Entry
        BY <2>1, <4>1, ConstantsAssumption DEF Entry
      <4>3. row'[k0] = [row[k0] EXCEPT !.rev = @ + 1]
            /\ \A k \in Key : k # k0 => row'[k] = row[k]
        BY <1>1, <4>1
      <4>. QED
        BY <2>1, <4>2, <4>3 DEF Entry
    <3>2. CASE RevokeKey(k0)
      <4>1. row' = [row EXCEPT ![k0] = [row[k0] EXCEPT !.status = "revoked"]]
        BY <1>4, <3>2 DEF RevokeKey
      <4>2. [row[k0] EXCEPT !.status = "revoked"] \in Entry
        BY <2>1 DEF Entry
      <4>3. row'[k0] = [row[k0] EXCEPT !.status = "revoked"]
            /\ \A k \in Key : k # k0 => row'[k] = row[k]
        BY <1>1, <4>1
      <4>. QED
        BY <2>1, <4>2, <4>3 DEF Entry
    <3>. QED
      BY <1>4, <3>1, <3>2
  <2>3. NoOrphanKeys'
    BY <1>1, <2>1, <2>2 DEF NoOrphanKeys
  <2>4. Fresh'
    BY <1>1, <2>1, <2>2 DEF Fresh
  <2>5. \A k \in Key : Over(k) => Over(k)'
    BY <2>1, <2>2 DEF Over
  <2>. QED
    BY <2>1, <2>2, <2>3, <2>4, <2>5
<1>. QED
  BY <1>1, <1>2, <1>3, <1>4 DEF WriteKey

\* What every step keeps of the rows, and what is over stays over.
LEMMA RowStep ==
  ASSUME TypeOK, NoOrphanKeys, Fresh, [Next]_vars
  PROVE  /\ NoOrphanKeys'
         /\ Fresh'
         /\ used \subseteq used'
         /\ \A k \in Key : /\ Over(k) => Over(k)'
                           /\ k \in used /\ row[k] = NoEntry => row'[k] = NoEntry
<1>1. CASE ~AdminStep
  BY <1>1, OnlyAdminWrites DEF NoOrphanKeys, Fresh, Over
<1>. DEFINE Goal == /\ NoOrphanKeys'
                    /\ Fresh'
                    /\ used \subseteq used'
                    /\ \A k \in Key :
                         /\ Over(k) => Over(k)'
                         /\ k \in used /\ row[k] = NoEntry => row'[k] = NoEntry
<1>2. ASSUME NEW p \in Project, CreateProject(p) PROVE Goal
  BY <1>2 DEF CreateProject, TypeOK, NoOrphanKeys, Fresh, Over
<1>3. ASSUME NEW p \in Project, DeleteProject(p) PROVE Goal
  <2>1. /\ \A k \in Key : row'[k] = NoEntry \/ (row'[k] = row[k] /\ ProjectOf[k] # p)
        /\ UNCHANGED <<used, admin>>
        /\ \A r \in Project : r # p => project'[r] = project[r]
    BY <1>3 DEF DeleteProject, TypeOK
  <2>2. \A k \in Key : ProjectOf[k] \in Project
    BY ConstantsAssumption
  <2>. QED
    BY <2>1, <2>2 DEF NoOrphanKeys, Fresh, Over
<1>4. ASSUME NEW a \in Admin, NEW op \in {"create", "update", "revoke"}, NEW k \in Key,
             CheckOwner(a, op, k)
      PROVE  Goal
  <2>1. UNCHANGED <<project, row, used>>
    BY <1>4 DEF CheckOwner, dbVars
  <2>2. /\ admin' = [admin EXCEPT ![a] = [op |-> op, key |-> k]]
        /\ admin[a] = NoEntry
        /\ op = "create" => /\ k \notin used
                            /\ \A b \in Admin : admin[b] # [op |-> "create", key |-> k]
    BY <1>4 DEF CheckOwner
  <2>3. Fresh'
    <3>1. admin'[a] = [op |-> op, key |-> k] /\ \A b \in Admin : b # a => admin'[b] = admin[b]
      BY <2>2 DEF TypeOK
    <3>2. ASSUME NEW b \in Admin, admin'[b] # NoEntry, admin'[b].op = "create"
          PROVE  /\ admin'[b].key \notin used
                 /\ \A d \in Admin : admin'[d] = admin'[b] => d = b
      <4>1. CASE b = a
        BY <2>2, <3>1, <3>2, <4>1
      <4>2. CASE b # a
        <5>1. admin[b] \in AdminCall /\ admin'[b] = admin[b]
          BY <3>1, <3>2, <4>2 DEF TypeOK
        <5>2. admin[b] # admin'[a]
          <6>1. SUFFICES ASSUME admin[b] = admin'[a] PROVE FALSE
            OBVIOUS
          <6>2. op = "create" /\ admin[b] = [op |-> "create", key |-> k]
            BY <3>1, <3>2, <5>1, <6>1
          <6>. QED
            BY <2>2, <6>2
        <5>. QED
          BY <3>1, <3>2, <4>2, <5>1, <5>2 DEF Fresh
      <4>. QED
        BY <4>1, <4>2
    <3>. QED
      BY <2>1, <3>2 DEF Fresh
  <2>. QED
    BY <2>1, <2>3 DEF NoOrphanKeys, Over
<1>5. ASSUME NEW a \in Admin, WriteKey(a) PROVE Goal
  BY <1>5, WriteStep
<1>. QED
  BY <1>1, <1>2, <1>3, <1>4, <1>5 DEF AdminStep

-----------------------------------------------------------------------------
(* The copies. *)

\* Some copy of the row of k, or the row itself, is revoked.
Witnessed(k) ==
  \/ IsRevoked(row[k])
  \/ \E s \in Service :
       IsRevoked(cache[s][k]) \/ IsRevoked(inbox[s][k]) \/ IsRevoked(todo[s][k])
  \/ \E q \in Request : asks[q][2] = k /\ IsRevoked(held[q])

\* A revoked copy of a key tells the truth about it.
LEMMA WitnessIsRight ==
  ASSUME Fresh, CopiesAgree, NEW k \in Key, Witnessed(k)
  PROVE  Over(k)
BY DEF Fresh, CopiesAgree, Witnessed, Over, IsRevoked

\* A revoked value in a cache after CacheSet was there or was put there.
LEMMA CacheSetCopies ==
  ASSUME TypeOK, NEW s \in Service, NEW k \in Key, NEW e \in Entry, CacheSet(s, k, e),
         NEW t \in Service, NEW l \in Key
  PROVE  /\ cache'[t][l] = cache[t][l] \/ (t = s /\ l = k /\ cache'[t][l] = e)
         /\ inbox'[t][l] = inbox[t][l] \/ (t = s /\ l = k /\ inbox'[t][l] = e)
<1>1. /\ cache \in [Service -> [Key -> MaybeEntry]]
      /\ inbox \in [Service -> [Key -> MaybeEntry]]
  BY DEF TypeOK
<1>. QED
  BY <1>1 DEF CacheSet

\* Revoked values in caches, queues and sweeps come from revoked copies.
LEMMA CacheCopies ==
  ASSUME TypeOK, [Next]_vars, NEW t \in Service, NEW l \in Key,
         IsRevoked(cache'[t][l]) \/ IsRevoked(inbox'[t][l]) \/ IsRevoked(todo'[t][l])
  PROVE  Witnessed(l)
<1>. USE DEF Witnessed
<1>0. /\ cache \in [Service -> [Key -> MaybeEntry]]
      /\ inbox \in [Service -> [Key -> MaybeEntry]]
      /\ todo \in [Service -> [Key -> MaybeEntry]]
      /\ row \in [Key -> MaybeEntry]
      /\ held \in [Request -> MaybeEntry]
      /\ asks \in [Request -> Service \X Key]
  BY DEF TypeOK
<1>1. CASE UNCHANGED <<cache, inbox, todo>>
  BY <1>1
<1>2. ASSUME NEW s \in Service, LoaderList(s) PROVE Witnessed(l)
  BY <1>0, <1>2 DEF LoaderList, cacheVars
<1>3. ASSUME NEW s \in Service, NEW k \in Key, LoaderSet(s, k) PROVE Witnessed(l)
  <2>1. todo[s][k] \in Entry
    BY <1>0, <1>3 DEF LoaderSet, MaybeEntry
  <2>2. todo'[t][l] = todo[t][l] \/ todo'[t][l] = NoEntry
    BY <1>0, <1>3 DEF LoaderSet
  <2>. QED
    BY <1>3, <2>1, <2>2, CacheSetCopies DEF LoaderSet, IsRevoked
<1>4. ASSUME NEW s \in Service, Restart(s) PROVE Witnessed(l)
  BY <1>0, <1>4 DEF Restart, IsRevoked
<1>5. ASSUME NEW s \in Service, NEW k \in Key, Admit(s, k) PROVE Witnessed(l)
  <2>1. /\ cache'[t][l] \in {cache[t][l], inbox[t][l]}
        /\ inbox'[t][l] \in {inbox[t][l], NoEntry}
        /\ todo' = todo
    BY <1>0, <1>5 DEF Admit, loaderVars
  <2>. QED
    BY <2>1 DEF IsRevoked
<1>6. ASSUME NEW q \in Request, StoreAndJudge(q) PROVE Witnessed(l)
  <2>1. /\ held[q] \in Entry
        /\ asks[q][1] \in Service
        /\ asks[q][2] \in Key
    BY <1>0, <1>6 DEF StoreAndJudge, TypeOK, MaybeEntry
  <2>. QED
    BY <1>6, <2>1, CacheSetCopies DEF StoreAndJudge, loaderVars
<1>7. CASE ~UNCHANGED <<cache, inbox, todo>>
  <2>1. AdminStep => UNCHANGED <<cache, inbox, todo>>
    BY DEF AdminStep, CreateProject, DeleteProject, CheckOwner, WriteKey, cacheVars,
           loaderVars
  <2>2. \A s \in Service : LoaderListFails(s) \/ LoaderDone(s)
          => UNCHANGED <<cache, inbox, todo>>
    BY DEF LoaderListFails, LoaderDone, cacheVars
  <2>3. \A q \in Request : \A s \in Service, k \in Key :
          Lookup(q, s, k) \/ GetByHash(q) => UNCHANGED <<cache, inbox, todo>>
    BY DEF Lookup, GetByHash, cacheVars, loaderVars
  <2>4. DbFails \/ DbRecovers \/ UNCHANGED vars => UNCHANGED <<cache, inbox, todo>>
    BY DEF DbFails, DbRecovers, vars, cacheVars, loaderVars
  <2>. QED
    BY <1>2, <1>3, <1>4, <1>5, <1>6, <1>7, <2>1, <2>2, <2>3, <2>4
       DEF Next, LoaderStep, RequestStep
<1>. QED
  BY <1>1, <1>7

\* What a request holds comes from what it held or from the row.
LEMMA HeldCopies ==
  ASSUME TypeOK, [Next]_vars, NEW r \in Request, IsRevoked(held'[r])
  PROVE  asks'[r][2] \in Key /\ Witnessed(asks'[r][2])
<1>. USE DEF Witnessed
<1>0. /\ held \in [Request -> MaybeEntry]
      /\ asks \in [Request -> Service \X Key]
      /\ \A q \in Request : at[q] = "store" <=> held[q] # NoEntry
  BY DEF TypeOK
<1>1. CASE UNCHANGED <<asks, held>>
  BY <1>0, <1>1
<1>2. ASSUME NEW q \in Request, NEW s \in Service, NEW k \in Key, Lookup(q, s, k)
      PROVE  asks'[r][2] \in Key /\ Witnessed(asks'[r][2])
  <2>1. held' = held /\ at[q] = "idle" /\ asks' = [asks EXCEPT ![q] = <<s, k>>]
    BY <1>2 DEF Lookup
  <2>2. r # q
    BY <1>0, <2>1 DEF IsRevoked
  <2>. QED
    BY <1>0, <2>1, <2>2
<1>3. ASSUME NEW q \in Request, GetByHash(q)
      PROVE  asks'[r][2] \in Key /\ Witnessed(asks'[r][2])
  <2>1. /\ asks' = asks
        /\ held' = held \/ held' = [held EXCEPT ![q] = row[asks[q][2]]]
    BY <1>3 DEF GetByHash
  <2>. QED
    BY <1>0, <2>1
<1>4. ASSUME NEW q \in Request, StoreAndJudge(q)
      PROVE  asks'[r][2] \in Key /\ Witnessed(asks'[r][2])
  BY <1>0, <1>4 DEF StoreAndJudge, IsRevoked
<1>5. ASSUME NEW s \in Service, Restart(s)
      PROVE  asks'[r][2] \in Key /\ Witnessed(asks'[r][2])
  BY <1>0, <1>5 DEF Restart, IsRevoked
<1>6. CASE ~UNCHANGED <<asks, held>>
  <2>1. AdminStep => UNCHANGED <<asks, held>>
    BY DEF AdminStep, CreateProject, DeleteProject, CheckOwner, WriteKey, requestVars
  <2>2. \A s \in Service : LoaderStep(s) => UNCHANGED <<asks, held>>
    BY DEF LoaderStep, LoaderList, LoaderListFails, LoaderDone, LoaderSet, requestVars
  <2>3. \A s \in Service, k \in Key : Admit(s, k) => UNCHANGED <<asks, held>>
    BY DEF Admit, requestVars
  <2>4. DbFails \/ DbRecovers \/ UNCHANGED vars => UNCHANGED <<asks, held>>
    BY DEF DbFails, DbRecovers, vars, requestVars
  <2>. QED
    BY <1>2, <1>3, <1>4, <1>5, <1>6, <2>1, <2>2, <2>3, <2>4 DEF Next, RequestStep
<1>. QED
  BY <1>1, <1>6

\* Copies stay right.
LEMMA CopiesStep ==
  ASSUME IInv, [Next]_vars
  PROVE  CopiesAgree'
<1>1. \A k \in Key : Witnessed(k) => Over(k)'
  BY RowStep, WitnessIsRight DEF IInv
<1>2. ASSUME NEW s \in Service, NEW k \in Key,
             IsRevoked(cache'[s][k]) \/ IsRevoked(inbox'[s][k]) \/ IsRevoked(todo'[s][k])
      PROVE  Over(k)'
  BY <1>1, <1>2, CacheCopies DEF IInv
<1>3. ASSUME NEW q \in Request, IsRevoked(held'[q])
      PROVE  Over(asks[q][2])'
  <2>1. asks'[q][2] \in Key /\ Witnessed(asks'[q][2])
    BY <1>3, HeldCopies DEF IInv
  <2>. QED
    BY <1>1, <2>1 DEF Over
<1>. QED
  BY <1>2, <1>3 DEF CopiesAgree, IsRevoked

-----------------------------------------------------------------------------
(* The requests. *)

\* The parts of the invariant about what requests were told.
LEMMA RequestsStep ==
  ASSUME IInv, [Next]_vars
  PROVE  ExistedWasInserted' /\ RefusalIsFinal' /\ NotFoundIsHonest'
<1>. USE DEF IInv
<1>. DEFINE Told(r) ==
       /\ existed'[r] => asks'[r][2] \in used'
       /\ verdict'[r] = "revoked" => Over(asks[r][2])'
       /\ verdict'[r] = "notfound" /\ existed'[r] => row'[asks'[r][2]] = NoEntry
<1>0. /\ held \in [Request -> MaybeEntry]
      /\ asks \in [Request -> Service \X Key]
      /\ verdict \in [Request -> Verdict]
      /\ existed \in [Request -> BOOLEAN]
      /\ at \in [Request -> {"idle", "query", "store"}]
      /\ used \subseteq Key
      /\ \A q \in Request : asks[q][2] \in Key
  BY DEF TypeOK
<1>1. /\ used \subseteq used'
      /\ \A k \in Key : Over(k) => Over(k)'
      /\ \A k \in Key : k \in used /\ row[k] = NoEntry => row'[k] = NoEntry
  BY RowStep
<1>2. ASSUME NEW r \in Request, asks'[r] = asks[r], existed'[r] = existed[r],
             verdict'[r] = verdict[r]
      PROVE  Told(r)
  <2>1. existed'[r] => asks'[r][2] \in used'
    BY <1>0, <1>1, <1>2 DEF ExistedWasInserted
  <2>2. verdict'[r] = "revoked" => Over(asks[r][2])'
    BY <1>0, <1>1, <1>2 DEF RefusalIsFinal, Over
  <2>3. verdict'[r] = "notfound" /\ existed'[r] => row'[asks'[r][2]] = NoEntry
    BY <1>0, <1>1, <1>2 DEF NotFoundIsHonest, ExistedWasInserted
  <2>. QED
    BY <2>1, <2>2, <2>3
<1>3. ASSUME NEW q \in Request, NEW s \in Service, NEW k \in Key, Lookup(q, s, k),
             NEW r \in Request
      PROVE  Told(r)
  <2>1. CASE r # q
    BY <1>0, <1>2, <1>3, <2>1 DEF Lookup
  <2>2. CASE r = q
    <3>1. /\ asks'[q] = <<s, k>>
          /\ existed'[q] = (row[k] # NoEntry)
          /\ UNCHANGED <<row, used>>
      BY <1>0, <1>3 DEF Lookup, dbVars
    <3>2. k \in Key /\ asks'[q][2] = k
      BY <3>1
    <3>3. existed'[q] => k \in used'
      BY <3>1 DEF Fresh
    <3>4. verdict'[q] = "revoked" => IsRevoked(cache[s][k])
      BY <1>0, <1>3 DEF Lookup, Judge, IsRevoked
    <3>5. verdict'[q] # "notfound"
      BY <1>0, <1>3 DEF Lookup, Judge
    <3>6. verdict'[q] = "revoked" => Over(k)
      BY <3>4 DEF CopiesAgree
    <3>. QED
      BY <2>2, <3>1, <3>2, <3>3, <3>5, <3>6 DEF Over
  <2>. QED
    BY <2>1, <2>2
<1>4. ASSUME NEW q \in Request, GetByHash(q), NEW r \in Request
      PROVE  Told(r)
  <2>1. CASE verdict'[r] = verdict[r]
    BY <1>2, <1>4, <2>1 DEF GetByHash
  <2>2. CASE verdict'[r] # verdict[r]
    <3>1. /\ r = q
          /\ verdict'[r] \in {"notfound", "error"}
          /\ verdict'[r] = "notfound" => row[asks[q][2]] = NoEntry
          /\ UNCHANGED <<row, used, asks, existed>>
      BY <1>0, <1>4, <2>2 DEF GetByHash, dbVars
    <3>. QED
      BY <3>1 DEF ExistedWasInserted
  <2>. QED
    BY <2>1, <2>2
<1>5. ASSUME NEW q \in Request, StoreAndJudge(q), NEW r \in Request
      PROVE  Told(r)
  <2>1. CASE r # q
    BY <1>0, <1>2, <1>5, <2>1 DEF StoreAndJudge
  <2>2. CASE r = q
    <3>1. /\ UNCHANGED <<row, used, asks, existed>>
          /\ held[q] # NoEntry
          /\ verdict'[q] = Judge(held[q])
      BY <1>0, <1>5 DEF StoreAndJudge, dbVars, TypeOK
    <3>2. verdict'[q] = "revoked" => Over(asks[q][2])
      BY <3>1 DEF Judge, CopiesAgree, IsRevoked
    <3>. QED
      BY <2>2, <3>1, <3>2 DEF Judge, ExistedWasInserted, Over
  <2>. QED
    BY <2>1, <2>2
<1>6. ASSUME UNCHANGED <<asks, verdict, existed>>, NEW r \in Request
      PROVE  Told(r)
  BY <1>2, <1>6
<1>7. AdminStep \/ (\E s \in Service : LoaderStep(s) \/ Restart(s)
                                         \/ \E k \in Key : Admit(s, k))
        \/ DbFails \/ DbRecovers \/ UNCHANGED vars
      => UNCHANGED <<asks, verdict, existed>>
  BY DEF AdminStep, CreateProject, DeleteProject, CheckOwner, WriteKey, requestVars,
         LoaderStep, LoaderList, LoaderListFails, LoaderDone, LoaderSet, Restart, Admit,
         DbFails, DbRecovers, vars
<1>8. ASSUME NEW r \in Request PROVE Told(r)
  BY <1>3, <1>4, <1>5, <1>6, <1>7, <1>8 DEF Next, RequestStep
<1>. QED
  BY <1>8 DEF ExistedWasInserted, RefusalIsFinal, NotFoundIsHonest, Over

-----------------------------------------------------------------------------
(* The theorems. *)

\* The invariant is inductive.
THEOREM Inductive == Spec => []IInv
<1>1. IInv /\ [Next]_vars => IInv'
  BY TypeStep, RowStep, CopiesStep, RequestsStep DEF IInv
<1>. QED
  BY InitInv, <1>1, PTL DEF Spec

\* Every variable keeps its type.
THEOREM TypeCorrect == Spec => []TypeOK
<1>1. IInv => TypeOK
  BY DEF IInv
<1>. QED
  BY Inductive, <1>1, PTL

\* No key outlives its project, although Create checks and inserts in two
\* statements.
THEOREM KeysHaveProjects == Spec => []NoOrphanKeys
<1>1. IInv => NoOrphanKeys
  BY DEF IInv
<1>. QED
  BY Inductive, <1>1, PTL

\* A refusal as revoked is right when it is given and ever after.
THEOREM RefusalsAreFinal == Spec => []RefusalIsFinal
<1>1. IInv => RefusalIsFinal
  BY DEF IInv
<1>. QED
  BY Inductive, <1>1, PTL

\* A key that exists is not answered "not found".
THEOREM NewKeysWorkAtOnce == Spec => []NotFoundIsHonest
<1>1. IInv => NotFoundIsHonest
  BY DEF IInv
<1>. QED
  BY Inductive, <1>1, PTL

\* An entry leaves a cache only with its process.
THEOREM CachesStayWarm == Spec => WarmCacheStaysWarm
<1>. DEFINE Warm == \A s \in Service, k \in Key :
       cache[s][k] # NoEntry /\ cache'[s][k] = NoEntry => restarts' > restarts
<1>1. TypeOK /\ [Next]_vars => [Warm]_vars
  <2>. SUFFICES ASSUME TypeOK, [Next]_vars, NEW s \in Service, NEW k \in Key,
                       cache[s][k] # NoEntry, cache'[s][k] = NoEntry
                PROVE  restarts' > restarts
    OBVIOUS
  <2>0. /\ cache \in [Service -> [Key -> MaybeEntry]]
        /\ inbox \in [Service -> [Key -> MaybeEntry]]
        /\ todo \in [Service -> [Key -> MaybeEntry]]
        /\ held \in [Request -> MaybeEntry]
        /\ restarts \in Nat
    BY ConstantsAssumption DEF TypeOK
  <2>1. ASSUME NEW t \in Service, NEW l \in Key, NEW e \in Entry, CacheSet(t, l, e)
        PROVE  FALSE
    <3>1. NoEntry \notin Entry
      BY ConstantsAssumption DEF Entry
    <3>2. cache'[s][k] = cache[s][k] \/ cache'[s][k] = e
      BY <2>1, CacheSetCopies
    <3>. QED
      BY <3>1, <3>2
  <2>2. ASSUME NEW t \in Service, NEW l \in Key, LoaderSet(t, l) PROVE FALSE
    <3>1. todo[t][l] \in Entry
      BY <2>0, <2>2 DEF LoaderSet, MaybeEntry
    <3>2. CacheSet(t, l, todo[t][l])
      BY <2>2 DEF LoaderSet
    <3>. QED
      BY <2>1, <3>1, <3>2
  <2>3. ASSUME NEW q \in Request, StoreAndJudge(q) PROVE FALSE
    <3>1. held[q] \in Entry /\ asks[q][1] \in Service /\ asks[q][2] \in Key
      BY <2>3 DEF StoreAndJudge, TypeOK, MaybeEntry
    <3>. QED
      BY <2>1, <2>3, <3>1 DEF StoreAndJudge
  <2>4. ASSUME NEW t \in Service, NEW l \in Key, Admit(t, l) PROVE FALSE
    BY <2>0, <2>4 DEF Admit
  <2>5. ASSUME NEW t \in Service, Restart(t) PROVE restarts' > restarts
    BY <2>0, <2>5 DEF Restart
  <2>6. cache' # cache
    OBVIOUS
  <2>7. ~AdminStep /\ ~DbFails /\ ~DbRecovers /\ ~UNCHANGED vars
    BY <2>6 DEF AdminStep, CreateProject, DeleteProject, CheckOwner, WriteKey, cacheVars,
         DbFails, DbRecovers, vars
  <2>8. \A t \in Service : ~LoaderList(t) /\ ~LoaderListFails(t) /\ ~LoaderDone(t)
    BY <2>6 DEF LoaderList, LoaderListFails, LoaderDone, cacheVars
  <2>9. \A q \in Request : ~GetByHash(q) /\ \A t \in Service, l \in Key : ~Lookup(q, t, l)
    BY <2>6 DEF GetByHash, Lookup, cacheVars
  <2>. QED
    BY <2>2, <2>3, <2>4, <2>5, <2>7, <2>8, <2>9 DEF Next, LoaderStep, RequestStep
<1>. QED
  BY TypeCorrect, <1>1, PTL DEF Spec, WarmCacheStaysWarm
=============================================================================
