# EchoProxy: specifications, model checking and proofs

EchoProxy records HTTP traffic. Applications either send their requests through
a gateway or capture them with an SDK; both ways end in a Kafka topic, a batch
writer and ClickHouse, and a control plane hands out API keys. This directory
models the parts of it whose correctness depends on order, failure and limits,
checks them with TLC on small instances and proves their main invariants with
TLAPS for every instance.

Paths below are relative to the repository.

## 1. The system

    application --- proxy-gateway ---- upstream
                       | channel, workers, producer
    SDK --- ingest-api |
                  \    |
                   Kafka topic http_events
                       |
                  log-consumer (consumer group, batches)
                       |
                  ClickHouse http_events ---- cleanup
                       |
                  stats-api (Redis cache) --- dashboard (live tail)
    auth-api --- Postgres (projects, api_keys) --- key caches of the gateway
                                                   and of ingest-api

| part | state | operations | talks to | what is hard | what makes it correct |
| --- | --- | --- | --- | --- | --- |
| proxy-gateway, handler | per request: pooled capture buffers, upstream context | `ServeHTTP`, `Execute`, `emit`, `EmitAuthFailure` | key cache, rate limiter, upstream, event sink | body writer of the transport outlives `RoundTrip`; many outcomes, one event each | each request is answered once and emits one event with its own bytes |
| proxy-gateway, stream | capture, idle clock, flag | `streamCopy`, watchdog, `cappedWriter` | upstream, client | watchdog races with the copy loop; slow client | capture is a prefix, a watchdog end is flagged, the stream ends |
| proxy-gateway, sink | channel, producer buffer | `Enqueue`, `worker`, `Produce`, shutdown in `main` | handlers, Kafka | overflow, producer without room, shutdown with requests in flight or holding a connection | no event disappears in a hand-over, handlers never wait, shutdown gets to its last wait |
| API keys | `projects`, `api_keys`; a cache per service | create, update, revoke, delete; lookup, miss, sweep | Postgres, ristretto | stale cache, read-then-store, two-statement writes, outages | refusals are right, edits arrive, outages do not empty caches |
| ingest-api | key cache | `Execute`, HTTP batch, gRPC unary and stream | Postgres, Redis, Kafka | partial acceptance, errors answered as success | accepted means pushed |
| rate limiter | counter per key and second in Redis | `Allow` | gateway, ingest-api | caller's clock, expiry, fail-open | never more than the limit per window while Redis answers |
| SDK clients (Go, TypeScript, Python, Laravel) | buffer, drop counter, flush timer | capture, flush, close | ingest-api | full buffer, close racing with flush, refused batches | every loss has a cause, a drop is counted once, the host does not notice |
| log-consumer | batch, deadline, client position | poll, add, flush, commit, shut down | Kafka group, ClickHouse | commit races with insert, rebalance, crash, outage | what is committed is stored, or a stop took it |
| stats-api | cache-aside entries with a time to live | list, series, distributions | ClickHouse, Redis | stale answers | an answer is at most one time to live old |
| cleanup | none | sweep of the audit log and of every project | Postgres, ClickHouse | partial failure, deleted projects | nothing younger than its retention is deleted |
| auth-api, accounts | `users`, tokens | signup, login | Postgres | concurrent signup | one account per address |
| dashboard, reading pages | rows and figures, filters in form, url and server, ids seen, sheet | poll, filter, pause, open, apply, refresh | stats-api through route handlers | late answers, several copies of one filter, bounded memory, sessions that end | what is shown was asked for by the controls as they are; an event is shown once |
| dashboard, writing pages | dialogs, forms, queue of server actions, rendered list | create, revoke, save, delete, sign in | auth-api through server actions | lost answers, re-rendering under an open dialog, other tabs | secrets reach their reader, every written value has a reason, lists agree with auth-api |

PROJECT.json lists the hazards of this code with their lines; the properties
below are chosen to cover them.

## 2. Modules

| module | models | from |
| --- | --- | --- |
| `LogConsumer` | the consumer group, its members' goroutines and batches | `src/log-consumer` |
| `ProxySink` | the gateway's event path and shutdown | `src/proxy-gateway/internal/adapter/kafka`, `src/pkg/event/producer.go`, `src/proxy-gateway/cmd/proxy` |
| `KeyCache` | keys from auth-api to the caches of both data-plane services | `src/auth-api`, `src/proxy-gateway/internal/adapter/{cache,postgres}`, `src/ingest-api` |
| `RequestContract` | what the gateway promises about answers and events | the abstract side of `ProxyRequest` |
| `ProxyRequest` | requests from `ServeHTTP` to the event, with the pooled buffers and the transport's body writer | `src/proxy-gateway/internal/adapter/http/proxy_handler.go`, `src/proxy-gateway/internal/usecase/proxy_request.go`, `proxy_request_decode.go` |
| `StreamCopy` | one streaming response with its watchdog | `src/proxy-gateway/internal/usecase/proxy_request.go` |
| `SdkTs` | the TypeScript client, its proxy mode and its capture hooks inside a host | `src/sdk-ts/src` |
| `DashboardApi` | how an answer and a session come out of a page, a route handler and a server action | `src/dashboard/lib/api`, `src/dashboard/app/api`, the `actions.ts` files |
| `LiveTail`, `LogDetailSheet` | the live tail; the sheet with one event | `live/live-tail.tsx`, `components/log-detail-sheet.tsx` |
| `TimeRange`, `Analytics`, `LogsPage` | the range picker and the two pages that use it | `components/time-range.tsx`, `lib/api/range.ts`, `analytics/analytics-dashboard.tsx`, `logs/` |
| `KeysPage`, `KeySettings` | keys and their secrets; the settings of one | `keys/` |
| `ProjectsPage`, `ProjectSettings` | the list of projects and the layout that opens one; retention and deletion | `app/projects`, `settings/` |
| `Account`, `Integrate` | sign-up and login; the snippets to copy | `app/login`, `app/signup`, `lib/auth.ts`; `integrate/` |
| `Dashboard` | the ten pages as one application: one page is open, the session may end | all of the above |
| `MC*` | instances for TLC | |
| `*_proof` | theorems and proofs about the module of the same name | |
| `Folding` | what a `FoldLeft` returns, for the proofs about `LiveTail` and `Analytics` | the community modules |

A definition whose comment begins with "Mutant of" is not part of a
specification: it is the operator below it with a plausible bug, and each is
there because a property of a run must notice it (PROJECT.json, `mutants`).
A variable marked "history" records something the code does not keep, so that
a property can speak of it; no guard reads one.

### LogConsumer

Each member runs two goroutines over one `Batcher`. `reader[c]` and
`flusher[c]` are their program counters. The mutex of `Run` covers `Add` and
`MaybeFlush`, so each is one step; `PollFetches` and `CommitUncommittedOffsets`
are outside it and are steps of their own. `polled` is what the client counts
as consumed, which is what a commit commits.

| code | action |
| --- | --- |
| `PollFetches` returns records | `PollFetches(c)` |
| the `EachRecord` callback, with `decode` and `Add` | `EachRecord(c, r)` |
| a tick: `MaybeFlush` under the mutex, then the commit | `FlusherTick(c)`, `FlusherCommit(c)` |
| the loop breaks on a done context | `BreakLoop(c)` |
| `<-flushDone`, `flushAndCommit`, `Close` | `FlusherExit(c)`, `FinalFlush(c)`, `FinalCommit(c)` |
| signal, kill, restart by the Deployment | `Shutdown(c)`, `Crash(c)`, `Restart(c)` |
| group coordinator | `Assign`, `Revoke`, `Evict` |

An insert may fail before or after the server applied it; a commit may fail; a
commit of a member that lost the partition is refused by the broker.

What the runs show: without a crash or shutdown nothing is lost, however long
ClickHouse refuses inserts (`OutageLosesNothing`); what is committed and not
stored was in the memory of a member that stopped (`NoSilentLoss`); a row
is stored twice only if a failed insert, a failed commit, a stop or a rebalance
paid for it (`DuplicatesArePaidFor`). `BreakLoop` shows one more thing: the
records handed out by the last poll of a shutdown are dropped and then
committed, so also a clean shutdown may lose what that poll returned; the model
counts them in `lost`.

### ProxySink

A request is its handler and stands for its event. `Accept`, `Validate` (a
cached key, a refusal, or `GetByHash`, which `LookedUp` ends), `Answered` and
`Enqueue` take it from the listener to the sink; `WorkerTake` and
`WorkerProduce` move the event into the producer client, `Deliver`,
`DeliverUnacknowledged` and `FailBuffered` are what the client makes of it.
`main` goes through `Sigterm`, `CloseListener`, `Drained`, `Flushed`, `Exit`,
with `ShutdownTimeout` for the ten seconds that cover the drain and the flush
together. The deferred calls come after them, last first: `Flushed` includes
that of `prod.Close`, which fails what is still buffered, and `Exit` is the
return of `pool.Close`, which waits without a deadline until every connection is
returned. A request that hangs in `GetByHash` then keeps the process from
ending, which is why `ShutdownEnds` says of `main` alone only that it gets as
far as that wait, and that it ends under the assumption `PostgresAnswers`. The
loader's sweep runs under the signal context and gives its connection back by
itself. The worker's context is the signal context, so after a signal a
worker may stop with events in the channel, and the client may fail records it
has buffered. The comment of `Sink.Run` says that it returns when the workers
have; it returns at once, and main does not wait for them: that is why
`EventHasAFate` allows an event to stay in the channel at exit. How many events
found the channel full is not modelled: the sink's counter is read by nobody
(section 5).

### KeyCache

A row of `api_keys` is its status and the revision of its configuration.
`CheckOwner` and `WriteKey` are the two statements of a call to auth-api.
`Lookup`, `GetByHash`, `StoreAndJudge` are a request (the gateway's
`ValidateAPIKey.Execute` and the head of ingest's `Execute` are the same
code); `LoaderList`, `LoaderSet`, `LoaderDone` are a sweep. ristretto's `Set`
replaces a present key at once, and queues or drops an absent one (`CacheSet`,
`Admit`); its eviction by cost is left out, since the capacity is sixteen
million keys.

`SweepsConverge` is the strongest property of a refreshed cache: once a row
stops changing, the cache ends up with that row or none. It does not hold for a
row that is deleted, because the loader never removes an entry: a key of a
deleted project works until the gateway restarts. `NotFoundIsHonest` is stronger
than `src/docs/runbook.md:119`, which lets a new key wait for the next sweep
(section 5). `RevocationIsSeen` fails for
ingest-api, which has no loader.

### StreamCopy

Bytes are counted. Time advances in units of which `Idle` make the budget and
only while the handler cannot read. `WatchdogFlags` and `WatchdogCancels` are
two steps because the flag is a plain variable: a handler that returns in
between may see either value (`FlagSeen`), and the property is that it
does see the flag when it was the watchdog's cancel that ended it.

### ProxyRequest and RequestContract

`pc[r]` is where the handler of request `r` is. Up to three parties touch its
buffers: the handler, the goroutine of `net/http` that sends the request body
and by way of the `TeeReader` captures it, and, long after, a worker of the sink
that marshals the event.

| code | action |
| --- | --- |
| `ServeHTTP` refuses: `writeError` or the rate limit, then `EmitAuthFailure` | `Refuse(r)`, `EmitAuthFailure(r)` |
| `Execute`: two `Get`s, then a request that cannot be made, or `RoundTrip` | `TakeBuffers(r)` in `BadRequest(r)`, `Forward(r)` |
| `RoundTrip` returns an error, or headers | `RoundTripFails(r)`, `RoundTripReturns(r)` |
| `streamCopy` or `io.Copy` | `CopyChunk(r)`, `EndCopy(r)` |
| `emit` with `normalizeCapturedBody`; the deferred calls | `Emit(r)`; `Release(r)` |
| the transport's write loop in `cappedWriter.Write` | `SenderReads(r)`, `SenderGrows(r)`, `SenderFills(r)`, `SenderStops(r)` |
| `net/http` closes the body after the handler | `CloseBody(r)` |

A byte is the request it came from, and a buffer is memory with a length:
`Reset` moves the length and leaves the memory. `SenderGrows` and `SenderFills`
are two steps because nothing orders the sender's write with the handler's
`emit`, which may read the new length and the old bytes; the updates of the
length themselves are taken to be atomic. A new buffer or any buffer of the pool
may be what `Get` returns, so that the pool's forgetting of buffers is
included. `ParseTarget`, `ValidateAPIKey.Execute` (see `KeyCache`) and the
limiter are the choice of an error; `StreamCopy` has the inside of a stream. A
chunk is one byte, the placeholder of a binary or undecodable body has no bytes
of the capture and is left out, and a decompressed body stands for the bytes it
was made from.

What the run shows: no path through `Execute` puts a buffer back twice
(`BuffersAreExclusive`); the copy in `normalizeCapturedBody` is what keeps
events apart when they are marshalled late; and bytes of another request can
still enter an event in two ways, which `ForeignBytesHaveACause` names: a sender
that is still in `Write` when its handler has put the buffer back (`net/http`
allows `RoundTrip` to return before the body is sent, and closes the body only
after the handler), and an event built while its own sender is between the two
halves of a write. Both are reachable in the model: the property
without either disjunct is violated. `RecordedIsAnswered` is the refinement of
`RequestContract`: the status in the event, which comes from `mapErr`, is the
status of the answer, which comes from `writeError`.

### SdkTs

The host is single threaded, so an action is the code between two awaits. An
event is the number of the `capture` call that made it; `buf`, `dropped`,
`timer` are the client's fields, `net` is every `fetch` in progress, the
application's and the client's own. `cfg` is chosen once and holds what the
environment decides, including three facts about the runtime on which the code
relies: whether `JSON.stringify` can write a BigInt, whether
`globalThis.crypto` exists, and whether `fetch` demands `duplex`.

| code | action |
| --- | --- |
| `Client.capture`, `normalize`, `flush` | `Capture`, `Flush` inside the actions that reach them |
| `setInterval`, `close`, the end of the process | `Tick`, `Close`, `Exit` |
| `captureFetch`, `proxy.fetch`, `proxy.configure` | `CaptureFetch(c)`, `ProxyFetch(c)`, `Configure` |
| the awaits of a wrapped or a plain fetch | `SendBase(f)`, `FetchAnswers(f)`, `FetchFails(f)`, `FetchRead(f)` |
| `expressMiddleware`: `next`, the data listener, `res.end` | `Arrive(r)`, `Attach(r)`, `BodyArrives(r)`, `End(r)`, `Finish(r)` |

`LossHasACause` names every way an event is lost: a refused batch (`fetch`
resolves for 401, 429 and 500, and the batch is neither retried nor counted), a
failed fetch, a buffer smaller than a batch (the only overflow there is, since
`capture` flushes at once when a batch is full), a runtime without BigInt
serialisation or webcrypto, and the end of the process. `DropsAreCountedOnce`
says what `droppedCount` has: events that overflowed and those of batches whose
fetch failed, each once; a refused batch is not in it, whatever
`src/docs/sdk-spec.md:88` and `:130` ask for (section 5). `CaptureIsInvisible` is what
fail-open comes to where the SDK is used as its examples use it: an absolute url,
in proxy mode a key and no body to stream, `res.end` with nothing or a chunk. The
uses outside of that, in which the code does not keep the promise, are in the model
and are findings.

### Dashboard

`view` is the state of the open page, `server` what the service behind it
has, `sent` where the browser was sent, `session` the NextAuth session. Each page
module is an `INSTANCE` with its own name for `view` and `server`. React queues
updates and answers come late; the actions are what happens between two of
those points.

| module | actions and the code they stand for |
| --- | --- |
| `LiveTail` | the interval and its fetch, the answer with its updater of `setEvents` (run at once or at the next rendering), Pause, Clear, a tab |
| `LogDetailSheet` | a row is selected, the answer arrives, the sheet is closed |
| `Analytics` | a filter or the range changes, Refresh, the five answers of an effect, its clean-up; `deriveSummary` and the tables made of the answers |
| `LogsPage` | selects that push at once, Apply, Clear, Back, the server's rendering |
| `KeysPage` | the two create dialogs, the revoke dialogs, `createKeyAction`, `revokeKeyAction`, rendering and `router.refresh` |
| `KeySettings`, `ProjectSettings` | edits, Save, the delete dialog, another tab's writes |
| `ProjectsPage` | create dialogs, `createProject`, the cards, the layout's check |
| `Account` | submit, the calls of `signupAction` and `signIn`, `authorize` |
| `Integrate` | key, pasted key, endpoints, tabs, and the memo of what is filled in |

Server actions of one browser run one at a time, in order, and revalidate the
page before their result is delivered; a result goes to the dialog that made
the call and to no dialog mounted later in its place (`mounted` in a call).
An answer "failed" may follow a write that was done.

Where a page departs from what one would expect of it the property says so in
its comment and section 5 or 6 names it: the polls behind the rows of the live tail
are those of the tab, the rows are not of its direction (`RowsAreOfItsPolls`); an
event may be known and in no row when the list is full or a reset took its row
(`swallowed` in `HiddenHasACause`); a save in the key settings undoes a
change of another tab (`UneditedGoesBack`); the dialog of an empty key list loses
the secret (`NoSecretIsLost`, refuted).

## 3. Runs

| run | question | instance |
| --- | --- | --- |
| `consumer` | what may be lost or stored twice, is everything settled, does a shutdown end | two members, one partition, three offsets, batches of two, one undecodable record, one fault, one stop |
| `consumer_outage` | are offsets of a failed insert kept back, as `src/docs/architecture.md:60` says | finds a counterexample |
| `sink` | the event path, full and shutting down | three requests, two workers, channel of two, producer with room for one, one lost acknowledgement, one event that does not marshal; any key lookup may hang |
| `keycache` | keys under edits, sweeps, misses, an outage and a restart | one key, two requests, one administrator, one edit of each kind |
| `keycache_revoked` | does every service stop using a revoked key | finds a counterexample in ingest-api |
| `gateway` | answers, events and the buffers they share | two requests, four buffers, a capture cap of one byte |
| `stream` | a stream with its watchdog | five bytes, reads of up to two, cap three, budget two |
| `stream_slow_client` | does the flag mean a silent upstream | finds a counterexample: a slow client |
| `sdk_ts` | what the TypeScript SDK loses, counts and does to its host | one outbound call (captured or through the proxy), one inbound request, three events, and seven hosts: Node 20 as it is, one whose BigInts can be written, and that one without key, with sampling and route patterns, with a batch larger than the buffer, without webcrypto, and with a wrapped global fetch |
| `sdk_bigint` | do events land in ingest-api (`src/sdk-ts/src/capture.ts:31`) | Node 20 as it is; finds a counterexample |
| `dashboard` | what the ten pages show, write and do with the browser | five events, polls of two rows, a window of two; two instants, two buckets; two keys, two projects, two fields, three numbers of days; one preset; one answer of an earlier effect in progress |
| `keys_secret` | does the user get every secret (`keys/create-dialog.tsx:23`) | the keys page of the same instance; finds a counterexample |

The bounds are small and each is reached: with two members there is an owner
and a former owner; a batch of two is under, at and over its size with three
records; three requests fill a channel of two and overflow it; the cap of three
is met in the middle and at the end of reads of one or two bytes; two requests
with four buffers may take fresh buffers or each other's, and a cap of one
byte is an empty and a full capture; one key is
enough since no operation of the caches relates two keys; three events fill a
buffer of three and leave a batch of two with one over; a window of two rows over
five events pushes events out while they are still in a polled page; two keys
and two dialogs are enough for a secret in each. One stop is a crash or a shutdown at any
moment and the restart after it, while the other member takes over; the theorems
are about any number. Counters that only
bound the exploration (`MaxFaults`, `MaxStops`, `MaxRev`, `MaxOutages`,
`MaxRestarts`, `MaxOffset`, `MaxBytes`, `MaxBuffers`, `MaxEvents`, `MaxQueue`,
`MaxBuckets`, `MaxStale`, `MaxTrail`, `MaxCalls`) are constants named as bounds.

`CHECK_DEADLOCK FALSE` is set where the system may come to rest: a gateway that
has exited, a stream or requests that have ended, keys nobody edits, a process that
has ended, a page the browser has left. Symmetry is used in `dashboard` and
`keys_secret`, which have invariants only: keys and projects are compared for
equality only.

### Fairness

* LogConsumer: both goroutines are scheduled, the clock advances, the
  coordinator assigns and evicts, the Deployment restarts a stopped member. The
  flusher's select is strongly fair towards `ctx.Done`: Go chooses uniformly
  among the ready cases.
* ProxySink: handlers that have their answer and `main` are scheduled and the
  shutdown timer fires. Workers and broker get fairness only as an assumption
  of `QueuedIsProduced`, Postgres only as an assumption of the second half of
  `ShutdownEnds` (`PostgresAnswers`); `HandlersNeverWait` and its first half hold
  without.
* KeyCache: the loader and its ticker run, begun requests go on, ristretto
  drains its buffer, an outage of Postgres ends.
* StreamCopy: handler and watchdog are scheduled and time passes. Upstream and
  client owe nothing, except that `StreamEnds` assumes that a write to the
  client returns.

* ProxyRequest: a handler with nothing to wait for goes on. Nothing is assumed of
  the copy of a response, of either kind: it ends with the upstream, the client
  and, in a stream, a positive idle budget, and a write to a client that does not read has
  no deadline (`proxy_request.go:265`; the server of `main.go:103` sets no
  `WriteTimeout`). So `AnsweredIsRecorded` allows a handler to stay in a copy for
  ever, and has the assumption `CopiesEnd` in its second half.

* SdkTs: a running event loop fires its timer, and a `fetch` of the runtime
  answers or fails and its body is read unless it never ends. Nobody is obliged
  to call, to close or to exit. `NothingIsHeldForEver` is about a client whose
  global fetch is not its own `captureFetch`: with it, each POST makes an event,
  and the client never comes to rest.

No traffic, edit, click, crash or signal is ever forced.

## 4. Proofs

Each `*_proof` module states an inductive invariant, proves that `Init`
implies it and that every action keeps it, and draws the theorems from it. The
only assumptions are those on the constants of each module
(`ConstantsAssumption`, `PagesAssumption`), which TLC evaluates in every run.

| theorem | of | argument |
| --- | --- | --- |
| `LogConsumer_proof!NothingIsLostSilently`, `OutagesLoseNothing` | `NoSilentLoss`, `OutageLosesNothing` | every record a member counts as consumed is stored, undecodable, in some member's memory, or lost to a stop; a commit copies a position, so it inherits the same |
| `LogConsumer_proof!CommitsAreMonotone` | `CommitNeverRewinds` | an owner's position is never behind the committed offset |
| `LogConsumer_proof!FullBatchesComeFromFailure` | `FullBatchMeansFailure` | `SizeInv`: a member that is down has no batch, so a restart, which makes the context fresh, starts small |
| `LogConsumer_proof!RowsComeInOffsetOrder` | `StoredInOffsetOrder` | `OrderInv`: a member holds records of its own partitions only, and whatever precedes a record of a batch is stored, no row, or in the batch; a flush stores its batch as a whole or not at all |
| `LogConsumer_proof!DuplicatesHaveAPrice` | `DuplicatesArePaidFor` | `PriceInv`: the copies of a record in memory (in a fetch, or in a row of a batch) are at most as many as it was handed out, and together with its rows at most that many times one plus the faults; a member that keeps its partition never gets the record again before a stop |
| `ProxySink_proof!EveryEventHasAFate` | `EventHasAFate` | no step takes an event out of one place without putting it in another; `Flushed` fails what it takes from the client |
| `ProxySink_proof!EventsAreInOnePlace` | `OnePlaceAtATime` | `PlaceInv`: the property without its cardinalities: no two places hold an event, an event in the pipeline belongs to a finished request, and none is in Kafka before the client has buffered it |
| `KeyCache_proof!KeysHaveProjects` | `NoOrphanKeys` | the insert checks the project in the statement that writes |
| `KeyCache_proof!RefusalsAreFinal` | `RefusalIsFinal` | every copy of a row, in a cache, an admission buffer, a sweep or a request, that says revoked implies that the row is revoked or gone |
| `KeyCache_proof!NewKeysWorkAtOnce` | `NotFoundIsHonest` | a hash is used once, so a row that existed and is missing has been deleted for good |
| `KeyCache_proof!CachesStayWarm` | `WarmCacheStaysWarm` | only a restart writes the empty entry |
| `StreamCopy_proof!CaptureIsTheCappedPrefix` | `CaptureIsPrefix` | arithmetic of the cap |
| `StreamCopy_proof!WatchdogEndsAreFlagged` | `WatchdogEndIsFlagged` | the watchdog's cancel is its last step and comes after its flag |
| `StreamCopy_proof!FlagsHaveACause` | `FlagHasACause` | a reader that was quiet for the budget either had nothing to read for as long, or was in a write |
| `ProxyRequest_proof!BuffersExclusive` | `BuffersAreExclusive` | `Get` takes from the pool or makes new; only the holder's deferred call returns |
| `ProxyRequest_proof!RefinesContract` | `RecordedIsAnswered` | `HandlerInv` ties the place of a handler to its outcome, answer and event; the two switches agree on every error; each step is an answer, a record or a stutter |
| `ProxyRequest_proof!ForeignBytesExplained` | `ForeignBytesHaveACause` | `ByteInv`: a buffer in the pool is empty unless a late sender wrote to it (`FreeInv`); below its length a held buffer has its holder's bytes, bytes of a late sender that has the same buffer, or a gap its own sender is about to fill (`HeldInv`); an event keeps what it was built from (`EventInv`) |
| `SdkTs_proof!LossesHaveACause`, `DropsCountedOnce` | `LossHasACause`, `DropsAreCountedOnce` | `Books`: what the client makes goes to the buffer, from there to one POST, from there to stored, refused or failed, and these are disjoint; `Ledger`: `dropped` is the size of the union it counts, and grows by new elements only |
| `SdkTs_proof!CaptureStaysInvisible` | `CaptureIsInvisible` | `CallInv` ties a pending call to the fetch that carries it and what was asked for; `RequestInv` counts the calls of `end` of a response |
| `Dashboard_proof!WritesHaveTheirReasons` | `WritesAreExplained` | `FormAgrees`: a field that was not edited is in the form, and in a save on its way, as it was mounted; `ServerAgrees`: one that nobody edited here or elsewhere is so on the server, too; a deletion in progress was confirmed |
| `Dashboard_proof!BrowserGoesWhereItBelongs` | `SentWhereItBelongs` | the second call of a sign-up is made for an account that exists; a card was rendered from a row |
| `Dashboard_proof!SecretsAreKeptOrSaved` | `SecretIsKeptOrSaved` | `KeysCore`: the header's dialog is always mounted, a dialog waits for one call at most and holds no secret meanwhile (so a delivery overwrites nothing), a secret is in one dialog only, a ticked box without a secret does not exist, and a key is unknown until it is in the table |
| `Dashboard_proof!ScreensShowWhatWasAsked` | `ShownWasAskedFor` | one invariant per reading page: for the live tail `LiveCore` (below); for the logs page, that the form is what parsing the url gives and the rows were asked for with it; for the figures, that the page loads while a query waits; for the guide, that the snippet belongs to the section and was built from what the form holds |
| `Dashboard_proof!ListsStayTrue` | `ListsAreTrue` | `LiveCore` for the live tail; the folds of `Summary` taken a bucket at a time, by induction over the series (`FiguresOfSeries`); for keys and projects, that the list is the table from the moment of the last rendering on, unless there is an error or a write nobody told the page of |

and `TypeCorrect` in each of the seven. The pages are independent: no page
writes what another one reads, so each has its invariant under `page = "..."` and
a lemma pair `Init...`, `Next...`.

The live tail is the one page whose invariant is about a future: what the
buttons clear (`seen`) and what waits in the queue of updates do not agree
until the next rendering, and a merge that is queued before a reset may
even list an event twice, in a list nobody sees. `LiveCore` says that there is a
point in the queue, its start or a reset, at which the list is sound (`Sound`:
nothing twice, every row known, rows of polls for one direction, nothing known and missing
without a cause), and that behind it no answer to a poll for another direction waits. A merge
keeps a sound list sound (`MergeIsSound`), a reset makes one (`ResetIsSound`), and
a rendering goes through the queue one by one (`RenderIsSound`).

`Folding!FoldIsStepwise` is a lemma about the library's `FoldLeft`, from which the
proofs about `Render` and `Summary` start.
`FoldLeft` is a recursive function over the subsets of a domain; that it exists
and satisfies its equation is proved by a minimal counterexample (`WFMin`, in
`SetInduction`), since the induction theorems of the library, which take a
predicate, cannot be used by the provers. The module has the operator as a
constant, and `Dashboard_proof` instantiates it with each operator that is
folded. `KeptExists` does the same for the recursive function in `Fresh`.

What is only model-checked: the temporal properties under fairness
(`EventuallySettled`, `ShutdownCompletes`, `HandlersNeverWait`, `ShutdownEnds`,
`QueuedIsProduced`, `SweepsConverge`, `StreamEnds`, `AnsweredIsRecorded`,
`NothingIsHeldForEver`), because the prover does not do fairness and `ENABLED`.
Every invariant and every action property of a passing run is a theorem.
The series a run sees have at most `MaxBuckets` buckets; `FiguresOfSeries` is
about series of any length.

## 5. Findings

Places where the code and the repository's own text disagree; PROJECT.json has the
lines and the quotations. Five are runs whose one property says what the text
says and which TLC refutes:

1. `consumer_outage`: offsets are committed although the insert failed.
2. `keycache_revoked`: ingest-api uses a revoked key it has cached until it
   restarts.
3. `stream_slow_client`: a slow client makes the watchdog cancel an upstream
   that is sending, and the event says that the upstream was idle.
4. `sdk_bigint`: in Node 20 as it is, no event of the TypeScript SDK is ever
   posted: `timestamp_ns` is a BigInt and `JSON.stringify` throws.
5. `keys_secret`: the create dialog of an empty key list is unmounted by the list
   it has just filled (`keys/page.tsx:45`): the first key's secret is never
   shown.

The others need no search; the models follow the code in them, and the properties
are stated so as not to hide them.

6. `proxy_dropped_events_total`, which the runbook tells operators to watch, is never
   incremented: `Recorder.IncDropped` has no caller, and the sink's own counter
   is read by nobody. `ProxySink` has no counter therefore.
7. A new key works at once (`NotFoundIsHonest`, run `keycache`); the runbook says
   that it takes up to the refresh interval.
8. The SDK neither retries a batch nor counts one that was refused
   (`sdk-spec.md:88`, `:130`, `architecture.md:59`). `LossHasACause` has the refused
   batch as a cause, `DropsAreCountedOnce` counts none.
9. The SDK's capture is not invisible in four uses (`sdk-spec.md:7`, `:143`,
   `capture.ts:45`): `captureFetch` throws for a relative url, and holds back an
   answer whose body does not end; `res.end(callback)` throws before the answer is
   ended; and a body reader attached after `next()` finds nothing.
   `CaptureIsInvisible` is about the other uses.
10. Proxy mode cannot send the body of a `Request` in Node, though `proxy.ts:47`
    calls itself a drop-in replacement.
11. The live tail's route drops `direction`, so every tab shows the rows of all
    directions (`live-tail.tsx:29` speaks of "leaks" between them).
12. Done closes the create dialog and keeps the secret, which is shown again at the next
    opening; the dialog says that it is shown once (`create-dialog.tsx:145`).
13. Five server actions catch everything and so the redirect of an expired
    session, which `lib/utils.ts:35` forbids: the user sees an error message.

## 6. Observations

Behaviour the models have because the code has it, which no text of the
repository speaks of, as far as we have read, or which is outside of what is
modelled.

proxy-gateway

* A request that hangs in a key lookup keeps the process from ending after a
  signal: `pool.Close` has no deadline (`main.go:36`).
* A client that does not read holds its handler for as long as it likes: no write
  deadline, and the idle watchdog does not end a write.

TypeScript SDK

* `close` cannot be awaited, so `process.exit` after it loses the batches.
* A wrapped global fetch captures the client's own POSTs, for ever.
* A route pattern that does not compile is dropped; if it was the only one, every
  route is captured.
* Node 18 has no `globalThis.crypto`: each capture throws, silently.

Dashboard

* After Done no second key can be made until Esc or the cross closes the dialog.
* Save in the key settings writes every field and undoes another tab's change; an
  empty number is saved as 0.
* An answer that waits for the next rendering when Clear is pressed or the tab is
  changed marks its ids as seen after the set was emptied, and the reset behind it
  takes its rows: such an event is in no row until the next Clear or tab
  (`swallowed`). A full list hides what does not fit.
* The delete dialog's Cancel leaves the confirmation typed.
* Under an outage of auth-api the keys and the projects page show "No ... yet"
  below the banner, the settings page answers 404, the layout of a project lets
  any id pass, and the integration guide asks for a key to be created.
* The key placeholder of the guide is the twelve characters of a prefix followed by
  the rest of `PLACEHOLDER_KEY`, which is not a placeholder any more. A pasted key
  is not compared with the selected one.
* The live tail's route drops `is_stream`, too.
* Log filters that were typed and not applied are applied by the next select; after
  Back the form shows another question than the rows answer.
* Applying a custom range again truncates it to minutes. The rate of the
  analytics page divides N buckets by N-1 widths; its percentiles are averages.
* A session ends as an error of the live tail that stays, as a redirect of a page,
  or as a message of a form, depending on which of them notices.

## 7. Not modelled, and why

* SDKs for Go, Python and Laravel: the same client with threads, a goroutine, or
  one process per request. `SdkTs` is the plan for them; none is modelled. Known
  differences: the Go client drops the newest event of a full channel where
  `src/docs/sdk-spec.md:88` says the oldest, and Python's `close` races with its
  flush thread.
* ingest-api beyond the key lookup: `SdkTs` takes its answer as any status.
* auth-api's accounts: the uniqueness of an address is a constraint of Postgres.
  `Account` takes the answer as external.
* stats-api: query building and a cache with a time to live; the SQL is
  ClickHouse's.
* rate limiter: a script in Redis that is atomic there. What is left is the
  caller's clock (`src/pkg/ratelimit/limiter.go:75`), which no module has.
* cleanup: one `DELETE` per project and sweep.
* redaction, decompression, placeholders: regular expressions and codecs over
  bytes. `ProxyRequest` models whose bytes they are.
* the dashboard's charts, tables, sidebar and styling; going from page to page,
  and with it the router's cache of visited pages.
* configuration, logging, charts, migrations, benchmarks, generated code.

Two abstract specifications are left to write: the promise of the whole path (an
event is recorded at least once, or a named place lost it) over `ProxyRequest`,
`ProxySink` and `LogConsumer` joined at the topic; and one ledger for the four
SDK clients.
