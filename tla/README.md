# TonShield in TLA+

TonShield answers one question, "is this link, handle, transaction or BoC a
scam?", for users of a Telegram bot and of an HTTP API. This directory holds
models of the parts of it where order, concurrency, failure or an off-by-one
decides whether the answer is right, the TLC configurations that check them on
small instances, and TLAPS proofs for every value of the constants.

Everything is translated from the TypeScript of the repository. Line references
are to that source; `PROJECT.json` maps every definition to its lines.

## 1. Inventory

| Component | State | Operations | Hard part |
|---|---|---|---|
| API route `apps/api/src/server.ts`, bot handler `apps/bot/src/index.ts` | none but the process's providers, set at start | classify, look up, scan, save, answer | two processes racing on one input; a deployment changed between two requests; a crash between two awaits |
| Report store `packages/storage/src/{postgres,memory}/report-store.ts` | reports, unique by input hash | `save`, `findByInputHash` | Postgres needs two statements for one get-or-insert |
| Dedup key `canonical-hash.ts`, cacheability `cacheability.ts` | none | pure | a key coarser than what the scanners read serves a wrong report |
| Scanners `packages/ton-scanner/src` | a process-local fetch cache | `createBasicScan` and one scanner per input kind | findings depend on configuration and on the live world |
| Entity snapshot store `telegram-entity-store.ts` | entities, snapshots | `recordSnapshot`, `pruneSnapshots`, queries | cooldown under concurrency, observations out of order, capped pruning |
| Worker loops `apps/worker/src` | the tick in flight | refresh the gift catalog, prune snapshots | overlapping ticks, shutdown during a tick |
| Gift catalog store | one row per gift | `upsertMany`, queries | overlapping transactions that lock each other's rows; an older refresh that commits last |
| Rate limiter `packages/rate-limit/src` | a token bucket per key | `check` | checks that reach Redis late, out of order or twice; expiry; honest retry times |
| API keys `packages/api-auth`, `api-key-store.ts` | keys, last use | issue, verify, revoke, touch | revocation and tenant deletion against a request in flight; a touch that is not awaited |
| Safe fetch `packages/safe-fetch/src` | TTL cache, fetches in flight | `safeFetch` | callers that share a fetch; bodies that break off; one deadline for all redirects; eviction |
| Ownership cache `fragment-intel/src/ownership-cache.ts` | TTL + capacity map | `get` | concurrent misses, eviction of the wrong entry |
| MTProto client `telegram-intel/src/mtproto-client.ts` | one connection, as a promise | resolve, close | a cached rejection, close while connecting |
| Telegram scanner `ton-scanner/src/telegram/scanner.ts`, `entity-resolver.ts` | none of its own | resolve, judge, record a snapshot, ask Fragment | a chain of resolvers, each of which may fail; an owner and a history asked for one after the other |
| Transaction and BoC scan `ton-scanner/src/transaction`, `boc`, `packages/ton-emulator` | none | decode, build a request, emulate, compare | two decoders of one list; TONAPI failing anywhere; pairing by position |
| Classification `classify-input.ts`, `deeplink-parser.ts` | none | pure | one link in many spellings, decision order |
| Handle similarity, id age `telegram-intel/src` | none | pure | edit distance, boundaries of grades, dates out of order |
| Risk scoring `packages/risk-engine` | none | pure | thresholds |
| Logging, messages, env, web placeholder | none | formatting | not modelled |

Processes share the Postgres database and Redis, nothing else. Every handler is
an `async` function on a single-threaded event loop: between two `await`s it runs
alone in its process, at an `await` anything may happen. Neither the API's nor
the bot's shutdown waits for handlers that are running
(`apps/api/src/index.ts:33-44`, `apps/bot/src/index.ts:227-239`).

## 2. Modules

| Module | Models | Extends / instantiates |
|---|---|---|
| `Positions` | what `Array.filter` leaves of an array | |
| `CanonicalHash` | `canonicalInputHash`: what two inputs must share to share a report | |
| `ReportRegistry` | abstract: an atomic get-or-insert store, written after the in-memory implementation | |
| `ScanService` | the request from `Receive` to its answer, over the two-statement Postgres store, at several processes | extends `CanonicalHash`; implements `ReportRegistry` |
| `ScanServiceProofs` | theorems about `ScanService` | extends `ScanService`, TLAPS |
| `EntityStore` | the Postgres entity store, statement by statement, with concurrent observers and the retention loop | |
| `EntityStoreProofs` | theorems about `EntityStore` | extends `EntityStore`, TLAPS |
| `EntityStoreMirror` | the in-memory and the Postgres entity store given the same calls | extends `Positions` |
| `EntityStoreMirrorProofs` | theorems about `EntityStoreMirror` | extends `EntityStoreMirror`, TLAPS |
| `TokenBucket` | one bucket of the rate limiter, in memory or in Redis | |
| `ApiAccess` | keys issued, verified, touched, revoked, in front of their tenant's bucket | extends `TokenBucket` |
| `ApiAccessProofs` | theorems about `TokenBucket`, and about `ApiAccess`, which implements it | extends `ApiAccess`, TLAPS |
| `GiftCatalog` | the worker's refresh loop, the catalog it writes, and the scans that read it | |
| `GiftCatalogProofs` | theorems about `GiftCatalog` | extends `GiftCatalog`, TLAPS |
| `SafeFetch` | `safeFetch`: shared fetches, redirects, the timer and the TTL cache | |
| `SafeFetchProofs` | theorems about `SafeFetch` | extends `SafeFetch`, TLAPS |
| `MtprotoClient` | the shared connection, its lookups and `close` | |
| `OwnershipCache` | the cache of Fragment answers, as operators on a `Map` | |
| `TelegramScan` | `scanTelegramEntity`, await by await, for scans of one process | extends `MtprotoClient`, `OwnershipCache` |
| `TelegramScanProofs` | theorems about `TelegramScan`, the client and the cache | extends `TelegramScan`, TLAPS |
| `RiskScore` | the rules, score, verdict and confidence | |
| `TransactionScan` | static decode, emulation, and their comparison; BoC scans | extends `RiskScore`, `Positions` |
| `InputClassification` | `classifyInput`, the grammar of Telegram links, what a scan starts from | extends `CanonicalHash`, `Positions` |
| `HandleSimilarity` | edit distance, Jaro-Winkler, watchlist matching of handles and texts | |
| `IdAge` | the age an entity's numeric id tells | extends `Positions` |
| `Sequential` | the code without interleaving in one specification: the stores' calls, or one input that is picked and judged | extends `EntityStoreMirror`, `TransactionScan`, `HandleSimilarity`, `IdAge`, `InputClassification` |
| `SequentialProofs` | theorems about `Sequential` and the algorithms it judges | extends `Sequential`, `EntityStoreMirrorProofs` |
| `MC*` | instances for TLC; `MCSequential` only names the inputs `Sequential` picks from | |

### ScanService

One action per stretch of code between two awaits: `Receive` (classify, hash,
decide on the cache), `findByInputHash`, `createBasicScan`, `InsertReport` and
`SelectExisting` (the two statements of `save`), then the answer. `AwaitRejected`
is any rejected promise, `InsertUnacknowledged` a commit whose acknowledgement is
lost, `Restart` a redeploy or a crash of one process, with a new configuration.
`createBasicScan` is one action: what happens inside a scan touches nothing the
other requests of this module read (its writes to the entity store are
`EntityStore`'s subject, its fetches `SafeFetch`'s). What it reads from the world,
the page, the Bot API, MTProto, Fragment, the emulator, is chosen freely at every
scan; the process's fetch cache can only make those choices agree more often.

A report is a record of its id, hash, input, findings, and two ghost fields:
the providers it was scanned with and what they answered. Findings are those that
depend on the configuration and one for each kind of bad answer; score, summary
and wording are functions of the findings and are left out.

Texts are `[word, upper]` because letter case is the only thing about a text that
the key, or a scanner, treats differently. URLs are a host, a path and the parameters of
the query; extras and transaction objects are sequences of properties. The inputs are
what `classifyInput` makes (`ScanServiceAssumption`): no Mini App URL, which the classifier
does not emit (`basic-scan.ts:235`), handles in lower case (`classify-input.ts:53`), and a
plain link's handle is the account it names (`plainHandle`), in its path or, of
`tg://resolve`, in its parameter `domain`. A deep link's `hasTarget` tells a null target from
an empty one: both have the text the key is built from, `target ?? ""`.

### EntityStore and EntityStoreMirror

`Observe` stamps `observedAt`; `AcquireLock`, `ReadPrevious`, `Suppress` and
`Insert` are the statements of the transaction, `Insert` being its last two
statements and the commit, since what they write is invisible before. `Abort` is a
failed statement or a dead process. `PruneSnapshots` takes no lock, as in the
code. Rows with equal `observed_at` may be read in either order.

In `EntityStoreMirror` both stores are kept side by side and every call is given
to both, by one caller whose clock advances between calls. The insertion order of
a JavaScript `Map` is the sequence `keys`. `MaxCandidates` is the 50 rows
`findEntityByUsername` looks at (`telegram-entity-store.ts:186`).

### TokenBucket

`limiter` is chosen once, as `apps/api/src/deps.ts:67-77` does by `REDIS_URL`. In
memory, a check is one step (`CheckInMemory`). With Redis it is stamped when it is
sent (`Send`) and evaluated later (`Evaluate`, the Lua script), maybe twice, since
ioredis sends a command again when the connection drops before its answer, or not
at all (`Lose`). `Expire` is the key's `PEXPIRE`. `spent[s]`, the tokens taken
since millisecond `s`, and `decision`, the last answer to a client, are
bookkeeping for the properties.

Tokens are counted in integer parts, `Second` of them to a token, so that a
millisecond refills exactly `refillPerSecond` parts: the rounding of floating
point numbers is left out, the two `ceil`s of the code are kept. The clocks of
the processes and of Redis agree and do not go back. `limits` are the tiers that
the tenant's keys have: with several, `BucketIsExact` holds the bucket between
what the smallest and the largest would grant: what is left of a grant of the whole
bucket and its refill since any earlier moment (`Windows`), the least of these. `Ttl`
is at least the time a bucket takes to fill up (`TtlAssumption`), as with the default
of an hour and the tiers of `tiers.ts`.

### ApiAccess

The middleware chain of `apps/api/src/server.ts:97-128`: `Present` (which header
counts), `Verify` (the store's `verify`, after which `touchLastUsed` is under way
and not awaited), then the bucket. Keys are created and revoked by other processes
at any time, and deleting the tenant takes its keys along (the foreign key
cascades). A key's hash is taken to be injective; a key is its own hash.

### GiftCatalog

`StartTick` is `schedule`, run by an interval that does not wait for the tick
before; `Fetched`/`FetchFailed` end the Bot API call; `Upsert` is one statement of
`upsertMany`'s transaction and waits for row locks; `Commit`, `Abort`,
`DeadlockDetected` end it. `Stop`, `Close`, `Exit` are the three stages of
`shutdown` (`apps/worker/src/index.ts:49-63`), `Crash` a killed process. A tick's
number is its `observedAt`, and tells which list a row's fields come from. A scan
reads the baseline, fetches the chat's inventory and looks the gifts up one by
one. The in-memory store's `upsertMany` is one synchronous step, a special case.

### SafeFetch

A fetch is named after the caller that started it and goes from `request` to
`body`, back to `request` for a redirect, to `done`; `Settle` is what follows
`doFetch`'s result: the cache entry, the `finally` block, the answers of all who
wait. Servers may send any redirect, any ending, or nothing. The address check,
byte counts and bodies are reduced to how a request ends. The timer fires when it
is due: an event loop that is late is not modelled.

### TelegramScan, MtprotoClient and OwnershipCache

Every await of `scanTelegramEntity` is an action: `GetChat`, `GetById`, the store's
`FindObserved`/`GetObserved`, `Lookup`..`LookedUp` (MTProto), `GetCached`,
`GetDnsInfo`, `GetOwnerLast`/`GetHistory` (Fragment), `RecordSnapshot`,
`GiftsOfChat`. The local variables of a scan are the record `scan[s]`. Scans share
the connection, the cache and the entity store, whose rows are here the two newest
snapshots of an entity, all a comparison reads. The chain hands names over at any
time (`Transfer`), between Fragment's two answers too. Cached entries move as the
JavaScript `Map`'s do. How much a name resembles a brand, and what an id's age is,
are constants, computed by `HandleSimilarity` and `IdAge`.

A call to the store may reject (`StoreRejects`): `findEntityByUsername`, `recordSnapshot`
(whose row may be there all the same) and the reads of the gift check. Nothing catches
that, so the scan ends without a report and what it found is lost; every property of
reports is one of the scans that have one (`done`), and `EveryScanEnds` counts both ends.

In `MtprotoClient` a connection is named by its number; `clientPromise` and
`resolvedClient` are the two variables the code keeps, `closing` the `close` of each
termination signal, of which there may be two at once.

### The sequential modules

`Sequential` has the two entity stores under one caller's calls, or picks an input of
a kind once and judges it; `Batches` are the inputs TLC picks from. The inputs an algorithm may be given are
sets: `Transactions` and `Worlds` (every list of messages, every state and failure of
TONAPI), `Tables` (every sequence of anchors with distinct ids), `Links` (every host,
path and query). `SamplesAssumption` says that what is picked is in its set, so that a
theorem about the set is an invariant of `SequentialSpec`.

`TransactionScan`: a message records under which key each field stands and what is
in it, because the static decoder (`message-parser.ts`), the emulation's parser
(`emulation-scanner.ts:522-622`) and the request builder
(`request-builder.ts`) each accept other keys and forms. What stops an emulation is
a list of obstacles in the order of the code, the first of which gives the result.
A failing call of TONAPI has a status and an error that carries it (`thrown`): on
`error.status`, as mocks and an older SDK do, or on `error.cause.status`, as
`fragment-intel/src/failure.ts:71-90` says the SDK in use does. `extractHttpStatus` reads the first
only, as `emulate.ts:259-267` and `sender-metadata.ts:139-147` do.

`InputClassification`: a paste has the shape that the regular expressions tell
apart; a link is its parts as `URL` has parsed them. A word is a name unless it is
in `NoUsernames`.

`HandleSimilarity`: a word is the sequence of its skeleton's characters. Fractions
are compared in millionths; rounding of floating point numbers is left out.

`IdAge`: days are integers; the table is any sequence of ids and dates.

## 3. Runs

| Run | Shows | Bounds |
|---|---|---|
| `scan_races` | racing requests get one report (`AnswersConverge`), `save` implements the atomic store (`StoreIsAtomic`), every request ends | 3 requests, so that two can race while a third has stored; 2 processes, one a bot; 2 links with one key and one scan result each for good and bad |
| `scan_inputs` | a stored report fits the request it answers (`ReplyFitsInput`), no stale `NOT_CONFIGURED` finding, live scans never stored | 2 requests (one stores, one reads), all pairs of 29 inputs of the same kind, `tg://resolve` links and a bot without a name among them, 4 configurations, restarts at any point |
| `scan_retry` | a comment the code contradicts (section 6) | 1 page |
| `entity_store` | cooldown under concurrency, the entity row only gains, pruning is oldest-first, capped and complete | 2 observers of 1 entity, 4 ticks of the clock, 2 rows, cap 1 |
| `sequential` | the in-memory entity store answers as Postgres does and histories are timelines; undeclared transfers are flagged; two decoders read one transaction, and an emulation that shows what was sent flags none of it; TONAPI's failures stay quiet; edit distances, best matches and spread-out names against their definitions; ages follow ids; a link is read alike in all its spellings | see below |
| `diff_relabelled` | a comment the code contradicts (section 6) | as `sequential` |
| `access` | the in-memory bucket is exact (`BucketIsExact`, `RetryIsExact`); with Redis, `Retry-After` is honest and expiry invisible; a revoked key stays out | 2 clients, 2 keys of 2 tiers, buckets of 1 and 2 tokens and 3 parts to a token, so that refills are fractional; 2 tries; 3 ms |
| `bucket_reordered` | reordered checks refill the same time twice (section 6) | 3 clients |
| `catalog` | overlapping refreshes are serial and lose nothing, every tick and shutdown ends, no false flag | 2 ticks, which is what overlaps; 2 gifts, so that locks can form a circle; 1 scan of 3 inventories |
| `fetch` | one source per URL, bounded age of pages, oldest entry evicted, every call ends | 2 callers, 4 URLs (one not https), 1 redirect, a cache of 2, a timeout and a time to live of 1, 4 ms |
| `fetch_rejected` | a broken body rejects the promise (section 6) | 1 caller |
| `telegram` | one connection per `close`; a hand-off reported happened, and one that happened is missed only for a failure or a cut history; the cache is sound; no report is silent about its entity or drops what the handle showed; every scan ends, with a report or a rejected store call | 2 scans, 2 names (a cache of 1), a bot that changed its name and a channel, 4 deployments, 2 transfers of each name, 2 signals |

`sequential` picks an input and judges it, so that one run covers the pure
algorithms. Its samples: lists of up to 3 plain sends and lists of up to 2 messages that
depart from a plain one in one field, with every kind of list and sender, against
emulations of up to 3 actions; words of up to 3 letters out of 3, and words two
edits from a 12-letter key, since the grades of similarity only part on long ones;
watchlists of 2 brands that share keys; texts of up to 4 tokens; tables of 5 anchors with
dates in any order; links with up to 2 path segments, 3 parameters, every trigger and every
way a name is not a name. Failures come with both shapes of error. No sampled parameter is empty; parameters given twice are
sampled but not respelled as `tg://resolve` (`NoneTwice`), and a link that writes the
name of `domain` in capitals is not compared by its key (`DomainIsLower`; section 6). The anchors' ids are distinct, as in the shipped table. The entity stores
are given 4 calls over 2 entities, 2 usernames and none, with 2 rows for the 50.

In `access`, keys come and go while the bucket is in memory and the clock has not moved,
and several tiers occur in memory only (`Calm`, `MCInit`); in `telegram`, the chain
and the clock move when Fragment is the only client, shutdown comes when it is
not one, and an input that is a user or a bot is left out when it is the only one
(`CalmSpec`). This keeps unrelated sources of states from multiplying; the theorems
of section 4 are about the unrestricted specifications.

`scan_inputs` constrains the two requests to one kind of input (`OneKind`): keys
start with the kind (`canonical-hash.ts:29-97`), so inputs of two kinds cannot
meet. `entity_store` states `NoDoubleInsert` for rows that retention cannot have
taken yet, since pruning runs beside it.

Deadlock is off where the system may stop: all requests have ended, all calls or
ticks are made, the clock is at its bound. Symmetry is used for requests and
processes (`scan_inputs`) and clients (`access`, `bucket_reordered`), never with a
liveness property.

### Fairness

- `ScanService`: weak fairness of `Receive` and of each request's own steps. The
  event loop resumes every handler, and every await settles because each client
  has a timeout (safe-fetch 5 s, `fetcher.ts:161`; Bot API and RPC clients,
  `apps/bot/src/index.ts:60-65`). Nothing is assumed about failures or restarts.
- `EntityStore`: time passes, and `setInterval` keeps firing
  (`apps/worker/src/retention-loop.ts:78`). Observers are not fair.
- `GiftCatalog`: the Bot API call settles, either way; a statement whose locks are
  free runs; Postgres looks for deadlocks; `shutdown` goes on when what it awaits
  is there. Nothing is assumed about ticks being started.
- `SafeFetch`: the clock, the timer and the microtasks of the event loop. Servers
  owe nothing.
- `TelegramScan`: a scan's own steps, each of which settles because the HTTP clients
  have timeouts, and the settling of a connection, which tries a bounded number of
  times (`mtproto-client.ts:72-90`). Nobody must scan or shut down.

## 4. Proofs

The proofs are about every value of the constants that the modules' assumptions
allow.

`ScanServiceProofs` proves, for any sets of processes, requests, inputs,
configurations and statuses that satisfy `ScanServiceAssumption` (and with `Null`
not itself a report), what the runs of `ScanService` check, liveness
excepted, and two properties no run repeats: `save`'s second
statement finds its row (`NeverVanishes`), and no stored report changes
(`StoredForever`).

The invariants are not inductive by themselves. The strengthening `IInv` adds:

- two stored reports with one hash are one report (the unique constraint),
  and every stored report is a scan of its own request's input with its own
  request's providers;
- a request at `insert` or `reselect` holds its own scan in `fresh`, is cacheable,
  and at `reselect` its hash is already stored, which is what makes `save`'s
  "vanished after conflict" unreachable, since no step removes a report;
- a request that was answered through the store was answered with a stored report
  of its hash, one that was not with its own scan.

`AnswersConverge` is then uniqueness; `LiveScansStayOutOfTheCache` and
`NoStuckNotConfigured` follow from what a cacheable input's configuration can be;
`StoredForever` is read off the actions. `SaveIsAtomic` proves the refinement:
`InsertReport` maps to `Save`, a lookup hit or `SelectExisting` to `Serve`,
`InsertUnacknowledged` to `SaveUnacknowledged`, `Receive` to `Ask`, everything
else stutters.

`SafeFetchProofs` proves every safety property of `SafeFetch`, for any callers, URLs,
redirect limit, timeout, time to live and cache size that satisfy
`SafeFetchAssumption`. Its `IInv` adds to the types and to `FreshAnswers`:

- `Registered`: a fetch under way is in `inFlight` under the URL it was asked for,
  and its own caller waits for it, so one URL has one fetch;
- `NotBoth`: no URL is cached while it is being fetched, because a call that misses
  takes the expired entry out in the step that registers the fetch, and `Settle`
  unregisters it in the step that caches its page. `SingleSource` follows;
- `Sorted`: the cache holds a URL once and is ordered by its stamps, because an entry
  is stamped as it is appended and never moved, so that evicting the head evicts the
  oldest (`OldestIsEvicted`);
- `InTime`: a fetch under way is within the timeout, and an entry was stamped within
  the timeout of its page's headers, which bounds the age of an answer
  (`AnswersAreFresh`).

`EntityStoreProofs` proves every safety property of `EntityStore`, for any observers,
entities, cooldowns and cap. `LastSightingsCover` is about last sightings: an older observation that
commits later does not move `first_seen_at` back, and nothing is claimed of it.
`LastSeenCovers` is inductive, since the upsert takes
the later of two times and a row's `lastSeenAt` is what a snapshot is covered by.
`NoDoubleInsert` and `PruneIsOldestFirst` are about a step and need:

- `OneHolder`: two transactions on one entity are not both past the advisory lock;
- `ReadHolds`: what a transaction read is still the newest row of its entity when it
  decides, and only retention may have taken that row. Without the lock it fails, as
  the mutant of `AcquireLock` shows.

`EntityStoreMirrorProofs` proves that the two stores agree (`SameAnswers`) and that
histories are timelines, for any number of calls. The two keep different data, so the
invariant is a correspondence: the rows of an entity are the entries of its array
(`Corresponding`), the array ascends in time (`InOrder`), rows have times of their
own (`Timed`), and `keys` lists each entity with a history once. A row's rank
by time is then its position, so that `ORDER BY` gives back the array, and as many
candidates precede a candidate as rows precede its row, so that a capped retention run
deletes the same snapshots from both (`SameDeletions`). Ranks are counted with
the library's theorems on cardinality, which replaces an induction over the array.

`GiftCatalogProofs` proves every safety property of `GiftCatalog`, for any gifts,
inventories and overlap of ticks. `CatalogIsSerial` needs `RowLocks` (a row is held by one
transaction) and `RowsAreCommitted` (the tick a row names has committed), since
a refresh that commits holds all its rows until then; `NoFalseFlag` needs `Covered`
(every list written has the gifts that are always offered, and a scan compares with a
catalog that is not empty); `LatestTickCompletes` needs `Awaited`.

`ApiAccessProofs` proves every property of `TokenBucket`, for any limits, costs and
clients. Its parts: `Timely` (what the clock allows, among it that a key outlives its
last use by `Ttl`), `Promised` (the level a bucket reaches at the times an answer
names), `Exact` (in memory, the bucket is from now on as full as the last answer left
it) and `Windowed` (at every later time its level is no more than any window of the
history of grants leaves, and at least some window of the smallest tier). That
`retryAfterMs` is the first sufficient moment, and a level the least of windows, are
first-order facts about a division rounded up and about the refill; nothing is
added up by induction.

It proves `RevokedKeyStaysOut` of `ApiAccess` from `LateIsRefused`: a request that
presented a key already gone is still to be verified, and the key is still gone, since
no step brings a key back, an unawaited touch included. `GateUsesTheBucket` is the
refinement `AccessSpec => Spec`: each step of the gate is a step of the bucket or
leaves the bucket alone. By it `AnswersBehindTheGate` carries the theorems of the bucket over
to the API. `access` checks them on `AccessSpec`; the theorems that list the run's
properties state them of `Spec`.

`TelegramScanProofs` proves every safety property of `TelegramScan`, for any scans,
names, transfers, signals and cache size. Beside the types its `IInv` has:

- `Connections`: of the connections ever begun all but one were ended by a `close` of
  their own, which bounds their number;
- `Timeline`: transfers are recorded in the order of their times, so that an answer
  that knows the last transfer knows all that matters;
- `CacheIsBounded`, `CacheIsVouched`: a cached answer tells of a transfer that
  happened, and a transfer it does not know of is less than a time to live older than
  the entry's end;
- `ScansStand`: what a scan must have established to be where it is (`Asking`,
  `Looking`, `Looked`), and that whatever it was told is vouched for (`Truthful`). Each
  function a scan is composed of is shown to lead from one such record to another.

`RepliesFit` proves `ReplyFitsInput` for any inputs the classifier makes. Its heart is
`KeyKeepsTarget`: inputs with one key are scanned alike, unless one of them is of the two shapes
`SharesKey` names, `tg://resolve` with `domain` in capitals and `tg://addBusinessBot` with an
empty `bot`. That a lowered URL tells the account it names (`SameAccount`) takes the first
parameter called `domain` in each: lowering keeps their positions, and a name in lower case
is the only one that is lowered to `domain`. The exceptions are part of the property; without
them the code does not have it (section 6).

`SequentialProofs` proves what `sequential` checks of the algorithms, but for
`HandlesAreJudged`, of every input. An invariant (`SampleIsInput`: what is picked is an input,
or a batch of them) makes the theorems about all inputs invariants of `SequentialSpec`.
What would be an induction over a sequence is an argument about positions instead: a
first, last or least counterexample, and numbers of positions counted with the library's
theorems.

- `DecodersAlwaysAgree`: what either decoder accepts of a list, that both read a payload under
  `payload` and a deployment under `stateInit` alike, and that a malformed message ends the
  emulation with the one finding both paths share. Of payloads and deployments under other
  keys it says nothing, since there the decoders differ (section 6).
- `OutagesAreAlwaysQuiet`: whatever of the status arrives, a failing call is the first obstacle met, or a later one and
  then nothing changes; its finding adds at most ten points, and a verdict's level is a
  number of thresholds reached, of which ten more points reach at most one more.
- `UndeclaredAlwaysFlagged`: pairs that agree are mapped, one to one, to emulated transfers
  that are no oftener emulated than declared; so at least as many are flagged, in a pair that
  differs or past the end of the declared list, as are emulated oftener.
- `DeclaredIsNeverHidden`: of an emulation that shows each built message as what it is, the
  transfers stand at the positions of the declared sends, so the two filtered lists are one.
- `AgesAlwaysFollowIds`: sorting ascends, smoothing is the prefix maximum of the dates, the
  binary search parts the anchors at the id, and on the line between two anchors the rounded
  dates ascend and stay between theirs.
- `LinksAreAlwaysReadAlike`: what a path is parsed as depends on its first word, its lowered
  name, what follows and the query (`PathOf`), none of which a respelling changes;
  what `tg://resolve` passes on is the query without `domain`; an object with distinct keys
  can be read from the set that is hashed; and the lowered URL of a plain link tells its
  words, so the account it names (`SameHandle`), if `domain` is in lower case.

The assumptions are those the modules state beside their constants, and TLC evaluates
each in a run. Those the code has to justify: bounds and costs are positive; a tier with
a larger bucket does not refill slower (`tiers.ts`); `TtlAssumption`; a scan costs a token
(`CostAssumption`); finitely many gifts and signals; a chat's list of gifts that is compared is not empty
(`GiftCatalogAssumption`); the ownership cache's capacity and time to live are at least 1;
the limits of the id table are numbers (`IdAgeAssumption`); "" and "nft" are no
usernames (`NoUsernamesAssumption`).

Only model-checked:

- liveness (`EveryRequestEnds`, `OldRowsGo`, `EveryTickEnds`, `EveryCallEnds`,
  `EveryScanEnds`), which is out of the prover's reach;
- `HandlesAreJudged`: that the rolling rows of the edit distance hold the least number of
  edits, and that a fold over a watchlist finds the best match, are inductions over data.

## 5. Plan

The components of the system that hold state or decide something are modelled, and
every safety property about more than one step of them is proved. What is left:

1. `HandleSimilarity`: its folds and its edit distance are written as recursive computations; the
   best match of a watchlist could be a first maximum over positions, as the first obstacle of
   `TransactionScan` is, and then be proved.
2. Lemmas shared by two proof modules (`Ranks`, in `TelegramScanProofs` and
   `EntityStoreMirrorProofs`) into one module both extend.
3. The entity store and the Telegram scan are separate models: a composition in which
   concurrent scans record through the advisory lock would show what a scan compares its
   snapshot with.

## 6. Where code and text disagree

Shown by a run:

- `scan_retry`: an unreachable page's empty report is stored and served for good,
  though `miniapp-scanner.ts:59-61` "lets the user retry".
- `bucket_reordered`: the Lua script writes the check's own stamp to
  `last_refill_at` even when it is older, so concurrent checks refill the same
  time twice; `tiers.ts:8` calls `refillPerSecond` the steady-state rate.
- `fetch_rejected`: on the first hop a body that breaks off or outlasts the timeout
  rejects `safeFetch`'s promise, and the scan with it, though
  `miniapp-scanner.ts:25` "degrades silently".
- `diff_relabelled`: sends and transfers are paired by position after filtering, so a
  send that TONAPI labels otherwise shifts the later ones, and they are flagged;
  `diff.ts:154-157` says a re-labelled send "is NOT flagged as a mismatch".

Modelled as the code has it, with a property that passes and says where it stops:

- A payload under `body` or `stateBody`, or a deployment under `init`, is read by the
  static decoder (`message-parser.ts:107-109`) and not by the emulation's
  (`emulation-scanner.ts:590-591`). A send with such a payload is decoded as a call,
  emulated as a plain send, and flagged as a hidden action, of which `diff.ts:135-137` says
  that the messages "did not declare this transfer". `MessagesAreReadAlike` compares
  payloads and deployments, and has no declared send flagged, for TON Connect's own keys
  (`InOwnKeys`).
- The status of a failed TONAPI call is read from `error.status` only (`emulate.ts:264`,
  `sender-metadata.ts:144`), though `fragment-intel/src/failure.ts:78-81` finds it on
  `error.cause.status`: a 429 is then `EMULATION_PROVIDER_DOWN`, not the
  `EMULATION_RATE_LIMITED` of `emulation-scanner.ts:37`. `OutagesStayQuiet` is of both
  kinds of error, and says nothing of the finding's name.
- A store call that rejects (`scanner.ts:233`, `439`) takes the findings on the pasted handle
  with it, though `scanner.ts:121-124` wants them "regardless of whether the handle
  resolves". `PastedHandleIsJudged` is of the scans that have a report, and says which may
  have none.
- The key lowers a Telegram URL whole, so `tg://resolve?Domain=durov`, which names nobody,
  shares a report with `tg://resolve?domain=durov`, though `canonical-hash.ts:8` has equal
  hashes only for equal reports. (The comment at `canonical-hash.ts:35-36` also says that the
  path's case is kept.) A `tg://addBusinessBot` with an empty `bot` shares its key with one
  without, though only the first is looked up. `ReplyFitsInput` leaves out these two (`SharesKey`).
- The refresh loop remembers the last tick only (`refresh-loop.ts:78`), and `process.exit`
  cuts an older one off, though `refresh-loop.ts:22` says running ticks complete.
  `LatestTickCompletes` is of the last.

Read in the code, not checked by a run:

- Storage. `recordSnapshot`'s `previous` may be observed later than the snapshot it is
  compared with, and the change is then reported backwards; when the snapshot is
  suppressed it is the row before the stored one (`scanner.ts:464-466`), so that a change is
  reported again within the cooldown. The in-memory entity store orders by arrival, and
  looks usernames up in insertion order, though it "mirrors the Postgres impl's
  semantics" and walks "newest-first"; and Postgres gives up on a username after the 50
  newest rows that had it. `SameAnswers` therefore holds for advancing clocks, and for a
  username that only one entity shows and that no more rows have. An older refresh that commits last
  leaves its fields under a newer `lastRefreshedAt` (`gift-catalog-store.ts:84`).
- Rate limit. The bucket is the tenant's but the limit the key's tier
  (`server.ts:125-126`): a check with a smaller tier caps what a larger tier's key had
  left.
- Links. Of a parameter given twice `tg://resolve` takes the last value
  (`deeplink-parser.ts:230` sets it again) and `t.me` the first. A bare `@joinchat` is
  scanned and `t.me/joinchat` is not, though `classify-input.ts:9-10` wants them
  classified identically. The comment at `deeplink-parser.ts:49` calls
  `extras.attachBot` what the code stores as `extras.attach`.
- Telegram. A rejected MTProto connection stays cached until `close`, so MTProto fails
  until a restart. A handle MTProto does not find is reported as
  `BOT_API_NOT_CONFIGURED` where the Bot API is off. `getChat` calls a bot "user", MTProto
  "bot", so an entity's kind alternates with its source. MTProto's `username` is null for
  an account that has `usernames` only. `fragment-handoff.ts:145-147` preserves "any handoff findings",
  of which `mergeResults` keeps one. No app passes `forwardOriginUser` or `numericId`.
- Transactions. `request-builder.ts` says that "static and emulated paths reject the same set
  of inputs": numeric amounts, raw `0:` addresses and empty payloads pass the static
  decoder and not the builder; the keys `body`, `stateBody` and `init` are read by the
  former only, `state_init` by the latter. `emulation-scanner.ts:50-52` has the caller dedupe
  actions that agree, which `basic-scan.ts` does not.
- Similarity and age. `handle-similarity.ts:90` gives 2 as the distance of "ca" and
  "abc"; the code computes 3, the optimal string alignment. The header of
  `id-age-estimator.ts` gives other limits than the code for the tight band (30 days, code 35),
  for ids below the table (null, code clamps) and after 2022.

## 7. Not modelled

Formatting and logging, environment parsing, the web placeholder: no state and
no order. SHA-256 and the HTML and cell parsers: taken as functions. The
database engine: `INSERT ... ON CONFLICT`, advisory locks, row locks, deadlock
detection and commit are modelled as Postgres documents them. Migrations run once,
before the program.

Of the partly modelled components: the manifest, Mini App and gift scanners are
their outcomes in `ScanService` (fetched or not, good or bad), because what they find is
a property of a page's text; `business-rights-parser.ts` and `watchlist.ts` are tables of
names; `ip-validator.ts` is a table of address ranges, reduced in `SafeFetch` to its
verdict; wallet contracts and signatures are `@ton/core`'s; the body checks of the API
only turn requests away. The retention loop's schedule is that of the refresh loop.
