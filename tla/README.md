# A TLA+ model of http-smtp-rele

http-smtp-rele is an HTTP gateway in front of one SMTP server: a client posts a
message with an API key, the relay checks it, submits it over SMTP, answers, and
keeps a status record the client can look up for a while. This directory models the
parts of it whose correctness depends on order, concurrency, limits or failures,
checks them with TLC, and proves the central ones with TLAPS.

Paths below are relative to `src/crates/http-smtp-rele/src/` unless they start
with another directory.

## 1. The system

| component | state | operations | talks to |
|---|---|---|---|
| status vocabulary and trait (`status.rs`) | – | `is_terminal`, `is_expired`, the `StatusStore` trait | implemented by the stores |
| in-memory store (`status_memory.rs`) | map behind an `RwLock`, configuration (`ArcSwap`), gauge, expiry counter | `put_received`, `set_recipient_metadata`, `update_status`, `get`, `expire_old_records`, `record_count`, `reload_config` | called by handlers, status endpoint, cleanup task, SIGHUP |
| SQLite and Redis stores (`status_sqlite.rs`, `status_redis.rs`) | a table; keys with TTL | the same trait | the same callers |
| cleanup task (`crates/cli/src/main.rs`) | – | calls `expire_old_records` for ever | store |
| send handler (`api/send.rs`) | locals of one request | eleven steps from put to answer | store, limiter, policy, validation, mail, smtp |
| bulk handler (`api/send_bulk.rs`) | locals, a semaphore, a `JoinSet` | phase 1 checks, phase 2 submits | the same |
| rate limiter (`rate_limit.rs`) | one global bucket, a bounded table of IP buckets, a map of key buckets, a mutex each | `check_global`, `check_ip`, `check_key` | handlers, in that order |
| SMTP submission (`smtp.rs`) | pooled transport | `submit` with a timeout | SMTP server |
| router (`api.rs`) | permits of the concurrency limit and their queue | request id, concurrency limit, timeout, body limit | lets requests in, drops handlers |
| authentication (`auth.rs`) | – | an extractor: client address, source networks, token, key | configuration; handlers |
| policy (`policy.rs`), validation (`validation.rs`, `sanitize.rs`), message building (`mail.rs`) | – | pure functions of request and configuration | handlers |
| configuration (`config.rs`, `config/validate.rs`, `lib.rs`) | `ArcSwap<AppConfig>` | load, validate, `merge_reloadable`, `reload_config` | everyone |
| status, key, health, metrics endpoints (`api/*.rs`, `metrics.rs`) | counters | reads | store |

What is hard in it:

* **Concurrency.** Handlers, lookups, the sweep and SIGHUP meet in the store and in
  the limiter. `get` gives up a read lock before it takes the write lock;
  `expire_old_records` reads the clock before it has the lock; the three tiers of the
  limiter lock one after the other. The Redis store locks nothing: it reads a record,
  decides, and writes it back.
* **Failure and time.** The only `await` of a send handler is the submission. There
  the submission timer, the request timer or a client that hangs up may end it, before
  or after the SMTP server has decided. A dropped bulk handler aborts its tasks. The
  SQLite store's rows outlive a crash between two statements of one call.
* **Reloads.** SIGHUP replaces the configuration in two steps under requests that read
  it more than once, and half of it may not change while the process runs.
* **Limits.** `max_records`, `ip_table_size`, bursts, `bulk_concurrency`,
  `concurrency_limit`, each with a boundary case at zero, and `max_records` may be
  lowered while the process runs. Attachments are measured three times, as base64 text
  before decoding, as bytes after it, and in sum.
* **Identity.** A request is authenticated under one configuration and handled under
  another. A key is found by its secret once and by its id the second time, in a list
  where neither needs to be unique.
* **Order.** Bulk tasks finish in any order; clients read results by position.

What makes each part correct: a store shows an owner their submission until it
expires or room is needed, never shows anyone else's, never changes an outcome, and
counts what it deletes once; record, answer and what the SMTP server did agree;
limits hold over every window of time and under every interleaving; a message goes
only where the caller's key may send; what was begun is finished, or at least ended.

`PROJECT.json` lists every component with its status, and the hazards line by line.

## 2. Modules

```
SubmissionStatus            statuses, records and what clients see of them
├─ StatusBoard              contract of the StatusStore trait (abstract)
├─ StatusStoreMemory        the in-memory store and its sweep ── implements StatusBoard
│   ├─ StatusStoreMemory_proofs
│   └─ MCStatusStoreMemory
├─ StatusStoreSqlite        the SQLite store, crashes and restarts ── implements the lossy contract
│   ├─ StatusStoreSqlite_proofs
│   └─ MCStatusStoreSqlite
├─ StatusStoreRedis         the Redis store and what Redis does to its keys ── the same
│   ├─ StatusStoreRedis_proofs
│   └─ MCStatusStoreRedis
├─ SendMail                 POST /v1/send × StatusStoreMemory × SMTP server × router
│   ├─ SendMail_proofs
│   └─ MCSendMail
└─ SendBulk                 POST /v1/send-bulk × StatusBoard × SMTP server × request timer
    ├─ SendBulk_proofs
    └─ MCSendBulk
Authentication              the extractor: address, token, key
└─ Validation               what a message may contain and to whom it may go
    └─ Admission            one request under two configurations
        ├─ Admission_proofs
        └─ MCAdmission
RateLimiter                 the three-tier limiter
├─ RateLimiter_proofs
└─ MCRateLimiter
ConfigReload                SIGHUP, merge and replacement × requests
├─ ConfigReload_proofs
└─ MCConfigReload
```

### StatusBoard
`board[id]` is what a lookup by the owner finds. Every operation of the trait is one
atomic step, `Forget` removes entries for whatever reason (lifetime, room), `spent`
remembers the ids that may not come back. There is no clock, capacity, lock or metric.

`LossySpec` is the same contract with one more step, `Miss`: a lookup may find nothing
although the entry is there, and may delete the entry it did not return. The persistent
stores need it: in SQLite for a lookup that finds a row expired which is still in the
table, in Redis for one that comes while a value is gone and a handler holds a copy.
What clients rely on, `AnswersNeverRegress`, speaks of found entries only and allows for
it.

### StatusStoreMemory
`records` is the map, a function from every id with `Absent` where the map has no
key. An action is one critical section of the `RwLock`:

| code | action |
|---|---|
| `put_received` | `PutReceived`, with the eviction; `PutFresh` adds what callers do: a fresh ULID, a `created_at` taken up to `MaxLag` earlier, a ttl of their own configuration snapshot |
| `set_recipient_metadata`, `update_status` | actions of the same name |
| `get` | `GetRead` (read lock; answers, or remembers the id in `upgrading[c]`), `GetExpire` (write lock, second lookup) |
| `expire_old_records` | `SweepBegin` reads the clock into `sweepNow`; `SweepEnd` holds the lock for both steps of the function |
| `record_count` | `CountRead` (takes the length under the read lock), `SetCurrent` (sets the gauge to it, with the lock given up) |
| `reload_config` | `ReloadConfig` |

`Counters` are the callers of `record_count`: the cleanup task has no such call and
only tests make one, but it is part of the trait. `counting[n]` is a length on its way
to the gauge, `counted` what has happened to the map since the length the gauge was
last set from was read.

`is_expired` is strict (`now > expires_at`) and the sweep's comparison is not
(`expires_at <= now`); both are kept. Eviction picks the least `created_at`, ties
broken by hash order, here by choice.

### StatusStoreSqlite
The table behind one mutex. Each SQL statement is a transaction of its own, so a call of
two statements is two steps, with the mutex (`conn`) held between them:

| code | action |
|---|---|
| `put_received` | `PutEvict` (`evict_if_needed`), `PutInsert` (`INSERT OR IGNORE`) |
| `set_recipient_metadata`, `update_status`, `get` | one step each; a `get` that finds nothing deletes by id and age (`DeleteStale`) |
| `expire_old_records` | `SweepBegin` reads the clock, `SweepDelete`, `SweepTrim` |
| `record_count`, `reload_config` | `RecordCount`, `ReloadConfig` |
| the process dies and is started again | `Crash`: the table stays, metrics and calls under way do not, the cap may be another |

A statement may fail wherever the code swallows or reports that; what the code takes a
failed `COUNT` or `DELETE` for (zero) is kept. Instants are read before the mutex is
taken: up to `MaxLag` ticks old (`Instants`). `uncounted` remembers what the gauge was
started without.

`BoardEntry` puts an entry on the board for as long as its row is in the table, expired
or not: a lookup that waited for the mutex judges by its old instant and may still show a
row that has expired meanwhile, and another that judges by a younger one finds nothing.
So a `get` of an expired row is a `Miss`, and the store implements `LossySpec`
(`ImplementsBoard`). A put is the board's put at its `INSERT`; the deletions of
`evict_if_needed` and of the sweep are `Forget`; an `INSERT` that fails and a crash are
stutters. `AnswersStable` is what clients may rely on.

### StatusStoreRedis
One step per command: `Put` (EXISTS) and `PutSet` (SETEX), `ReadMetadata` or
`ReadStatus` (GET, and the decision) and `WriteBack` (SETEX of the whole record with the
time that remained at some instant between the GET and the SETEX, when the handler
looked at its clock), `Get` (GET) and `GetDelete` (DEL). `writing[id]` is what the handler
of a record is about to write, `deleting[c]` what a lookup is about to delete. A key
lives for whole seconds of `Second` ticks while `expires_at` is exact. `Evict` is Redis
dropping a key (memory policy, restart). A command may fail, executed or not.

A rewrite may bring back a key dropped since it was read, and the board's entries do not
come back. `BoardEntry` therefore shows the `Latest` of a record: the value under its key
or, where there is none, the copy a rewrite holds, until `expires_at`. The rewrite moves
the entry when its SETEX is executed, or already when the key is dropped under it;
the entry is forgotten when the write fails after that, and a lookup in between is a
`Miss`. Seen so, the store implements `LossySpec` (`ImplementsBoard`), and
`AnswersStable` holds because one handler writes a record and its calls come one after
the other.

### SendMail
`pc[r]` is where the handler of request `r` is: `queued` (waiting for a permit of the
concurrency limit), `idle` (reading the request), `checks`, `build`, `submitting`,
`done`, or `dropped` by the request timer or `left` by the client. `Enter` takes a
permit; it is held until the request is over, however it ends. The layer is outside
`TimeoutLayer`, so that a request that waits for a permit has no timer. The other actions
are cut at the calls on the store and at the await: `Refuse`, `Receive` (put), `Reject` (steps 4 to 8), `Validated` (metadata), `BuildFails`,
`Submit`, `SubmitOk`, `SubmitFails`, `HttpTimeout`, `ClientLeaves`. `mail[r]` is the
SMTP server's side: it decides when it likes. The store is an INSTANCE of
StatusStoreMemory without `Counters`, so that evictions, expiry, sweep and SIGHUP
happen in between.

### SendBulk
One request. Phase 1 is synchronous code, cut at its calls on the store; phase 2 is a
task per message, `task[i]`, that waits for a permit, submits, finishes and is joined.
`HandlerDropped` models the drop of the handler's future: the `JoinSet` aborts the
tasks, except that a poll already running on another worker thread goes on until it
yields (`polling`). A task that is not aborted goes on as before, whether or not
there is a handler; an aborted one gives its permit back. The store is StatusBoard with `Forget` at any time: what holds here
holds on every store that implements the contract.

Results are put in order by index. `InOrder` states that by a bijection between
positions, which the provers can expand, where `SortSeq` they cannot.

### Authentication, Validation, Admission
`Authentication` and `Validation` are pure operators with the names of the functions
they stand for: `resolve_client_ip`, `extract_token`, `find_matching_key`,
`from_request_parts`; `validate_mail_request` with what it calls, `build_message`.
Addresses, tokens and networks are values and sets of values. A text or a mail
address is a record of what the checks ask about it (a line break, a NUL, quotes,
capitals, a length); an attachment of its length and of whether its data is base64.
`Admission` puts them to work: `Authenticate` runs the extractor under the
configuration in force, `Handle` looks the key up again and validates under the one
in force then, `Reload` may come at any time. `auth.entry` remembers which entry of
the list the caller was authenticated with; the code keeps its id only.

### RateLimiter
A tick is a second, a token is `Minute` units, so that a rate of n per minute adds n
units a tick and refills are exact. One step per tier and request, since each tier has
its own mutex. `order` is the queue of `LruMap`. An observer (`since`, `granted`)
may start to count tokens at any time, so that the window bound is about every window
and not only the one that begins at start-up.

### ConfigReload
`file` is what the operator has left in the configuration file, `signal` a SIGHUP not
received yet (tokio keeps one, however many come). The reload task receives, loads and
validates (`Load`), hands the merged status section to the store (`Store`) and replaces
the application's configuration (`Swap`). Sections of the file are values: `fixed`
stands for `[server]`, `[smtp]` and `[rate_limit]`, `open` for `[mail]` and `[logging]`,
`network` for the proxy and CIDR settings of `[security]`; keys and the status section
keep their fields. Rules of `validate_config` about one field are the value
`Malformed`; those about several fields are spelled out. A request reads the
configuration at authentication and again in its handler, here `GET /v1/keys/self`.
`built` remembers the configuration of start-up, from which router, transport, limiter
and store were made.

## 3. What the runs check

Bounds are named in the modules (`MaxTime`, `MaxLag`, `MaxBulk`) and set in the `.cfg`.

| run | bounds | what it shows |
|---|---|---|
| `store_race` | 2 ids, 2 lookups, cap 1, ttl 1, time to 2 | `ExpiredCountedOnce`, `UpgradesFindTheDead`: the gap between the two locks is harmless. Two lookups and the sweep can all have seen one record expired, and an insert can evict it first. `ImplementsBoard`: seen by its clients, the store is the contract. `ExpiredAreSwept` under fairness of the sweep |
| `store_cap` | 3 ids, 1 lookup, 1 caller of `record_count`, ttl 1 or 2, caps 0, 1, 2 moved by reloads, instants up to a tick old, time to 2 | `EarlyLossOnlyAtCap`, `YoungerNeverEvictedFirst`, `CapEnforced`. Three records under a cap of two are enough for a choice of victim, and a cap lowered by two for a sweep that evicts more than one. `GaugeTracksStore`: a `record_count` may set the gauge to a length that a put, a lookup or the sweep has made wrong since; the gauge is then wrong by no more than that, and evictions leave it too high only until the next count |
| `sqlite_crash` | 2 ids, 1 lookup, caps 1 and 2, ttl 1, instants up to a tick old, time to 2, one crash or failed statement anywhere | `EarlyLossOnlyOfOldestAtCap`, `CapEnforced`, `AnswersStable`, `GaugeMissesOnlyUncounted`, `ImplementsBoard`, and `ExpiredAreSwept` under fairness. A cap of 2 under two ids is enough for a victim to be chosen and for a table at its cap; a cap lowered to 1 for one above it |
| `redis_evict` | 1 id, 2 keys, 2 lookups, ttl 1 or 2 seconds of 2 ticks, time to 5, 2 failed commands | `UpdatesKeepLifetime` (an update does not move `expires_at`; its key goes less than a second before that, and outlives it by no more than the call took or a second), `LookupsDeleteOnlyExpired`, `AnswersStable`, `ImplementsBoard`. Time to 5 lets a record of 2 seconds expire and its key outlive it. Records do not interact, so one id is enough; two lookups can race each other and the handler. Keys and lookups are symmetric |
| `send_two` | 2 requests, caps 1 and 2, three settings of the server | `StatusTellsTruth`, `AnswerMatchesRecord`, `EveryRequestAnswered`, `EveryRecordSettles`. With a cap of 1 the second request evicts the first one's record in mid-flight; with a single permit the second waits for the end of the first, whichever way that comes |
| `bulk_three` | up to 3 messages at limit 2 (and 4, which are refused), up to 2 without limit | `ResultsMatchRequest`, `ParallelismBounded` (free permits and submissions add up to the limit at all times, also after a drop), `ResultTellsOutcome`, `TwoPhases`, `EveryBulkAnswered`, `DropEndsSubmissions` (after a drop no task takes a freed permit and submits) |
| `limiter_window` | 2 requests, 3 addresses in 2 slots, 1 key with two settings, bursts of 2, rates of 1 and 2 in a minute of 3 ticks, time to 2 | `EveryWindowBounded`, `RetryAfterExact`, `IpTableBounded` |
| `reload_sighup` | 2 keys, 2 requests, 7 files, three of which do not load | `MergedIsValid`, `OneFileInForce` (after any number of merges, nothing of an earlier file, of half a file, or of a section that needs a restart), `MissingOnlyIfRemoved`, and `SignalsNotLost` under fairness. The files turn status tracking off with a store that lacks its path, change what may not change, and disable or remove a key |
| `admission` | 1 request out of three families (route, credentials, contents), 2 configurations out of three (network, keys, mail), 3 addresses, 3 tokens, 2 key ids | `ClientAddressVouched`, `KeyPresented`, `RecipientsPermitted`, `LimitsKept`, `RefusedForCause`. Each family varies one part and keeps the others plain. A key that presents its secret from an address it may use is never refused for its address, restricted or not. A listed address matches its recipient up to capitals but with its quotes, as `eq_ignore_ascii_case` has it; the properties judge recipients, texts and lengths by definitions of their own. Key lists have one id twice, or one secret twice; attachments have sizes around limits of 10, 11 and 12 bytes, where base64 text is longest for what it holds |

`send_two` uses the settings that matter: the defaults, where the request timer and
the submission timer are both 30 s and the request timer may cut a submission off; the
same with one permit; and a request timer longer than the longest upload and the
submission together. `EveryRecordSettles` is claimed for the last only. It fails under
the defaults: a
client is told 408, its message may be accepted by the SMTP server, and its record
stays at `smtp_submission_started` until it expires. No document of the repository
denies that, so it is stated here and not as a finding; the same happens when the
client hangs up (`left`).

### Fairness
* `StatusStoreMemory`: weak fairness of `SweepBegin` and `SweepEnd`. The cleanup task
  is an infinite loop around `sleep` and `expire_old_records`. Nothing is assumed of
  clients or of the clock.
* `StatusStoreSqlite`: the same for the sweep, in its three steps, and for `PutInsert`:
  a call that holds the mutex is synchronous code and goes on unless the process dies.
* `StatusStoreRedis`: none; its properties are safety properties.
* `ConfigReload`: weak fairness of the four steps of the reload task, a loop woken by
  the signal. Nothing is assumed of the operator.
* `SendMail`: weak fairness of `Enter` (the semaphore of the layer is first come, first
  served, so a request that waits gets the next free permit) and of each handler: the
  runtime polls it, the request timer ends a wait for the body, and the submission timer a
  wait for the SMTP server. Not assumed: that the SMTP server answers, that clients
  stay, that time passes.
* `SendBulk`: weak fairness of phase 1, of each task (polled, and timed like above),
  of joining a finished task, and of the final reply.
* `Admission`: none; a request need not come to an end there.
* `RateLimiter`: none; it promises nothing about the future except through `Retry-After`,
  which is a safety property here.

### Disagreements between code and documents
Each is a run that violates one claim.

| run | claim | what happens |
|---|---|---|
| `bulk_rejection` | status-tracking.md: a rejection is `smtp_rejected` | phase 2 records every failure as `smtp_unavailable` |
| `limiter_zero` | configuration.md: rate 0 means the default | the key's bucket never refills |
| `reload_network` | `lib.rs`: restart-required fields are ignored by a reload | `merge_reloadable` takes over all of `[security]`, proxy and CIDR settings included |

Others were met while modelling and have no run of their own.

* Stores: evictions of the in-memory store never lower the gauge (AC-813-03 says the
  gauge is the record count). `put_received` evicts the oldest record even if another
  has expired (`CHANGELOG.md:723` says expired first). `set_recipient_metadata` writes to
  records that are not terminal, as it must (`status.rs:140` says it does not). The SQLite
  store makes room before it finds out that an id is there already, so a repeated put at
  the cap is not the no-op `status.rs:136` promises (handlers never repeat an id), and a
  sweep of a table exactly at its cap deletes one live row. The Redis store's header says
  an update refreshes the lifetime; the code keeps what remains of it. Two of its lookups
  that have both read an expired record both count it in `expired_total`.
* Handlers: a request that uses a disabled feature is answered `feature_disabled` and
  recorded as `validation_failed` (`error.rs:4` says both use one code). The 408 of
  `TimeoutLayer` has no `X-Request-Id` (api-reference.md:144 says every response has one).
* Limiter: a reload that changes the rate of an API key does not reach a bucket that
  exists (`config.rs:427` lists API keys as reloadable). `burst_size` has no effect where
  tier fields are absent, because serde has filled them in (`config.rs:294` says it is
  for that case). The address evicted is the first inserted, not the least recently used
  (RFC 206).
* Reloads: `cleanup_interval_seconds`, `allow_bulk_send` and `[logging]` are called
  reloadable and are read once, at start-up (`main.rs:126`, `api.rs:83`). After a reload
  that changes a key's rate `/v1/keys/self` reports the new one (`api/keys.rs:54`) while
  the key's bucket keeps the old one (`rate_limit.rs:192`). `OneFileInForce` is about
  the configuration in force and the store's part of it, and says nothing about these. RFC 811 calls
  all of `[security]` restart-required, `config.rs:427` only part of it.
  `/v1/keys/self` answers 500 when a reload removes the key between authentication and
  handler (`keys.rs:63` says it should not happen). A send handler in the same place
  goes on without the key's policy. `lib.rs:49` says that a request takes one snapshot of
  the configuration; the extractor takes one and the handler another.
* Router: requests above `concurrency_limit` wait for a permit, without a timer, where
  `rfcs/done/205-concurrency-limit.md:25` has them answered 503; each route has a
  semaphore of its own. `shutdown_timeout_seconds` is not used.
* Authentication and policy: key ids may repeat (`rfcs/done/021-config-loading-validation.md:183`
  has the second refused), and then the policy applied is that of the first entry with
  the id, whichever entry the secret belongs to. `config.rs:195` and `policy.rs:41` say that
  `allowed_recipients` takes precedence over the key's domains; the code asks for both,
  as RFC 204 does. `config.rs:160` says `monitoring_cidrs` guards `/readyz`; it does not,
  and the setting is not validated. `validation.rs:136` announces a length check for
  `from_name` that is not made.
* Bulk: a message that uses a disabled feature is reported as `internal_error`.
* Metrics: refusals by source address, errors of whole bulk requests and 408s are not
  counted in `rele_requests_total`.

## 4. What is proved
Every safety property of every passing run, invariant, action property or refinement, is
also stated by a theorem, for every value of the constants. The type invariants are proved
for all modules and are not part of the runs. What is left to the runs alone is liveness.

`StatusStoreMemory_proofs`, for any sets of ids, keys, codes, lifetimes, caps and
callers, from the assumptions `VocabularyAssumption` and `StoreAssumption` (ids are a
finite set, lifetimes and caps are naturals, `Absent` is no record):

| theorem | says |
|---|---|
| `TypeCorrect` | `Spec => []TypeOK` |
| `Invariant` | `Spec => []IInv`, the inductive invariant |
| `GaugeBounded` | `Spec => []GaugeTracksStore` |
| `NoDoubleExpiry` | `Spec => []ExpiredCountedOnce` |
| `LockUpgradeSafe` | `Spec => []UpgradesFindTheDead` |
| `Refinement` | `Spec => ImplementsBoard` |

`IInv` is the conjunction of `TypeOK`, `GoneNotStored`, `CountsInPast`,
`GaugeTracksStore`, `ExpiredCountedOnce` and `UpgradesFindTheDead`. `CountsInPast` says
of a length on its way to the gauge that what it counted has been in the map and is
there still or gone since, so that setting the gauge to it keeps the bounds.
`GoneNotStored` is what makes the others
inductive: ids that left the map do not come back (ULIDs are fresh), so that a record
removed adds one to `gone`, which pays for the one added to `expired_total`, and a
lookup that finds its id gone cannot meet a new record under it.

The argument goes through one action predicate, `MapStep`: in every step records keep
their key, creation and expiry times, time does not run backwards, and what leaves the
map joins `gone`. Each action is shown to be a `MapStep` with its own effect on the
stored set (`PutStep`, `UpdateStep`, `GetExpireStep`, `SweepEndStep`, `QuietStep`), and
the invariants are proved from these facts. For the refinement, `BoardShowsLive` says
that the board shows the live records, `SpentGrows` and `LiveShrinks` how that changes
in a `MapStep`, and one lemma per action maps it to the board's action, to `Forget` (time
passes, the sweep) or to a stutter (a lookup that only gives up its read lock).

Its second half, from the same assumptions, is about what happens to a record over time:

| theorem | says |
|---|---|
| `EarlyLoss` | `Spec => EarlyLossOnlyAtCap` |
| `OldestFirst` | `Spec => YoungerNeverEvictedFirst` |
| `CapHolds` | `Spec => CapEnforced` |
| `OutcomesStable` | `Spec => AnswersStable` |

`EarlyLoss` needs one more invariant, `SweepInPast`: the instant a sweep works with is
not ahead of the clock, so what the sweep calls expired has expired. `OutcomesStable`
needs `ReadsAgree`: a terminal status any client has read is still the record's, or the
record is gone for good. It is inductive because a `MapStep` keeps a terminal status and
its code, and because what is gone does not come back (`GoneNotStored`).

`StatusStoreSqlite_proofs`, for any sets of ids, keys, codes, lifetimes, caps and
clients, any lag between clock and mutex and any number of crashes and failed
statements, from `VocabularyAssumption` and `SqliteAssumption`:

| theorem | says |
|---|---|
| `TypeCorrect`, `Invariant` | `Spec => []TypeOK`, `Spec => []IInv` |
| `GaugeHolds` | `Spec => []GaugeMissesOnlyUncounted` |
| `EarlyLoss` | `Spec => EarlyLossOnlyOfOldestAtCap` |
| `CapHolds` | `Spec => CapEnforced` |
| `OutcomesStable` | `Spec => AnswersStable` |
| `Refinement` | `Spec => ImplementsBoard` |

Every statement that deletes is shown to be a `Loses(lost)`: the rows in `lost` join
`gone`, the others stay as they are, the count falls by as many. `EvictEffect` says what
`evict_if_needed` may take and what room it leaves, or that a statement has failed.
Between the two statements of a put, `IInv` holds that the id being inserted is neither
in the table nor gone (`GoneNotStored`; without it a row could come back with another
outcome) and that the room just made is still there (`RoomMade`): the mutex is held, so
nothing else reaches the table. A crash lets go of the mutex and falsifies neither.

For `Refinement` a `Loses(lost)` is shown to take the entries of `lost` off the board and
nothing else (`BoardLoses`). That is a `Forget` or a stutter where no answer is given
(`LossForgets`), and a `Miss` in a `get`. Two facts join the invariant: the record
about to be inserted is `received`, so that the new entry is a fresh one
(`InsertsFresh`), and its id is not gone (`GoneNotStored`), so that the board admits it.

`StatusStoreRedis_proofs`, for any sets of ids, keys, codes, lifetimes and lookups, any
length of a second and any number of failed commands and dropped keys, from
`VocabularyAssumption` and `RedisAssumption` (lifetimes and the bounds are naturals, a
second is at least a tick, `Absent` is no cell of the database and no record):

| theorem | says |
|---|---|
| `TypeCorrect`, `Invariant` | `Spec => []TypeOK`, `Spec => []IInv` |
| `LifetimeKept` | `Spec => UpdatesKeepLifetime` |
| `OnlyDeadDeleted` | `Spec => LookupsDeleteOnlyExpired` |
| `OutcomesStable` | `Spec => AnswersStable` |
| `Refinement` | `Spec => ImplementsBoard` |

A record can be in two places, under its key and in the hands of the handler that
rewrites it, and either may vanish. `IInv` relates them. `PutFirst`: an id has a value, or
a write on its way, only if `put_received` was called with it, and no value while the
put is under way.
`RewriteFollows`: what a handler is about to write is an update of what is under the key,
if anything still is. `DeletesTheDead`: the record a lookup is about to delete has
expired in every copy, since a rewrite keeps `expires_at` and nobody puts an id twice.
`ReadsAgree`: a terminal status any client has read is that of every copy. It is
inductive because every step makes the copies of a record from the copies before it, and
a step that leaves a copy terminal leaves its status and code (`StepOnCopies`).
`LifetimeKept` is arithmetic on top: `expires_at` stays by `RewriteFollows`, and the ttl
sent is the whole seconds that remained at an instant of the call, one at least, which
the SETEX adds to the later instant at which it is executed.

For `Refinement`, `EntryStep` reduces a step to one record: the others keep their
entries, so it is enough to say what happens to the entry of one id. Each action is then a stutter,
a fresh entry, an update or the loss of the entry, and the last depends on which of the
copies was lost.

`RateLimiter_proofs`, for any sets of addresses, keys and tier values, any
settings and reloads of keys, from `LimiterAssumption` (rates, bursts and the table size
are naturals; the global and the per-address rate, which `validate.rs` checks, and the
length of a minute are positive; addresses are a finite set):

| theorem | says |
|---|---|
| `TypeCorrect` | `Spec => []TypeOK` |
| `Invariant` | `Spec => []IInv`: `TypeOK`, every count within its bucket's allowance, the global bucket present |
| `WindowBound` | `Spec => []EveryWindowBounded` |
| `TableBound` | `Spec => []IpTableBounded` |
| `RetryAfterTrue` | `Spec => []RetryAfterExact` |

The invariant behind `WindowBound` is stronger than the bound. For a bucket and a window
that began at `s`, what has been given since plus what the bucket holds now is at most
its capacity plus what its rate refills since `s`. A grant moves one token from the
second term to the first, a refill is paid for by the time that passed, and a new bucket
starts at its capacity with nothing given. `TableBound` holds because the map and the
queue of addresses list the same addresses, each once (`Queued`). `RetryAfterTrue`
rests on `PromisesKept`: a bucket that has made a promise has not been touched since, as
a grant, an eviction or another refusal takes the promise back, and the wait is the
least number of seconds after which a token is there (`WaitExact`). It needs that every
bucket has room for a token (`Roomy`), which is why bursts must be positive.

`ConfigReload_proofs`, for any files, keys, requests and build features, from
`ReloadAssumption` (files are configurations, a malformed section is no value):

| theorem | says |
|---|---|
| `TypeCorrect`, `Invariant` | `Spec => []TypeOK`, `Spec => []IInv` |
| `AlwaysValid` | `Spec => []MergedIsValid` |
| `NothingMixed` | `Spec => []OneFileInForce` |
| `MissingKeyWasRemoved` | `Spec => []MissingOnlyIfRemoved` |

The core is `MergeValid`: two valid configurations merge into a valid one, because the
rules about several fields relate only fields that are kept together or taken over
together. `OneFileInForce` is inductive because it speaks of the configuration in the task's hands
as well: a merge keeps the build of the configuration before it and takes the rest from
one file (`MergeShape`). `IInv` adds that a missing key was removed by a reload
(`KeyGoneIsRemoved`).

`SendMail_proofs`, for any number of requests, keys, lifetimes, caps and settings of
the timers, from `SendMailAssumption` and those of the store:

| theorem | says |
|---|---|
| `TypeCorrect`, `Invariant` | `Spec => []TypeOK`, `Spec => []IInv` |
| `LookupsTellTruth` | `Spec => []StatusTellsTruth` |
| `AnswersAgree` | `Spec => []AnswerMatchesRecord` |

`IInv` adds to the types one statement for each request, `Told(r)`: its record, if it is
in the map, is the one its handler's stage calls for (`RecordFollows`), and before the
record is made there is none, nor an offered message (`Early`). The two properties are
read off it. Steps of one handler and of the store leave the records of other requests
alone or drop them (`Untouched`), so that each action is a matter of one request.

`SendBulk_proofs`, for any size of a request and any limit, from `SendBulkAssumption`:

| theorem | says |
|---|---|
| `TypeCorrect`, `Invariant` | `Spec => []TypeOK`, `Spec => []IInv` |
| `Bounded` | `Spec => []ParallelismBounded` |
| `DropIsFinal` | `Spec => DropEndsSubmissions` |
| `PhasesApart` | `Spec => []TwoPhases` |
| `Story` | `Spec => []IStory` |
| `ResultsOrdered` | `Spec => []ResultsMatchRequest` |
| `ResultsTellTruth` | `Spec => []ResultTellsOutcome` |

There are two layers. `IInv` is about phases, tasks and permits: `Counted` says that free
permits and submissions under way add up to the limit when there is one, with or without
a handler, `Phased` and `Staged` which stages
belong to which phase. `IStory` is about single messages: what was collected is one result
for each message rejected or joined (`Collected`), and record, result and what the server
did tell one story (`Recorded`, `Sent`). `ResultsOrdered` needs a fact about sorting: when
a collection holds one result for each index of `1 .. n`, its arrangement by index has
result `i` in place `i` (`AscendingIsIdentity`, by the least index that is out of place).

`Admission_proofs`, for any requests and configurations, from `AdmissionAssumption`:

| theorem | says |
|---|---|
| `TypeCorrect`, `Invariant` | `Spec => []TypeOK`, `Spec => []IInv` |
| `AddressTrusted` | `Spec => ClientAddressVouched` |
| `KeyHeld` | `Spec => KeyPresented` |
| `RecipientsAllowed` | `Spec => RecipientsPermitted` |
| `LimitsHold` | `Spec => LimitsKept` |
| `RefusalsJust` | `Spec => RefusedForCause` |
| `EncodedFits` | the check before decoding refuses no file within the limit and admits at most six bytes more |

The invariant is small: the key id of a context is that of the entry it was taken from.
The work is in the lemmas on the operators, on what the first and the last match of a
search are and on what `validate_mail_request` has checked when it returns.

The limits speak of the total size of a list of attachments, a fold whose value for every
length is a fact by induction, and no installed prover can use the library's induction
theorems. The place of induction is taken by `SmallestMember`: among the subsets of a
finite set that lack something there is one of least size, all of whose parts have it.
With it `SumExists` shows that the places of a list have a sum, however many are added up
and in whichever order, and `SumUnique` that whatever is folded from either end is that
sum: the total of the property (`FoldedRight`) and the running total of the code
(`FoldedLeft`). `SumMonotone` says that no part exceeds the whole, so that the code, which
compares after every file, refuses no list whose total is within the limit.

Only model-checked, because liveness under fairness is out of the provers' reach:
`ExpiredAreSwept` (in-memory and SQLite store), `EveryRequestAnswered`,
`EveryRecordSettles`, `EveryBulkAnswered` and `SignalsNotLost`. Nor is it
proved that the claims of the three violated runs fail: those are counterexamples of TLC.

## 5. What is abstracted, and what is not modelled

* Times are ticks; the clock does not go back (`chrono::Utc` may, when the system
  clock is set). Token arithmetic is exact where the code uses `f64`.
* Records keep the fields the stores decide on; messages, domains and `updated_at` are
  one Boolean, `described`, or nothing.
* Error codes are kept where a record or an answer carries them; texts are not.
* Evictions, expiry and authentication in `SendBulk` are the board's `Forget` and one
  given key.
* Lookups are left out of `SendMail`: on the map they do no more than the sweep does.
* The gauge and the counters of the Redis store, and the SCAN of its `record_count`, are
  left out. In the SQLite store the
  counter `expired_total` and schema migrations are left out.
* A panic in a bulk task (`expect` on `join_next`) and poisoned locks are left out.
* Comparison of tokens in constant time is equality; how long it takes is not modelled.
* `submit_pipe` is not told apart from `submit`: only the bulk handler calls it
  (`send_bulk.rs:292`, `mode = "pipe"`), and its outcomes are those of `SubmitOk` and
  `SubmitFails`. `/v1/send` submits over SMTP whatever the mode.
* A crash during a submission leaves a persistent record in progress until it expires;
  nothing in the code resumes or fails it, so there is nothing to check but its expiry.
* `SignalsNotLost` promises that the file as it is at a SIGHUP is read, or a later one:
  an edit made before the reload takes its place. A SIGHUP that comes before the reload
  task has registered its handler ends the process, as it does by default; the model
  begins after that.
* Integers of `validation` are unbounded. In the code `max_attachment_bytes * 4`
  (`validation.rs:274`) overflows for limits of 2^62 bytes and above.
* Not modelled: the body limit and routing of the router, which decide on one request by
  itself; the endpoints that only read and the counters of `metrics.rs`, which only go up
  and decide nothing; the panics of a handler.
* Not to be modelled: logging, formatting, message layout, start-up checks, the
  no-op store.

## 6. Plan

1. **Done:** the stores, the handlers with the router's limit, the limiter, reloads,
   authentication and validation, a contract for every store, and the proofs of section 4.
2. **Composition.** The handlers on the lossy contract instead of the in-memory store:
   which answers given before a crash are still borne out after it. The limiter's three
   tiers in the handler, where `SendMail` has one choice.
3. **Proofs.** `AnswersNeverRegress` once, from `LossySpec`, in place of the separate
   arguments for the three stores.
4. **Clock.** A clock that is set back, for the stores that compare instants; the counter
   of the Redis store, whose double count of an expired record (section 3) is not checked.
