# A verification project for the service modules

The repository is a library of copy-in Python services. A host application
imports a package, gives it a database session (SQLAlchemy over PostgreSQL) or a
Supabase client, and calls its service class; two services (env, observability)
run on their own. There is no central process: what makes these services hard is
that *several web processes, workers and providers act on the same rows*, that
calls to the database and to providers fail or are repeated, and that many
operations are several awaits long.

This directory holds TLA+ specifications of the services whose correctness
depends on such interleavings, TLC models of them, and proofs checked by the
TLA+ proof system (TLAPS).

## 1. Inventory

| Part | State it keeps | Operations | What is hard | What makes it correct |
|---|---|---|---|---|
| Auth (`auth_service`) | `auth_users` (active, failure counter, lock), `auth_refresh_tokens` (family, revoked, expiry) | register, login, refresh (rotate / replay / cleanup), logout | row locks of concurrent requests, READ COMMITTED snapshots, deadlock of replay and cleanup, aborted requests | one live token per family, no lost failure count, no login past a lock, no token for an inactive account, replay revokes the family |
| Scheduler (`scheduler_service`) | `scheduled_jobs`, `recurring_jobs`; the batch each worker holds | enqueue, register_recurring, run_due_jobs (tick templates, claim, run, mark) | overlapping workers, stale claims, whole-row writes of old copies, crashes, failing log calls | a job is with one worker at a time, its handler runs a bounded number of times, it is finished in the end and only reopened by a worker that was not told it is |
| Webhooks (`webhooks_service`) | `webhook_events`; the batch each worker holds | receive (verify, dedupe, insert), process_due_events (claim, handle, mark) | provider retries racing the first delivery, crashes, failing log calls | a 2xx means a row, a row is with one worker at a time, no write of an old copy but after a lost answer |
| Billing (`billing_service`) | customers, plans, subscriptions, payments | create_checkout, handle_itn, cancel, pause, unpause | at-least-once, unordered notifications, audit in the middle of a transaction, provider call before commit | an acknowledged notification about one of our subscriptions is recorded, status is backed by a notification |
| Audit trail (`audit_trail_service`) | `audit_logs` | log_action, mirror to the observability client | commits the caller's session, raises after its commit | every recorded payment, failure and cancellation is audited |
| Notifications (`notifications_service`) | `notification_log`, `email_events` | send, handle_resend_webhook | retried sends, crash between provider call and commit, status events out of order or before the commit | a key sends at most one e-mail, a status has its event, an event that can be matched is not dropped |
| Licensing (`licensing_service`) | license keys, key pool, trial usage | add_to_pool, issue_license, validate_license, revoke | atomic pool claim then insert, check then increment | a key is issued once |
| Observability (`observability_service`) | error issues, occurrences, log entries; the client's bounded queue | report_error, resolve, ignore, ingest and clean up logs; emit, worker, close | read-modify-write counters, first-report race, a full or closing queue, a post that times out and is carried out | what is queued is sent once, counts stay within the occurrences, one new issue per error and one alert about it at most |
| Env service (`env_service`) | projects, API keys, secrets, audit rows; the catalog of templates; `.env` files | create and delete projects, create and revoke keys; set, reveal, delete, export, validate secrets; push and pull | bulk writes in different orders, authentication that commits apart from the write, a slug that is used again | bulk writes are whole, nothing outlives its project, what is there is on record |
| Rate limiting (`ratelimit_service`) | token buckets, in memory or Redis | check, reset, clear | refill arithmetic, an older `now` | no more grants than a bucket and its refill |
| Caching (`caching_service`: cache, response cache) | key/value entries with expiry, in memory or Redis | cached, get, set, invalidate one or all | compute-then-store against invalidate; deletion page by page | a stale entry can only come from a call that overlapped the invalidation |
| Usage tracker (`usage_tracker`) | usage events | record, check_quota | check and record are two calls | bounded overrun |
| Fallback router (`fallback_router_service`) | none kept between calls | call, call_safe | two nested loops, exceptions that are not retryable | providers are tried in order, as often as they may be, and all of them before a call has failed |
| Context assembler (`context_assembler`) | sources; facts and history of a user | add, assemble; append, get | trimming arithmetic; two backends | the token budget, what is pinned; the backends agree |
| LLM caller, LLM guard | none | call; check | - ; log calls that raise | the guard fails closed |
| File storage (`file_storage_service`) | `stored_files`, objects in a bucket | get_upload_url, delete_file | two stores, a client that uploads on its own | no object without a row, but for named reasons |
| Search (`search_service`) | index rows | upsert_entry, three searches | two commits; merging of two queries, one of them approximate | tokens are those of the content, keyword matches surface where there is room |
| Feature flags (`feature_flags_service`) | flag rows, read only here | is_enabled, get_all_enabled | two ways to one decision | both ways agree, rollout grows |
| Health (`health_service`) | registered checks, one stored answer | register, unregister, run_all, the built-in checks | overlapping calls store out of order | answers are fresh, 503 exactly when configured |

The parts talk to each other through the host: billing and auth call
`audit_service.log_action`, the audit trail mirrors into the observability client,
the scheduler's jobs run `process_due_events`, and a model call goes through
response cache, usage tracker and fallback router in turn. Most services log through the
standard library's `logging` with keyword arguments it does not accept, so the
log level of the host changes their control flow; `LogLevels.tla` is that
dependency.

## 2. Modules

| Module | Models | Refines |
|---|---|---|
| `TokenFamilies` | what refresh-token rotation promises: a set of live tokens in families; issue, rotate, revoke | |
| `AuthSessions` | `AuthService` as PostgreSQL transactions: one action per stretch between two awaits, row locks explicit | `TokenFamilies` |
| `MCAuthSessions`, `MCAuthLiveness` | TLC instances: symmetry; a start state in which a token has outlived its retention | |
| `AuthSessions_proofs` | theorems | |
| `LogLevels` | when a log call raises | |
| `WorkQueue` | what a table of jobs promises its workers | |
| `Scheduler` | `SchedulerStore` + `SchedulerService` + `claim_jobs` | `WorkQueue` |
| `Scheduler_proofs` | theorems | |
| `Webhooks` | `receive_webhook`, `WebhookStore`, `process_due_events`, `claim_webhook_events` | `WorkQueue` |
| `Webhooks_proofs` | theorems | |
| `Billing` | `BillingService` with `AuditTrailService.log_action`, and PayFast as its environment | |
| `Billing_proofs` | theorems | |
| `Notifications` | `NotificationsService.send` with `send_email`'s retry loop, `handle_resend_webhook`, and Resend as the environment | |
| `MCNotifications` | TLC instance with symmetry | |
| `Notifications_proofs` | theorems | |
| `Licensing` | `LicensingStore`, `claim_pool_key`, `increment_trial_runs`, `validate_license` | |
| `MCLicensing` | TLC instance with symmetry | |
| `Licensing_proofs` | theorems | |
| `LogHandler` | `RemoteLogHandler`: emit, the bounded queue, the worker thread, close | |
| `ErrorTracking` | `report_error`, `resolve_issue`, `ignore_issue`, `ingest_logs`, `cleanup_old_logs`, `notify_issue` | |
| `Observability` | the two composed: what the handler posts is what the server gets | |
| `MCObservability` | TLC instance | |
| `Observability_proofs` | theorems | |
| `RateLimiter` | `RateLimitService` with either backend | |
| `Cache` | `CacheService` with either backend | |
| `EnvStore` | the secrets endpoints as transactions | |
| `ProjectKeys` | `/admin` and `get_project_auth` for one slug | |
| `LlmCalls` | `cached_call` around `check_quota`, `FallbackRouter.call` and `record` | |
| `SearchIndex` | `upsert_entry` | |
| `FileStorage` | `get_upload_url`, `delete_file` and the client's upload | |
| `HealthChecks` | `HealthCheckRegistry` | |
| `AccessTokens`, `EnvTemplates`, `Dotenv`, `ContextAssembler`, `ChatHistory`, `SearchResults`, `FeatureFlags`, `HealthStatus`, `InjectionGuard` | algorithms, as operators, each with a reference it is compared with | |
| `Services` | `RateLimiter` to `HealthChecks` as one specification, one part per behaviour, and the algorithms on a constant set of inputs | |
| `MCServices` | TLC instance, with the samples for the algorithms | |
| `Services_proofs` | theorems | |

### AuthSessions

`user` and `row` are the committed rows; `held`, `who` the row locks of each
request's transaction; `seen`, `tgt`, `stamp` its local variables. A row read
`with_for_update` stays locked until `Finish` (commit or rollback). The two
set-oriented statements, the replay UPDATE and the cleanup DELETE, take a
snapshot (`todo`) when they start and then reach one row at a time, waiting for
its holder and re-checking the WHERE clause, which is how READ COMMITTED
executes them. `Abort` is a failed await anywhere. Password hashing and token
encoding are abstracted to "right or wrong" and to token names.

### Scheduler and Webhooks

Both keep the table (`job`, `event`) and, per worker, `pc`, the batch it claimed
(`copy`, with the attempt count as read) and the row it is at (`cur`). A claim is
one UPDATE. Marks write whole rows and name only the id, so a worker that comes
late overwrites whatever is there. `level` is the host's log level: the log calls
of the stores raise when it enables them, before the write (`mark_failed`) or
after it (`mark_succeeded`, `enqueue`, `insert`). `Crash` ends a worker's run
anywhere. A failed success write falls into the handler's `except`:
`SucceededWriteFails` is one that was not applied, `SucceededUnanswered` one that
was, with its answer lost; `mark_failed` then writes `pending` over `succeeded`
and the finished row is handled again. `WorkQueue` allows that and nothing more:
its `doubt` has the pairs of a worker and an item that is done without the
worker's knowledge, and only such a worker may open such an item again. Every
other reopening of a finished row is a violation of the refinement. `calls`
counts, for `CallsBounded`, how often a job's handler was called. Times are kept relative to the clock (how long until
`run_at`, how long since `claimed_at`), so no clock bound is needed.

### Billing

`sub`, `paid` and `logged` are the tables `subscriptions`, `payments` and
`audit_logs`; `note`, `acked` and `pf` are what PayFast has sent, what it was
told 200 for, and what it holds the subscription to be. A request reads its rows
(`Deliver`, `Manage`), keeps the status it has read (`loaded`), and writes at its
commit only if the status it wants differs from that: SQLAlchemy's unit of work.
Between the pending writes and the commit of `handle_itn` stands `log_action`:
`audit` says whether the host passed no audit service, one with a session of its
own, or one that shares the request's session and therefore commits for it.
`cancel`, `pause` and `unpause` call PayFast before they write. `Fail` is a
failed await or a dead process anywhere; `Reprice` is the host changing a plan.
PayFast also notifies about what else the merchant account sells (`NotifyStray`):
`handle_itn` finds no subscription of that `m_payment_id` and answers 200 with
nothing recorded (`DeliverUnknown`). A `payment_status` that it does not know
(`OTHER`) gets a `payments` row, and neither a status nor an audit entry.

### Notifications

A send looks for its key (`CheckKey`), inserts and flushes its row (`Flush`,
which waits for an uncommitted row with the same key, `Held`, and raises if it
was committed, `Duplicate`), calls Resend (`Answered`, `Unanswered`) and commits.
The row becomes visible in `log` at the commit only; `used` keeps the ids that
were ever given out. `mails`, `emitted` and `pending` are Resend's: mails it has
accepted, events it has raised, and events it will send until it gets a 200, in
any order and to several web processes at once. `hook` is what a webhook call
has read before it goes on: a row (`EventFound`, then `EventCommit`), or that there
is none (`EventMissed`), which it answers with 200 (`EventIgnored`) even if the
send commits in between. `early` is a history: the events that Resend raised
before their mail's send was committed.

Two things the model has and no property forbids, because nothing in the code or
its documentation promises otherwise: a send that commits `failed` after its
last unanswered call may have been mailed, and its key only ever returns that row
again; and an event of `early` may find no row, is then answered 200 and is lost.
`NoEventDropped` is about all others: they are on record when they are
acknowledged.

### Licensing

Each statement of the store is a transaction. `issue_license` claims a pool key
(`Claim`) and inserts the license (`Insert`) in two of them; what its `except`
branch does is `Caught`: a pool issuance gives up, an on-demand one tries again
with another key, unless the warning it logs raises (it does at the default
level, so `max_attempts` has no effect there). With INFO enabled every issuance
raises after its insert. `validate_license` reads the license, reads the trial and
counts a run in three steps; `started` is a history of the runs it let start.
`get_trial_usage`, `start_trial` and `bind_machine` are called and documented but
not defined in `LicensingStore`: the model supplies the first two, as the table
and `TrialUsage` suggest, and leaves the third out.

### LogHandler, ErrorTracking, Observability

The handler's state is its queue, the worker's batch, what it is about to post
(`hand`) and where it is (`worker`); `accepted` and `sent` are histories of what
`emit` has put on the queue and what was posted. A record is one entry, and for
an exception one report after it; the FastAPI middleware calls `emit` without
the handler's lock, so these are two steps (`EmitLog`, `EmitError`). `due` is
the flush interval. `close` sets `stop`; the process may end at any later moment
with the daemon thread and all it holds (`Exit`). A post ends with an answer
nobody reads, with a `TransportError` that is swallowed, or with any other
exception, which ends the thread (`"raised"`).

The server's requests are coroutines with a session each. `report_error` selects
(`ReportSelect`), then either flushes and commits a new issue (`ReportFlush`,
which waits for an uncommitted insert and fails if that is committed,
`ReportInsert`) or writes back the count it has read plus one (`ReportUpdate`).
The alert is a step of its own after the commit (`Alert`), and a failing refresh
or the end of the process may come first (`ReportCut`): then there is an issue
nobody is told of, and no later report makes up for it. `OneFirst` says that one
report, and one only, makes the issue and either sends the alert or is cut.
`lapped` (issues with overlapping reports), `resolves` and `epoch` (which
resolves a report has seen) are histories.

`Observability` composes them through `wire`, the requests that have reached the
server. A post the handler gives up after its ten seconds goes on in the server,
so two reports of one handler can be under way together.

Found in the code and in the model, with nothing promised otherwise: of two first
reports one is answered with a 500 and its occurrence is lost; overlapping
reports lose counts; a report that has read `open` before a resolve leaves the
issue resolved though it came later than the resolve's own read
(`ResolvedIsQuiet` says for which reports this cannot happen); a report that has
read `resolved` reopens an issue that was ignored in the meantime; `close` leaves
in the queue what the worker has not taken; a log request beyond the server's
rate limit is lost.

### RateLimiter

One bucket. A caller reads the clock in `check` and waits for the lock (or the
Lua script) before `Consume`, so its `now` may be older than `last_refill`, which
it then moves back. `rewound` sums up by how much, `granted` is the history of
grants in the time so corrected, each with the total up to it. Tokens are integers in units of 1/Window; the
float rounding of the code is ignored.

### Cache

The decorator's three steps (`Get`, `Compute`, `Set`), the application's changes
of what the function reads, expiry, and the invalidations: one step in memory,
a SCAN loop of single deletes on Redis, which returns what SCAN guarantees.
`born` and `at` date an entry by the invalidations begun when it was computed and
when it was stored.

### EnvStore and ProjectKeys

`EnvStore` has the secrets of one environment, one transaction per request.
SQLAlchemy flushes the write of a key before the SELECT of the next one: the rows
of a bulk write are locked one by one in the order of its payload (`holder`), and
two that differ in that order deadlock. An INSERT waits for the unique key, an
UPDATE or DELETE for the row it has read; both fail, or warn, if that is
gone by then.

`ProjectKeys` has what surrounds it: projects under one slug with a new id each
time, API keys, and calls that authenticate (with a commit of their own for
`last_used_at`) before they write. A crash between the two commits of
`create_project` leaves a project without its audit row, and `delete_project`
writes none; `AdminAudited` says exactly that.

### LlmCalls

A caller asks the response cache (`Lookup`), the quota (`CheckQuota`), the
providers (`Succeed`, `Fail`, `Raise`), records (`Record`) and stores (`Store`).
The refusal of `check_quota` logs before it returns, which raises at the default
level; the caller goes no further either way. `errors` lists the providers that
failed a caller, in the order of the attempts; `ProvidersInOrder` says what that
list may be. An exception that is not retryable leaves `call` at once, whatever
providers remain (`Raise`). The quota on cost has the shape of
the one on tokens, which is the one modelled; `max_retries` is at least 1.

### SearchIndex, FileStorage, HealthChecks

`SearchIndex`: select, first commit (the row), second commit (its tokens), and a
failure before either. `FileStorage`: rows, objects, upload URLs; the client
uploads without asking; `late` and `uncleared` name the two ways an object can
stay behind. At the default log level a bucket that refuses a deletion makes the
except branch raise, and the row stays. `HealthChecks`: overlapping calls of
`run_all`, each gathers the checks registered when it starts and stores its
answer with the time it began.

### The algorithms

Each module states the code as operators and, at its end, a reference that says
for every input what the answer has to be:

* `AccessTokens`: a token opens what it should, for as long as it should. It ends
  up to one second before the `expires_in` of its response, because `exp` is
  written in whole seconds; an extra claim `nbf`, which is not reserved, delays it.
* `EnvTemplates`: the order of templates does not matter, except to the
  sensitivity of a key on which templates disagree. In the catalog of the
  repository only `DATABASE_URL` is shared, and its specifications agree.
* `Dotenv`: a value survives export and push unless it is quoted and has a
  backslash, or has a line boundary other than a line feed.
* `ContextAssembler`: budget, pinned sources, priorities, and that assembling
  again changes nothing although truncation changes the stored source. Sources
  have distinct ids (equal ones collapse). The cut is computed in floating
  point and may keep one character less than the exact quotient (`lost`). The
  total that is compared with the limit is a sum of tokens rounded down source by
  source; the text that comes out has newlines between them and an ellipsis after
  a cut (`LengthOf`), and has up to one token more than the limit for each source
  used (`TextTokensOf`).
* `ChatHistory`: the two backends agree, but for rows of one `created_at` and for
  `limit=0`, which one answers with everything and the other with nothing.
* `SearchResults`: the semantic query goes through an HNSW index, which is
  approximate and has no rows without an embedding, so that its answer is the
  order of *some* of the rows. A hybrid search is that answer followed by the
  keyword matches that are not in it, the best first, as far as the limit goes
  (`HybridIsUnion`). There is no order by a combined score, as the docstring of
  `hybrid_search` has it (`src/search_service/search/service.py:101`): where the
  semantic answer fills the limit, no keyword match surfaces, however good.
* `FeatureFlags`: `is_enabled` and `get_all_enabled` agree; rollout grows.
* `HealthStatus`: 503 exactly when a dependency is unusable, or slow and that
  counts. `make_cache_check` passes `ttl=` and awaits the result, which the
  repository's own cache backends do not take, or do not allow: with them it is
  always unhealthy (`takesTtl`).
* `InjectionGuard`: no text at or above a threshold is allowed, at any log level.
  At the default level the log call of a blocked text raises, so that "block" is
  never answered; the text does not pass either.

### Services and MCServices

The services from `RateLimiter` to `HealthChecks` share no state, so one
specification, `Services`, has them all: `part`, chosen by the initial state, is
the service a behaviour is about, and only that one moves. Its states are the sum
of the services', not their product. For `part = "algorithms"` a behaviour is one
state, and `sample` the input: a record whose fields say which algorithm it is
for. `AlgorithmsCorrect` is the conjunction of the references, and
`SamplesAssumption` the types that the code gives the inputs: any sequence of
characters, any sources as `add_text` makes them, any flag and user, any catalog,
and so on, of any length. `MCServices` gives `Samples` a finite value.

Recursion in these modules is a recursive function, and the folds and sequence
helpers of the community modules are not used in them: the theorems see every
definition that an instance brings along, and with those of a library in each of
nine instances a proof takes several times as long.

## 3. Runs

| Run | Bounds | Shows |
|---|---|---|
| `auth_safety` | 2 requests, 1 account, 3 tokens, clock to 3, lock after 2 misses | `OneLivePerFamily`, `CounterExact`, `LockoutHolds`, `IssueToActive`, `ReplayKillsMatched`, and the refinement of `TokenFamilies`, over every interleaving. Three tokens are a login, a rotation and one more in flight; two requests are what every race here needs |
| `auth_replay` | same, clock to 1 | violates `ReplayKillsFamily`: a rotation committing during the replay's UPDATE leaves its new token live |
| `auth_liveness` | start state with an aged family (reachable: login at 0, refresh at 2, clock at 4) | `RequestsReturn`: replay and cleanup can wait for each other, the deadlock detector frees them |
| `scheduler` | 2 jobs (one without a handler), 1 template, 2 workers, 2 attempts, batches of 2, 4 log levels, 1 fault | `ClaimedOnce`, `CallsBounded`, refinement of `WorkQueue`, `JobsSettle`, `RecursForever`. One fault is what it takes to reopen a finished job |
| `webhooks` | 2 rows, 2 keys (one without a handler), 2 web processes, 2 workers, 2 attempts, 4 log levels, 1 fault | `DoneOncePerRow`, `AckedIsPersisted`, refinement of `WorkQueue`, `EventsSettle` |
| `webhooks_duplicate` | 2 rows, 1 key, 1 process each, no faults | violates `NeverDoubleProcessed` |
| `billing` | 1 subscription, 2 notifications (any may be about something else, or of an unknown status), 2 requests, each placing of the audit session, 2 log levels, 1 fault | `AckedIsRecorded`, `StatusBacked`, `RecordedIsAudited`, `PaymentsSettle`. Two notifications are what it takes to be out of order, two requests to overlap |
| `billing_retry` | same, without fairness | violates `RetryKeepsState` |
| `notifications` | 1 key (and sends without one), 2 rows, 2 sends, 2 webhook calls, 2 tries, 2 events that set the status, 1 fault | `NeverDoubleSend`, `StatusHasSource`, `NoEventDropped`. Two sends can overlap, or one can repeat what the other left behind; two webhook calls can write their statuses in either order |
| `licensing` | 2 keys, 2 issuances, 2 checks, 3 log levels, 2 attempts, trials of 1 run, 1 fault | `PoolKeyOnce`, `NothingLost`, `RunsBounded`. Two keys collide as on-demand keys and run out as pool keys |
| `observability` | 2 records, queue of 2, batches of 2, 1 earlier report, 1 operator, all about 1 issue | `Accounted`, `Flushed`, `CountsWithin`, `ResolvedIsQuiet`, `OneFirst`. Two records with their reports overfill the queue; three reports can overlap in pairs around the first, and a resolve fits between |
| `services` | rate: 2 callers, 4 checks, bucket of 2, clock to 5; cache: 2 keys, 1 worker, 2 invalidations, 1 change per key; env: 2 keys in both orders, 3 requests; projects: 2 ids of the slug, 1 key, 4 admin calls, 1 call; llm: 3 callers, 2 providers with 1 and 2 tries, limit 3; search: 3 upserts, 2 contents; storage: 2 files, 2 deletions, 3 log levels; health: 1 check, 3 polls, 3 ticks; some thirty thousand samples for the algorithms | `RateBound`, `StaleOnlyByOverlap`, `EnvSafe`, `RequestsEnd`, `LlmCallsSafe`, `TokensCurrent`, `OrphansExplained`, `AnswersFresh`, `AlgorithmsCorrect` |

Bounds that are not configuration values: `MaxTime` (clock of `AuthSessions`),
`JobMax` and `TickMax` (how long the host lets a handler and a batch run),
`MaxFaults` (crashes, failed calls and lost answers), `NRecords`, `MaxClock` and
`MaxChecks` (rate limiter), `MaxVersion` (cache), `MaxProjects`, `MaxTokens`
(tokens of an answer), `MaxTime` (health). Two overlapping calls are what each
race of the small services needs, a third is the one that observes; where one is
enough (cache workers, secrets calls) the others are played by the second kind of
actor. Samples are all sequences up to 3 or 4 elements over every element the
algorithm tells apart, and the boundaries of each comparison from both sides. The `scheduler` run takes
`TickMax < Stale`, the host's promise that a batch ends before
`job_claim_timeout_minutes`; without it the tail of a batch is taken over while
its first claimer still runs, and `ClaimedOnce` fails.

### Fairness

Auth: a request runs on (WF); PostgreSQL queues lock waiters, so a waiter is
served even if the row is taken again and again (SF); the deadlock detector
cancels a member of a wait cycle (WF). Scheduler and webhooks: each worker is
the host's endless loop around `run_due_jobs` / `process_due_events` and its
handlers return (WF on its steps); time passes (SF, WF on `Tick`); in the
scheduler the host's retention job gets to every finished row (WF), which is
what frees rows of the bounded table. Billing: a request that works runs on (WF),
and PayFast sends a notification again and again until it gets its 200, so that a
delivery that is possible again and again happens (SF). Observability: the worker
thread and the server's event loop run (WF); nobody makes the application log or
close. Env service: a request that does not wait for a row goes on (WF), and so
does the deadlock detector (WF); no lock queue is assumed, for a request can be
overtaken by a bounded number of others only. Notifications, licensing and the
other small services have safety properties only. Nothing is fair about crashes, failed
calls, deliveries or the application's own calls.

## 4. Findings

* `auth_replay`: "Reusing a rotated refresh token revokes all remaining live
  tokens in that token family" does not hold for a token inserted by a rotation
  that is in flight when the replay's UPDATE starts.
* `webhooks_duplicate`: only rows already `succeeded` count as duplicates. What
  does hold is `DoneOncePerRow`: at most one good end for each row of a key.
* `billing_retry`: `handle_itn` never looks whether a notification has been
  recorded; one that is repeated after a newer one overwrites the newer status.

More that the models contain, for which there is no run:

* `run_due_jobs` calls `store.get_due_recurring()`, which `SchedulerStore` does
  not define, so that a tick of the scheduler as shipped raises. `Scheduler`
  takes `DueQuery = TRUE`: a store that has the method, selecting the enabled
  templates whose `next_run_at` has passed.
* The log calls of `mark_failed` (webhooks and scheduler) raise at the default
  level before the row of a last attempt is written: such a row stays
  `processing`, for ever in webhooks; in the scheduler it is run again each time
  its claim is stale. `EventsSettle` and `JobsSettle` are stated with that
  exception.
* A crash between `enqueue` and `advance_recurring` enqueues the job of one
  interval twice.
* A job, or an event, whose success write is applied but not answered is put back
  to `pending` by the `except` branch (`src/scheduler_service/scheduler/service.py:57`,
  `src/webhooks_service/webhooks/queue_processor.py`) and handled again.
* `fallback_router`'s README (lines 68-70) has a call move to the next provider on
  an exception that is not retryable. `call` does not catch it
  (`fallback_router.py:87`), so it leaves the call and the providers that remain
  are not asked.
* `context_assembler`'s README (line 9) promises to trim "to fit a token budget
  without blowing it". The tokens that are counted fit; the assembled text may
  have up to one more for each source used.
* A notification of PayFast with an unknown `m_payment_id` is answered 200 and
  recorded nowhere; one with an unknown `payment_status` is recorded and not
  audited.
* An event of Resend that arrives before its send is committed is answered 200
  and lost.
* A failure between the commit of a new issue and its alert leaves an issue that
  nobody was told of.
* The warning about a bucket that refuses a deletion raises at the default level,
  so that the row stays, against the comment at
  `src/file_storage_service/storage/service.py:119`.

## 5. Proofs

The eight `_proofs` modules prove, for every number of accounts, tokens, requests,
jobs, events, reports, keys, rows, callers and workers, and for every value of the configuration
constants that satisfies the named assumptions:

* `AuthSessions_proofs`: type correctness, `LockInv`, `OneLivePerFamily`, `CounterExact`,
  `LockoutHolds`, `IssueToActive`, `ReplayKillsMatched` and the refinement of
  `TokenFamilies`. The inductive invariant is
  `TypeOK /\ LockInv /\ RowInv /\ SnapInv /\ OneLivePerFamily /\ CounterExact`:
  `LockInv` (locks are exclusive, and what was read FOR UPDATE is still so) is
  what carries every other property across an await; `RowInv` and `SnapInv`
  say which rows a family and a running UPDATE can contain.
* `Scheduler_proofs`: type correctness for any timing; and, assuming
  `TickMax < Stale`, `ClaimedOnce`, `CallsBounded` and the refinement of
  `WorkQueue`. These need the stronger `TimelyInv`, which relates the age of a
  claim to the time since its batch was claimed. `CallsBounded` adds `CallInv`:
  the calls of a job are at most the attempts in its row plus the faults, where a
  worker at the job has one call more than the row knows (`CallsAt`); a fault
  pays for each call whose end was never written. In the refinement `doubt` is
  the workers in their `except` branch over a row that says `succeeded`
  (`Unanswered`).
* `Webhooks_proofs`: type correctness, `ClaimedOnce`, `CopiesCurrent`,
  `AckedIsPersisted`, `DoneOncePerRow` and the refinement of `WorkQueue`, for any
  timing, because nothing takes a claim over. `CopiesCurrent`: a worker's copy is
  the row as it is, but for the worker whose success write went unanswered.
  `DoneOncePerRow` needs `DoneInv`:
  the times a key's handler ended well are at most the key's rows that have
  succeeded, or whose worker is about to mark them so, plus the faults. A good
  end adds a row of its own to those, for a claim is exclusive (`ClaimedOnce`)
  and a claimed row is pending before; only a failed write or a crash takes one
  away.
* `Billing_proofs`: type correctness, `AckedIsRecorded`, `RecordedIsAudited` and
  `StatusBacked`. Rows are not locked, so the invariant needs `AtInv`, what a
  request at each label may rely on whatever others do (its notification is sent
  and stays; what it is about to answer 200 is recorded; a cancellation it is
  about to write has been made), and `NoteInv`, that notifications, payments and
  cancellations are never taken back, and that no request is about a notification
  that is not about one of ours (`Ours`).
* `Notifications_proofs`: type correctness, `NeverDoubleSend`, `StatusHasSource`
  and `NoEventDropped`. The invariant adds that a send's row
  is its own and not visible (`SendInv`), that only a row of an accepted mail has
  a provider's id (`LogInv`), that the row a webhook call has read keeps that
  id (`HookInv`), which is why the event can be acknowledged later, and that the
  mail of an event that was not early has a row ever since, so that a call that
  has found none is about an early one (`EventInv`).
* `Licensing_proofs`: type correctness, `PoolKeyOnce`, `NothingLost` and
  `RunsBounded`. The last two are about cardinalities: each failed call adds one
  key to the lost ones at most, and `TrialInv` adds to a trial's count the checks
  that have still to count, a sum that only the look at the trial can raise, and
  only below `MaxRuns`.
* `Observability_proofs`: `OneFirst`, `CountsWithin`, `ResolvedIsQuiet` and
  `Accounted`. No step of the handler touches what the server stores, so
  the invariant `ErrInv` is about reports only: one report at most is between its
  flush and its commit, and the issue is not there yet (`Inserts`); the count a
  report has read was right or too low, and is the present one as long as no
  other report of the issue has overlapped (`Read`, `Alone`); an issue that is
  there has a first occurrence (`HasFirst`); and a resolve that a report may
  overwrite is one it has not seen (`Read`, `epoch`). Assumed:
  `ReportsAssumption`, that the reports from before are finitely many.
  `Accounted` compares sequences filtered by kind (`Picked`, which puts each item
  at its rank among those picked). Lemmas by induction over the length give how
  such a sequence grows at its end (`OnlyAppend`), loses its head (`OnlyHead`) and
  splits where the sequence does (`OnlyConcat`). The invariant `HandInv` adds to
  the two equations of `Accounted` that the batch has log items only (`HandTypeOK`)
  and what the worker has at each place (`AtWorker`: a report in its hand exactly
  while it posts one, nothing left once it has ended); each step moves items
  across one `\o`.
* `Services_proofs`: `RateBound`, `StaleOnlyByOverlap`, `TokensCurrent`,
  `OrphansExplained`, `AnswersFresh`, `LlmCallsSafe` and `EnvSafe`, each by an
  invariant of its own part, under `ServicesAssumption`. `RateInv`: what has been
  granted since any grant, and what the bucket still holds, is within the
  capacity and the refill since; that time, corrected by `rewound`, only grows is
  why the bound holds for callers that are late. `EnvInv`: a request holds every
  row it has been through, one that holds a row has begun to write, and what an
  export has read so far is of one bulk write; so no two bulk writes are mixed.
  `KeysInv`: a call works for a project that was there, and as long as the project
  is there so is the call's key. `CacheInv`, `LlmInv`, `SearchInv`, `StorageInv`
  and `HealthInv` say of each label what a call there may still rely on.

  The same module proves the nine algorithms for every input of their types
  (`FlagsDecide`, `RotationDecided`, `TokensAccepted`, `GuardDecides`,
  `HistoriesAgree`, `HybridsAgree`, `TemplatesDecide`, `AssemblyHolds`,
  `ValuesRoundTrip`), and from them `AlgorithmsCorrect` under
  `SamplesAssumption`. The arguments worth knowing:
  * *Context assembler*: `Loop` holds after each round: what is left is as it was
    added and ranks below what has been taken, the total is that of the used, and
    the length of the text is within what the total and the rounding of the used
    sources allow, which is a token of the text for each.
    A second assembly goes through the same rounds (`Mirrors`), since the cut
    leaves priorities alone and makes the used sources add up to the limit.
  * *.env*: what `Escaped` writes has no line boundary, so the line and its quotes
    are found again; what the two passes of `Unescape` make of it is, after each
    character of the value, at least as long as what was written, and the same
    exactly as long as no backslash has come (`ReadsBack`).
  * *Search*: both answers have each row once, so what the loop passes over is in
    the result already, and what it leaves out is behind the limit: the result's
    tail is the keyword answer without the semantic one's rows, in its order.
  * *Histories*: both answers have the turns of the greatest times, as many; the
    times of a sorted sequence are determined by the turns counted from its end.

Induction and recursion. The provers cannot instantiate a theorem that has an
operator as a parameter, as those of the library about induction have. What they
can do is use sets and functions: `LeastNumber` (a non-empty set of numbers has a
least one) follows from `NatLessThanWellFounded` and `WFMin`, and from it
`Induction`, with the induction hypothesis given as a set of numbers, and
`Recursion`, with the step given as a function from the index and the last value.
A recursive function of a model is brought to that form once (`SumsOver`,
`Assembles` and the like say what its equations are), and `SameValues` shows two
of them equal. The proofs keep arithmetic and quantifiers apart: a condition that
has both is an operator of its own, expanded only where it is used.

Only model-checked:

* liveness (`RequestsReturn`, `JobsSettle`, `RecursForever`, `EventsSettle`,
  `PaymentsSettle`, `Flushed`, `RequestsEnd`): it rests on fairness and ENABLED,
  which are out of the prover's reach;
* the counterexamples of section 4.

## 6. Not modelled

* Webhook signature verifiers, password hashing, encryption of secrets, HTTP
  status mapping, configuration parsing, template rendering: pure functions, or
  formatting, that keep no state and that no property is about.
* LLM caller: one stateless HTTP call. Of LLM guard, the regular expressions and
  the scrubber of personal data; `InjectionGuard` starts from the patterns that
  match.
* `bind_machine` of licensing and `get_due_recurring` of the scheduler are called
  and not defined; the first is left out, the second supplied (section 4).
  `mark_processing` of webhooks has no caller.
* The usage tracker's limit on cost, which has the shape of the one on tokens.
* Floating point: rounding in token buckets. The scores of `InjectionGuard` are
  exact at the default thresholds (its comment says where they are not), and the
  rounding of `ContextAssembler` is in the model.
* The command line of the env service, beyond the `.env` format it reads and
  writes; demonstration hosts, tests and migrations.

## 7. Plan

Every component that keeps state has its module, a run, a mutant per property,
and theorems for what the run checks, with the exceptions named above. What would
add to it:

1. a run of `Scheduler` with a third worker and a second template, and of
   `AuthSessions` with two accounts, once the time for a run allows it; the
   theorems hold for any number already;
2. the safety half of what the liveness runs rest on as theorems: that a lock
   waits for a request that can still move, that a claimed row has a worker or is
   stale, so that the fair steps named in section 3 are always there;
3. the repairs of section 4 as variants of the modules (a replay that locks its
   family, a receipt that looks for any row of the key, notifications ordered by
   the provider's own numbering), to check that each does what it should.
