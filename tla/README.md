# Verification of the OpenClaw Ops API

TLA+ models, TLC configurations and TLAPS proofs for the Go backend in
`src/apps/backend`: a read API for operators, an ingest API for producers, and the
background workers that retry, retain and analyse what was ingested. Paths below
are relative to `src/apps/backend` unless they start with `src/`.

The models describe what the code does. Where a document says something else,
there is a run that shows the difference; see *Disagreements*.

## 1. The system

| Component | State | Operations | What makes it correct |
|---|---|---|---|
| Ingest service (`internal/ingest/service.go`) | the call stack of a request or of a retry | `ingest`, `ProcessDueRetries`, `processLeasedEvent`, `completeLeasedEvent` | an acknowledged event is stored; every event that reached the ledger is settled |
| Retry worker (`internal/worker/retry.go`) | the leased batch | a tick: lease and process | one attempt, one holder; no row stuck |
| Ledger (`internal/repository/postgres/ingest.go`, `ingest_events`) | a row per (event_type, source, event_id): status, attempt_count, last_error, next_retry_at, last_attempt_at | `ClaimEvent`, `MarkEventCompleted`, `RecordEventFailure`, `LeaseRetryBatch` | a retry is scheduled only with budget left; completion retries are safe |
| Entity tables (same file: accounts, conversations, messages, request_attempts, infra_snapshots, infra_status_latest) | a row per (source, external_id), (source, event_id) or source | `PersistConversationEvent`, `PersistRequestAttempt`, `PersistInfraSnapshot`: a transaction of upserts | serializable, no deadlock; the tables do not depend on the order in which events arrive |
| Ingest HTTP handlers, decoders (`internal/http/handler`, `internal/http/dto`) | none | `POST /v1/ingest/*` | the outcome is what the ledger says |
| In-memory store (`internal/repository/memory`) | the same tables in slices and maps, one mutex | the same interfaces | behaves like Postgres |
| Retention (`internal/retention`, `internal/worker/retention.go`, `postgres/retention.go`) | the counts of a run | compact old messages; delete old attempts, snapshots, ledger rows; audit | readers never lose the latest status; the audit accounts for what is gone |
| Security analysis (`internal/security`, `postgres/security.go`) | `security_findings` by fingerprint | evaluate rules, upsert, list by pages, audit | overlapping analyses are serializable and do not deadlock; no status an operator set is lost |
| OIDC validator (`internal/http/middleware/oidc.go`) | cached key set under a mutex | `Validate`, `lookupKey`, refresh | a withdrawn key is refused and a new one found within a bounded time; no request waits for ever |
| Authentication and roles (`middleware/auth.go`, `internal/http/router.go`) | static principals | authenticate, authorize, break-glass | tokens of operators and producers stay apart; break-glass is audited and needs no provider |
| Audit, context, observability middleware | counters, detached goroutines | wrap each request | an audited action leaves a record |
| Queries (`postgres/repository.go`) | none | reads with pagination and buckets | every row on exactly one page |
| Migrations (`cmd/migrate`, `migrations`) | `schema_migrations` | apply in order | each applied exactly once and in order, whoever runs, fails and runs again |
| Life cycle (`cmd/api/main.go`) | goroutines, contexts | start, serve, shut down | nothing half-done that a restart cannot finish |
| Configuration, telemetry | values read at start; counters | | |
| Terraform, startup scripts, OpenSpec texts (`src/infra`, `src/openspec`) | no state machine | | |

How they interact: a handler decodes a body and calls `ingest`, which makes three
or four database calls (claim, persist, complete, or record a failure). Retry
workers, one per API instance, lease due rows of the same table and make the same
calls. Nothing but Postgres connects them, so each call of each of them may come
between any two calls of the others. Retention deletes rows of the same tables.
Before any handler, the request passes authentication, which for a JWT goes to the
key cache and perhaps to the identity provider; afterwards an audit row is written,
by the request or by a goroutine of its own. The migration runner is another program,
run before a release; analyses and the list of findings share one table.

What is hard here: an attempt that outlives its processing lease and goes on beside
its successor; crashes and cancelled contexts between two calls; calls that took
effect and reported an error; statements that update a row by its key whatever has
happened to it; retries that apply old data after new; two actors upserting the same
entities at once; keys that change while they are cached and fetched; work under a
mutex that waits for the network; rows chosen in one snapshot and deleted later; a list
read by offset while it changes. `PROJECT.json` lists each such hazard at its line.

## 2. The modules

| Module | Models | |
|---|---|---|
| `IngestPipeline` | handlers, retry workers, ledger, deletion of ledger rows | detailed specification |
| `IngestContract` | what a producer may rely on | abstract specification of `IngestPipeline` |
| `MCIngestPipeline` | symmetry for TLC | |
| `RetryBackoff` | `backoffForAttempt`, in durations that wrap | pure |
| `IngestRetries` | the pipeline and the delays of its retries | extends both |
| `IngestPipelineProofs`, `AttemptProofs` | | theorems about `IngestPipeline` and `IngestRetries` |
| `EntityStore` | the upserts, an event persisted in one step | abstract specification of `EntityTransactions`; also the persist methods of the in-memory store |
| `EntityTransactions` | the Postgres transactions: statements, row locks, faults | detailed specification |
| `MCEntityTransactions` | schemas and symmetry for TLC | |
| `EntityProofs` | | theorems about both |
| `JwksCache` | the key cache of the OIDC validator, its mutex, and the provider | component of `AccessControl` |
| `AccessControl` | configuration, authorisation, break-glass, audit rows, life of the process | extends `JwksCache` |
| `MCAccessControl` | tokens, configurations and requests for TLC | |
| `AccessProofs` | | theorems about the two |
| `Migrate` | runs of `cmd/migrate` | |
| `Retention` | runs of the retention workers, on both stores | |
| `SecurityRules` | the seven rules and the order of findings | pure |
| `FindingStore` | an analysis in one step | abstract specification of `SecurityFindings`; also the in-memory store |
| `SecurityFindings` | the Postgres transactions of analyses, triage, the list by pages | detailed specification |
| `MCOperations` | migration first, then retention or analyses | composition, instance for TLC |
| `MigrateProofs`, `RetentionProofs`, `FindingProofs` | | theorems about the three |
| `OperationsProofs` | | theorems about their composition |

The pipeline and the entity tables meet in one step: `Persist` of `IngestPipeline` is a transaction of
`EntityTransactions`, of which the pipeline only knows that it was committed.
`EntityTransactions` in turn assumes nothing about when and how often an event is
persisted, which is what the pipeline leaves open (an attempt may be repeated at any
time and two may run at once), so what is shown of the tables holds below any
behaviour of the pipeline.

### IngestPipeline

Every database call is a step: each is one SQL statement (Postgres executes it
atomically) or one transaction. Actors are the handlers, which stand for concurrent
requests of any number of instances, and the workers. `pc`, `item`, `failure` and
`batch` are the locals of `ingest`, `processLeasedEvent` and `ProcessDueRetries`;
`status`, `attempts` and `lastError` are the columns of a row.

| Action | Code |
|---|---|
| `Claim`, `Lookup` | `ClaimEvent`: the insert, and on a conflict a second statement that reads the row, with the answer of `existingResult` |
| `ClaimFails` | the insert took effect but the caller saw an error: the request ends, the row stays in processing |
| `Persist`, `PersistFails` | the persist call; with a lost connection or a timeout it may have been applied |
| `Complete`, `CompleteFails` | `MarkEventCompleted`, which updates by key alone |
| `Record`, `RecordFails` | `RecordEventFailure`, with the stage of the failure that `isCompletionRetry` later looks for |
| `Lease`, `LeaseFails`, `TakeItem` | `LeaseRetryBatch`, and the loop of `ProcessDueRetries` over its batch |
| `Abandon` | crash, shutdown, cancelled context: later calls have no effect |
| `Elapse` | a row becomes due: `next_retry_at` has come, or `last_attempt_at` is older than the processing lease |
| `ChooseExpired`, `DeleteExpired` | `DeleteExpiredIngestEvents`: candidates by snapshot, then deleted by key |

Time is abstracted to a row being due. `SlowActors` chooses whether a lease may run
out while its holder is still at work (the code has nothing that prevents it: the
lease is 15 minutes by default and no call has to end before that), and
`RetentionEnabled` whether old settled rows are deleted. The deletion is modelled in
two steps because under READ COMMITTED the row a `DELETE ... USING` has chosen may be
changed by another transaction before it is deleted, and the condition that is then
checked again is on the key only. So a row that a late attempt has made
`retry_scheduled` can be deleted with its retry; the contract allows it (the event had
been settled before), and `PendingIsSettled` is worded accordingly.

### EntityStore and EntityTransactions

An event carries a fixed payload, any of those the decoders accept. A row stands for
its columns by the event that wrote them last; only times, which the SQL compares, are
numbers (0 is NULL). `Persist(e)` changes all the rows of an event at once.
`EntityTransactions` has sessions (connections of the pool); a transaction executes
one upsert per step, waits while another transaction has the row locked, reads the
committed row (READ COMMITTED: after the wait, the row as it is then), and keeps the
new version and the lock until `Commit`, `Rollback` or `Reject`. Messages and request
attempts are both *contents* of a conversation, as their upserts are alike.
`TieReplacesStatus` is the one difference between the stores: at an equal `ended_at`
Postgres takes the new status, the in-memory store keeps the old one.

`partial` says which tables have only a partial unique index. The migrations create
such indexes on conversations, messages, request_attempts and infra_snapshots, and only
the upsert of infra_snapshots names the predicate that Postgres needs to infer the
index; `Reject` is the error it gives otherwise. Because with these indexes no
conversation can be stored at all, the passing run considers the migrated schema *and*
the one that the upserts are written for (those indexes not partial), and what the
upserts guarantee is shown for both.

### JwksCache and AccessControl

A caller is a connection whose requests follow one another. The stages of a request
(`req[c].pc`) are the points where its goroutine waits: for the mutex of the key cache
or for the provider (`lookup`), for the audit row of a break-glass access
(`emergency`), for the handler (`serve`), for the audit row of a read (`audit`). What
it does between two of them is one step, so the order of the comparisons in
`authorize` is inside `AuthorizeAtOnce`, `LookUpKey`, `FinishValidation` and
`AllowBreakGlass`. Tokens are compared as a whole; what a JWT says, and which key its
signature fits, is the function `Jwt` of the token. A token counts as a JWT when it
has two dots, as in the code, so a static token may be one by chance.

| Action | Code |
|---|---|
| `Ask`, `AnswerFromCache`, `StartFetch`, `ProviderAnswers`, `EndFetch`, `FetchFails`, `TakeKey` | `lookupKey` and `refreshKeysLocked`: the mutex is held from `StartFetch` to `EndFetch` or `FetchFails`; the provider reads its keys at some moment in between |
| `Receive`, `AuthorizeAtOnce`, `RefuseUnreadable`, `LookUpKey`, `FinishValidation` | the middleware chain up to the principal |
| `AllowBreakGlass`, `AuditBreakGlass` | the access is granted only with its audit row written |
| `Serve`, `AuditRead`, `AuditDetached` | the handler, `WithReadAudit`, and the goroutine that `auditAsync` starts for an analysis |
| `Exit`, `Crash`, `Restart` | `http.Server.Shutdown` waits for requests and for nothing else; a restart checks the configuration again and begins with an empty key cache |
| `Rotate`, `Tick` | the identity provider and the clock; they move with OIDC configured only, as nothing else reads them |

`changedAt` is history: when each key was last published or withdrawn. With it the
properties of the cache are stated over the last `Lag` = lifetime of the map + length
of a fetch.

### Migrate

One action per call of the runner: `EnsureSchemaMigrations`, `LoadApplied`,
`SkipApplied`/`Begin`, `Execute`, `InsertRow`, `Commit`. Any call may fail (`Fail`),
a commit may take effect unseen (`CommitUnseen`), and a runner may be started again.
Which files are applied is read once; what keeps two runners apart afterwards is the
primary key of `schema_migrations`, for which `InsertRow` waits. Runners may be of
releases that know different numbers of files.

### Retention

A run goes through four targets: `CountCandidates` in a dry run; otherwise `Choose`
and `PurgeChosen`, the two steps that one Postgres statement consists of under READ
COMMITTED (rows chosen in a snapshot, then locked and changed), or `PurgeInMemory`,
one step under the store's mutex. `FailRun` ends a run anywhere, `AuditRun` writes the
counts. `Arrive` lets producers store rows meanwhile; the times of messages and
snapshots are theirs, so they may arrive already old. Messages are compacted, not
deleted, and the latest snapshot of each statement is kept, with the tie-break of
either store.

### SecurityRules, FindingStore and SecurityFindings

`Matches` evaluates the seven rules on a tfvars object; `Precedes` is the order of
`sort.Slice` in the service, which decides the order in which an analysis takes its
row locks. `Analyze` takes the time and evaluates, `UpsertFinding` waits for the row's
lock and then sees the row committed last, `CommitAnalysis` and `RollbackAnalysis` end
the transaction. `TriageFinding` is an operator's update of the row, for which there
is no endpoint. A reader (`ReadFirst`, `ReadPage`) lists by `LIMIT` and `OFFSET`;
`untouched`, `changed` and `rewound` are history of what happened to the list
meanwhile: the rows that were left alone, whether a change reached a row that the
offset passes over, and whether one set a detection time back. A row that the
offset passes over need not have been read: it may have come in after its page was.

## 3. What is checked

| Run | Question | Bounds |
|---|---|---|
| `ingest_safety` | Is anything acknowledged, completed or skipped that is not stored? Is a retry scheduled beyond the budget? | 1 event, 2 handlers, 2 workers, 2 attempts, 2 faults, slow actors, retention |
| `ingest_settles` | Does every attempt have one holder? Is every event settled for good? | 2 events, 1 handler, 2 workers, batches of 2, 1 fault, slow actors |
| `ingest_prompt` | If no attempt outlives its lease: does an accepted event stay completed? Does every retry have a cause? Are its delays within their limits? | 1 event, 2 handlers, 2 workers, 5 faults; durations from -16 to 15 |
| `ingest_contract` | Does the pipeline refine `IngestContract`, with its liveness? | 1 event, 2 handlers, 1 worker, 2 faults, slow actors, retention |
| `entities` | Are the transactions serializable and free of deadlocks? Do the tables follow the committed events? | 2 events with any valid payloads over 3 instants, 2 accounts, 1 conversation, 1 content, 1 source, 2 sessions, 4 transactions, 1 fault, both schemas |
| `access` | Do tokens stay apart? Is break-glass audited, and independent of the provider? Does the key cache follow the provider? Is every request answered? | 2 callers with 7 and 1 kinds of requests, 1 key id, 2 keys, 4 instants, map and fetch of 1 instant each, 7 configurations (5 of them refused), 1 detached write, crashes |
| `operations` | Is each migration applied once? Does retention keep the latest status, and audit what it deletes? Are analyses serializable, free of deadlocks and listed completely? | 2 runners of 2 releases with 2 files; 2 workers on 5 rows, 1 row per statement, 3 instants; 2 analysts and a list in pages of 1: two overlapping analyses of 2 findings, 2 instants; or a list of 3 that are found one after another, 1 instant |
| `ingest_budget_violation`, `ingest_duplicate_violation`, `ingest_outage_violation`, `entities_index_violation`, `access_audit_violation` | see *Disagreements* | small |

Why the bounds are enough. Rows of different events meet only in a batch, so one event
is enough except for `ingest_settles`, which has batches of two. Two handlers and two
workers give every pair of actors: two deliveries, a delivery and a retry, two retries.
Two attempts have a first, a last and one beyond the budget. Two faults let a lost
attempt be followed by a failing one. The upserts compare two rows at a time, three
instants give every order of them with room between, two accounts let transactions
meet first at the conversation, and four transactions repeat one event after another.
One key id with two keys has a key published, replaced by another and withdrawn; the
lookups of different ids meet only in the mutex and in the one map that each fetch
replaces, so a second id adds no case. Four instants are more than the lag of the cache. Two callers let one wait while the
other fetches; the requests of one of them are each kind of token on a route where
it matters. Five configurations are there to be refused. In `operations`, one row per
statement makes every run stop at its limit, three of the five rows are snapshots, one
of them still to arrive, so that two workers can take the same snapshot for the
oldest while a third arrives late; pages of one finding put a gap between any two
findings, and three findings let one that was passed over without being read change
before the reader gets to the next. Retention and the analyses share no table, so one
of them is chosen at the start (`workload`) and they are not interleaved with each
other; nor are the two uses of analyses, the overlapping ones and the list of three.
A quarter of 8 durations allows delays up to 7, which wrap at the fourth doubling at
the latest; the attempt numbers of the pipeline reach it.
TLC uses symmetry where the properties allow it: in the runs whose properties are all
safety properties.

The properties, each with at least one mutated definition that TLC finds to violate it:

- `CompletedIsPersisted`, `AcknowledgedIsPersisted`: whoever set the row, and whatever
  happened to it since, a completed or acknowledged event is in the entity tables.
- `CompletionRetryIsPersisted`: a worker skips the persist call because of a text in
  `last_error`, which any actor may have written; then the data is there.
- `ScheduledHasBudget`, `AttemptHasOneHolder`, `AcceptedStaysCompleted`,
  `EveryRetryHasACause`: the bookkeeping of attempts under late and failing actors.
- `RetryDelayIsBounded`: for every attempt number that the pipeline reaches, also one that
  lost attempts have raised beyond the budget, the delay is between base and maximum and
  not shorter than the one before, although each doubling may wrap.
- `SettlesForGood`, `PendingIsSettled`, `ImplementsContract`.
- `Serializable` (`EntityTransactions` implements `EntityStore`), `SomeTransactionGoesOn`
  (no cycle of waits).
- `ConversationSpansItsEvents`, `StatusCameWithTheEnd`, `ContentsFollowTheStart`,
  `LatestIsNewest`: for every order and repetition of events, a conversation spans exactly
  its events, is not reopened by a late one, contains its messages and attempts, and
  the latest status is the newest snapshot.
- `CacheWasPublished`, `WithdrawnKeyIsRefused`, `PublishedKeyIsFound`: what the map
  holds, refuses and finds, against what the provider published within the lag,
  whatever fetches fail, hang or overlap.
- `BreakGlassIsAudited`, `BreakGlassNeedsNoProvider`, `ServiceTokensStayApart`: what
  the order of comparisons and the checks at the start amount to together.
- `EveryRequestIsAnswered`: no request waits for ever, also while each fetch fails.
- `SchemaMatchesRecord`, `FinishedMeansMigrated`: every file is executed exactly as
  often as its row says, in order, and a runner that reports success leaves nothing out.
- `LatestStatusNeverGoesBack`, `PurgesAreAudited`: retention against late snapshots,
  other workers and failures between the targets. Every deletion is counted once; a
  compaction is counted at least once, in memory exactly once.
- `ImplementsFindingStore`, `SomeAnalysisGoesOn`, `MissedFindingHasACause`: overlapping
  analyses have the effect of one after the other, never wait in a cycle, and a reader
  of the pages misses an unchanged finding only for the causes it names: a change among the
  rows that the offset passes over and, for the newest first and no filter, an analysis
  that set a detection time back.
- one type invariant per detailed module.

Deadlock checking is off where a bound ends behaviours: the number of transactions in
the entity runs, and the clocks and rows in `access`, `access_audit_violation` and
`operations`. What must not get stuck there is a property of its own.

Fairness (`Fairness` of `IngestPipeline`): weak fairness of each call an actor can make
next (a goroutine is scheduled, and a call returns or the context's deadline fails it),
of a worker's lease and of its loop (the ticker of `RetryWorker.Run` keeps firing after
errors), and of `Elapse` (clocks advance). None on deliveries, faults, crashes or
retention: nothing of what is shown needs them to happen, or never to happen beyond
`MaxFaults`. Finitely many faults is the usual assumption of an eventual recovery.

`FairSpec` of `AccessControl`: weak fairness of what a request does next (a goroutine
that can run does, a database call returns, and a fetch ends because its client has a
timeout of five seconds), and strong fairness of taking the mutex, because Go's
`sync.Mutex` hands itself to the longest waiter once one has waited for a
millisecond. None on the success of a fetch, on the provider, the clock, a crash or a
restart; a process that ends answers its requests with the end of the connection. The
entity modules and `operations` assume no fairness.

## 4. What is proved

For every set of events, handlers, workers, sessions and keys, and every value of the
bounds, from the named assumptions of the modules only (the markers are no members of
the sets they extend, handlers are not workers, bounds are natural numbers, a page has a
row at least, rows and retention workers are finitely many):

`IngestPipelineProofs`. The inductive invariant is `DurableInv`. The safety invariants
are not inductive alone: an actor about to complete a row must be known to work on
stored data (`CompletingIsPersisted`), and whatever is worked on must have been
delivered (`WorkIsReceived`); with these two, `TypeOK`, `CompletedIsPersisted`,
`AcknowledgedIsPersisted`, `CompletionRetryIsPersisted` and `ScheduledHasBudget` carry
each other (`AcknowledgmentIsDurable`, `CompletionIsDurable`, `CompletionRetryIsSafe`,
`BudgetIsKept`). Each conjunct has a lemma that every step of `Next` keeps it. `PipelineImplementsContract`
is the safety part of the refinement: an initial state maps to an initial state
and every step to a step of `IngestContract` or a stutter.

`AttemptProofs`, under the switches of the model that the properties need.
`AttemptHasOneHolder` without retention (a deleted row counts from the beginning
again): its strengthening `HeldIsCounted` says that every attempt in a hand or in a
batch has been counted in its row, so that a new lease, which counts one more, cannot
meet an older holder. `AcceptedStaysCompleted` and `EveryRetryHasACause` without
retention and without late attempts: then a row has one holder at all
(`OneHolder`), it is in processing while it is held, and every attempt beyond the first is
paid for by a fault or by the holder (`FaultsAreCounted`); `PromptInv` is their
conjunction.

`EntityProofs`. First the store: `TablesFollowTheEvents` is inductive for `EntityStore`;
its core is `UpsertKeepsSpan`, one upsert of one conversation row. Then the
transactions: `TransactionsInv` says that locks are exclusive, that a session has locked
exactly the rows of the statements it executed, and that what it is going to write is
*still* the upsert of the committed row. The last part is what makes the transactions serializable,
and it needs the other two: nobody can change a row that is locked. So a
commit is a `Persist` of the whole event (`CommitPersists`) and every other step a
stutter (`TransactionsAreSerializable`), and the properties of the store carry over to
the transactions. `NoDeadlock` follows from the same invariant: all events lock their
rows in one order (`SameOrder`), so a session waits only for one that has come further,
and there are three statements at most.

`AttemptProofs` also has the delays, for every attempt number (`DelaysAreBounded`): an
event that is lost again and again is attempted without limit, so the number has no
bound. `Backoff` is a recursive function on a set of numbers, and a statement about all
of them would be an induction, for which the library's theorem cannot be instantiated
here. Instead, where such a statement fails it fails for a first number
(`FirstNumber`, from the well-foundedness of the natural numbers), and that one
contradicts its predecessor: so the delays are there (`DelaysAreThere`), are the same for
any number of attempts (`DelaysAgree`), stay between base and maximum and do not shrink.
A delay that is doubled is less than a quarter of the range, so nothing wraps
(`NothingWraps`); the assumption is that of `AcceptedDelays`.

`AccessProofs`. First the key cache: `CacheInv` says that the map differs from what is
published only where a key of either has changed since the fetch that filled it began,
and the same of an answer under way (`Accurate`). `CacheWasPublished` is part of it, and
the two action properties about lookups follow from it and the guards of a lookup. Then
the composition: every step of `Next` is a step of `JwksCache`, or one of the process
alone, whose end empties the map, so `CacheInv` carries over. `AccessInv` adds that the
configuration in use is one that was accepted (`ConfigOK`) and, for each stage of a
request, what has been compared on the way to it (`RequestOK`); the safety properties of
the run `access` follow.

`MigrateProofs`. `MigrateInv`: whatever a runner has loaded or passed over is
recorded, and in a transaction it holds a row that no one else has or holds, so the
content of the file is committed once.

`FindingProofs`. `FindingsInv` is the argument of `EntityProofs` for one table: locks
are exclusive, and a row that is going to be written is still the upsert of the
committed one, so a commit is an `Analysis` of the store and every other step of an
analysis a stutter. `AnalysesDoNotDeadlock`: `Precedes` is a strict order on a finite set and
an analysis writes in this order, so the one whose last row comes latest waits for
nobody; the theorem asks for one analyst at least.

`MissedFindingsHaveCauses`, for any number of findings, analysts and rows of a page.
`UnreadIsBehind` is the strengthening: as long as no cause is there, an unchanged
finding that the reader has not seen has at least as many rows before it as the offset
passes over. A page keeps this because the rows before its end are exactly as many as
their number says (`TopIsCounted`, an argument about the first and last rows of a finite
strict order), so a page that is not full is the last (`FullPage`). A change keeps it
because, without a cause, every row the offset passes over is still there and still
before the finding. The proof failed for an earlier wording of the cause, "a row the
reader has seen changed": a list of three findings refutes it, which is why the run
`operations` has one.

`RetentionProofs`. `RetentionInv`: rows chosen by a worker and not yet purged are never
the latest snapshot. What makes it inductive is that a row that arrives, or is deleted
by another worker, only moves the latest one away from the chosen ones; that there is a
latest one at all is shown by the finiteness of the table.

`PurgesAreReported`: `CountsInv` adds to `PurgesAreAudited` that a worker at rest has
nothing to report (`CountsBelong`) and that what it has chosen belongs to the table it
counts for, so what becomes purged is what is counted (`PurgeIsCounted`). The counts are
added up by `MapThenSumSet`, a fold; what a sum is, that it depends on its terms only and
that one term can be taken out (`SumIsThere`, `SumTakesOut`, `SumDependsOnTerms`) is shown
by a smallest set for which it fails (`SmallestSubset`), from the well-foundedness of
strict inclusion on finite sets.

`OperationsProofs`. Every step of the composed system is a step or a stutter of each part
(`PartsKeepTheirSpecifications`), so it keeps the promises of all three
(`OperationsAreSafe`).

Only model-checked: the liveness properties (`SettlesForGood`, `PendingIsSettled`, the
liveness of `ImplementsContract`, `EveryRequestIsAnswered`), which are out of the prover's
reach. Every safety property of the passing runs is proved.

## 5. Disagreements

- **Conversations cannot be stored with the migrated schema** (`entities_index_violation`).
  `ON CONFLICT (source, external_id)` at `internal/repository/postgres/ingest.go:412`,
  `:447` and `:180` names no predicate; the only unique indexes on these columns are
  partial (`migrations/0002_ingest_pipeline.sql:25-35`). Postgres refuses the statement
  (42P10), the error is not transient, and the event is dead-lettered. The repository's
  tests do not run these statements. The model takes the rule of index inference from
  Postgres' documentation of `INSERT`.
- **The retry budget is not a bound on attempts** (`ingest_budget_violation`): a stale
  row in processing is leased whatever its `attempt_count` is.
- **A late failure overrules an accepted event** (`ingest_duplicate_violation`):
  `RecordEventFailure` has no condition on the row, so a re-delivery of an accepted
  event may be answered with `retry_scheduled` instead of `duplicate`. No data is lost.
- **An outage is not always transient** (`ingest_outage_violation`): network errors and
  `driver.ErrBadConn` are not recognised, so events are dead-lettered when the database
  is unreachable rather than slow.

- **The audit row of an analysis can be lost in a graceful shutdown**
  (`access_audit_violation`): the goroutine of `auditAsync`
  (`internal/http/handler/handler.go:543`) is not waited for, and the specification of the
  analysis requires an audit event for each execution.

`PROJECT.json` quotes the sentence each of them contradicts. Smaller ones, seen while
the models were written and without a run, because they follow from a single line or
from what the models leave out:

- `enable_project_oslogin` is flagged when it is false, not when it is unset
  (`internal/security/rules.go:72`); the rule catalog of the README says "disabled or
  unset".
- `MAX_ROWS_PER_RUN` is a limit per target, so a run may delete up to four times as
  many rows; `docs/operations.md:96` says "Each run is capped by".
- A retention run that fails leaves no audit row for what it deleted before
  (`internal/retention/service.go:84`; the premise `~failed` of `PurgesAreAudited`), and
  two workers may both count the compaction of a message.
- `GET /metrics` is an authenticated read without an audit row; the read audit of the
  others uses the context of the request, so a client that has left loses it.
- A break-glass token with two dots is taken for a JWT and never works
  (`internal/http/middleware/auth.go:253`): the premise "not taken for a JWT" of
  `BreakGlassNeedsNoProvider`.
- After its break-glass token has expired a process cannot be restarted with the same
  environment (`internal/config/config.go:302`): the guard of `Restart`.
- Retry delays can turn negative if the configured maximum is 2^62 ns (146 years) or
  more: the bound in `AcceptedDelays`.

## 6. Not modelled, and what could follow

Not modelled:

- The reads of dashboards and conversations, apart from the latest status (`Retention`)
  and the list of findings (`SecurityFindings`): each is a SELECT of its own, and nothing
  in the system follows from its answer. The in-memory store's versions of them
  likewise.
- Observability: request ids, counters, spans, logs. Nothing reads them back.
- Configuration, apart from the checks of tokens, break-glass and retry delays; the
  others are the assumptions on constants of the models.
- Of the decoders, everything but the relations between times; titles, hints and the
  redaction of metadata in the analysis.
- The encodings of tokens, keys and signatures: represented by the function `Jwt`.
- The event ledger of the in-memory store, which does under one mutex what the pipeline
  does row by row; its persist, retention and security methods are covered by
  `EntityStore`, `Retention` and `FindingStore`.
- The cascade from `infra_snapshots` to `infra_status_latest`: no query reads that
  table. Foreign-key locks: a transaction only refers to rows it has locked itself.
- `WithBearerAuth`, which nothing but a test calls.
- The statements inside a migration, apart from the indexes `EntityTransactions` uses.
- Terraform, startup templates, CI and OpenSpec texts: no state machine of this program.

READ COMMITTED is represented by its effect on the statements the code has, not as a
general isolation level.

What could follow, in this order: the in-memory ledger as a second implementation of
`IngestContract`; retention of messages and attempts composed with the entity tables,
whose rows it changes.
