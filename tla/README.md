# PulseStream in TLA+

A TLA+ model of PulseStream's durable admission and at-least-once processing:
specifications translated from the Rust and SQL sources, TLC configurations that
check them on small instances, and TLAPS proofs for every value of the constants.

## The system

PulseStream has two kinds of process, which meet only in one PostgreSQL table:

| Part | Source | State it owns |
| --- | --- | --- |
| events table | `migrations/0001_create_events.sql` | one row per event: content, status, owner, lease, attempts, timestamps |
| store | `crates/pulsestream-store/src/lib.rs` | a connection pool; `admit`, `get`, `claim`, `complete`, `migrate`, `ping` |
| API process | `crates/pulsestream-api/src/` | none beyond its requests: `POST /v1/events`, `GET /v1/events/{id}`, health |
| worker process | `crates/pulsestream-worker/src/` | the claim loop, its `JoinSet` of tasks, counters, shutdown |
| core | `crates/pulsestream-core/src/` | none: validated types, request fingerprint, configuration |

A client sends an event with an idempotency key. `Store::admit` inserts the row
or finds the one that is there, in one transaction, and the API answers 202 only
after the commit. Workers claim rows in batches under a lease, run a processor
on each, and mark the row PROCESSED if they still own it. A row whose lease has
lapsed can be claimed again by anyone, which is the only recovery there is: for
crashes, for failed attempts, for lost answers and for aborted shutdowns.

What makes this hard to test is that every await is a place where the other side
moves on: a statement may be executed after its sender is gone, a lease may lapse
while its claim is worked on, two transactions may insert the same key, two claims
may select the same row. `PROJECT.json` lists these hazards at their lines with
the properties that would catch them.

## The modules

| Module | Models | Role |
| --- | --- | --- |
| `EventLifecycle` | the row lifecycle, each store operation one atomic step | abstract specification |
| `EventStore` | `Store::claim` and `Store::complete` as PostgreSQL executes them | refines `EventLifecycle` |
| `EventStoreProofs` | | its theorems, the refinement and the absence of deadlock among them |
| `Faults` | the budget of failures that workers and API share | used by both |
| `WorkerRuntime` | `runtime.rs`: claim loop, tasks, shutdown, crash, for several workers | refines `EventLifecycle`, whose operations it uses |
| `WorkerRuntimeProofs` | | the theorems about `EventLifecycle`; that the runtime refines it; attempts, completions, slots and the count of processed events |
| `RunReportProofs` | | the counters of the runtime's report, and its types |
| `IdempotentIntake` | what `POST /v1/events` promises, each effect one atomic step | abstract specification |
| `Admission` | `ingest` and `Store::admit`: requests, transactions, pool, retries | refines `IdempotentIntake` |
| `AdmissionProofs` | | its theorems, the refinement among them |
| `PulseStream` | API, workers and `GET` on one table | extends `WorkerRuntime` and `Admission`; refines `EventLifecycle` and `IdempotentIntake` |
| `PulseStreamProofs` | | its theorems: both refinements, what clients are told, the parts together |
| `Ingest` | one request through header, body and domain checks, the table's CHECKs and the parse of a claim | stands alone |
| `Fingerprint` | `RequestFingerprint::compute` and `write_canonical` | operators, compared with a reference definition |
| `FingerprintProofs` | | that they agree with it |
| `Configuration` | `config.rs` | operators, used by `Startup` |
| `Startup` | both `main.rs`: configuration, migration, bind, service, drain, exit code | extends `Configuration` |
| `StartupProofs` | | its theorems about the migration, the settings, and what processes hold |
| `ConnectionPool` | the pool of `connect_lazy` and `/health/ready` on it | stands alone |
| `ApiProofs` | | the theorems about `Ingest` and `ConnectionPool` |
| `Backlog` | the claim order over time, with events that always fail | stands alone |
| `MC...` | | small instances for TLC |

### EventLifecycle

Four columns: `status` (with `ABSENT` for no row), `processing_owner`,
`delivery_attempts`, and the lease reduced to one bit, `lease_lapsed`, which is
`lease_expires_at <= now()`. `Admit`, `Claim`, `Complete` are the store's
operations at their commit. `LeasesLapse` is the passing of time. `Claim` takes a
flag `late`, because a lease counts from the start of the statement and may be
over when the statement commits. The number of attempts is unbounded here; the
modules that TLC runs bound it.

### EventStore

One session per pooled connection. A claim is `ClaimStart` (freeze `now()`, take
the snapshot), one `ClaimVisit` per row in the order of `ORDER BY accepted_at,
event_id` (pass over a row that is locked, look again at one that changed, lock it
otherwise), and `ClaimCommit` (the UPDATE and the commit). `NextRow` is the row a claim
may visit, used by the action and by `LocksResolve`. A completion is
`CompleteStart`, `CompleteLock` (wait for the row lock, look again) and
`CompleteCommit`. `Rollback` cuts any of them off. `AdmitCommit` puts rows in with
an `accepted_at` that may lie in the past. Completions come from any worker for
any event at any time, which covers every order in which the runtime could send
them.

The row locks and the second look at a changed row are PostgreSQL's READ COMMITTED
rules for `FOR UPDATE SKIP LOCKED` and `UPDATE`; they are modelled from how the
statements rely on them.

### WorkerRuntime

`pc[w]` is the place in `run`: `top`, `claiming` (the statement is sent), `claimed`
(executed, answer on its way), `select`, `draining`, `aborting`, and the end states.
`tasks[w]` is the `JoinSet`; a task knows its event, its attempt and its stage in
`process_claim`. Sending a statement, executing it and receiving the answer are
separate steps, and `lateClaims` and `lateCompletes` hold the statements whose sender
has crashed, was aborted or gave up: they may be executed at any later time, or
never. A late claim carries the number of failures at its loss, which keeps two of one
worker apart (a lost claim counts as a failure, and a worker crashes once); two late
completions of one worker and event come to the same as one that is executed later. A panic is counted when its task is joined, at each of the places the code
joins (`LoopTop`, `SelectJoin`, `DrainJoin`), and not at all by `tasks.shutdown()`.
`handled` and `spawned` are history variables that only properties read.

A claim here may return any set of claimable rows up to its limit, since rows
locked by others are passed over. A restarted process draws a new `WorkerId`, so a
restart is another worker that starts later.

### Admission

Clients send one request each, again after an error or no answer, until they get
202 or 409. `step[c]` is the place in `ingest` and `Store::admit`. `InsertWaits` is
the unique index making `INSERT ... ON CONFLICT DO NOTHING` wait for an uncommitted
row of the same scope. A connection that breaks in front of or during COMMIT leaves
its row in `limbo`: committed later or rolled back. Every try draws a fresh event
id. The fingerprint is a value here; `Fingerprint` is about how it is computed.

`IdempotentIntake` is what a client may rely on, without transactions: a scope holds
at most one event, which never changes; a 202 names the event of the scope, a 409
means the scope's event has other content, and only one 202 of an event says that it
is new. The refinement mapping takes the committed
rows for the events: one appears when its row commits, which may be after its client
was told 503.

### PulseStream

The admissions of `Admission` and the workers of `WorkerRuntime` over one table. An
admission that commits a row makes it, in the same step, a PENDING event for the
workers; nothing else connects the two sides, as in the code. Clients that were told
an id read its status: the request is sent, the SELECT executed and the answer
received in separate steps, while everything else goes on. The faults of both sides
share one budget.

### Ingest and Fingerprint

`Ingest` takes one request through the handler's stages. A request is abstracted to
what the checks tell apart: a label's length in characters and in bytes, whether it is
blank or has a control character, how far the body parses, what the payload is. After
a 202 the row is claimed, which parses it again.

`Fingerprint` takes JSON texts (literals, arrays, objects with possibly repeated keys)
through serde_json's parsing, with the map order of either build, and `write_canonical`
to the sequence that is hashed. `Text` is any set of texts that has the parts of each
of its members. `Depth` says how deeply each is nested: a text is written in finitely
many characters, so a part is nested less deeply than the whole (`TextAssumption`), and
`Parse`, `WriteCanonical` and `SameAs` are recursive functions on `Text`. `Byte` is what
labels consist of, and may contain anything, the length of a field included. Output is
a sequence of tokens: punctuation, scalars, keys and lengths. Taken for granted is that
SHA-256 is injective, and that the JSON serde_json writes is read back in one way:
strings are quoted and escaped, so that scalars, keys and punctuation are told apart.
`SameAs` is the reference: the texts that mean the same as a text, with no order of keys
at all.

### Configuration, Startup and ConnectionPool

`Configuration` gives every variable its range, default and error, and the settings
or the first error of an environment. `Startup` runs `main` of several processes on
one database. The migration is sqlx's `Migrator::run`: take the advisory lock of the
session, list what is applied, apply what is missing in a transaction, unlock; an
outage or the death of the process ends the session and frees the lock; a database that
hangs keeps both and answers nothing. What a process does while it serves is reduced to
the number of requests or events it has in hand (`active`), to the worker's claims, and to
whether connections are on their way back to the pool (`returning`). A signal before the
handlers are installed ends the process at once; the worker polls `shutdown::signal` for
the first time in the `select` after its first claim, and a signal that meets a later claim
(`stopping`) is seen when that claim is answered. `Store::close` waits for `returning`,
which a hanging database does not end. A supervisor
restarts what failed or was killed without having been told to stop. The bind address
may be held by another program, so that an API fails and is restarted for ever.

`ConnectionPool` is one API process: slots that are empty, idle or held, each tested
before it is handed out, with a socket that may be broken unnoticed. The database may
go down, which breaks the sockets, or hang, which does not. A probe is limited over its
whole check by READINESS_TIMEOUT, a request only on its way to a connection by
acquire_timeout. A future that is dropped leaves its connection to the pool, which has
to find out whether it still works.

### Backlog

One worker, events numbered in claim order, time in units no shorter than the poll
interval: in every unit the worker claims what its free slots allow and attempts end
within `MaxWork` units, before their lease. `Poison` events always fail and come back
after every lease, ahead of everything younger.

## What TLC checks

Every run is complete for its instance. Bounds are constants: `MaxClock` (ticks of
the database clock), `MaxLimit` (largest LIMIT), `MaxFaults` (failures in one
behaviour), `Mortal` (the workers that may be shut down or crash), and the sizes of
the sets.

| Run | Instance | Shows |
| --- | --- | --- |
| `store` | 2 events, 2 workers, 2 sessions, lease 1, clock 0..1 | `ClaimsInOrder` (oldest first, up to LIMIT), `LifecycleConsistent` (the CHECK constraint), `LocksGuard`, `LocksResolve` (no circle of sessions that wait for row locks), `TimestampsOrdered`, and `ImplementsLifecycle`: the refinement |
| `runtime` | 2 events, 2 workers with 2 slots, one mortal, 1 fault | eight invariants and two action properties, below |
| `runtime_live` | 2 events, 2 workers with 1 slot, one mortal, 1 fault, processors may hang | `ShutdownCompletes`; `EventuallyProcessed`, if processors return |
| `admission` | 3 clients on one scope, 2 fingerprints, 2 connections, 2 faults, fair | `NoRequestStuck` (nobody waits in a circle), `AcceptedIsDurable`, `OneRowPerScope`, `ConflictIsReal`, `LookupFindsRow`, `ClientsSettle`, and `ImplementsIntake`: the refinement |
| `service` | 1 client that retries, 2 workers with 1 slot, one mortal, 1 fault, fair | `SeenAdvances` (told statuses never go back), `ToldInTheEnd` (from the first try to `processed`), and `ServiceImplementsLifecycle`: the refinement |
| `ingest` | 7 keys, 3 content types, 5 bodies, 9 labels per field, 3 payloads, in all combinations | `AdmittedRowsDecode`, `RefusesByTheRules` |
| `fingerprint` | pairs of 69 requests, 2 map orders each | `EqualIffSame` |
| `startup` | 1 API, 1 worker, 21 environments, bind address free or taken, 2 faults, 1 unit of work each, fair | `ConcurrentMigrationsSafe`, `ServesOnSchema`, `ConfiguredInRange`, `ServesInTheEnd`, `SignalledExits` |
| `pool` | 1 probe, 1 request, 2 connections, 2 outages or hangs, fair | `StaleConnectionsHarmless`, `ReadinessRecovers`, `ProbesNeverHang` |
| `backlog` | 5 events of which 1, 2 and 4 always fail, 2 slots, lease 4, attempts of at most 2 units | `OthersProcessed` |

Why these bounds reach the interesting cases:

- `store`: one tick with a lease of one is enough for a lease to lapse, be
  reclaimed, and have the old owner's completion wait behind the reclaim; a claim
  started before the tick and committed after it hands out rows whose lease has
  already lapsed. Two rows are enough for sessions to lock them in different orders.
  The theorems carry the results to any size.
- `runtime`: with two slots and two workers an event can be in two slots of one
  worker or in slots of both. One fault, on top of any crash and shutdown of the
  mortal worker (which are not counted as faults), covers each failure alone and
  together with each crash point. Leases nobody works under lapse without using
  the budget.
- `runtime_live`: liveness excludes symmetry, hence one slot; two workers and one mortal
  are enough for an event to change hands in every way.
- `admission`: three clients are needed for one to insert, one to wait and one to
  come between a rollback and the waiter; two faults allow a lost COMMIT followed by
  a failed retry. Requests of different scopes share nothing but the pool, whose two
  connections three clients of one scope contend for already.
- `service`: the components have their own, larger runs. Here one event, one fault and
  a crash on top of it suffice for what only the composition has: a lost COMMIT whose
  row is claimed before its client retries, a replay of a claimed row, a read between
  two claims.
- `ingest`: both sides of every limit, one value per branch of every check.
- `fingerprint`: repeated and reordered keys, bytes that could be taken for a length, nesting in arrays and objects, literals
  that differ as text and agree as values, labels whose concatenations coincide.
- `startup`: one environment with everything unset, one with every number at an end of
  its range, and one for each error of a parser (for the worker's numbers, which share
  the parser of the database's, on one side of the range). Two migrators are enough for one
  to hold the lock and die while the other waits; two faults allow an outage after a
  kill, and a hang while the connections of an aborted drain return.
- `pool`: with two slots, one can be broken and idle while the other is being tested.
- `backlog`: the failing events take 3 * 2 of the 2 * 4 slot units of a lease. The
  assumption `LoadAssumption` says that they take less than all. Nothing is claimed for
  failing events that fill the slots: there is no retry policy yet, and they do starve
  the others.

The safety properties of `runtime`: a worker holds at most `concurrency` tasks and
unanswered claims (`CapacityBound`); an attempt belongs to one task
(`AttemptsExclusive`); the latest attempt owns its row until it is PROCESSED
(`LatestAttemptOwns`); PROCESSED implies some processor returned Ok
(`ProcessedWasHandled`); no event is counted as processed twice: the counts of all
workers stand for as many different PROCESSED events (`CountedOnce`); a
returned report accounts for all claims (`ReportAccounts`); columns agree with the
status (`ColumnsAgree`); a running lease protects its claim (`LeaseProtectsClaim`);
PROCESSED rows never change (`ProcessedIsFinal`).

Deadlock is checked except where the system may really stop: all clients have their
answer, or the only worker has shut down.

### Fairness

- `WorkerRuntime.RuntimeFairness`: tokio polls what is ready, every await but
  `processor.process` ends (acquire and statement timeouts, `shutdown_timeout`), and
  leases that nobody works under lapse. A claim that finds rows is strongly fair to
  take some: a row is passed over only while another statement holds its lock.
  `ProcessorFairness` (processors return) is no part of it: `EventuallyProcessed`
  states it as a condition, and `ShutdownCompletes` does without. Faults are never fair and are bounded, so liveness
  says: once faults stop.
- `Admission.FairAdmissionSpec`: handlers run, clients without a final answer send again, and
  a COMMIT on a broken connection is executed or rolled back.
- `PulseStream.FairServiceSpec`: both of these with `ProcessorFairness`, and clients
  that know an id keep asking.
- `Startup.StartupFairness`: a process goes on with `main`, a database that does not hang
  answers claims and the pool's tests of returned connections, outages and hangs end, and
  the supervisor restarts. The migration lock is strongly fair, as PostgreSQL queues its
  waiters: without that, an API that is restarted for ever could keep a worker from its
  turn. Nothing makes work end: a worker's processor may hang, and the API's wait for its
  requests has no limit (reading a body has none, and `statement_timeout` is the server's).
  So `SignalledExits` speaks of every signalled worker, which has its `shutdown_timeout`,
  and of an API whose requests have ended. Signals, kills, outages and hangs are not fair.
- `ConnectionPool.FairPoolSpec`: tasks are polled and their time limits fire, probes
  keep coming, and the pool settles returned connections. Nothing is assumed of the
  database: `ProbesNeverHang` holds if it stays hung.
- `Backlog`: time passes, the worker claims and attempts end.

## Where comments and code differ

Two runs expect a violation.

- `runtime_claimed` checks the sentence of `runtime.rs:11-12`, "claimed-but-unfinished
  events and live tasks never exceed `concurrency`". A failed claim or task frees its
  slot, its row stays PROCESSING under the worker, and the next claim takes more. Live
  tasks do stay within the limit (`CapacityBound`).
- `ingest_payload` checks the request rules of the repository's README, among them
  "`payload` is any non-null JSON value" (`README.md:119`), as a promise
  (`AcceptsByTheRules`): a request that meets them is accepted. JSONB refuses a string
  with the escape of U+0000, which `Event::new` lets through, and the client is told 500.
  The other direction holds: no client is blamed for a request that meets the rules, and
  none that breaks one gets past the checks (`RefusesByTheRules`).

Other sentences that the model contradicts, each in the actions named; none of them has
a run of its own:

| The sentence | What happens | Where |
| --- | --- | --- |
| `runtime.rs:39-40` failed claims "stay `PROCESSING` until their lease expires" | the completion may be committed with only its answer lost | `WorkerRuntime!CompleteFails` |
| `runtime.rs:18-19` aborted claims "stay `PROCESSING`" | the task may be aborted with its completion under way | `AbortTask`, `LateCompleteExecutes` |
| `runtime.rs:42-43` lost claims were "reclaimed elsewhere" | a lone worker may reclaim its own expired claim, and its two tasks race | `ClaimExecutes`, `CompleteExecutes` |
| `event.rs:196-197` `accepted_at` is "the database's commit-time clock" | `DEFAULT now()` is the time the transaction began | `EventStore!AcceptedAt` |
| `config.rs:4-5` "defaults apply only to unset variables" | `env::var(key).ok()` makes a value that is not Unicode count as unset | `Configuration!Lookup` |
| `lib.rs:136-138` "a process can start (and report not-ready) while PostgreSQL is down" | with migration at start, the default, it exits with failure | `Startup!MigrationLockFails` |
| `health.rs:4-5` `/health/ready` says "the service can durably accept events" | SELECT 1 succeeds without the table when migration at start is off | `Startup!ConnectLazy`, `ConnectionPool!ExecutePasses` |

At-least-once processing, the owner check and idempotency hold in all of these cases:
what differs is how many rows a worker may have claimed, what its report tells an
operator, and what `accepted_at` and readiness mean.

## What is proved

TLAPS checks the following for every value of the constants: any sets of events,
workers, sessions, clients, keys and contents, any lease, concurrency, pool size and
number of faults. The assumptions are `LifecycleAssumption` (`NoOwner` is no worker),
`StoreAssumption` (event ids are numbers, the lease is positive),
`FaultsAssumption` (faults are counted), `AdmissionAssumption` (a pool has a connection),
`RuntimeAssumption` (a worker has a slot, mortal workers are
workers, the events are finitely many, so that tasks can be counted),
`ServiceAssumption` (the ids that admissions draw are events),
`StartupConstants` (`Nobody` and `Stranger` are no processes, a process is an API or a
worker, bounds are numbers),
`PoolConstants` (`Free` and `Pool` are no tasks, outages are counted),
`IngestConstants` (the forms of a key, a body and a label; lengths are numbers, and an
empty label is blank), `TextAssumption` (a text is a literal, an array or an object, and
its parts are texts of smaller depth) and `SentAssumption` (a request has two labels of
bytes and a text).

| Theorem | States | Rests on |
| --- | --- | --- |
| `LifecycleTypeCorrect` | `LifecycleSpec => []LifecycleTypeOK` | inductive as it stands |
| `LifecycleColumnsAgree` | `LifecycleSpec => []ColumnsAgree` | inductive with the type invariant |
| `LifecycleLeaseProtects` | `LifecycleSpec => LeaseProtectsClaim` | type invariant: a claim needs a lapsed lease, a completion the owner |
| `LifecycleProcessedFinal` | `LifecycleSpec => ProcessedIsFinal` | no guard is true of a PROCESSED row |
| `StoreTypeCorrect` | `Spec => []TypeOK` | inductive as it stands |
| `StoreLocksGuard` | `Spec => []LocksGuard` | inductive with `TypeOK` |
| `StoreLifecycleConsistent` | `Spec => []LifecycleConsistent` | `LocksGuard` |
| `StoreImplementsLifecycle` | `Spec => ImplementsLifecycle` | all three invariants |
| `StoreTimestampsOrdered` | `Spec => []TimestampsOrdered` | `AcceptedFirst`, with the types and `LocksGuard` |
| `StoreClaimsInOrder` | `Spec => []ClaimsInOrder` | `ClaimsSeeRows`, with the types and `LocksGuard` |
| `StoreLocksResolve` | `Spec => []LocksResolve`: a statement that cannot go on holds no lock and waits for one that can | `WaitersHoldNothing`, `ClaimsInOrder` |
| `StoreLeaseProtects` | `Spec => Lifecycle!LeaseProtectsClaim` | `LocksGuard` |
| `StoreProcessedIsFinal` | `Spec => Lifecycle!ProcessedIsFinal` | `LocksGuard` |
| `AdmissionTypeCorrect` | `AdmissionSpec => []AdmissionTypeOK` | `AdmissionInv` (ids cannot run out) |
| `AdmissionOneRowPerScope` | `AdmissionSpec => []OneRowPerScope` | `AdmissionInv` |
| `AdmissionAcceptedIsDurable` | `AdmissionSpec => []AcceptedIsDurable` | `AdmissionInv` |
| `AdmissionConflictIsReal` | `AdmissionSpec => []ConflictIsReal` | `AdmissionInv` |
| `AdmissionLookupFindsRow` | `AdmissionSpec => []LookupFindsRow` | `AdmissionInv` |
| `AdmissionImplementsIntake` | `AdmissionSpec => ImplementsIntake` | `AdmissionInv` |
| `AdmissionNoRequestStuck` | `AdmissionSpec => []NoRequestStuck` | the types |
| `RuntimeCapacityBound` | `Spec => []CapacityBound` | `RuntimeInv` |
| `RuntimeAttemptsExclusive` | `Spec => []AttemptsExclusive` | `RuntimeInv` |
| `RuntimeLatestAttemptOwns` | `Spec => []LatestAttemptOwns` | `RuntimeInv` |
| `RuntimeProcessedWasHandled` | `Spec => []ProcessedWasHandled` | `RuntimeInv` |
| `RuntimeImplementsLifecycle` | `Spec => LifecycleSpec` | `RuntimeTypes`, the types that the proofs about the runtime need |
| `RuntimeLeaseProtects` | `Spec => []ColumnsAgree /\ LeaseProtectsClaim /\ ProcessedIsFinal` | the refinement and the lifecycle theorems |
| `RuntimeReportAccounts` | `Spec => []ReportAccounts` | `RuntimeInv` and `ReportInv` |
| `RuntimeCountedOnce` | `Spec => []CountedOnce` | `CreditInv` |
| `RuntimeTypeCorrect` | `Spec => []TypeOK` | `RuntimeInv`, `ReportInv` and `ClaimingHasSlot` |
| `StartupMigrationsSafe` | `StartupSpec => []ConcurrentMigrationsSafe` | `StartupInv` |
| `StartupServesOnSchema` | `StartupSpec => []ServesOnSchema` | `StartupInv` |
| `StartupConfiguredInRange` | `StartupSpec => []ConfiguredInRange` | `SettingsRead` |
| `StartupHoldersAlive` | `StartupSpec => []HoldersAlive`: the migration lock and the bind address are held by live processes only | inductive with `WorkInHand` |
| `StartupSuccessIsClean` | `StartupSpec => [](...)`: exit code 0 means nothing in hand and nothing dropped | `WorkInHand` |
| `PoolStaleConnectionsHarmless` | `PoolSpec => []StaleConnectionsHarmless` | `PoolInv` |
| `PoolNothingStuck` | `PoolSpec => []NothingStuck`: a task can go on or waits, a waiting probe has its time limit, and no slot is lost | `PoolInv` and `SlotsInUse` |
| `IngestRowsDecode` | `IngestSpec => []AdmittedRowsDecode` | `IngestInv` |
| `IngestRefusesByTheRules` | `IngestSpec => []RefusesByTheRules` | `IngestInv` |
| `CanonicalDecides` | every text is recognised at the front of any output that starts with it (`Decodes`), and texts that mean the same are written alike (`Agrees`) | least depth of a counterexample |
| `ComputeEqualIffSame` | `Compute(r, o) = Compute(s, p) <=> Same(r, s)`, for any two requests and map orders | `CanonicalDecides`, `FieldsDecode` |
| `FingerprintEqualIffSame` | `FingerprintSpec => []EqualIffSame` | `ComputeEqualIffSame` |
| `ServiceInvariant` | `ServiceSpec => []ServiceInv` | the invariants of the parts, `TableAgrees`, `ReadsSound` |
| `ServiceRefinesLifecycle` | `ServiceSpec => ServiceImplementsLifecycle`, and with it `[]ColumnsAgree /\ LeaseProtectsClaim /\ ProcessedIsFinal` | `ServiceInv` and the lifecycle theorems |
| `ServiceRefinesIntake` | `ServiceSpec => ImplementsIntake` | `ServiceInv` |
| `ServiceSeenAdvances` | `ServiceSpec => SeenAdvances` | `ServiceInv` |
| `ServiceTellsTheTruth` | `ServiceSpec => []ProcessedIsTrue`: who is told `processed` knows an event that was handled | `ServiceInv` |
| `ServiceCommitsAreNew` | `ServiceSpec => []CommitsAreNew`: no commit meets an event the workers have already | `ServiceInv` |
| `ServiceKeepsParts` | `ServiceSpec => [](...)`: ten safety invariants of the API and of the workers | `ServiceInv` |

`LocksGuard` is the heart of the proofs about `EventStore`. The guards of `Claim` and `Complete`
must hold when a statement commits, but the code tests them when it locks the rows,
several steps earlier. `LocksGuard` says that locks are exclusive and that what a
session saw of its locked rows is still true: rows change only in commits, a commit
changes only rows its own session has locked, and the clock makes a lapsed lease
only older. With it every commit maps to one step of the lifecycle, a tick maps to
`LeasesLapse`, and everything else is a stuttering step. The two action properties of the
lifecycle are proved of the statements directly, too (`StoreLeaseProtects`,
`StoreProcessedIsFinal`): a commit touches only rows that its session has locked, and
what was true of them when they were locked rules out a running lease and PROCESSED.

`ClaimsInOrder` compares rows by `accepted_at`, which has to be settled when it is
compared: `ClaimsSeeRows` says that the rows of a snapshot are there. `LocksResolve` is
the absence of deadlock: claims skip what is locked, so only a completion waits, and it
waits for its first and only lock (`WaitersHoldNothing`); whoever holds that lock is a
claim or a completion past its wait. No chain of waiting sessions is longer than one.
`NoRequestStuck` is the same of admissions, with the pool as a second thing to wait for:
a request that waits for a connection waits for transactions, and a transaction that
waits for an insert waits for one that has its connection and only its COMMIT ahead.

`TimestampsOrdered` compares two transaction starts. It needs `AcceptedFirst`: a
committed `accepted_at` is not ahead of the clock, and a completion looks only for rows
that its snapshot, and so its `now()`, came after.

`AdmissionInv` strengthens what clients see by what transactions are doing. One row per
scope is not inductive for the table alone, since rows arrive there from open
transactions and from COMMITs whose outcome is unknown (`limbo`). `RowsSound` counts all
three, and `OutcomesSound` says that what a handler found is still true when it answers:
rows are never changed or removed. `TriesCounted` bounds the tries of a client by the
faults, so that each try has an id of its own, and `AnswersSound` makes the answer that
calls an event new unique. The refinement maps a commit, on its own connection or out of
limbo, to `CreateEvent`, an answer to `Accept`, `Refuse` or `Fail`, and all else to a
stuttering step.

`RuntimeInv` has the same form; it starts from `RuntimeTypes`. `AttemptsExclusive` is about tasks, but attempts begin in
a claim whose answer is still on its way, so `ClaimsExclusive` speaks of both: no attempt
is in two hands, none is newer than the row has counted, and the one it counted last is
its owner's. A claim increments the counter, so what it hands out is new; a lost answer
only shrinks what is in hand. `HandledFirst` says the same of completions, those of
aborted tasks that the server still executes included, as `ProcessedWasHandled` needs.
`SlotsSuffice` counts tasks and unanswered claims together, because a claim asks for the
slots that are free when it is sent. The proof first shows that a step only
shrinks what is in hand, moves one task on, moves a batch into tasks or executes a
statement (`StepKinds`), and then treats these kinds instead of twenty actions.

`ReportInv` is the balance behind the report: what the counters hold and the tasks not
yet counted add up to the tasks spawned, until the drain times out; from then on
`abandoned` stands in for the tasks, some of which may still end by themselves and be
counted.

`CountedOnce` says that there is an assignment of PROCESSED events to workers that the
counters are the sizes of. Stated in this way it takes no sum over workers: the proof
carries the assignment along (`CreditInv`). A completion that finds its row makes the
event PROCESSED, so it had no counter and no other task of it is done; when the task
returns, its event is assigned to its worker and the counter grows by one. The last part
of the runtime's types is that a late claim asks for at least one event, which rests on
`ClaimingHasSlot`: no task is added between the check for a free slot and the answer.

`StartupInv` adds `LockHeld`, that a process between listing and unlocking holds the
migration lock, and `SchemaReady`, that whoever is past the migration has the schema.
An outage ends the session together with its lock, so no process goes on without it; a
hang leaves it both.
`SettingsRead` says that settings are what `from_lookup` makes of an environment in which
it finds no error. `FirstBadFound` adds that no first error means no error at all, since
a set of positions has a least element. `WorkInHand` says when a process may have
requests or events in hand, and that it drops them only at its shutdown timeout.

`PoolInv` follows a connection from its test to its use: whoever holds a broken one while
executing was disturbed, since the outage that broke it came after the test. `IngestInv`
says which checks a request has passed at each stage; with them the schema's CHECKs and
the parse of the claim, which count in the same units, have nothing left to refuse.
`SlotsInUse` says that a task gives its connection up in the step in which it stops
testing or executing, however that ends.

`EqualIffSame` is about recursive functions over nested texts. The library's theorems on
recursive definitions and on induction take an operator, which no installed prover can
instantiate, so the proof goes without them: where an induction is due, it looks at the
least counterexample (`Least`), a set of numbers being something that the provers can
take. The steps are these.

1. The functions exist. `Recursion` takes a step on approximations, as a function, that
   looks only at smaller depths, and shows that it has a fixed point; `CanonicalSolves`
   and `SameSolves` apply it to `WriteCanonical` and `SameAs`, `BufferExists` does it for
   the loop that writes commas.
2. Order of keys. A finite set of numbers can be put in increasing order (`OrderExists`)
   in one way only (`IncreasingUnique`). So `EntriesSorted` gives the same sequence for
   both map orders (`SortForgetsMapOrder`), and with it `WriteCanonical` does not depend
   on the map order at all (`CanonicalForgetsMapOrder`).
3. Lists. If no part begins with the closing mark, and parts are told apart at the front
   of whatever follows, then the list between its marks can be taken apart again
   (`ListDecodes`).
4. Texts (`CanonicalDecides`). The first token tells literals, arrays and objects apart.
   The parts of a text are less deep, so they can be recognised, and by 3 the whole can.
   A key is recognised by its token; entries in key order with equal keys have equal
   values (`ObjectDecodes`), and objects with equal fields have equal entries
   (`ObjectAgrees`).
5. Fields. "Length-prefixed fields prevent ambiguity between field boundaries": from a
   length and what follows it, the field and the rest can be told (`FieldBoundary`),
   four times over (`FieldsDecode`).

`ServiceInv` puts the parts together. To the API a worker's step is nothing, except that
it may use up a fault, which leaves the clients fewer (`AdmissionInvKept`). To the workers
a COMMIT is `EventAdmitted` and all other steps of the API are nothing (`WorkerSide`), so
each part keeps its invariant and its refinement. `TableAgrees` ties the two tables: an
event is in the workers' table just when its row is committed. `ReadsSound` orders what
there is to know about a client's event: what it was told, what its GET has read since,
and the row now. A row only advances (`StatusMovesOn`), and a client knows one event, as
it stops sending with its first 202; so no answer can overtake another, and an answer
`processed` means that the row is PROCESSED and the event handled. `CommitsAreNew` is
what makes the composition sound: `AdmissionStep` takes a COMMIT together with `Admit`,
whose guard could otherwise have hidden COMMITs that the code makes.

Only model-checked:

- liveness (`EventuallyProcessed`, `ShutdownCompletes`,
  `ClientsSettle`, `ToldInTheEnd`, `ServesInTheEnd`, `SignalledExits`,
  `ReadinessRecovers`, `ProbesNeverHang`, `OthersProcessed`),
  which is out of the prover's reach; `LocksResolve`, `NoRequestStuck`, `HoldersAlive` and
  `NothingStuck` are the part of it that is about states: nobody is stuck for good;
- the violations of `runtime_claimed` and `ingest_payload`, which are counterexamples.

## Not modelled

- Content columns: written once by the insert, and guarded by a trigger. What JSONB
  does to a payload it accepts (it drops key order and repeated keys, and keeps numbers
  as decimals) is not compared with the payload the worker gets.
- Parsing and formatting of ids and timestamps; error messages; `/health/live`, which
  is a constant answer.
- Logging and telemetry: pure output.
- The inside of axum, tokio, sqlx, serde_json and PostgreSQL. They are modelled from
  how the code uses them and marked external: the extractor's rejections, graceful
  shutdown (`axum::serve` never returns an error), the migrator's lock, the pool, map
  order, READ COMMITTED.
- The limits of `delivery_attempts` (INTEGER): two thousand million claims of one row.
- Durability inside PostgreSQL: a committed row stays.
- Test fixtures (both `testing.rs`), CI and container setup: not part of the running
  system.

## What is left

Every invariant and action property that a run checks has a theorem. `Backlog` has only
its liveness property.
