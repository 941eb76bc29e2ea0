# Verification of Espial

TLA+ models of Espial's Core (`src/core`) and of the part of its web client that keeps
pages fresh (`src/web/src/lib/live.ts`), the TLC configurations that check them on small
instances, and TLAPS proofs. `PROJECT.json` maps every definition to the lines it models.

    tlc -workers 2 -config MCSignalJournal.cfg MCSignalJournal     # a run
    tlapm SignalJournal_proofs.tla                                  # the proofs

## The system

Espial is a monitoring server. Adapters (child processes speaking NDJSON over stdio) report
*observations* of resources; Core normalises them into a *current health* per check, journals
every change as a *signal*, and a rule engine turns runs of signals into *incidents*, which
operators work on and which are announced through a *notification outbox*. Browsers are told
that something changed by server-sent events and refetch. Everything durable is in
PostgreSQL; the only other state is in the memory of one Core process.

| Part (under `core/internal` unless said) | State | Operations | Talks to |
|---|---|---|---|
| `signals` | `monitoring_signals`: processed, dead, attempts, available, lease | append, claim a batch, mark processed, fail | written in the transactions of observations, freshness and suppressions; drained by the evaluator |
| `incidents` evaluator | `incident_rule_states` (counters, deadline, active incident), `incidents`, timeline | process a signal, process a due deadline | reads rules, windows; enqueues notifications in the same transaction |
| `incidents` workflow, rules | incident status, version, owner; rules and conditions; idempotency receipts | acknowledge, investigate, resolve, note, owner; create and replace rules | row locks shared with the evaluator |
| `observations`, `health` | observations, resources, `current_health` | validate and ingest a batch under the locks of its resources, evaluate health | called by the collector; journals signals, projects certificates, publishes events |
| `certificateprojection`, `certificates` | `certificate_observations` | project the certificate of an observation, compare it with the one before | within the transaction of the ingestion |
| `monitoring` freshness | — | lapse of current health to stale and unknown | journals signals; meets ingestions at the rows of `current_health` |
| `suppressions` | maintenance windows, silences | create, replace, revoke, expire | exit signals into the journal; read by evaluator and outbox |
| `notifications` | intents, attempts, destinations, routes | enqueue, test, claim, deliver, complete, dead-letter | Mattermost driver; incident timeline |
| `events`, `api` sse, `web` live | replay window, subscriber channels; the page's cursor and timers | publish, subscribe, overflow to resync, heartbeat; reconnect, refetch | every component publishes after its commit |
| `scheduler` coordinator and workload | map of runs, restart channel; trigger channel, active/pending flags, tokens | reconcile, restart, drain; timer, request, collect | starts supervisors; called by the API and by administrators' services |
| `adapters` supervisor, session, process | `adapter_instances` (state, failures, next restart); child process, pending calls | load, wait, start, mark healthy or failed or stopped, reset | runs the scheduler's workload |
| `auth`, user commands of `app` and `cmd` | users, roles, credentials with failure count and lock, sessions, attempt limiter | login, authenticate and extend, logout; create, update, reset; bootstrap and the other host commands; clean-up | asked by the API and the event stream |
| lists of `monitoring`, `incidents`, `webpages`, `certificates`, `notifications`, `auth` | a cursor in the client's hands | read a page, one query each | the tables of the others |
| `adminops` and the administration services (rules, windows, silences, destinations, `webpages`, `hypervisor`, other integrations) | `administrative_mutation_idempotency`, the versions of the rows, `audit_events`, token files | create, replace, revoke, test, check, reorder: under an Idempotency-Key and for a version (ETag) | publish events and call `Restart` of the coordinator after their commit; a check asks the runtime within its transaction |
| `config`, `app`, `storage`, `operations`, `audit`, `api` handlers, `cmd` | configuration, schema | start-up, migration, encoding, metrics | — |
| `webcheck`, `proxmox`, `sampleadapter` | — | adapter processes: network I/O | the adapter protocol |

What is hard in it:

* **Leases.** Both queues hand out rows under a lease that can expire while its worker is
  still busy; then two workers have the same row, and the first one's late report meets the
  second one's claim.
* **Crashes between steps.** A claim is counted before its work; a delivery is made outside
  any transaction; a restart finds rows in the middle of things.
* **Order.** Signals come out of order (late observations, retries, clocks of adapters that
  run ahead), and one clock reading serves a whole batch.
* **Configuration under way.** Rules and windows are replaced between a signal and its
  evaluation, between a deadline and its firing; integrations are saved while their adapter
  is starting.
* **Cancellation.** A context can be cancelled between any two store calls of a supervisor.
* **Repeated and rival requests.** An answer gets lost and the request is sent again, also
  while its first copy is still being handled; two administrators change the same row, and
  what one compared, validated or listed is no longer so when it is written.
* **Transactions that overlap.** Row locks make them wait, a statement sees what is committed
  when it begins, and two that wait for one another are resolved by ending one of them: an
  ingestion, the freshness worker, a login, an administrator's update.
* **Checks made before the write they are for.** A password compared, an account found
  unlocked, a session extended from a clock reading: the row may have changed since.
* **Programs that misbehave.** An adapter may answer late, twice or not at all, exit at any
  point, and ignore a request to stop.
* **Lists read in pages.** Nothing holds a transaction between two pages; rows are written,
  re-dated, or committed later than they are dated.
* **Bounded buffers.** Subscriber channels, the replay window, the restart and trigger
  channels are bounded and drop or coalesce.

`PROJECT.json` lists these as hazards, each at its line, with the properties aimed at it.

## Modules

| Module | Models | Variables and actions |
|---|---|---|
| `SignalJournal` | `signals.go`, the batch loop of `evaluator.go` | `row` is the table; `batch` and `failing` are a worker's memory, `at` the clock it read. `Append`, `Claim`, `Evaluate`, `SkipSettled`, `EvaluationFails`, `Fail`, `Stop`, `Tick` |
| `IncidentEngine` | evaluator rules, workflow transitions, rule replacement, maintenance, observation and freshness of one check | `rs` is `incident_rule_states`, `inc` the incidents with their timelines, `pending` the journal as `SignalJournal` delivers it, `window` a maintenance window, `hist` what each rule was shown, `scenario` which rules, codes and windows there are. `processSignal` is split by its early returns (`NoRule`, `SkipOutOfOrder`, `SuppressSignal`, `EvaluateSignal`), `processOneDue` likewise |
| `NotificationDelivery` | `notifications` writer, worker and destination service | `intent`, `log`, `evidence` are tables, `hand` a worker's claim, `limit` the configured attempt limit of the running process. A claim, the request and its completion are three steps |
| `EventHub` | `events/hub.go`, `api/sse.go`, `web/src/lib/live.ts` | the hub's `nextID` and `replay`; per page its stream, cursor, coalescing timer, refetch under way and what it shows. The database is a version number |
| `CollectionRuntime` | `scheduler`, `adapters/supervisor.go`, `repository.go`, the saves of integrations | `managed`, `cancelled`, `restarts` are the coordinator's, `pc` is where `Supervisor.Run` stands, `row` is `adapter_instances`, `work` the scheduler's loops: one for the session there is (`current`), and others that outlived their drain timer (`LeftBehind`); `triggers` is the scheduler's map of channels. Every place where a cancelled context or a failing store ends `Run` is a step |
| `Administration` | `adminops/idempotency.go` and the changing operations of the administration services | `row`, `receipts`, `audit`, `order`, `intents` are tables, `secret` the token files; `handler` is a request under way and where it stands, from which the locks it holds follow (`KeyFree`, `RowFree`); `etag`, `sent`, `answers` are the administrators'. One action for each statement that can wait or be overtaken (`LookCluster`, `Replay`, `ReadRow`, `LockClusters`, `WriteSecret`...), one per service for its writes and commit; `Fail` is every error, cancellation and crash |
| `WorkQueue` | what the journal promises (abstract) | `fate`, `tries` and `effects` of an item. `Put`, `Hand`, `Finish`, `GiveUp`; no clocks, leases, workers or crashes. `SignalJournal` implements it: `Queue == INSTANCE WorkQueue WITH ...`, `ImplementsQueue` |
| `Auth` | `auth/service.go`, `limiter.go`, the user handlers and session middleware of `api`, the user commands of `app` and `cmd` | `user`, `cred`, `sessions` are tables, `limiter` is memory, `job` a request under way. A login is its statements (`Login`, read, compare, count a failure or create a session); an update takes its advisory lock, its row, counts the other administrators and writes. `updated_at` is the number of the transaction that wrote it, as `now()` is its start |
| `AdapterProcess` | `adapters/process.go`, `session.go`, `codec.go`, `protocol.go` | the process (`proc`, `signals`, `stdin`, `stdout`), Core's shared fields (`pending`, `failure`, `stopping`), and where each goroutine is: `caller`, `reader`, `waiter`, `stop` |
| `Ingestion` | `observations`, `certificateprojection`, the collector's call, `monitoring/freshness.go` | the tables, `locks` on their rows with PostgreSQL's modes, `tx` what a transaction wrote and has not committed, `worker` the freshness worker. A statement is a step; `BreakDeadlock` ends one of those that wait in a circle |
| `Listing` | the paged lists of six packages | `list` says which: its order, whether rows move, its snapshot. `rows`, `writing` (dated, not committed), `reader` with its cursor, `shown` |
| `SignalJournal_proofs`, `NotificationDelivery_proofs`, `AdapterProcess_proofs`, `EventHub_proofs`, `Auth_proofs`, `Administration_proofs`, `CollectionRuntime_proofs`, `IncidentEngine_proofs` | — | the inductive invariants, lemmas and theorems about each of these |
| `MC*` | — | constants of the instances |

The modules are joined by what one promises the other: `IncidentEngine` lets any pending
signal be processed next, once, which is what `WorkQueue` says of the journal
(`ImplementsQueue`, `SettledOrStranded`) and no more; `EventHub` takes a commit as a version
and its announcement as a later step; `Administration` ends with the commit, and what the
restart it then asks for does is in `CollectionRuntime` (`ConfigApplied`);
`CollectionRuntime` takes a started adapter as one that lives until it dies or is stopped,
which `AdapterProcess` shows (`StoppedIsGone`, `StopEndsProcess`, `FailureEndsProcess`, `ExitWakesCaller`); a
workload that outlives its drain timer (`Drained`) runs on beside the next one, and what the
two collect are the overlapping ingestions of `Ingestion`, which ends where its signals are
journalled.

Each module has one invariant that gathers what holds at any time, its types and the parts
named here:

| Invariant | Besides `TypeOK` |
|---|---|
| `JournalInv` | `AppliedOnce`, `ClaimsDistinct`, `DeadOnlyWhenExhausted` |
| `OutboxInv` | `ClaimStored`, `HandsDistinct`, `AttemptLogOrdered`, `StateIsEvidence` |
| `HubInv` | `StreamComplete`, `WindowIsNewest` |
| `EngineInv` | `ActivePointer`, `TimesOrdered`, `TimelineChain` |
| `RuntimeInv` | `ProcessOwned`, `TriggerKept` |
| `AdministrationInv` | `KeyAppliedOnce` |
| `UsersInv` | `AdministratorRemains`, `OneFirstAdministrator` |
| `ProcessInv` | `AnswerMatches`, `ExitExplained`, `StoppedIsGone` |
| `IngestionInv` | `CurrentIsNewest` |
| `ListingInv` | `KeptRowsShownOnce` |

Abstractions. A payload is a model value or its class. A transaction that locks what it reads
is one step; anything made of several statements or transactions is several steps. In
`Administration`, `Auth` and `Ingestion`, where the locks are the question, the statements are
steps, with the rules of READ COMMITTED: a statement sees what was committed when it began,
`FOR UPDATE` and `UPDATE` wait for the row and go on with its newest version, locks end with
the transaction. Instants are small numbers: the clock and every instant computed from it stop
at `Horizon`, where all that was due later is due, so bounding time never hides a deadline.
Random tokens are the numbers of the claims. History variables (`applied`, `accepted`, `hist`,
`from`, `asked` of `CollectionRuntime`, `backoff`, `validated`, `torn`, `used`, `wrong`,
`bootstraps`, `demoted`, `got`, `kept`) are read by no guard. In `AdapterProcess` a request
fits into the pipe, so writing it does not block. Definitions marked *Variant* are wrong on
purpose: each replaces one mapped definition to show that a property notices.

## Runs

`CHECK_DEADLOCK FALSE` in every configuration: inputs, faults and the clock are bounded, and
once they are used up a system with nothing left to do really stops.

| Run | Instance | Shows |
|---|---|---|
| `journal` | 2 signals, 2 workers, batches of 2, 2 attempts, lease 1, clock to 3, one crash | no signal is applied twice, no attempt handed out twice, a dead letter used all its attempts, settled rows are never touched; the journal implements `WorkQueue`. Under fairness a signal is settled unless a crash took its last attempt |
| `journal_crash` | 1 signal, 1 worker, 2 attempts, one crash | *violation*: a crash in the last attempt leaves the row for ever (divergence 1) |
| `outbox` | an event and a test of one destination, 2 workers, limits 1 and 2, one restart | claim token and state agree, late completions never disturb a newer claim, attempt rows never collide, states follow from the attempts, outcomes are final, and each intent gets one |
| `hub` | 1 page, window 3, channel 2, 5 changes, 2 starts of Core | streams are complete or say so, the window is the newest events, a page that follows by cursor becomes fresh, a revoked session loses its stream |
| `engine` | three scenarios: 1 rule with 3 observations dated up to 1 ahead in batches 1 behind the clock; 2 rules on a certificate check, one of them disabled once or given another scope and rank, 2 observations; 1 rule with 4 possible windows, 2 changes of the window, 1 observation. Operators and deadlines in each, clock to 2 | one unresolved incident per rule, ordered instants, a gapless timeline; the counters are what a recount of the evidence gives; debounces keep a deadline, also through maintenance; nothing opened, reopened or recovered without enough evidence; ends of windows are signalled; a failure that lasts is reported |
| `collection` | 1 integration of either kind, 1 save or 1 request (`MaxInputs`), 1 fault (failing store, shutdown or crash), any number of dying adapters, 2 workloads at a time, 1 token, clock to 1 | a process has one owner and a row that says so; the trigger requests go to is that of the last session's workload while it runs, though another left behind returns; no start before the backoff is over unless the row was stopped; a short health forgives nothing; an accepted request is followed by a collection while its session lasts; saved configurations are loaded; disabled adapters stop |
| `administration` | 2 handlers, each request sent up to twice, 14 sets of 2 or 3 requests that meet at one row or key, 2 clusters, a wall clock showing 1 or 4 | a key is applied once, an answered success is the receipt of a committed change, a refusal means it never happens, no update is lost (rules apart), versions only grow, a cluster keeps a token its configuration was accepted with unless an update failed after writing it |
| `auth` | 2 handlers, 11 sets of up to 6 requests that meet at one user, 2 failures lock for 2, 5 attempts in 2, idle 2, absolute 3, clock to 4, 3 sessions, one request that fails half-way | an enabled administrator remains (host commands apart), one bootstrap wins, sessions postdate the last change of role, enablement and password, wrong guesses stay within the limit and what the handlers have under way, requests are accepted within both lifetimes, no administrator's update is lost |
| `process` | a handshake and a collection, a pipe of 2 lines, 2 lines a correct adapter would not write | a call gets its own answer or none, an exit the supervisor sees has a reason, a failed process ends, a stop ends the process and returns, nobody waits for a process that is gone |
| `ingestion` | 3 checks of 2 resources, one a certificate; 5 batches in either order, with and without their resources, repeated, contradicting, dated ahead; 2 ingestions, batches of 2 of the freshness worker, one fault, clock to 2 | the current health is that of the newest stored observation, what is stored keeps up with the clock, a replaced certificate is flagged |
| `ingestion_certificate` | the same, with a certificate and a handshake that shows none, no fault | *violation*: the collection fails (divergence 2) |
| `listing` | each of the lists, up to 4 rows on pages of 2, 2 writes dated up to 1 ahead, or back where the list allows it | a row of the first page's snapshot that was not written meanwhile is shown exactly once |

Why these bounds: two workers, two attempts and a lease shorter than the clock give expiry
with a late report, retry, exhaustion and a crash in each; a replay window larger than the
channel separates overflow from falling out of the window; three observations with lag and
skew give every order of a failure, a repetition and a recovery. Observations are cheap to
multiply and change nothing in kind: the rule state only remembers a run and the last instant.
A failure count saturates where the delay has reached its cap, which is exact. Two
integrations in `CollectionRuntime` exceed what TLC can do; they share only the token channel
and the restart channel. Two workloads at a time are the one of the session and one that was
left behind, which may hold the only token; `MaxWorkloads` bounds how many can be left, so the
drain timer fires only while there is room for another. A save and a request do not meet in
one behaviour of the run (`MaxInputs` is 1; two of them exceed five minutes): that
`RequestServed` holds while a save is under way is not checked, where `RuntimeInv` and
`BackoffKept` are proved for every bound. The clock of the run has two instants, at the second of which
every delay is over: a failure at the first gives the backoff, and health at both its reset. With one integration, a restart dropped because the
channel is full is one that is queued already. The scenarios of `administration` bring together, for each kind
of row, two changes of it, and the operation peculiar to it (revoke, test, check, move) with a
change; the handlers are interchangeable, and symmetry is sound there because only safety is
checked; the same holds of `auth`, whose scenarios set each kind of change of a user beside
another and beside a login. A lock of two failures with two handlers gives the guess that
passed the check before the lock, and five guesses the one whose failure is recorded late and
shortens the lock, which reaches the bound of `GuessesBounded`; idle and absolute lifetimes within the clock give both
expiries. Three calls of the handshake and a collection give a late answer a call to be taken
for, and two odd lines an answer that is wrong and one that is repeated. Two ingestions and
the worker give the circles in which two of them wait. Two pages and a third row of the same
instant give a cursor between equal instants.

Fairness. Journal, outbox and engine: workers loop and time passes (`Run` loops on a ticker; a
failing store stops the process, which is an action and never required). `EventHub`:
`setTimeout` reconnects, handlers get on, and a heartbeat ticker checks the session.
`CollectionRuntime`: goroutines and timers run (no fairness is asked of the drain timer
alone: a workload that is over lets `Run` go on as well), a collection ends (its request has a
deadline), also that of a workload left behind, Core is started again after a shutdown (`restart: unless-stopped` in
`deployments/production/compose.yml`); strong fairness only for taking a token, because
senders on a Go channel are served in turn. `AdapterProcess`: Core's goroutines run, the
timers of `Stop` end, and a kill ends a process; nothing makes the adapter answer, exit or
heed anything else, and no fairness is asked of the timer of a call. `Ingestion`: a statement
that can go on does, the worker polls and is started again with Core, PostgreSQL finds
deadlocks. Nothing makes producers append, administrators save, adapters fail or stores
recover.

## Proofs

`SignalJournal_proofs`, for every set of signals and workers, batch size, attempt limit,
lease, horizon and number of crashes (`JournalAssumption` only types the constants):

* `TypeCorrect`: `Spec => []TypeOK`. `attempts` stays within the limit because `Claim` only
  takes rows below it.
* `JournalSafe`: `Spec => []JournalInv`. `JournalSafety`, the conjunction of `AppliedOnce`,
  `ClaimsDistinct` and `DeadOnlyWhenExhausted`, is inductive on top of the types.
  `ClaimsDistinct` is more than the wish that two claims differ: it bounds every claim in hand
  by the row's `attempts`, without which nothing would say that the next number is new.
  `FewerClaimsDistinct` serves all the steps that only give claims up.
* `SettledStays`: `Spec => SettledIsFinal`. `EveryStepKeepsRows` shows that each statement
  asks for an unsettled row or a new one; `SettledExists` (a settled row was appended) closes
  the gap `Append` would leave.
* `JournalImplementsQueue`: `Spec => ImplementsQueue`. Under `JournalInv` every step is one of
  `WorkQueue` or a stutter: a claim, which hands out several items at once, is a `Hand` of
  that set; a report that comes too late, and every step of a clock, lease or crash, stutters.

`NotificationDelivery_proofs`, for all events, tests, destinations, workers, leases, limits
and restarts (`OutboxAssumption` types them; at most 6 attempts, as migration 000012 has it):

* `OutboxSafe`: `Spec => []OutboxInv`, from `OutboxIndHolds`. `OutboxInv` says of two rows
  written at different times that they agree, so `OutboxInd` follows each row on its own
  (`RowSound`: what the token, the attempt rows and the provider's answers are in each state)
  and each claim in hand (`HandSound`, `HandsApart`).
* `TerminalStays`: `Spec => TerminalIsFinal`.

`AdapterProcess_proofs`, for any number of calls, odd lines and length of pipe
(`ProcessAssumption` types them; no failure is the value for no failure):

* `ProcessSafe`: `Spec => []ProcessInv`. There is one slot for a pending call, used by the
  caller and by `Stop`; `SlotOwned` says whose it is and that call numbers do not repeat,
  without which a late answer could be that of the next call. `ExitOrdered` puts the exit, the
  waiter's report and the return of `Stop` in their order.
* `FailedIsKilled`: a process whose failure is recorded was sent a kill, which the liveness
  property `FailureEndsProcess` starts from.

`EventHub_proofs`, for any clients, window, channel, changes and starts (`HubAssumption`):

* `HubSafe`: `Spec => []HubInv`. `AfterIsRun` shows that the loop of `Subscribe` over the
  window, a recursive function here, yields exactly the events after the cursor: the least
  position at which the two would differ (`LeastNumber`) cannot be.
* `PageIsFresh`: `Spec => []CursorPageIsFresh`. `PageFollows` is the invariant of a page: with
  a cursor of this start of Core, and no refetch due, what it shows or is reading is at least
  as new as the event at its cursor, counted from `Base`, the version at the start of Core.

`Auth_proofs`, for any users, requests, handlers, lifetimes and limits (`AuthAssumption` types
the constants and says that a scenario names users that exist and asks for roles there are):

* `UsersSafe`: `Spec => []UsersInv`. `AuthInd` says what a handler's memory is still worth:
  `JobSound` (the row it was shown exists, and is as it was if its `updated_at` is; the number
  of its own transaction is on no row yet), `RightsSound` (an update that takes an
  administrator's rights leaves another one, from its count to its commit; the role it read
  changes only by a command on the host) and `Apart` (whom the advisory locks and the rows'
  locks exclude). The step that matters, `UpdateStep`, is the commit of an update that was
  compared, counted and allowed in earlier statements. The proof found a case the run did
  not have: a command on the host makes a disabled user the only administrator. It is now a
  scenario of the run and an exception of `AdministratorRemains`.
* `SessionsSafe`: `Spec => []SessionsPostdateChanges`. `SessionSound` adds that a session's
  user exists; otherwise the creation of a user could change what a session stands for.
* `LifetimesHold`: `Spec => LifetimesKept`. `SessionSound` bounds a live session's idle expiry
  by its last use; `OnlyTouchAccepts` shows that no other step lets a request pass.
* `UpdatesKept`: `Spec => NoLostUserUpdate`.
* `GuessesSafe`: `Spec => []GuessesBounded`. `GuessInd` looks at one account and one window of
  a lockout's length. A login whose reading of the clock lies in the window is admitted only
  while the account is open to it (below the limit, or locked to an end within the window);
  while it is, the guesses counted leave room for one of each handler without an older
  reading. A failure dated in the window was pending and closes the account; one dated before
  it may reopen the account, but its handler then no longer holds an old reading, so this
  happens at most once per handler: hence H + (H - 1) + ... + 1 guesses beside the limit. The
  attempt to prove an earlier bound, one guess per handler, failed at the step
  of `RecordFailure` that moves the end of a lock back; the run had too few guesses to see it,
  and has them now. The proof needs finitely many handlers.

`Administration_proofs`, for any requests, rows, handlers, bounds and readings of the clock
(`AdministrationAssumption`: `ByName` lists every cluster once, new identifiers are new, and
each request is `WellFormed`, one the API's routes and handlers let through; it names a row
that exists, or creates one):

* `AdministrationIndHolds` carries the rest. `AdministrationInd` says what a handler between
  two statements may still rely on: `PlaceSound` (a locked key has no receipt yet; a locked
  row still has the version it was compared with and is not revoked; the answer on its way is
  true), `Apart` (advisory and row locks exclude one another), `AuditSound` and `ReceiptSound`
  (receipts and audit events of keyed requests go together), `ETagPast` (no ETag is ahead of
  its row). Steps that commit nothing go through `QuietStep`; the operations differ in what
  they write and agree in `Commits`, which `CommitStep` shows to preserve the invariant.
* `AdministrationSafe`: `Spec => []AdministrationInv`, and `ReceiptsTrue`:
  `Spec => []ReceiptIsOfTheChange`.
* `RefusalsFinal`: `Spec => []RefusedIsNotApplied`. "Never will be" needs `NeverApplied`, which
  is stable: the key has the receipt of another request, or the version has passed and no
  handler that compared it earlier is at its commit. The second holds because a handler that
  compares holds the key, so no copy of the request is beyond that point.
* `NoUpdateLost`: `Spec => []NoLostUpdate`, and `VersionsGrow`: `Spec => VersionsMoveOn`.
* `PairsValidated`: `Spec => []StoredPairValidated`. `TokenSound` says that the token an update
  without one of its own was validated with is still the stored one as long as the version is,
  unless another update has replaced it and is at its commit (`Rotates`) or failed there
  (`torn`); `PairSound` is the same of the stored pair.

`CollectionRuntime_proofs`, for any finite set of integrations, where the run has one, and any
limits, delays and numbers of faults (`RuntimeAssumption` types them; at least one failure is
counted, and there is a token, a place in the restart channel and room for a workload):

* `RuntimeSafe`: `Spec => []RuntimeInv`. `RuntimeInd` ties everything to where the supervisor
  of an integration stands: `Placed` says at which places of `Run` there is a process, and what
  the row then says. `Entered` is what `TriggerKept` needs: only the session's own workload can
  still be about to enter its trigger, since `drainWorkload` leaves none behind that has not
  run yet; so nobody replaces the trigger of a running workload, and one that returns finds
  its own or leaves the other's alone (`WorkReturns`). Steps of one integration leave the
  others alone (`FrameSound`), so the proof is per place and not per pair.
* `BackoffHeld`: `Spec => BackoffKept`. `Awaited` carries the backoff from `MarkFailed` through
  the row, a stop, a restart of Core and the wait to the next start: as long as nothing lifted
  it, the row still holds it, and whoever is about to start has waited for its end.

`IncidentEngine_proofs`, for any rules, policies, windows, scenarios, numbers and orders of
signals (`EngineAssumption`: what `incidents/validation.go` lets through; a window ends after
it starts):

* `EngineSafe`: `Spec => []EngineInv`. `EngineInd` strengthens `ActivePointer` to an equation,
  the unresolved incidents of a rule are the one its state points at or none, and adds
  `Recalled`: the incident was detected no later than the last signal the state remembers.
  Without it a recovery could be dated before the detection.
* `ActiveEndSignalled`: `Spec => ActiveEndIsSignalled`, for each of the three ways in which a
  running window ends.
* `CountersRecounted`: `Spec => []CountersMatchHistory`. The reference recounts the run of
  evidence at the end of what the rule was shown. `CountsInd` adds what a step reads besides
  the counters: the state remembered is that of the run, and a deadline stands only for the
  signal at its end. `Run` is a set of positions, so that appending one more signal extends it,
  starts a new one or breaks it, which are lemmas; there is no induction over the sequence.
* `Earned`: `Spec => ChangesAreEarned`, from the same: an evaluation that opens, reopens or
  recovers has just counted a run that is long enough under the policy of that moment.
* `DebounceSafe`: `Spec /\ [][Steady]_vars => []DebounceKept`. `DebounceInd` says of a deadline
  that it is the instant the rule's condition asks for, so a deadline that falls due and is
  cleared has met the condition and the failure is reported. That can be lost when a rule is
  replaced by one with other conditions, or enabled again, or given back a scope, while its
  deadline stands or after it was dropped (`evaluator.go:762`, below); `Steady` excludes the
  replacements that change conditions, enable a rule or widen its scope. It restricts
  administrators and no other actor. The run `engine` has one replacement, which disables a
  rule or exchanges its scope and rank, and also checks the widening that follows no other.

Only model-checked:

* liveness (`SettledOrStranded`, `EventuallyTerminal`, `RevokedIsClosed`, `FailureReported`,
  `RequestServed`, `ConfigApplied`, `DisabledStops`, `FailureEndsProcess`, `StopEndsProcess`,
  `ExitWakesCaller`, `LapseIsStored`), which is out of the prover's reach;
* `DebounceKept` where a replaced rule asks for other occurrences or another time, which is
  false of the code (`evaluator.go:762`, below);
* `IngestionInv`, `ReplacementIsFlagged` and `ListingInv`. Both modules walk through a set in
  the order of `SetToSortSeq`. That every finite set has a sorted sequence, and that this
  operator yields one that omits nothing, is an induction over data, and nothing can be said
  of the locks an ingestion holds, or of the rows a page leaves out, before it is known.

## Where documents and code differ

With a run:

1. `signals.go:152` — a crash during the last attempt strands the row; PHASE_2:109 "A crash
   releases work for replay."
2. `certificateprojection/projector.go:87` — when a fingerprint (line 88: an issuer) was known
   and the new evidence has none, the comparison is NULL, which the column refuses
   (`000014_certificate_monitoring.sql:18`): the whole batch, with its critical observation, is
   rolled back and the collection recorded as failed. SLICE_2_6:20 "Distinguished no reported
   certificate", and `webcheck/checker.go:199` sends just that.

Read off the models while they were written, without a run of their own:

* `observations/service.go:182` — ingesting an old or repeated observation stores a freshness
  lapse without its signal; PHASE_2:106 "every freshness transition appends a
  `monitoring_signal`".
* `observations/service.go:91` — resources are upserted, and so locked, in the order of the
  batch, before the pass that locks them in the order of their ids: two batches with the same
  resources in inverse order can deadlock, and so can an ingestion and the freshness worker,
  whose end as the victim ends Core's runtime. SLICE_1_3:175 "batches touching resources in
  inverse input order do not deadlock"; the test (`service_integration_test.go:354`) delivers
  observations without resources. `LapseIsStored` and `IngestionInv` hold through it.
* `observations/service.go:182` — only the newest observation is evaluated, so a late one with
  a positive determination does not move `last_success_at`; SLICE_1_3:75 "the latest
  observation that made a positive determination". An ingestion that read its clock earlier
  may write `healthy` over a newer `stale`, until the worker looks again.
* `adapters/repository.go:189` — a graceful stop clears `next_restart_at`, also during a
  backoff (why `BackoffKept` excepts stopped rows); SLICE_1_4:152 "a Core restart cannot erase
  an active backoff window."
* `incidents/rules.go:225` — the version of a rule is compared on a row that is not locked,
  and the `UPDATE` does not ask for it: of two administrators with the same ETag both succeed
  (why `NoLostUpdate` excepts rules); SLICE_2_3:62 "A stale ETag returns `412` without an
  audit-success event."
* `auth/service.go:903` — a failure sets `locked_until` from the clock reading of its own login,
  also when the account is locked already: one that was read earlier and is recorded later
  moves the end of the lock back (why `GuessesBounded` has a sum and not one per handler);
  LOCAL_AUTH:54 "Five failed passwords for 15 minutes".
* `auth/service.go:943` — a login that compared the old password before a reset commits may
  create its session after it (`SessionsPostdateChanges` speaks of the password at the
  creation); API_CONVENTIONS:102 "revoke all target sessions". A login and a reset can also
  wait for one another; PostgreSQL ends one.
* `AssignRole`, on the host, leaves `updated_at` alone: an administrator's update with the
  older ETag overwrites the assigned role (why `NoLostUserUpdate` leaves the role out), and
  one that waited for it compares with the role it read before. Host commands may also take
  the last administrator's rights, or give the first ones to a disabled user, which bars
  a bootstrap (why `AdministratorRemains` excepts them, `demoted`); AUTHENTICATION:36 "preserves at least one enabled
  administrator" speaks of Core.
* Lists: a row changed between two pages moves ahead of the cursor or out of the snapshot and
  may be shown on no page; rows dated ahead of the database's clock are missing until it
  catches up; PHASE_1:460 "no missing/duplicate rows during a stable snapshot" holds for the
  rows that stay as they are. The certificate cursor is not bound to its filters.
* `live.ts:90` — a page told to resync drops its cursor, refetches, and subscribes later;
  what is announced in between is missed (why `CursorPageIsFresh` speaks of pages that have a
  cursor); PHASE_2:849 "remain correct through SSE replay/resync."
* `evaluator.go:762` — a due deadline is cleared after every evaluation, also when the rule
  was replaced by one that waits longer and a new deadline was just set; SLICE_2_3:32 "safely
  clears a deadline if it is disabled or no longer matches."
* `signals.go:220` — `Fail` names no claim, so a stale worker's report releases, or makes a
  dead letter of, a row another worker is evaluating; PHASE_2:440 "Two workers cannot complete
  the same claim". `DeadOnlyWhenExhausted` and `SettledIsFinal` bound what it can do.
* `notifications/worker.go:159` — an intent waiting for a retry whose attempts a lowered
  limit has overtaken is neither claimed nor dead-lettered (`OverLimit`);
  NOTIFICATION_RECOVERY:22 "Pending retry and expired Attempting leases resume".
* `events/hub.go:121` — a cursor of an earlier process that falls inside the new window is
  resumed without a resync; SLICE_1_5:94 "causes clients with old cursors to resynchronize."
* `evaluator.go:287` — a failure observed in a window revoked before its evaluation opens an
  incident; PHASE_2:185 "Matching failures during maintenance do not open or worsen an
  incident."
* `suppressions/service.go:468` — a window revoked or moved after its end and before the worker
  expired it ends without a signal; SLICE_2_3:41 "At expiry or active revocation".
* `evaluator.go:225` — an observation of the window evaluated after the exit signal puts the
  rule back into maintenance; SLICE_2_3:42 "cannot disappear between restarts."
* `000009_incidents.sql:61` — a recovery dated ahead of the clock cannot be resolved yet;
  SLICE_2_2:29.
* `supervisor.go:109-157, 190` — when cancellation meets a store call, `Run` returns and the
  row keeps saying starting or healthy although there is no process.
* `integration_config.go:136` — `Update` of a generic integration restarts nothing: a new
  interval or configuration waits for the next start (`UpdateIntegration`, and why
  `ConfigApplied` speaks of typed integrations only). ADR 0009:43 claims it for website
  monitors, where it holds.
* `coordinator.go:51` — a restart is dropped when 64 are queued.
* `supervisor.go:250` — a workload that outlives its drain timer keeps its trigger until it
  returns or the next session's workload replaces it: a request it takes is answered as
  accepted and begins no collection (why `RequestServed` speaks of requests to a session that
  lasts, `asked`).
* `webpages/service.go:215` — a manual check compares the version before it looks for its
  receipt, so the retry of a check that was made is refused once the monitor was changed (why
  `RefusedIsNotApplied` excepts it); SLICE_2_3:60 "An exact retry returns the original".
* `hypervisor/service.go:195` — the token file is replaced before the commit: if that fails,
  the old configuration is left with the new token (`torn`), and an update that was validated
  with the old one may still commit.
* `hypervisor/service.go:338` — `ORDER BY` with `FOR UPDATE` sorts before it waits: with three
  clusters a concurrent move can be undone; the comment at line 241 says that a move "moves
  one cluster by one visible position".
* Clusters and other integrations are created and changed without a key: a repeated creation
  makes a second row, and the retry of a change whose answer was lost is refused as stale.

(PHASE_x is `docs/plans/PHASE_x_IMPLEMENTATION.md`, SLICE_x is `docs/plans/SLICE_x_*.md`;
API_CONVENTIONS and AUTHENTICATION are in `docs/architecture`, LOCAL_AUTH in `docs/operations`.)

## Not modelled

* Configuration parsing, the migration runner, wiring in `app` and `cmd`, metrics, audit text,
  decoding and encoding in handlers: sequential code around one query or none.
* The overview, reads of one row and the validation of cursors: queries without state.
* The network side of adapters (`webcheck`, `proxmox`, `sampleadapter`) and the Mattermost
  driver: their results are free choices. Password hashing. Rendering.
* The creation of a Proxmox cluster, receipts and versions of operators' incident commands,
  owners and notes; route filters.
* In `CollectionRuntime`, a workload whose goroutine has not entered its trigger when the drain
  timer ends (it is taken to start within `RequestTimeout`), and an interval that is not
  positive, which the validation of integrations refuses.
* In `Administration`, what the suppression worker writes (`expired_at`, `updated_at`); an update of an integration without a version,
  which the API does not make; the primary key behind the advisory lock of a receipt.
* In `Ingestion`, the test that the integration exists; the issuer beside the fingerprint of a
  certificate; identifiers of observations are their
  key and instant. `findConflictingObservation` by identifier does not compare the resource
  and the check, which the model therefore does not show.
* In `Auth`, `RotateSession` and `RevokeUserSessions`, which nothing calls; one source address
  stands for all in the limiter.
* Several integrations at once in `CollectionRuntime` (see the bounds).

## Plan

Modelling is complete as far as the list above allows, and every invariant and action property
of the runs is proved except those named under "Only model-checked". What would come next:
lemmas about `SetToSortSeq` (a sorted sequence of any finite set, by the least size of a
counterexample, as `LeastOf` of `IncidentEngine_proofs` gives it), and on top of them
`IngestionInv`, whose inductive invariant is that an ingestion past its locks holds the row of
each resource it concerns, so that what it read of `stored` is still all there is at its
commit.
