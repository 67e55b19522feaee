# EdgeVision-MW: TLA+ models of the control plane

EdgeVision-MW (`edgevision-mw/`) collects road and field imagery from edge nodes,
annotates it live and in a queue, trains and registers models, and sells exports of
certified annotations. The backend is FastAPI over PostgreSQL, with Celery workers
behind Redis; a React client works live over a WebSocket and offline from IndexedDB.
This directory models the parts whose correctness depends on the order in which
sessions, workers, callbacks and messages act, checks the models with TLC, and proves
every safety property of the passing runs with TLAPS, the refinement of the escrow's
ledger included. Paths below are relative to
`edgevision-mw/`.

## 1. Inventory

| Component | State | Operations | What makes it hard | What must hold |
|---|---|---|---|---|
| Export escrow and delivery (`app/services/billing.py`, `app/api/billing.py`, `app/api/b2b_api.py`, `_export_async`) | credit, `Export.status`, audit rows | buy, run, fail, retry, refund, confirm, block | row locks, late acknowledgement, crashes between commits, cached ORM objects | credit is taken once and returned once; BLOCKED is repaid |
| Consent ledger (`app/services/compliance.py`, consent tasks) | `consent_ledger`, the deletion task | record, withdraw, expire, verify, erase | concurrent withdrawals, triggers, stamps in another order than commits | withdrawn consent never verifies again |
| Annotation workflow (`app/services/annotation.py` and all other writers of `annotations`) | rows, assignments | assign, label, review, certify, reject, offline edits | locked and unlocked writers of one row | no double assignment, no stale assignee |
| Ingestion (`app/services/ingestion.py`, auto-label and reconcile tasks, field scripts) | batch rows, queue | receive, dispatch, label, reconcile | retried uploads, lost dispatches, redelivery | one row per batch; outcomes are final |
| Training jobs (`app/services/training.py`, `app/api/training.py`, the Celery task) | `training_jobs`, queue | start, train, report, cancel, retry | two deliveries of one job, cancel against result | a job is trained once; its outcome is of that run |
| Model registry (`app/api/model_registry.py`, `app/api/admin.py`, `app/ai/model_inference.py`) | `deployed_models`, engines per process | deploy, activate, roll back, load | rows loaded before the lock, a partial unique index | at most one model active; the registry has what was trained |
| Live session (`app/api/ws_annotation.py`, `app/services/live_capture.py`) | busy flag, pending frame, ring buffer, clip | receive, detect, announce, save, answer | the loop and the tasks meet at every await; a client that leaves | one frame in flight, newest waits, no clip lost |
| Live annotation in the browser (`useLiveAnnotation`) | sockets, timer, two flags | run of the effect, tick, send, handlers | handlers and captures of an earlier run | frames keep flowing |
| Tracking and events (`app/ai/object_tracker.py`, `app/ai/events.py`) | tracks, clocks, cooldowns | frame, empty frame, prune | gaps, pruning, returning tracks | clocks count presence; cooldowns last |
| Fleet health (`app/services/fleet.py`, `app/api/fleet.py`) | `Node` rows, waiting commands | heartbeat, command, timeout sweep | overlapping heartbeats, skipped locks, stale read of the operator | OFFLINE means silent, silent becomes OFFLINE |
| Offline sync client (`useOfflineSync.ts`) | IndexedDB queues | enqueue, evict, flush, retry | overlapping flushes, lost answers, reload | nothing unsaved leaves early; every frame settles while flushes are started |
| Federated learning (`app/services/federated_learning.py`) | rounds, updates | create, submit, aggregate | foreign key locks against `FOR UPDATE` | each update is used once, none is lost |
| Circuit breakers (`app/core/circuit_breaker.py`) | state, counter, last failure | call, look | results recorded late | opens after a streak, stays open, recovers |
| Idempotency keys, dataset assignments, dataset lifecycle, batch labelling, rate limits, operator OTP, payroll, export builder, authentication, alerts, perception, user interface | | | section 8 | |

How the parts meet. A request handler is one SQLAlchemy session: it reads rows,
sometimes `FOR UPDATE`, keeps them in an identity map, and commits the columns it has
changed. A Celery task does the same in a worker and is acknowledged after it ran
(`task_acks_late`), so a dead worker's task is delivered again. A withdrawal of
consent rejects annotations (annotation workflow), blocks and refunds exports (export
escrow) and schedules the erasure (consent ledger). Ingestion and live sessions create
the annotations that the queue assigns; certified ones are what exports sell and jobs
train on; a finished job is deployed by the registry. The browser's live client relies
on the session behind its socket through a small abstract server; when it is offline its
frames and edits wait in the sync queue. Heartbeats, federated rounds and breakers stand
apart.

## 2. Plan

The order was by weight: money and consent first (`ExportEscrow`, `ConsentLedger`),
then who owns an annotation (`AnnotationWorkflow`), then what feeds it
(`IngestionPipeline`, `LiveSession` with `LiveClient` and `LiveTracks`, `OfflineSync`),
then what uses it (`TrainingJob`, `ModelRegistry`), then the services at the side
(`FleetHealth`, `FederatedRound`, `CircuitBreaker`).

- Compositions: `ModelRegistry` extends `TrainingJob`, as deployments read job rows
  while workers write them. `LiveClient` instantiates `LiveServer` for each socket.
- Abstract specifications: `EscrowLedger`, implemented by `ExportEscrow`
  (`EscrowRefinement`); `LiveServer`, implemented by `LiveSession` and assumed by
  `LiveClient`.
- Proofs: `XProofs` for a component `X`. Components that share no variable and have few
  lemmas have their proofs in one module, each in a section of its own: `LiveProofs` for
  the three parts of live annotation, `NodeProofs` for `FleetHealth` and
  `FederatedRound`, `ServerProofs` for `TrainingJob` with `ModelRegistry` and for
  `CircuitBreaker`. Where two modules are extended together, the definitions of one carry
  its name (`ClientInit`, `TracksNext`, `FederatedSpec`, `BreakerTypeOK`, ...).

What could come next, and why it has not: a composition of `ConsentLedger`,
`AnnotationWorkflow` and `ExportEscrow` (its state space is the product of three that are
large; each has its part of a withdrawal).

## 3. Modules

Each module is a state machine whose steps are what other sessions can see apart: a
commit, the acquisition of a lock, a read that is used later, an await, a message sent or
taken. What happens in a transaction between two such points is one action; what is not
committed is in variables of the session. Definitions have the names of the code where
it has one, and `PROJECT.json` maps each to its lines. A definition with the comment
`bug:` just before the one it resembles is not used by the specification: it is a
plausible mistake in that code, which the property it is paired with must catch.

### ExportEscrow (`app/services/billing.py`, `_export_async`, `b2b_api.py`, part of `compliance.py`)

State: the committed rows (`balance`, `status`, `sold`, `escrowed`, and `refunded` for
the audit rows `EXPORT_ESCROW_REFUNDED`), the row locks, the broker (`queue`), and for
each session its place `pc` and its uncommitted work. `credits` is a history variable.

| Code | Actions |
|---|---|
| `initiate_export` | `VerifyBuyer` (no lock), `LockBuyer` (lock, second look), `CommitExport` |
| `POST /b2b/export` | `CreateB2BExport`, `DispatchExport` |
| `_export_async` and the Celery wrapper | `StartTask`, `StageDone`, `StageFailed`, `FinalizeExport`, `TaskRaises`, `TaskReturns`, `Reraise`, `CrashWorker` |
| `_fail_export` | `MarkFailed` or `SkipMark`, `LockFailed`, `CreditBuyer`, `CommitFailed`, `HandlerLost` |
| `refund_escrow` | `NeedsRefund`, `CreditBuyer`, in the caller's transaction |
| `POST /webhooks/buyer`, `confirm_delivery` | `LoadExport`, `ConfirmDelivery` |
| export part of `withdraw_consent` | `SelectExports`, `BlockExport`, `CreditBuyer`, `CommitWithdrawal` |

`verify_buyer_ready` drops its `User` object when it returns, so the locked read of the
buyer is fresh; the webhook keeps its `Export` object alive, so the locked read in
`confirm_delivery` returns the attributes read before the lock. The model has both:
`LockBuyer` reads `balance`, `Confirmable` reads `seen`. `EscrowLedger` is what the
escrow promises: a purchase takes its price at once from a balance that covers it, and
an export's price comes back at most once. It has no sessions, locks or messages;
`EscrowRefinement` maps an export row with its audit rows to a ledger entry. The entry
"unpaid" stands for exports of the B2B endpoint, for which nothing is taken. What a set of
exports costs is counted unit by unit (`Units`), which says the same as a sum and can be
proved about.

### ConsentLedger (`app/services/compliance.py`, `app/api/compliance.py`, three tasks)

One subject. `ledger` is the set of visible rows, each with the clock of its flush:
`created_at` is set when the session flushes, so rows can appear in another order than
their stamps, which is what makes `verify_consent` interesting. `record_consent` is
`RecordFlush` and `RecordCommit`; a withdrawal is `Request` (the idempotency key),
`Select`, `Lock`, `FlushWithdrawals`, `CommitWithdrawals`, `ScheduleErasure`, `Finish`,
and `Crash` anywhere between. The erasure task removes images (`RemoveObjects`) and
then deletes rows (`DeleteRows` or, when a trigger of migration 0002 raises,
`DeleteAborted`), and its worker may die (`EraserDies`); the nightly task is
`ExpireConsents`. `SubjectAnnotation` rows are read but never inserted by the
application: that a subject has annotations and images is an input. The second
transaction of a withdrawal writes only what `AnnotationWorkflow` and `ExportEscrow`
model, so `Finish` changes nothing but where the request stands.

### AnnotationWorkflow (`app/services/annotation.py` and every other writer of `annotations`)

`row` holds the columns that the queue and the reviewers decide by; `assignments` the
assignees in order; `rework` counts the rounds. `auto_assign_jobs` is `SelectJobs`
(`FOR UPDATE SKIP LOCKED`) and `CommitJobs` or `AbandonJobs`. `SubmitLabels`,
`SubmitReview` and `Reassign` lock, check and commit in one transaction and are one
action. The handlers that do not lock are one pair of actions, `Load` and `Commit`,
around three tables: what a handler checks of the row it loads (`Accepts`), what it
makes of it (`Outcome`), and which columns the commit writes (`Dirty`, by SQLAlchemy only
those whose value has changed). `reassign_rejected` is called by tests only and stays in
the model. The condition SUBMITTED of `certify_job` and the etag of an offline edit are
left out: the model does more than the code, never less.

### IngestionPipeline (`app/services/ingestion.py`, `auto_label_task`, reconciliation, field scripts)

`batch` is the table with its unique `batch_id`, `upload` the requests, `queue` the
broker with the number of copies of each task, `worker` the Celery workers, `stuck` what
the reconciliation has read. The argument of a task is "id" or "batch_id", because the
code dispatches one and looks up the other; the field scripts dispatch the `batch_id`.
`labelled` counts how often a batch's events became annotations: a failed audit entry or
a repeated delivery does it again, and nothing in the repository promises otherwise. The
object store is left out (a failed put is ignored by the code), and so is
`process_batch`, a task nothing sends.

### TrainingJob and ModelRegistry (`app/services/training.py`, `app/api/model_registry.py`, `app/ai/model_inference.py`)

`StartTraining`, `SendJob` and `SendFails` are the request; a worker goes through
`TakeJob`, `LoadJob` (the row lock), `MarkRunning`, `UpdateProgress` and `Trains`,
`WriteResult` or `WriteFailure`, `ReportsJob` and `RetryJob`; `CancelLoads` and
`CancelWrites` are the user. The training writes progress and result through sessions of
its own and does not look at the status. Faults: `TransactionFails`, `TrainerDies` and
`BrokerLost` (the message is delivered again), `TimeLimit`. An artifact is "stored" or
"lost": when the upload to the object store fails, the path in the temporary directory
that `run_training` removes is recorded.

`ModelRegistry` extends it. A deployment reads the job (`DeployReads`) and inserts
(`DeployInserts`); `LoadTarget`, `Activate`, `LoadCurrent`, `Rollback` keep what they
loaded. `Swap` writes the rows in the order of their keys, as SQLAlchemy does, and the
partial unique index of migration 0013 refuses the transaction when two would be active
between two of its rows (`Unique`, the index `ux_deployed_models_active_per_type`). The
engines that a process keeps for inference only read the registry and are left out.

### LiveSession, LiveServer, LiveClient, LiveTracks (`app/api/ws_annotation.py`, `useLiveAnnotation`, `app/ai/object_tracker.py`, `app/ai/events.py`)

`LiveSession` is one WebSocket session. An action is what one coroutine does between two
awaits: `Receive`, `SendBusy`, `Disconnected` of the loop, and for the task of a frame
`Decode`, `Detect`, `Announce`, `Replace`, `Keep`, `Finish`, `Answer`, `Close`, with the
failure of each send or save. A frame that comes while one is handled replaces the
pending one; the task starts the pending frame as it ends. `clip` is the event clip that
is being collected from the ring buffer and later frames.

`LiveServer` is what the browser may rely on: the server holds at most two frames,
keeps the newest, and answers what it holds. `LiveSession` implements it
(`ImplementsServer`), and `LiveClient` has an instance of it at the other end of each
socket. `LiveClient` is the effect of the hook: each run has a socket and a timer, all
share `inferencing` and `pendingSend`; a capture is awaited (`Tick`, then `Send` or
`CaptureFails`); the handlers of an earlier run may still be called (`Closed`).

`LiveTracks` takes a frame as a whole: which detection belongs to which track is any
assignment, confident detections first; tracks coast and are deleted; each track in the
output has a state with its clock of presence and the last firing of each rule, and
states not seen for `TTL` are pruned. `Cooldown` gives each rule its own, of any length,
as a configured rule has (`events.py:170`). `shown` is the history of a track: since when
it is in the output, when it last was, and when it last came back after more than `TTL`.
A frame without detections returns before the tracker (`EmptyFrame`).

### FleetHealth (`app/services/fleet.py`, `app/api/fleet.py`)

A heartbeat is `StartBeat`, `LockRow` (the UPDATE), `ReadCommands` and `CommitBeat`, or
`BeatFails`. Any number of operators read a row without a lock (`ReadNetwork`) and write
the last `Keep` commands (`WriteNetwork`); `raced` is a history variable, the pairs of
commands whose requests for one node were open at one time. The sweep is `StartSweep` (the cutoff), `SelectRows`
(`FOR UPDATE SKIP LOCKED`), `CommitSweep` or `SweepDies`. Time is kept as ages that stop
growing above the timeout, so it has no end and liveness can be asked.

### OfflineSync (`useOfflineSync.ts` with the studio and live endpoints)

Entries are in `queue` and `edits`; `call[c]` is a flush: `Fetch` (the known checksums),
`Select`, `Duplicate`, `Mark`, `Post`, `Answer`. Nothing keeps two flushes of the frames
apart; flushes of the edits of a session exclude each other. `PlanEviction` chooses
what to delete before `QueueFrame` adds. A request given up may still arrive
(`ArriveLate`). `EditsRefused`: the endpoint refuses each edit with 422, as the client
sends other fields than it requires (section 7). `RetryFailed` takes edits up again that were
given up; the hook offers it and no page calls it yet. `Reload` ends every call and keeps
IndexedDB. The model is one tab: a second one shares the entries but not `syncLocks`,
which is a variable of the module, so the lock does not keep the flushes of two tabs
apart.

### FederatedRound (`app/services/federated_learning.py`)

`Insert` adds a row, counts those of the round with it, and takes the round
`FOR KEY SHARE` through its foreign key; `CommitUpdate` needs the round `FOR UPDATE`, which
two submissions that have both inserted deny each other: the database ends one
(`LoseUpdate`). `LockRound`, `Complete`, `Fail`, `RollBack` are an aggregation.
`LongNames` are rounds whose version does not fit its column.

### CircuitBreaker (`app/core/circuit_breaker.py`)

`Look` is the property `state`, which moves an open breaker to half open; `Peek` is
`get_redis`, which looks and records nothing; `Begin`, `Succeeds`, `Fails`, `Cancelled`
are calls under way. `streak` and `quiet` are history variables: the failures recorded
since the last success, and the time since a failure was last recorded.

## 4. Runs

Every run is one module of instances (`MC*.tla`) and one `.cfg`.

| Run | Instance | Checks | What it shows |
|---|---|---|---|
| `escrow` | 2 exports of one buyer and dataset, prices 2 and 1, credit 2; 2 purchases, a worker, a webhook, a withdrawal; 1 retry | `RefundOnce`, `BlockedIsRefunded`, `DebitIsFresh`, `ImplementsLedger` | one refund per export, exactly when its audit row exists; no export is BLOCKED unpaid; the escrow implements its ledger |
| `escrow_unpaid` | as `escrow` with one purchase | `RefundRestores`, violated | a refund of what was never deducted (section 7) |
| `consent_ledger` | 2 recorders, 2 withdrawals, one with the key; clock to 2, 1 retry | `WithdrawnStaysInvalid`, `LockGranted` | withdrawn consent never verifies again, and nobody waits for a lock for ever |
| `annotation_workflow` | one live frame, 2 annotators, a reviewer, 2 schedulers, 2 sessions of all unlocked handlers, 2 reworks | `OneAssigneePerRound`, `AnnotatorIsAssignee` | no second assignee in a round, and no stale commit brings an earlier one back |
| `annotation_queue` | 2 annotations, 2 annotators of whom one becomes a reviewer, 2 schedulers, 2 withdrawals, 1 rework | `QueueInv` | in the queue alone, a status tells what the other columns hold, and nobody certifies their own work |
| `ingestion` | one batch id, 2 uploads, a field script, 1 worker, 1 retry, 2 copies, 1 death | `BatchInv`, `IngestedWithAnnotations`, `OutcomeIsFinal`, `ReachesWorker` | one row for all who are answered; ingested exactly with annotations; outcomes are final; a PENDING batch reaches a worker again and again |
| `model_registry` | 1 job, 2 workers, a cancelling user, 1 retry, 1 loss, 3 faults; 2 deployments, an activation, a roll back | `RegistryInv`, `TrainedOnce`, `RegistryMatchesJob`, `OutcomeIsOfOneRun`, `SentIsStarted` | trained once, registered as it was produced, at most one model active, and a job that was sent is started or given up after its attempts |
| `live` | a session of 4 frames with up to 2 events each; a browser of 3 runs; one track over 8 units of time, cooldowns of 2 and 3 and one of 6, longer than `TTL` of 3 | `SessionInv`, `SavedOnce`, `ClipNotLost`, `ImplementsServer`, `ClientInv`, `Flows`, `TracksInv`, `CooldownKept` | one frame in flight and the newest waits, clips saved once and not lost; frames keep flowing; clocks and cooldowns survive gaps and pruning |
| `fleet_health` | 1 node, 2 overlapping heartbeats, 2 operators, 3 commands with room for 2, timeout 2, requests of at most 1, 1 fault; time without end | `AtLeastOnce`, `OfflineWasSilent`, `SilentGoesOffline` | a node that beat in time is not marked OFFLINE, a silent one is, and a command is forgotten only when requests of operators overlap |
| `offline_sync` | 2 frames, 1 edit, 2 flushes, 2 retries, room for 1, 1 reload | `CallsCounted`, `SettledIsSaved`, `UnsavedKept`, `FrameSettles` | what is shown as done is on the server, nothing unsaved leaves the queue early, and frames settle as long as flushes are started |
| `federated_round` | 2 rounds, one with a long name, 4 updates, 2 aggregations, target 3 | `AggregatedOnce`, `CountKept`, `CompletedEnough` | no update is used twice or lost, no round completes with too few |
| `circuit_breaker` | 3 calls at once, threshold 3, recovery 2, 2 probes | `CountsStreak`, `StaysOpen`, `Recovers` | opens after three failures in a row, stays open for the timeout, and closes for good with the service |

`live` is a sum: `LiveSession`, `LiveClient` and `LiveTracks` share no variable, so
`MCLive` extends the three and chooses at the start which of them runs (`part`); the
others stand still.
The fairness of a part that stands still asks nothing, since none of its fair actions is
enabled at the start.

Why the bounds are enough. *Escrow*: two exports of one buyer give every contention there
is, on the buyer's row (both), on an export's row (worker, webhook, withdrawal), and a
credit that is enough for either and not for both; prices that differ tell one refund
from the other. *Consent*: two recorders and two withdrawals allow a consent stamped
before and visible after a withdrawal, and a withdrawal that waits for the rows of
another. *Annotations*: two reworks give a row its capturer and then two assignees, which
a commit from any earlier round could bring back. *Ingestion*: one batch id is all that an
upload, a script, a worker and the reconciliation have in common. *Registry*: two models
are the least that can be active together; a redelivery and a retry are each possible
once, in any order with the cancel, and three faults are an outage that lasts: the
attempt fails, its handler fails, and the retry fails as well, or does not reach the
broker, so that the job is given up while it is PENDING. *Live*: four frames make one that is handled,
one that waits and replaces another, and one that comes after; two events in a frame
replace a clip at once; buffer, `Pre` and `Post` of 2 fill and overflow; three runs are
a run, the one whose handlers are late, and the one they disturb; a track survives two
frames without a detection, more time than `Gap` and less than `TTL`, and eight units
let it vanish, be pruned, return and fire again, within the longest cooldown and after it.
*Fleet*: rows are independent, so one node is enough; two operators overlap with each
other and with two heartbeats, and a third command overflows the list. *Sync*: one place and two frames evict; two flushes overlap in every order;
two retries can be used up while another flush counts. *Federated*: with target 3 two
of the four updates are enough, and the others can come before, between and after.
*Breaker*: three calls can all have begun before it opens.

Bounds that are not in the code are constants and say so: `MaxClock`, `MaxRework`,
`MaxCopies` (equal messages in a queue, where one more changes nothing a worker can
see), `MaxDeaths`, `MaxLosses`, `MaxFaults`, `MaxReloads`, `MaxRuns`, `MaxFrames`,
`MaxEvents`, `MaxUses`. `MaxRetries` stands for the 3 of the code in `ExportEscrow`,
`ConsentLedger`, `IngestionPipeline`, `TrainingJob` and for `MAX_RETRIES` in
`OfflineSync`. Worker crashes in `ExportEscrow` and `EraserDies` are not bounded. Times
are in units in which the code's constants keep their order.

Symmetry is used in the annotation runs (schedulers, sessions) and in `federated_round`
(updates, aggregations), which check no liveness. `CHECK_DEADLOCK FALSE` is in the runs
of systems in which everyone may be done: withdrawals finished, jobs certified, uploads
answered, requests served, frames sent. The others are checked for deadlock.

The mutants in `PROJECT.json` are the evidence that each property depends on the code: a
lock without `FOR UPDATE`, a refund without its audit check, a flag set after the first
await instead of before, a clip that is not cleared, a pending frame that nobody
starts, a sweep that locks nothing, an eviction by age alone, a count of someone else's
attempt, an index that is missing, and so on.

## 5. Fairness

- `ConsentLedger`: each step of a request that the server has accepted, per session. The
  server runs it, and PostgreSQL gives a lock to a waiter when it is free.
- `IngestionPipeline`: time passes (`Age`), Celery beat runs the reconciliation, a worker
  goes on with what it took. `Take` is strongly fair for each task, because the queue is
  first in, first out. `Redispatch` and `Commit` are strongly fair: the broker does not
  refuse every dispatch and the labelling does not fail every time, which is what
  retrying is for.
- `TrainingJob`: a worker goes on with its job, and each message is taken by some worker
  again and again (strongly fair). `SentIsStarted` is asked only of jobs whose message
  reached the broker: `start` leaves a job PENDING when `send_task` fails, and nothing
  looks for such jobs; nor of jobs whose last attempt raised (`sent` is "abandoned"). It
  does not say that a job ends: a time limit or a lost worker
  leaves it RUNNING for ever, as the code does.
- `LiveSession`: the event loop runs what is ready, and a send returns or fails.
- `LiveClient`: the timer, the captures that resolve, the server's answers (`Answering` of
  `LiveServer`) and their delivery are fair. Closing, opening and losing sockets are not.
  That the video has a frame when the timer fires is assumed (`Tick`).
- `FleetHealth`: Celery beat runs the sweep every five minutes, and an accepted heartbeat
  is handled. Nothing is assumed of nodes, operators or faults; time may stop.
- `OfflineSync`: a flush that was started goes on, as each of its requests is answered or
  given up. That one is started is not assumed by `FairSpec` but is the antecedent of
  `FrameSettles` (`StartsAgain`), because the code does not ensure it. What starts one is
  the 30 s timer (`useOfflineSync.ts:417`), which runs only online and with a session, so
  only on the pages that show one (`App.tsx:158`, `App.tsx:360`, `paths.ts:255`); the
  online event (`useOfflineSync.ts:397`, `useLiveFrameQueue.ts:43`); a new edit; and the
  user (`App.tsx:421`, `App.tsx:668`). A reload ends what `FrameSettles` asks.
- `CircuitBreaker`: time passes, requests keep coming, and a call answers, strongly fair
  because it may be cancelled instead, but not each time.

Nothing is assumed of crashes, clients, operators, users, losses or reloads anywhere.

## 6. Proofs

For every value of the constants that satisfies the assumption of the module. Sets of
sessions and rows may be infinite, except where they are counted, compared in order or
bound a fold (updates of `FederatedRound`, model ids, frames of `OfflineSync`); the
assumptions say that bounds and prices are naturals, that sets are disjoint where a
value must not be in two of them, and that `None` and other marks are not in them. No
theorem has a hypothesis of its own. Each component has an inductive invariant (`IInv`;
`RunInv` of the browser, `TracksIInv`, `FederatedInv`, `BreakerInv`), for which `Init =>
IInv` is proved and that each action keeps it; what is not needed for all of a
component's theorems is an invariant of its own that is inductive together with it
(`LedgerInv`, `QueueInv`, `SaveInv`, `CommandInv`). TLC checked each of them before it
was proved.

| Module | Theorem (property) |
|---|---|
| `ExportEscrowProofs` | `TypeCorrect`, `RefundsOnce` (`RefundOnce`), `BlockedAreRefunded` (`BlockedIsRefunded`), `DebitsAreFresh` (`DebitIsFresh`), `LedgerIsKept` (`ImplementsLedger`) |
| `ConsentLedgerProofs` | `TypeCorrect`, `LedgerAppendOnly` (`AppendOnly`), `WithdrawalsLast` (`WithdrawnStaysInvalid`) |
| `AnnotationWorkflowProofs` | `TypeCorrect`, `NoDoubleAssignment` (`OneAssigneePerRound`), `AnnotatorStaysAssignee` (`AnnotatorIsAssignee`), `QueueKeepsRows` (`QueueInv`) |
| `IngestionPipelineProofs` | `BatchesFit` (`BatchInv`), `IngestedIsLabelled` (`IngestedWithAnnotations`), `OutcomesLast` (`OutcomeIsFinal`) |
| `ServerProofs` | `TrainsOnce` (`TrainedOnce`), `OutcomesAreOfOneRun` (`OutcomeIsOfOneRun`), `RegistryFits` (`RegistryInv`), `RegistryHoldsResults` (`RegistryMatchesJob`); `BreakerTypeCorrect`, `FailuresAreCounted` (`CountsStreak`), `OpenIsTimed` (`NeverStuck`), `OpenLasts` (`StaysOpen`) |
| `LiveProofs` | `SessionFits` (`SessionInv`), `ClipsAreSaved` (`ClipNotLost`), `ClipsAreSavedOnce` (`SavedOnce`), `SessionIsServer` (the safety part of `ImplementsServer`); `HeldWithReason` (`ClientInv`); `ClocksFit` (`TracksInv`), `CooldownsLast` (`CooldownKept`) |
| `NodeProofs` | `TypeCorrect`, `OfflineMeansSilent` (`OfflineWasSilent`), `CommandsAreNotLost` (`AtLeastOnce`); `RoundsTypeCorrect`, `WeightsUsedOnce` (`AggregatedOnce`), `NoSubmissionLost` (`CountKept`), `EnoughTookPart` (`CompletedEnough`) |
| `OfflineSyncProofs` | `SettledAreSaved` (`SettledIsSaved`), `MarksHaveCalls` (`CallsCounted`), `UnsavedAreKept` (`UnsavedKept`) |

*Escrow.* `RefundOnce` is not inductive: a session that has looked for the audit row and
found none will write one, and so might another. The strengthening says who holds which
lock meanwhile. `CreditInv`: a session on its way to credit an export holds the export's
row, and no refund is recorded. `PaidInv`: nor is one for what it has credited and not
committed. `BlockInv`: an uncommitted BLOCKED has its refund recorded, written or next.
`DebitInv`: a purchase holds the buyer's row between its check and its commit, from which
`DebitIsFresh`, from which a balance never goes below zero, part of `TypeOK`. `JobInv`:
such a session knows its export.

*The ledger.* `ExportEscrow` has no fairness, so `LedgerIsKept` is the whole of
`ImplementsLedger`: `CommitExport` is `Hold`, `CreateB2BExport` is `Open`, the commits of
`_fail_export` and of a withdrawal are `Return` of what they have refunded (`PurchaseHolds`,
`B2BOpens`, `RefundsReturn`), and every other step leaves balances and entries alone
(`LedgerStutters`). Beyond `IInv` that needs `LedgerInv`: the buyer's row as a transaction
sees it is the committed one plus the prices of its refunds, and it has refunded only
buyers whose rows it holds (`ViewInv`); nothing is refunded twice in a transaction
(`PaidOnce`); every export a message or a session is about has a row (`Backed`), and one
that is being bought has none and is bought by one session (`FreshId`). The prices are
added one export at a time, by lemmas on the cardinality of `Units`, so no induction
over sets is needed.

*Consent.* Whatever was flushed was stamped before now (`StampInv`), so a withdrawal
stamps its rows later than those it has selected (`OrderInv`), and what it has committed
stays (`DurableInv`, which needs `AppendOnly`). `RetryInv` keeps attempts in range.

*Annotations.* A row without annotator has been assigned in earlier rounds at most
(`RoundInv`), a selected row stays locked and unassigned until its scheduler ends
(`PickedInv`), and no unlocked handler ever commits the annotator column (`WorkInv`),
which is why a stale session is harmless here: what a row holds is its last assignee
or none (`AnnotatorIsAssignee`). `QueueInv` is about runs in which only the queue
writes; it needs that a withdrawal, which takes no lock, is about to write a rejection
and no other column (`WithdrawalInv`).

*Ingestion.* Answers are about the row that is in the table (`AnswersFit`), a script's row
is never rejected (`ScriptRows`), and only a script's message names a `batch_id`
(`TasksFit`), so that whoever labels a batch labels one that exists and is PENDING or
INGESTED.

*Live session.* At most one task runs (`Single`), exactly while the flag is set
(`FlagIsTask`); a frame that has not arrived or waits has no task (`NotYet`); buffer,
clip and answers are older than the frame that is handled (`Ordered`); a clip is replaced
for an event that is still to announce (`ReplacesForEvent`). Together they make the answers
come in order and each step one of `LiveServer`, whose `held` is the flag plus the
pending frame. A clip may be saved twice once the client has left, by the task that runs
and by that of the frame that waits, and no more: `ClipInv` counts saves and the tasks
that may still save, and `FutureInv` says that an event still to be announced has no clip.

*Browser.* Frames of several runs can be under way at once, as the handlers of an old run
clear the flags of the new one, so nothing bounds the captures of one run by itself. `Tries`
does: a run brings a chance to capture, its socket one more when it has closed, and a
frame takes a chance and gives it back when it ends, so that frames, open sockets and a
free chance are never more than twice the runs. `FirstRun` and `LaterRuns` say what is left
when nothing has disturbed a run, `OnlyLast` that at most the last socket is open.

*Tracks.* `TracksFit` relates a track's state to the history kept beside it: the state
knows when the track was last in the output, and since when as long as the gap is short
(`StateFits`); it knows the last firing of each rule, or that firing is a cooldown ago
or the track was away for more than `TTL` since (`FiringsFit`); a track without a state
was never in the output or not for longer than `TTL` (`Forgotten`). So a cooldown is cut
short only by an absence of more than `TTL`, however long it is (`CooldownsLast`): a track
that goes missing for less keeps its firings, and no frame prunes them while it is shown.

*Training and registry.* A job has one worker that may still start it or record its result
(`OneRunner`), which holds the row PENDING until it commits RUNNING (`LockedIsPending`) and
finds no result in it (`RunnerIsOpen`); a job that has started is not PENDING again
(`NotRunYet`), and a result is whole, whatever marks the job FAILED later
(`ResultIsWhole`). So what a deployment read of a job is still its result when it inserts
(`InsertIsResult`, `ModelIsResult`), which needs the training's invariant; `ActiveAreOne`
rests on the unique index, as a `Swap` may be made of rows read long before.

*Sync.* What a flush knows or was told is so (`KnownIsSaved`, `OkIsSaved`), and the retry
counts it read lag behind the answers that came (`TodoIsRead`, `RetriesLag`), as flushes
overwrite each other's. A victim of the eviction is saved or has used up its attempts
when it is planned, and stays so (`VictimsExpendable`). Flushes of the edits exclude each
other (`OneBatch`), so the counts they read are current (`BatchIsRead`); until the page is
reloaded, an entry marked "syncing" has a flush that is about to unmark it
(`FrameSyncing`, `EditSyncing`).

*Fleet.* A heartbeat that has updated its row holds it (`BeatHolds`); the row's age is at
most one request more than what was last recorded (`AgeFollows`); and what the sweep has
found it holds, and it was silent (`FoundAreSilent`), which no heartbeat can change before
the sweep commits. For commands (`CommandsAreNotLost`): what a row or an operator's copy
of it lacks was taken by a heartbeat, made room for later ones, or raced with a command
that is queued, or with the operator's own (`RowInv`, `OpInv`); requests that are open
together race (`OpenRace`), so whatever is queued after an operator has read the row
races with what he writes; and nobody writes what a heartbeat has read from the row it
holds (`BeatInv`). Commands are numbered as they are issued
(`GivenInOrder`), so an operator's is newer than all that are queued.

*Federated.* A submission that has inserted holds its share of the round, so that its
count stays right until it commits (`SubmissionsWait`); an aggregation owns the round,
so that what it found is what is there (`FoundIsThere`); rounds are not deleted
(`RoundsExist`).

*Breaker.* The stored time of the last failure is the time since one was recorded
(`AgeIsQuiet`), although calls that began before the breaker opened record late.

Type correctness is a conjunct of each of these inductive invariants, and a theorem of its
own where the table says so. Only model-checked is liveness: `LockGranted`, `ReachesWorker`,
`SentIsStarted`, `Flows`, the answering part of `ImplementsServer`, `SilentGoesOffline`,
`FrameSettles` and `Recovers`, as the provers have no `ENABLED`. No proof uses induction
over data or a recursive operator: sequences and sets are changed by one element, or cut,
in each step, and the lemmas about them say what that does.

## 7. Disagreements between code and text

With a run: `RefundRestores`. `refund_escrow` "restores the buyer's credit_balance_usd to
the pre-deduction amount" (`billing.py:27`), but a B2B export, for which nothing was
deducted (`b2b_api.py:185`), is refunded its price as well: in TLC's trace a withdrawal
blocks one, and the buyer is left with more than he ever had.

Met while modelling, in the models' behaviour or in code next to it, without a run of
their own:

- *Escrow.* "When Celery retries exhaust, export should be marked FAILED and escrow
  refunded" (`tests/test_billing.py:243`), but a stage that fails commits FAILED itself
  (`tasks.py:841`), and the handler then skips the refund (`tasks.py:994`). For a purchased
  export this has no consequence yet, as no code dispatches one: only `b2b_api.py:256`
  sends the task. `AUDIT_FINDINGS.md:93` lists the resurrection of a BLOCKED export as
  resolved, but the pipeline completes it from an object loaded earlier (`tasks.py:932`),
  and so does the webhook, whose guard reads a status loaded before the lock
  (`billing.py:196`). The handler for exhausted retries runs after every attempt, so that
  a refunded export may be delivered by the retry (`tasks.py:983`); a worker that dies
  between committing FAILED and its refund leaves it unpaid (`tasks.py:1003`).
- *Consent.* The erasure deletes ledger rows, which the append-only triggers forbid, so
  its transaction is rolled back on every attempt while the images are gone
  (`tasks.py:1685-1735`); the nightly expiry updates ledger rows, which the trigger aborts
  (`tasks.py:1650`). A withdrawal commits twice (`compliance.py:101`); a request whose key
  is stored is refused as processed even when the first one died. A withdrawn consent stays
  ACTIVE, so each further withdrawal withdraws it again.
- *Annotations.* The workload by which annotators are ranked counts every job ever
  assigned (`annotation.py:57`); live frames have an annotator from the start and are
  never assigned (`live_capture.py:258`); bulk review of live frames ignores their status
  (`review.py:157`); an approval that loaded a row already certified and rejected writes
  only its status (`review.py:289`).
- *Ingestion.* PENDING batches "are not a dead end" (`ingestion.py:138`), but uploads and
  reconciliation dispatch the row's id and the task looks for it as a `batch_id`
  (`ingestion.py:144`): only a field script's batch is ever labelled. Of two uploads that
  race the second fails on the unique constraint (`ingestion.py:30`).
- *Training and registry.* Rows are written in the order of their keys, so activating a
  model whose key sorts before the active one fails on the unique index
  (`0013_add_deployed_models.py:52`); an activation whose target was loaded active and was
  deactivated meanwhile leaves no model active. When the database is away through all
  attempts of a task and their handlers (`tasks.py:121`), or the broker refuses a retry,
  the job stays PENDING, and nothing sends it again. "lost"
  artifacts are deployed like others. A failing audit entry after COMPLETED makes the job
  FAILED; a retry of a FAILED job is skipped and audited as TRAINING_JOB_COMPLETED. The
  engine cache is cleared on activation as `model_registry.py:137` says, but the last
  known good engine is kept and comes first (`model_inference.py:417`).
- *Live.* A clip that is being collected when the client leaves is not saved; one whose
  announcement fails after it was saved is saved again. Of two events in a frame the
  first one's clip lacks that frame. The frame that waits is reported as "dropped" and
  processed all the same. Empty frames skip the tracker, so tracks do not age; a coasting
  object counts as present for the dwell time (`events.py:29`). A rule with a cooldown
  above the time to live fires early for a track that was away for longer than that, as
  `CooldownKept` says; the shipped ones have shorter ones. In the
  browser, `onclose` of an old socket or a failed capture of an old run clears the flags of
  the new run, after which two frames are under way for good and half of them are
  answered "busy"; and no run reconnects when the server closes.
- *Sync.* Edits are always refused: the client sends `image_id` and `annotations`
  (`api.ts:267-276`), the endpoint requires `annotation_id` (`studio_sync.py:21`), so "Saved
  offline — will sync when connection returns" is not kept. The cap is exceeded when only
  unsent frames remain. Nothing retries a frame whose upload failed while the browser is
  online on the live page, except the user: the timer needs a session, which that page has
  not (section 5), though it says "will sync when connected" (`LiveAnnotatePage.tsx:403`).
  An upload whose answer is lost is stored twice. A stale flush can set a resolved frame
  back to pending. `syncLocks` does not reach across tabs.
- *Fleet.* "Command queued for next heartbeat" (`api/fleet.py:115`) is not kept for
  operators whose requests overlap: one overwrites the other's command. `AtLeastOnce` says
  that a command is lost in no other way. A response that is lost after the commit loses the commands it carried.
  MAINTENANCE in the docstring of `_derive_node_status` (`fleet.py:124`) is never returned,
  and a node never heard is marked OFFLINE.
- *Federated.* `num_contributors` is one too many, as the new row is counted and added
  (`CountKept` says so); the status of the round is not read, so aggregating a COMPLETED
  round again makes it FAILED, or completes it with what came since; versions of long model
  types do not fit their column.
- *Breaker.* Nothing records to the MinIO breaker, so it never opens; `half_open_max_calls`
  counts successes and does not limit calls; a cancelled request records nothing; late
  failures prolong the open state.

## 8. Not modelled

The map covers about 9 % of the repository's lines of code. Most of the rest is outside
what a model checker can tell apart: perception, prediction, reconstruction and synthetic
data are numerical code without lasting state; the greater part of `app/api` reads rows
and formats answers; the export formats convert data. Of what changes state in an order
that matters, the following is left out, for the reasons given here and in
`PROJECT.json`:

- *Idempotency keys*: a look-up and a store in two round trips; two requests of one key
  that overlap both run. The key of a withdrawal is in `ConsentLedger`.
- *Dataset assignments*: claim, submit and review check a status without a lock
  (`assignment.py:205`); nothing else reads it, so nothing is promised.
- *Dataset lifecycle*: `trigger_build` raises TypeError before it dispatches, so no build
  runs; only tests publish a dataset. `sample_count` can lose updates; an upload to a
  data set of one image gives its index out again (`image_upload.py:48`).
- *Batch labelling*: a correction and a forced batch mix their columns; an unforced batch
  overwrites a row that was created and reviewed while it segmented; one commit at the
  end loses everything to a hard time limit; stale answers of a poll stop the polling of
  a new job. No text says what either keeps.
- *Payroll*: each run pays every certified annotation again, and the stipend and airtime
  tasks fail on undefined names: there is no correct behaviour to check against.
- *Export builder*: each `ExportJob` ends FAILED or stays PENDING, as one caller imports a
  function that does not exist and the other passes seven arguments to a task of six.
- *Rate limits* (one atomic increment), *operator OTP* and *authentication* (stateless
  checks; security is not the subject), *alerts* (no promise of delivery), *user
  interface* beyond the hooks above.

In the components that have a module: the content of images, labels and files, the object
store except where the erasure empties it, audit rows other than the refund's, reports
and statistics that only read, thresholds of scores (both outcomes are possible),
segmentation on the device (off by default), backoff times, metrics and logging.
