# TLA+ models of Falcone

Falcone is a multi-tenant backend-as-a-service control plane written in
JavaScript.  Its own logic is a set of small handlers (OpenWhisk-style actions
and an HTTP control plane) that work concurrently on rows of PostgreSQL, call
external systems in between, and are swept up after by periodic jobs.  There is
hardly a lock in it: what makes it correct is which statement carries which
`WHERE`, `UNIQUE` or `ON CONFLICT`, and in which order the statements come.
That is what the models are about.

Source paths below are relative to the repository's root.

## 1. Inventory

### Components that carry the core logic

| component | state | operations | interacts through |
|---|---|---|---|
| **async operations** `packages/provisioning-orchestrator/src/{models,repositories,actions}/async-operation*` | `async_operations`, `async_operation_transitions`, `retry_attempts`, `manual_intervention_flags`, `retry_overrides` | create, transition (with failure classification, intervention mark and flag), cancel, retry, retry override, timeout sweep, orphan sweep | the rows; Kafka events published best-effort after the writes |
| **idempotent creation** `actions/async-operation-create.mjs`, `repositories/idempotency-key-repo.mjs` | `idempotency_key_records`, `async_operations` | look up, insert-or-find, resolve | one transaction, the row lock of the key |
| **durable saga** `apps/control-plane/saga.mjs`, `control-plane-database-startup.mjs` | `saga_runs`, `saga_steps`, mirror row in `async_operations` | startSaga, step, complete, fail/runCompensations, recoverSagas at boot | the rows; external systems (Keycloak, databases, buckets) through steps and compensators |
| **scheduling engine** `packages/scheduling-engine` | `scheduling_configurations`, `scheduled_jobs`, `scheduled_executions` | trigger, job runner, management API | the rows; invocations of runners and target actions |
| **webhook master key** `packages/webhook-engine/src/webhook-master-key*`, `apps/control-plane/webhook-key-*.mjs`, `webhook-db.mjs` | `webhook_master_key_state`, `webhook_master_key_rotations`, `webhook_signing_secrets`; replicas of the Deployment | adopt, rotate, recover, finalize (a Helm hook), boot of a replica, writes of secrets | an advisory lock that writers share and lifecycle transactions hold alone; Kubernetes |
| **webhook deliveries** `packages/webhook-engine/actions` | `webhook_subscriptions`, `webhook_deliveries`, `webhook_delivery_attempts` | dispatch, deliver, schedule a retry, pause, resume, delete | the rows; HTTP to the subscriber; the dispatcher awaits the worker, which awaits the scheduler |
| **secret rotation** `packages/provisioning-orchestrator/src/actions/secret-rotation-*` | `secret_version_states`; versions in Vault | rotate, revoke, expiry sweep | row locks, a unique index on the active version, Vault calls inside transactions |
| **MongoDB CDC bridge** `packages/mongo-cdc-bridge` | a replication slot per capture, `mongo_capture_configs`, the client's cursor | decode, publish, acknowledge, confirm, reconnect, start and stop watchers; enable and disable requests | PostgreSQL replication, Kafka, the polled configuration |
| backup status `packages/backup-status` | snapshots, restore confirmations | collect, initiate/confirm/abort restore, dispatch | the rows, adapters |
| realtime gateway `packages/realtime-gateway` | sessions, subscriptions, token state | connect, revalidate, suspend, resume, publish | Kafka, WebSocket |
| PostgreSQL CDC bridge `packages/pg-cdc-bridge` | listeners, publisher buffer | decode, publish | Kafka; nothing calls `processMessage` |
| plans, quotas, capabilities; credential and API-key rotation; reprovisioning (rest of `packages/provisioning-orchestrator`) | plan assignments, quota overrides, credentials, reprovision locks | assign, override, rotate, collect, reprovision | the rows, Vault, external systems |
| control plane, executor, workflow worker `apps/*` | tenants, workspaces, flows, triggers, LLM batches | HTTP handlers, Temporal workflows | everything above |

Consoles, SDK generation, documentation services, contracts, charts and tools
hold no concurrent state of their own and are not candidates for a model.
`PROJECT.json` lists every component with its status.

### What is hard here

* **Stale reads.**  Handlers read a row, decide, and write in a later statement:
  retry and override read `attempt_count`, cancel reads the status, the runner
  of a job reads the failure count and the status, PATCH reads `next_run_at`.
* **Check then act.**  Quotas, enablement, pending overrides and idempotency
  keys are looked up in one statement and relied on in another.
* **Crashes between two writes.**  Side effect and rollback record; execution
  row and `next_run_at`; failed status and intervention flag.
* **Recovery racing the living.**  Sweeps and boot-time recovery act on
  candidates selected earlier, while the owner of the row still runs.
* **Repeated delivery.**  A runner invocation or an API call may come twice, an
  event may be dispatched twice.
* **Unknown outcomes.**  The answer to a COMMIT, a Vault write or a Kafka send is
  lost after the work was done; the retry must recognise it.
* **Two stores in one step.**  Vault is written inside a database transaction,
  the replication slot is confirmed after Kafka, the rows are re-encrypted while
  Kubernetes still runs pods with the old key.
* **Handlers that outlive their cause.**  A callback awaiting the catalog or Kafka
  goes on after its connection was lost and a new one delivers the same changes;
  a watcher is set after the request to stop it.
* **Answers that are only half there.**  A 200 whose body cannot be read, an action
  that never returns, an error after the work was done.
* **Liveness through periodic jobs only.**  Nothing but the sweeps ends an
  operation whose worker died, nothing but the trigger moves a job.

The properties that make each modelled component correct are in section 3; the
hazards, line by line, are in `PROJECT.json`.

## 2. Plan

Done, in this order:

1. `AsyncOperations` - the status machine and everything that races on it.
2. `IdempotencyContract`, `IdempotentCreate` - what a key promises, and the
   transaction protocol that implements it.
3. `DurableSaga` - forward steps, replay of compensations, recovery at boot.
4. `Scheduling` - trigger, runner and management API.
5. Proof modules for each of them.
6. `WebhookMasterKey` - key lifecycle transactions against writers, lost COMMITs
   and a Deployment that is scaled to zero and back.
7. `WebhookDelivery` - dispatcher, worker, retry scheduler, management requests.
8. `SecretRotation` - versions in two stores, rotation, revocation, sweep.
9. `ChangeCapture` - the MongoDB CDC bridge, from slot to Kafka.
10. Proof modules for 6 to 9, and the invariants of 1 to 3 that had none: every
    invariant and every action property of a passing run is now a theorem.

Next, in this order:

11. An abstract specification of change capture (a log that a consumer reads in
    order and at least once, up to the gaps that `GapsExplained` admits) and of
    the key lifecycle (one key at a time), with the refinements proved from the
    invariants of their proof modules.
12. `RestoreConfirmation`: initiate, confirm, abort, expiry and dispatch of a
    restore; one restore per confirmation.
13. The reprovision lock of `config-reprovision`; `RealtimeSession`
    (revalidation against expiry, suspension and resume).
14. Quota and plan assignment; the flow-trigger registry and the LLM batch store
    of the executor.
15. A composition of `IdempotentCreate` with `AsyncOperations`, whose
    `CreateOperation` is the commit of the former.

## 3. Modules

A component's module holds its state, actions and properties; `MC*` modules
only name the sets the `.cfg` files use; `*Proofs` modules hold the theorems.
Definitions keep the names of the functions they model.  Operators whose comment
starts with "Mutant" stand next to the definition they vary: each is the bug
that one of the properties is there to catch, and none of them is used by `Next`.

In every module one action is one SQL statement outside a transaction, one
`BEGIN ... COMMIT` block, or one call of an external system; everything a process
has read stays in its memory (`req`, `trig`, `runr`, `bound`, `todo`, ...) and may be
stale when it is used.  A crash loses the memory and keeps the tables.

### AsyncOperations

`status`, `attempts`, `manual`, `age` are the columns of `async_operations`, `age`
being the time since `updated_at`, counted up to the largest threshold; `logged`
is the newest `async_operation_transitions` row; `attemptRows`, `flag` and
`overridePending` are the retry tables.  A handler is a `pc` and what it has read.

* transition: `transitionOperation` (SELECT FOR UPDATE, validation, UPDATE and log
  in one transaction), and after `failed` `classifyFailure`,
  `setManualInterventionRequired`, `createManualInterventionFlag`, each a
  statement of its own.
* cancel: `cancelRead`, `cancelTx`; retry: `retryRead`, `retryTx`.
* override: `overrideReadOperation`, `overrideReadFlag`, `overrideFindPending`,
  `overrideInsert`, `overrideTx`.
* sweeps: candidates first (`findTimedOutCandidates`, `findOrphanCandidates`,
  `findStaleCancellingCandidates`), then one transaction each.

`AttemptsRecorded`, `AttemptBudget` and `SnapshotsUsable` say that attempts read
before a transaction are never counted twice, exceeded, or used behind a
resolved flag; `TerminalOnlyRestarted` that nothing late reopens a terminal
status; `AuditTrail` relates the log to the status; `RunningIsSwept` and
`CancellingIsForced` are the promises of the sweeps.

### IdempotencyContract, IdempotentCreate

The contract has the newest operation of a key, whether its window is live, and
what every call is bound to.  The protocol has the record, its uncommitted
writer (`holder`), whether it has expired by now (`recExpired`), and for a
transaction the newest record that had expired when its `NOW()` was frozen
(`expiredGen`).  `ContractSpec` is the contract under the refinement mapping
`latest <- recOp`, `live <- ~recExpired`.  `RecordsLeadToOperations`,
`LockProtects` and `ClockSound` are the inductive invariant behind it;
`OneOperationPerWindow` counts the rows.

### DurableSaga

`run`, `comp`, `mirror` are the tables, `effect` and `execs` the external systems.
Requests and booting replicas are both *workers*: they share the actions of
`runCompensations` (`selectPending`, `claim`, `execute`, `markStep`, `finish`).
`SlowSagas` says whether a live saga may outlive the 300 s of the recovery
window.  `CompensatedAtMostOnce` holds whatever the timing;
`CompletedKeepsEffects`, `NewestFirst` and `RolledBackIsSettled` hold while sagas
are faster than the window.

A request can end in two ways without an answer: its replica crashes (`dead`), or
a statement of its own rollback throws while the replica lives (`aborted`).
`SagaEnds` excepts both: the second leaves a run `failed`, or `running`, with
records waiting that only a later boot may look at, and a `failed` one not even
then (`Saga_dberror.cfg`).  Errors inside a step or a compensator are no
exception.

### Scheduling

Time is counted in slots, a cron expression is the set of slots it matches, an
execution is a (job, slot).  The trigger reads due rows with their missed slots
(`selectDueJobs`), then for each row inserts missed slots, inserts the execution,
invokes the runner and advances the job.  The runner reads the job, claims the
execution (`started_at IS NULL`), calls the action (`invokeAction`), which may
return or not (`actionReturns`: the call has no deadline, `timed_out` is decided
when it is back), finalizes and counts.  The management API is split at each of
its statements.  A creation takes the status, the failure count and `next_run_at`
from its body when they are there, as `buildJobRecord` does without a check;
`max_consecutive_failures` is a constant of each job.  `DateColumns` says whether
timestamps come back as `Date` objects, as node-postgres returns them, or as
strings, as the test doubles do; the passing run has `Date` objects.

`ActedAtMostOnce`, `ResultsFinal` and `NeverEarly` are the safety of executions.
Their progress is `DueSlotRecorded`: a slot that is due gets a row, to run or as
missed, unless its job is stopped or planned anew.  That `next_run_at` then
advances (`DueJobAdvances`) is false of the code, see `Scheduling_dates` and
`Scheduling_stale.cfg`; and nothing is claimed of an execution that is claimed,
since its action may hang.

### WebhookMasterKey

`state` is the singleton row, `ledger` the requests by `request_id`, `rows` the
signing secrets, each with the key (identifier, mode and bytes) it was really
encrypted with; `scaled` is `spec.replicas` of the control plane, `replica` its
processes, `job` the runs of the lifecycle CLI.  A process writes a secret in
three steps (`WriteFence`, `WriteInsert`, `WriteCommit`) that hold the shared
lock; a lifecycle transaction needs `LockFree` and is one step, since it holds
the lock alone until COMMIT.  `acknowledged` tells whether the answer to COMMIT
arrives; `CommitLost` is the COMMIT that rolled back with its answer lost.  The
CLI around it is `Quiesce`, `Scale`, `Drain`, `ReadResolution`, the transaction,
and `MarkAmbiguous`, `Fail` or `Apply`; `CrashJob` may hit between any two.  Pods
that still terminate after the drain are replicas that `Stop` late.

`RowsReadable`: every secret is sealed with the serving key.
`LatestRequestReplayable`: the ledger and the state agree about the latest
request, so its exact retry is a replay.  `OneTransformPerRequest`: no retry
transforms twice.  `RecoveryRetained`: the old key outlives its deadline.

### WebhookDelivery

Two dispatches may handle the same event.  The dispatcher awaits the worker and
the worker the scheduler, as the adapter of the control plane does, so one `pc`
follows a dispatch through all three; each database call, the request and the
published event is a step.  Management requests read a subscription, then write
the status they computed.  `posts` and `stopPosts` are ghosts: requests sent for
a delivery, and those sent since its subscription was last stopped.  The counter
of failures belongs to the database interface the engine is given, of which the
repository only has test doubles; it is one step, as they have it.

`AttemptBudget`, `OneRequestAfterStop` and `DisabledByFailures` hold although the
worker reads no status; `DeliveriesSettle` says that retries end.

### SecretRotation

Rows are numbered in the order of their commits; a transaction's own writes are
in its memory until then, and `lock` and `slot` (the unique index on the active
row) say whom it blocks.  A statement that waits for a lock is an action that is
not enabled.  `written` and `gone` are Vault's versions; `cut` are the rows whose
version a revocation deleted.  A rotation reads the active and the grace row,
then inside BEGIN expires the grace row, moves the active row to grace (the row
its subquery picked before it waited for the lock), inserts, writes Vault and
commits; every failure in between rolls back.  The answer of a Vault write may be
lost or cut off before its status (`WriteUnanswered`, a rollback); a 200 whose body
cannot be read is an empty object to the client of Vault and version 1 to the
rotation (`AnsweredVersions`), which is committed.

`VersionsOrdered`, `NewestDecides` and `ActiveReadable` relate the rows to Vault,
with the exception of rows that carry the default version (`Defaulted`);
`NobodyStuck` says that the waits-for relation has no cycle and no dead holder.

### ChangeCapture

`Wal` is the sequence of messages the slot sends: changes of the captured
collection (`mine`), of others (`other`), skipped ones (`opaque`) and commits.
`flush` is the position the slot has confirmed, from which a new connection
starts.  A connection has a handler (`pc`, `pos`).  It awaits the catalog
(`OnChange`), then, in one step, sets `_lastChangeLsn` and passes the change on
(`Emit` in `OnOther`, `OnMine`), then awaits Kafka, the database and the audit.  When
its connection is lost during an await the handler goes on, also to the write of
`_lastChangeLsn` (`stray`), and when its watcher is stopped it is `late`: it may
still publish and set the status but acknowledges to a client that is no longer
used.  `PollAdds` and `PollRemoves` are the cache's diff; `StartWatcher` is what
`_startWatcher` does after it has awaited `ensureSlot`; `CrashRestart` is the
process.  Assumed of the libraries: no message is handed to a handler from a
connection that is lost or stopped, a handler that throws ends its connection,
an acknowledgement may be lost with its connection, a send that reports an error
may have been done.  A capture is not added a second time while its watcher is
being started.

The watcher's comment promises that "the slot never advances past an unpublished
change (no gaps)" (`NoGap`), which is false (`ChangeCapture_gap`).
`GapsExplained` is what the code does keep, for any log: an unpublished change is
passed only when its watcher has halted, and only if transactions overlapped or
a stray handler has set the cursor back.  `InOrderAfterCursor`: beyond the
confirmed position nothing overtakes an unpublished change; what lies before it
is not sent again, so a gap stays.  `CursorCatchesUp`: the changes of other
tenants never pin the WAL, in a log that has one (a client that has seen only
skipped messages confirms nothing).

## 4. Runs

| run | instance | shows |
|---|---|---|
| `AsyncOps` | 1 operation, 2 handlers, 1 retry, 1 crash, fair | safety of `AsyncOperations`; the sweeps end running and cancelling operations |
| `Idempotency` | 2 keys, 3 calls, 2 types, fair | the invariants, one operation per window, refinement of the contract; every call is answered or dies |
| `Saga_window` | 2 sagas of 2 steps, 2 replicas, 1 fault | order and truthfulness of rollbacks within the window |
| `Saga_slow` | 1 saga of 3 steps, 2 replicas, 3 faults, slow, fair | no compensator is called twice; a saga ends unless its replica dies or a statement of its own rollback fails |
| `Scheduling` | 1 job, created or not, 2 triggers, 1 runner, 2 requests, 1 crash, `Date` columns, fair triggers | at most one call per slot, never early, final results; a due slot gets its row |
| `WebhookKey` | 2 keys (a legacy and a canonical one), 1 secret, 2 replicas, 1 job that is started any number of times, 4 requests, 2 instants | the four properties of the key lifecycle |
| `WebhookDelivery` | 1 subscription, 2 events, 2 dispatches, 1 manager, 2 attempts, fair | attempts, stops and disabling; deliveries settle |
| `SecretRotation` | 2 rotations, 1 revocation at a time, the sweep, 3 rows, 3 Vault writes | order, currency and readability of versions, but for the default one; nobody waits for ever |
| `ChangeCapture` | 10 messages in 4 transactions, two of which overlapped, 2 connections, 2 drops, 1 restart, 1 request, fair | only overlap or a stray handler makes a gap, no overtaking beyond the cursor, the cursor catches up |

Three runs are expected to find a violation of a sentence of the repository,
quoted above the property and in `PROJECT.json` under findings:

| run | sentence violated | what happens |
|---|---|---|
| `Saga_inflight` | a saga in flight is never compensated | one slower than 300 s is, and then reports completed |
| `Scheduling_dates` | `next_run_at` advances | a `Date` never equals a string: the due slot is recorded as missed and blocks the job |
| `ChangeCapture_gap` | "the slot never advances past an unpublished change (no gaps)" | two transactions that overlapped: the LSN of the second to commit is smaller than one already acknowledged, so its commit is confirmed while its publish has failed |

### Further counterexamples

These configurations each end in a counterexample as well.  They are kept beside
the runs for whoever changes the code in question (`tlc -config <cfg> <module>`):

| configuration, module | property | what it shows |
|---|---|---|
| `AsyncOps_pending.cfg`, `MCAsyncOperations` | `PendingIsRecovered` | the orphan sweep selects stale pending operations, the status machine refuses `pending -> failed`; the test of the sweep says it "recovers running/pending" |
| `AsyncOps_override.cfg`, `MCAsyncOperations` | `OverrideAvailable` | after one override the flag row stays resolved, so none is accepted again, while the retry handler tells the owner to "request a retry override" |
| `Saga_restart.cfg`, `MCDurableSaga` | `RollbackSurvivesRestart` | the restarted pod finds its run too young and never looks again; `saga.mjs:12` says "rollback survives a restart" |
| `Saga_dberror.cfg`, `MCDurableSaga` | `CutRollbackResumes` | a database error in a rollback leaves the run `failed` with records waiting on a living replica; the sweep of a boot looks only at `running` runs |
| `Scheduling_stale.cfg`, `MCScheduling` | `DueJobAdvances`, with string timestamps and no crash | a PATCH without an expression writes back the `next_run_at` it read before the trigger advanced it: the slot has its row, every INSERT conflicts and the job stays |
| `Scheduling_paused.cfg`, `MCScheduling` | `OnlyResumeActivates` | a failing runner writes back the status it read; the end-to-end README says "no execution while paused" |
| `WebhookKey_retry.cfg`, `MCWebhookMasterKey` | `HaltedIsRetryable` | a COMMIT that rolled back without an answer leaves zero replicas and no ledger row, where `quiesce` accepts no retry; the CLI says "an exact Helm retry reconciles the ledger" |
| `WebhookKey_reuse.cfg`, `MCWebhookMasterKey` | `RowsReadable` | a legacy key that also parses as a canonical one is rotated away and back: a process that booted with its legacy mode and outlived both rotations passes the write fence, which compares only key ids, and seals a secret that the serving (canonical) key cannot open; found while proving `SecretsStayReadable`, whose assumption excludes it |
| `SecretRotation_last.cfg`, `MCSecretRotation` | `UnforcedLeavesValid` | the sweep expires the grace version after an unforced revocation counted it; the test says it "requires force when last valid version" |
| `SecretRotation_default.cfg`, `MCSecretRotation` | `ActiveReadableAlways` | a write of Vault whose 200 cannot be read is committed as version 1, which the sweep has deleted or will delete with an older row |
| `ChangeCapture_stray.cfg`, `MCChangeCapture` | `NoGap`, on a log without overlap | a handler that waits for the catalog outlives its connection and sets `_lastChangeLsn` back below a change that failed to be published; the commit of that change is then confirmed |
| `ChangeCapture_orphan.cfg`, `MCChangeCapture` | `WatchedIsKnown` | a configuration removed while `ensureSlot` is awaited: there is no watcher to stop yet, and the one set afterwards captures on |

Other behaviours the models have, which no run is kept for: an override restarts
an operation that has completed since the override read it (its UPDATE has no
condition on the status; `TerminalOnlyRestarted` admits it as a counted
restart); a crash between a saga's side effect and its record leaves an effect
without a rollback; a trigger that dies between its INSERT and its UPDATE blocks
the job (`DueJobAdvances` speaks only of behaviours without a crash); an action
that hangs leaves an execution claimed for ever; after a gap the overdue slots are
executed one per trigger and none is recorded as missed; two creates that count
before either inserts exceed the quota, and a create or resume that read the
configuration before it was disabled leaves an active job behind it; two patches
of a scheduling configuration lose one field; a runner that finds its job paused
leaves an unclaimed execution `running` for ever; recovery does not update the
mirror row of a saga, and a rollback that crashes half-way is never taken up; a
pause that read a subscription before it was deleted brings it back, since
`replaceSubscription` writes `deleted_at` of the row it read; `consecutive_failures`
is never reset; a delivery whose dispatch fails stays `pending`; the sweep of
secret versions marks a row expired before it deletes the version in Vault and
does not retry the deletion; a capture that is errored and enabled again between
two polls keeps its halted watcher, one whose slot cannot be created when it is
added stays without one, an errored one is not loaded after a restart, and the
late failure of a removed watcher sets the status to `errored` again.

### Bounds and why they are enough

Rows of different operations, runs or keys never meet in a statement other than
the sweeps' SELECTs and the quota's count, so one or two of each, with two or
three processes on them, produce every race of the code: each race is between
one process that has read and one that has written since.  One retry and one
override are two restarts, the least in which both count in either order.  `MaxCrashes`,
`MaxFaults` bound failures; one failure suffices for each crash window, more are
used where the state space allows it.  `MaxTime` and `Horizon` bound the clock of
the scheduler: two slots are needed for one that is recorded as missed, a third
for the job to move to.  `Scheduling` starts without a job, so that its two
requests (`MaxRequests`) are a creation with any body and one request of any kind
on the job, each split at its statements among the steps of two triggers and a
runner; more runners, requests and expressions are covered by the theorems.
Thresholds of one to three ticks keep the order in which the sweeps apply.
Runs and replicas are symmetric; `Saga_window`, which checks safety only, uses it,
and so does `SecretRotation` for its rotations.

The key lifecycle has one secret, since rows are all treated alike, and two
replicas, one with an old key beside one with the new.  Helm runs one
hook of a release at a time; `WebhookKey_jobs.cfg` is the larger instance in
which a second job repeats the rotation while the first runs the cycle, with
every overlap of a mark, a retry and a failure record.  It has the same four
properties, some 2.2 million states and no error, and takes a few minutes, so it
is kept beside the runs.
`MaxNow` 1 is a clock read before and after a deadline.  Deliveries meet only in
the failure counter of their subscription, so one subscription with two events
and a threshold of two suffices; two attempts are one retry.  Three rows and
three Vault writes let a rotation follow one that failed after its write.  The
log of `ChangeCapture` has a transaction with two own changes, one with a skipped
and a foreign change, one that wrote before it and commits after it, and a
foreign one; a second connection suffices for a handler to outlive its own, and
two drops for it to do so twice.

`CHECK_DEADLOCK FALSE` is set where the system may stop: calls and sagas are
finite in number, the scheduler's clock ends at `MaxTime`, every event is
delivered, versions and Vault writes are bounded, and the log of a capture ends.  The `AsyncOps`
runs check for deadlock.

### Fairness

* `AsyncOperations`: time passes and the two sweeps are run again and again (they
  are cron-triggered actions).  No worker, user or administrator is assumed to
  act.
* `IdempotentCreate`: a call that has arrived is executed, or its process dies.
  Arrival, crash and expiry are not fair.
* `DurableSaga`: living requests and replicas go on, a dead pod is restarted (its
  Deployment does), time passes.
* `Scheduling`: the trigger keeps being invoked and an invocation goes on, or
  dies.  Nothing else is fair: a runner, a request or an action that is called
  may stop for ever, since the runner awaits it without a deadline.
* `WebhookDelivery`: an awaited call of a dispatch in progress returns or throws
  (the request has a timeout).  Events and requests need not come.
* `ChangeCapture`: a promise settles, the server sends what it has and asks for
  replies, the client's loop subscribes again.  Polls, requests, drops and
  crashes are not fair.

## 5. Theorems

TLAPS proves, for every value of the constants that satisfies the named
assumptions (small facts about the sets: counters are naturals, the "no such"
values are not members, every expression has a next slot within the horizon):

| module | theorem | states |
|---|---|---|
| `AsyncOperationsProofs` | `TypeCorrect`, `AttemptsAlwaysRecorded`, `AttemptBudgetHolds`, `SnapshotsAlwaysUsable`, `AuditTrailKept`, `TerminalRespected` | `TypeOK`, `AttemptsRecorded`, `AttemptBudget`, `SnapshotsUsable`, `AuditTrail`, `TerminalOnlyRestarted` |
| `IdempotentCreateProofs` | `TypeCorrect`, `ClockNeverAhead`, `ReplaysFaithful`, `LockSound`, `OnePerWindow`, `ImplementsContract` | `TypeOK`, `ClockSound`, `RecordsLeadToOperations`, `LockProtects`, `OneOperationPerWindow`, `ContractSpec` |
| `DurableSagaProofs` | `TypeCorrect`, `ClaimsExclusive` | `TypeOK`, `CompensatedAtMostOnce` |
| | `UndoneNewestFirst`, `CompletedIsKept`, `RollbackIsComplete`, for `~SlowSagas` | `NewestFirst`, `CompletedKeepsEffects`, `RolledBackIsSettled` |
| `SchedulingProofs` | `TypeCorrect`, `SlotsNeverEarly`, `ActionsExclusive`, `ResultsAreFinal` | `TypeOK`, `NeverEarly`, `ActedAtMostOnce`, `ResultsFinal` |
| `WebhookMasterKeyProofs` | `TypeCorrect`, `LatestStaysReplayable`, `TransformsOnce`, `RecoveryKeyKept` | `TypeOK`, `LatestRequestReplayable`, `OneTransformPerRequest`, `RecoveryRetained` |
| | `SecretsStayReadable`, for `OneModePerKey` | `RowsReadable` |
| `WebhookDeliveryProofs` | `TypeCorrect`, `BudgetNeverExceeded`, `StopsAfterOneRequest`, `DisabledOnlyByFailures` | `TypeOK`, `AttemptBudget`, `OneRequestAfterStop`, `DisabledByFailures` |
| `SecretRotationProofs` | `TypeCorrect`, `NewestStaysInUse`, `RowsFollowVault`, `ActiveStaysReadable`, `NoDeadlock` | `TypeOK`, `NewestDecides`, `VersionsOrdered`, `ActiveReadable`, `NobodyStuck` |
| `ChangeCaptureProofs` | `TypeCorrect`, `OnlyOverlapOrStrayLoses`, `NothingOvertaken` | `TypeOK`, `GapsExplained`, `InOrderAfterCursor` |

Two hypotheses are more than facts about sets, and each has a configuration
that shows a counterexample without it:

* `~SlowSagas`: no live saga outlives the 300 s of the recovery window
  (`Saga_inflight`).
* `OneModePerKey`: no rotation makes a canonical key of a Secret that may be
  adopted as a legacy one and whose material parses as canonical
  (`WebhookKey_reuse.cfg`).

The instances of the passing runs satisfy them.  `CallAssumption` of
`WebhookMasterKey` also says that an adoption and a finalization carry no
rotation identifier: the lifecycle code writes NULL for both.

Arguments:

* **Attempt budget.**  `AttemptBudget` is not inductive: whether a retry may
  count depends on what it read.  `BudgetInv` adds `AttemptsRecorded` (the UNIQUE
  constraint then lets exactly one of the handlers that read the same count
  commit) and `SnapshotsUsable` (a retry read a count below its budget; an
  override whose count is still current works on an unresolved flag, so a second
  one must fail).  `TerminalRespected` follows from the same invariant: every
  UPDATE of the status goes through the transition table, which leaves no
  terminal status, or inserts an attempt.
* **Idempotency.**  `RecordsLeadToOperations`, `LockProtects` and `ClockSound` are
  inductive together with `TypeOK`: the clock of a transaction is never ahead, so
  the record it replaces is expired; the lock keeps it so until the commit; hence
  a commit is a `Create` of the contract, a bound lookup or conflict is a
  `Replay`, an expiry is an `Expire`, and everything else stutters.
* **Compensation.**  `ClaimInv` says that a step which is `pending` or not yet
  recorded has not been executed and is held by nobody, that a claimed row is
  held by at most one worker, and that it has not been executed before its holder
  does so; `RecordInv` says that rows above `Saga.seq` do not exist, so recording
  a step never resets a claimed one.
* **Scheduling.**  `TypeOK` and `NeverEarly` are not inductive: a trigger writes
  from rows it selected earlier, which requests may have changed since.  `DueInv`
  says that what a trigger holds (rows, the row in hand, its missed slots) was
  due by now, which also keeps `last_triggered_at` and `next_run_at` within the
  calendar.  `ExecInv` says that a runner past its claim works alone on a claimed
  execution without a result whose action it has not called before `act`, that an
  unclaimed execution has neither called its action nor a result, and that a
  runner is only invoked for an execution inserted as running.  `ResultsAreFinal`
  follows step by step from the two.

* **Transition log.**  `AuditTrail` is inductive with `TypeOK`: whoever changes a
  status writes the log in the same transaction, except the INSERT, which meets
  no log row, and the override, which resolves the flag for good.
* **One operation per window.**  `WindowInv` adds that stored operations are
  finite in number and that a call which stored one has been answered, so a
  commit never stores twice: it adds one element to the set and one to the count.
* **Rollback.**  `NewestFirst`, `CompletedKeepsEffects` and `RolledBackIsSettled`
  need to know who works on a run.  `OwnerInv` says that a run under recovery has
  ended and belongs to one replica, in whose queue it is or which replays it;
  `WorkerOf` that a worker's list has every pending record of its run, all below
  the one it has claimed; `StatusOf`, `RecordsOf` and `EffectsOf` what the status
  of a run says of its request, its records and its effects.  `LocalStep` reduces
  every step of a worker to facts about itself and its run.
* **Deliveries.**  `OwnerInv`: the unique row of a subscription and an event makes
  its first inserter the only dispatch that ever works on it.  So the requests
  sent are covered by the attempts counted by the row or its worker (`BudgetInv`),
  a worker about to send has sent nothing since the subscription was stopped
  (`StopInv`), and every failure counted is of a delivery of its own
  (`PermanentInv`, `CountInv`, with cardinalities).
* **Secret versions.**  Rows are a prefix of the numbers (`PrefixInv`), only the
  newest is active (`RowInv`), the unique index has at most one uncommitted
  active row, whose writer has moved the committed one to grace (`SlotInv`), so
  Vault's numbers and the commits come in one order (`VaultInv`), for all rows
  but those with the default version, of which nothing is claimed.  The sweep's
  stale list never contains the newest row (`SweepInv`).  Deadlock: `Rank`
  decreases along the waits-for relation, because a rotation locks an older row
  before a newer one and the slot last, so among any waiting transactions one of
  least rank waits for none of the others.
* **Key lifecycle.**  `LatestStaysReplayable` and `TransformsOnce` rest on the
  labels alone: `FenceInv` and `LabelInv` say that a writer inside its fence and
  all rows carry the id of the serving key, `LedgerInv` that entries are filed
  under their own requests.  `SecretsStayReadable` is about the keys themselves:
  until the first rotation all processes have one key, from then on there is one
  mode for every id with which the serving key, the recovery key and every
  process, however old, agree (`KeyInv`).  `RecoveryKeyKept` needs that a clock
  read before the transaction is not ahead of it (`ClockInv`).
* **Change capture.**  `Missing` are the changes beyond the confirmed position that
  are not in Kafka.  `HandlerInv`: a handler with a change to publish leaves none
  of them behind it, whether its connection and its watcher are still there or
  not, because it passed the check of `running` after its catalog lookup; a reader
  does so while its watcher runs.  `InOrderAfterCursor` is inductive with that.
  `RunningInv`: a running watcher has confirmed nothing that is missing.
  `HeldInv`: nor has a halted one, since the last change it emitted is the missing
  one or a later one, and none of these is acknowledged, so the comparison with
  the greatest acknowledged LSN fails.  It needs the LSNs of the changes to come
  in order and `_lastChangeLsn` not to be set back, which are the two exceptions of
  `GapsExplained` and hypotheses of no theorem.

Every inductive invariant was checked with TLC on the instance of its passing run
before it was proved.

Only model-checked: everything under fairness (`RunningIsSwept`,
`CancellingIsForced`, `EveryCallAnswered`, `SagaEnds`, `DueSlotRecorded`,
`DeliveriesSettle`, `CursorCatchesUp`), since liveness and `ENABLED` are outside
TLAPS' reach here.  The project declares no recursive
operator.

## 6. Abstractions and what is not modelled

* Events, audit messages, logs and metrics: published after the writes, errors
  swallowed, no table changes.
* Columns that no guard reads: error summaries, `cancelled_by`, reasons, failure
  categories, snippets, correlation ids, `params_hash` (a response header only).
* The read of the retry-semantics profile: its result is a constant of the model.
* `async-operation-intervention-notify` (a debounce column), the queries, the
  deletion of a tenant's rows, and the log rows of a saga's mirror operation.
* Cron parsing and the minimal-interval floor: an expression is a set of slots.
* Idempotent creation is checked apart from the lifecycle: `CreateOperation`
  stands for its commit.
* Webhooks: the creation of a subscription and its quota, PATCH of its URL and
  event types, the grace period of its own secrets, signatures, the address
  checks beyond their verdict, the delays of the back-off, and the deletion of
  the old credential after a finalization.
* Secret rotation: propagation to consumers with its acknowledgements and
  time-out sweep, rotation events, credentials and API keys.
* Change capture: envelopes, the size limit, audit rows, quotas, and the resume
  token, which the bridge writes and never reads.
* The PostgreSQL CDC bridge: nothing in the repository calls `processMessage`, so
  there is no loop to model.
* Adapters, contracts and consoles, the bulk of the repository's lines, are pure
  translation of requests and screens: they keep no state that steps of two
  actors could disturb.
* Components marked `not_modelled` in `PROJECT.json`, in the order of the plan.
