-------------------------- MODULE AsyncOperations --------------------------
(***************************************************************************)
(* The lifecycle of an asynchronous operation of the provisioning          *)
(* orchestrator (packages/provisioning-orchestrator/src): the handlers     *)
(* that create, transition, cancel, retry and override an operation, and   *)
(* the two periodic sweeps, all running concurrently against the same      *)
(* PostgreSQL rows.                                                        *)
(*                                                                         *)
(* One action is one database statement outside a transaction, or one      *)
(* BEGIN ... COMMIT block that locks the row it changes.  Between two      *)
(* actions of a handler any other handler may run, and the handler may     *)
(* crash: what it has read lives in `req', what it has written in the      *)
(* tables.  Events are published best-effort after the writes and change   *)
(* no table; they are left out.                                            *)
(***************************************************************************)
EXTENDS Naturals, FiniteSets

CONSTANTS
    Ops,                \* operation ids
    Handlers,           \* concurrent invocations of the OpenWhisk-style actions
    NoOp,               \* the operation of a handler that is not running
    MaxRetries,         \* async_operations.max_retries (or the default), per operation
    ProfileMaxRetries,  \* retry_semantics_profiles.max_retries used by the transition handler
    CancellingTimeout,  \* cancelling_timeout_minutes, in ticks
    OrphanThreshold,    \* orphan_threshold_minutes, in ticks
    Timeout,            \* timeout_minutes, in ticks
    MaxCrashes          \* bound: crashes of handlers and sweeps in a behaviour

ASSUME MaxRetriesAssumption == MaxRetries \in [Ops -> Nat \ {0}]
ASSUME NoOpAssumption == NoOp \notin Ops
ASSUME ProfileAssumption == ProfileMaxRetries \in Nat \ {0}
ASSUME ThresholdAssumption ==
    /\ CancellingTimeout \in Nat
    /\ OrphanThreshold \in Nat
    /\ Timeout \in Nat
    /\ MaxCrashes \in Nat

VARIABLES
    \* async_operations
    status,       \* status column; "absent" before the row is inserted
    attempts,     \* attempt_count
    manual,       \* manual_intervention_required
    age,          \* ticks since updated_at, saturating at MaxAge
    \* async_operation_transitions: new_status of the newest row; "absent": none
    logged,
    \* retry_attempts: the attempt_number values, UNIQUE per operation
    attemptRows,
    \* manual_intervention_flags: the status of the row, UNIQUE per operation
    flag,
    \* retry_overrides: is there a row with status 'pending'
    overridePending,
    \* memory of the running handlers and sweeps
    req,
    timeoutSweep, \* candidates of the timeout sweep still to process
    orphanSweep,  \* program counter and candidates of the orphan sweep
    crashes       \* crashes so far

rowVars   == <<status, attempts, manual, age, logged>>
retryVars == <<attemptRows, flag, overridePending>>
sweepVars == <<timeoutSweep, orphanSweep>>
vars == <<rowVars, retryVars, req, sweepVars, crashes>>

-----------------------------------------------------------------------------
(* Status machine of models/async-operation-states.mjs. *)

Statuses == {"pending", "running", "completed", "failed",
             "timed_out", "cancelling", "cancelled"}

VALID_TRANSITIONS ==
    {<<"pending", "running">>, <<"pending", "cancelled">>,
     <<"running", "completed">>, <<"running", "failed">>,
     <<"running", "timed_out">>, <<"running", "cancelling">>,
     <<"cancelling", "cancelled">>, <<"cancelling", "failed">>}

validateTransition(current, next) == <<current, next>> \in VALID_TRANSITIONS

TERMINAL_STATES == {"completed", "failed", "timed_out", "cancelled"}

isCancellable(s) == s \in {"pending", "running"}

\* The largest age the sweeps tell apart from an older one.
MaxAge == IF Timeout >= OrphanThreshold /\ Timeout >= CancellingTimeout THEN Timeout
          ELSE IF OrphanThreshold >= CancellingTimeout THEN OrphanThreshold
          ELSE CancellingTimeout

-----------------------------------------------------------------------------
(* Memory of a handler: the step it is at, and what it has read. *)

PCs == {"idle",
        "classify", "mark", "flag",                        \* transition, after 'failed'
        "cancelTx",                                        \* cancel
        "retryTx",                                         \* retry
        "ovFlag", "ovSelect", "ovExists", "ovInsert", "ovTx"}  \* retry override

OverridePCs == {"ovFlag", "ovSelect", "ovExists", "ovInsert", "ovTx"}

Request == [pc : PCs,
            op : Ops \cup {NoOp},
            target : Statuses \cup {"absent"},  \* targetStatus of a cancellation
            attempts : Nat,                     \* operation.attempt_count as read
            mustIntervene : BOOLEAN]

Idle == [pc |-> "idle", op |-> NoOp, target |-> "absent",
         attempts |-> 0, mustIntervene |-> FALSE]

\* A handler that has read attempt_count of o and goes on at step pc.
ReadRow(pc, o) == [Idle EXCEPT !.pc = pc, !.op = o, !.attempts = attempts[o]]

GoTo(h, pc) == req' = [req EXCEPT ![h].pc = pc]
Return(h) == req' = [req EXCEPT ![h] = Idle]

\* What an UPDATE of the row leaves in updated_at.
Touch(o) == age' = [age EXCEPT ![o] = 0]

\* Mutant: the transition row is forgotten.
SetStatusUnlogged(o, new) ==
    /\ status' = [status EXCEPT ![o] = new]
    /\ UNCHANGED logged
    /\ Touch(o)

\* UPDATE of the status together with its async_operation_transitions row.
SetStatus(o, new) ==
    /\ status' = [status EXCEPT ![o] = new]
    /\ logged' = [logged EXCEPT ![o] = new]
    /\ Touch(o)

-----------------------------------------------------------------------------
(* create: INSERT of the row (without an idempotency key; with one, see    *)
(* IdempotentCreate); no async_operation_transitions row yet.              *)

CreateOperation(o) ==
    /\ status[o] = "absent"
    /\ status' = [status EXCEPT ![o] = "pending"]
    /\ Touch(o)
    /\ UNCHANGED <<attempts, manual, logged, retryVars, req, sweepVars, crashes>>

(* transition: the locked UPDATE and the log row commit together; a        *)
(* failure goes on to classification and the intervention check.           *)

transitionOperation(h, o, new) ==
    /\ req[h].pc = "idle"
    /\ status[o] \in Statuses
    /\ validateTransition(status[o], new)
    /\ SetStatus(o, new)
    /\ \E requiresIntervention \in BOOLEAN :
         IF new = "failed"
         THEN req' = [req EXCEPT ![h] =
                [Idle EXCEPT !.pc = "classify", !.op = o,
                   !.mustIntervene = \/ attempts[o] >= ProfileMaxRetries
                                     \/ requiresIntervention]]
         ELSE UNCHANGED req
    /\ UNCHANGED <<attempts, manual, retryVars, sweepVars, crashes>>

\* updateFailureClassification: no condition on the status, bumps updated_at.
classifyFailure(h) ==
    /\ req[h].pc = "classify"
    /\ Touch(req[h].op)
    /\ IF req[h].mustIntervene THEN GoTo(h, "mark") ELSE Return(h)
    /\ UNCHANGED <<status, attempts, manual, logged, retryVars, sweepVars, crashes>>

\* setManualInterventionRequired: no condition on the status either.
setManualInterventionRequired(h) ==
    /\ req[h].pc = "mark"
    /\ manual' = [manual EXCEPT ![req[h].op] = TRUE]
    /\ Touch(req[h].op)
    /\ GoTo(h, "flag")
    /\ UNCHANGED <<status, attempts, logged, retryVars, sweepVars, crashes>>

\* INSERT of the flag; a row that is already there (whatever its status)
\* makes it a UNIQUE_VIOLATION, which the handler swallows.
createManualInterventionFlag(h) ==
    /\ req[h].pc = "flag"
    /\ LET o == req[h].op
       IN flag' = [flag EXCEPT ![o] = IF flag[o] = "none" THEN "pending" ELSE flag[o]]
    /\ Return(h)
    /\ UNCHANGED <<rowVars, attemptRows, overridePending, sweepVars, crashes>>

-----------------------------------------------------------------------------
(* cancel: a read, then a transition to the target chosen from that read. *)

\* Mutant: the target is misspelt.
cancelTargetMisspelt(read) == IF read = "pending" THEN "canceled" ELSE "cancelling"

cancelTarget(read) == IF read = "pending" THEN "cancelled" ELSE "cancelling"

cancelRead(h, o) ==
    /\ req[h].pc = "idle"
    /\ status[o] \in Statuses
    /\ isCancellable(status[o])
    /\ req' = [req EXCEPT ![h] = [Idle EXCEPT !.pc = "cancelTx", !.op = o,
                                    !.target = cancelTarget(status[o])]]
    /\ UNCHANGED <<rowVars, retryVars, sweepVars, crashes>>

cancelTx(h) ==
    /\ req[h].pc = "cancelTx"
    /\ LET o == req[h].op
           new == req[h].target
       IN IF validateTransition(status[o], new)
          THEN SetStatus(o, new)
          ELSE UNCHANGED <<status, logged, age>>
    /\ Return(h)
    /\ UNCHANGED <<attempts, manual, retryVars, sweepVars, crashes>>

-----------------------------------------------------------------------------
(* retry: the checks are made on a row read before the transaction. *)

\* Mutant: off by one in the attempt budget.
retryReadOffByOne(h, o) ==
    /\ req[h].pc = "idle"
    /\ ~manual[o]
    /\ status[o] = "failed"
    /\ attempts[o] <= MaxRetries[o]
    /\ req' = [req EXCEPT ![h] = ReadRow("retryTx", o)]
    /\ UNCHANGED <<rowVars, retryVars, sweepVars, crashes>>

retryRead(h, o) ==
    /\ req[h].pc = "idle"
    /\ ~manual[o]
    /\ status[o] = "failed"
    /\ attempts[o] < MaxRetries[o]
    /\ req' = [req EXCEPT ![h] = ReadRow("retryTx", o)]
    /\ UNCHANGED <<rowVars, retryVars, sweepVars, crashes>>

\* Mutant: no uniqueness constraint on the attempt number.
attemptIsNewUnconstrained(o, n) == TRUE

\* INSERT INTO retry_attempts: refused by uq_retry_attempt_number.
attemptIsNew(o, n) == n \notin attemptRows[o]

retryTx(h) ==
    /\ req[h].pc = "retryTx"
    /\ LET o == req[h].op
           n == req[h].attempts + 1
       IN IF attemptIsNew(o, n) /\ status[o] = "failed"
          THEN /\ attemptRows' = [attemptRows EXCEPT ![o] = @ \cup {n}]
               /\ attempts' = [attempts EXCEPT ![o] = @ + 1]
               /\ SetStatus(o, "pending")
          ELSE UNCHANGED <<attemptRows, attempts, status, logged, age>>
    /\ Return(h)
    /\ UNCHANGED <<manual, flag, overridePending, sweepVars, crashes>>

-----------------------------------------------------------------------------
(* retry override (superadmin): two reads, an INSERT ... WHERE NOT EXISTS  *)
(* that is no constraint (the test and the insertion are separate steps),  *)
(* and a transaction whose UPDATE has no condition on the status and       *)
(* writes no transition row.  No code ever completes the override row.     *)

overrideReadOperation(h, o) ==
    /\ req[h].pc = "idle"
    /\ manual[o]
    /\ req' = [req EXCEPT ![h] = ReadRow("ovFlag", o)]
    /\ UNCHANGED <<rowVars, retryVars, sweepVars, crashes>>

overrideReadFlag(h) ==
    /\ req[h].pc = "ovFlag"
    /\ IF flag[req[h].op] = "pending" THEN GoTo(h, "ovSelect") ELSE Return(h)
    /\ UNCHANGED <<rowVars, retryVars, sweepVars, crashes>>

overrideFindPending(h) ==
    /\ \/ req[h].pc = "ovSelect" /\ ~overridePending[req[h].op] /\ GoTo(h, "ovExists")
       \/ req[h].pc = "ovExists" /\ ~overridePending[req[h].op] /\ GoTo(h, "ovInsert")
       \/ req[h].pc \in {"ovSelect", "ovExists"} /\ overridePending[req[h].op] /\ Return(h)
    /\ UNCHANGED <<rowVars, retryVars, sweepVars, crashes>>

overrideInsert(h) ==
    /\ req[h].pc = "ovInsert"
    /\ overridePending' = [overridePending EXCEPT ![req[h].op] = TRUE]
    /\ GoTo(h, "ovTx")
    /\ UNCHANGED <<rowVars, attemptRows, flag, sweepVars, crashes>>

overrideTx(h) ==
    /\ req[h].pc = "ovTx"
    /\ LET o == req[h].op
           n == req[h].attempts + 1
       IN IF attemptIsNew(o, n)
          THEN /\ attemptRows' = [attemptRows EXCEPT ![o] = @ \cup {n}]
               /\ attempts' = [attempts EXCEPT ![o] = @ + 1]
               /\ status' = [status EXCEPT ![o] = "pending"]
               /\ manual' = [manual EXCEPT ![o] = FALSE]
               /\ flag' = [flag EXCEPT ![o] = "resolved"]
               /\ Touch(o)
          ELSE UNCHANGED <<attemptRows, attempts, status, manual, flag, age>>
    /\ Return(h)
    /\ UNCHANGED <<logged, overridePending, sweepVars, crashes>>

-----------------------------------------------------------------------------
(* Sweeps: one SELECT of the candidates, then one locked transaction per   *)
(* candidate that checks the status again but not updated_at.  A candidate *)
(* whose transition is refused is reported as an error and skipped.        *)

\* Mutant: the status is not checked again under the lock.
systemTransitionUnchecked(o, new) == SetStatus(o, new)

systemTransition(o, new) ==
    IF validateTransition(status[o], new)
    THEN SetStatus(o, new)
    ELSE UNCHANGED <<status, logged, age>>

\* Mutant: the age comparison is reversed.
StaleReversed(s, threshold) == {o \in Ops : status[o] = s /\ age[o] < threshold}

Stale(s, threshold) == {o \in Ops : status[o] = s /\ age[o] >= threshold}

findTimedOutCandidates ==
    /\ timeoutSweep = {}
    /\ Stale("running", Timeout) # {}
    /\ timeoutSweep' = Stale("running", Timeout)
    /\ UNCHANGED <<rowVars, retryVars, req, orphanSweep, crashes>>

sweepTimedOut(o) ==
    /\ o \in timeoutSweep
    /\ systemTransition(o, "timed_out")
    /\ timeoutSweep' = timeoutSweep \ {o}
    /\ UNCHANGED <<attempts, manual, retryVars, req, orphanSweep, crashes>>

NoOrphanSweep == [pc |-> "idle", orphans |-> {}, cancelling |-> {}]

findOrphanCandidates ==
    /\ orphanSweep.pc = "idle"
    /\ orphanSweep' = [pc |-> "findCancelling",
                       orphans |-> Stale("running", OrphanThreshold)
                                     \cup Stale("pending", OrphanThreshold),
                       cancelling |-> {}]
    /\ UNCHANGED <<rowVars, retryVars, req, timeoutSweep, crashes>>

\* Mutant: the wrong status is selected.
findStaleCancelledCandidates ==
    /\ orphanSweep.pc = "findCancelling"
    /\ orphanSweep' = [orphanSweep EXCEPT !.pc = "loop",
                          !.cancelling = Stale("cancelled", CancellingTimeout)]
    /\ UNCHANGED <<rowVars, retryVars, req, timeoutSweep, crashes>>

findStaleCancellingCandidates ==
    /\ orphanSweep.pc = "findCancelling"
    /\ orphanSweep' = [orphanSweep EXCEPT !.pc = "loop",
                          !.cancelling = Stale("cancelling", CancellingTimeout)]
    /\ UNCHANGED <<rowVars, retryVars, req, timeoutSweep, crashes>>

sweepOrphan(o) ==
    /\ orphanSweep.pc = "loop"
    /\ o \in orphanSweep.orphans
    /\ systemTransition(o, "failed")
    /\ orphanSweep' = [orphanSweep EXCEPT !.orphans = @ \ {o}]
    /\ UNCHANGED <<attempts, manual, retryVars, req, timeoutSweep, crashes>>

sweepCancelling(o) ==
    /\ orphanSweep.pc = "loop"
    /\ orphanSweep.orphans = {}
    /\ o \in orphanSweep.cancelling
    /\ systemTransition(o, "cancelled")
    /\ orphanSweep' = [orphanSweep EXCEPT !.cancelling = @ \ {o}]
    /\ UNCHANGED <<attempts, manual, retryVars, req, timeoutSweep, crashes>>

endOrphanSweep ==
    /\ orphanSweep.pc = "loop"
    /\ orphanSweep.orphans = {} /\ orphanSweep.cancelling = {}
    /\ orphanSweep' = NoOrphanSweep
    /\ UNCHANGED <<rowVars, retryVars, req, timeoutSweep, crashes>>

-----------------------------------------------------------------------------
(* Environment: time passes, processes crash. *)

Tick(o) ==
    /\ status[o] \in Statuses
    /\ age[o] < MaxAge
    /\ age' = [age EXCEPT ![o] = @ + 1]
    /\ UNCHANGED <<status, attempts, manual, logged, retryVars, req, sweepVars, crashes>>

CrashHandler(h) ==
    /\ crashes < MaxCrashes
    /\ req[h].pc # "idle"
    /\ crashes' = crashes + 1
    /\ Return(h)
    /\ UNCHANGED <<rowVars, retryVars, sweepVars>>

CrashSweeps ==
    /\ crashes < MaxCrashes
    /\ timeoutSweep # {} \/ orphanSweep.pc # "idle"
    /\ crashes' = crashes + 1
    /\ timeoutSweep' = {}
    /\ orphanSweep' = NoOrphanSweep
    /\ UNCHANGED <<rowVars, retryVars, req>>

-----------------------------------------------------------------------------
Init ==
    /\ status = [o \in Ops |-> "absent"]
    /\ attempts = [o \in Ops |-> 0]
    /\ manual = [o \in Ops |-> FALSE]
    /\ age = [o \in Ops |-> 0]
    /\ logged = [o \in Ops |-> "absent"]
    /\ attemptRows = [o \in Ops |-> {}]
    /\ flag = [o \in Ops |-> "none"]
    /\ overridePending = [o \in Ops |-> FALSE]
    /\ req = [h \in Handlers |-> Idle]
    /\ timeoutSweep = {}
    /\ orphanSweep = NoOrphanSweep
    /\ crashes = 0

StartStep(h, o) ==
    \/ \E new \in Statuses : transitionOperation(h, o, new)
    \/ cancelRead(h, o)
    \/ retryRead(h, o)
    \/ overrideReadOperation(h, o)

ContinueStep(h) ==
    \/ classifyFailure(h)
    \/ setManualInterventionRequired(h)
    \/ createManualInterventionFlag(h)
    \/ cancelTx(h)
    \/ retryTx(h)
    \/ overrideReadFlag(h)
    \/ overrideFindPending(h)
    \/ overrideInsert(h)
    \/ overrideTx(h)

TimeoutSweepStep == findTimedOutCandidates \/ \E o \in Ops : sweepTimedOut(o)

OrphanSweepStep ==
    \/ findOrphanCandidates
    \/ findStaleCancellingCandidates
    \/ \E o \in Ops : sweepOrphan(o) \/ sweepCancelling(o)
    \/ endOrphanSweep

Next ==
    \/ \E o \in Ops : CreateOperation(o) \/ Tick(o)
    \/ \E h \in Handlers, o \in Ops : StartStep(h, o)
    \/ \E h \in Handlers : ContinueStep(h) \/ CrashHandler(h)
    \/ TimeoutSweepStep
    \/ OrphanSweepStep
    \/ CrashSweeps

Spec == Init /\ [][Next]_vars

\* Time passes and the platform schedules the sweeps again and again; nobody
\* promises that a worker, a user or a superadmin ever acts.
FairSpec ==
    /\ Spec
    /\ \A o \in Ops : WF_vars(Tick(o))
    /\ WF_vars(TimeoutSweepStep)
    /\ WF_vars(OrphanSweepStep)

-----------------------------------------------------------------------------
(* Properties. *)

\* A handler that is running works on an operation that exists.
RequestsOK ==
    /\ req \in [Handlers -> Request]
    /\ \A h \in Handlers : req[h].pc # "idle" => req[h].op \in Ops

\* Every column and every handler's memory has its type.
TypeOK ==
    /\ status \in [Ops -> Statuses \cup {"absent"}]
    /\ attempts \in [Ops -> Nat]
    /\ manual \in [Ops -> BOOLEAN]
    /\ age \in [Ops -> 0..MaxAge]
    /\ logged \in [Ops -> Statuses \cup {"absent"}]
    /\ attemptRows \in [Ops -> SUBSET Nat]
    /\ flag \in [Ops -> {"none", "pending", "resolved"}]
    /\ overridePending \in [Ops -> BOOLEAN]
    /\ RequestsOK
    /\ timeoutSweep \subseteq Ops
    /\ orphanSweep \in [pc : {"idle", "findCancelling", "loop"},
                        orphans : SUBSET Ops, cancelling : SUBSET Ops]
    /\ crashes \in 0..MaxCrashes

\* retry_attempts holds exactly the numbers 1 .. attempt_count: concurrent
\* retries and overrides that read the same attempt_count never count twice,
\* and never leave a gap (async-operation-retry.mjs:42-50).
AttemptsRecorded == \A o \in Ops : attemptRows[o] = 1..attempts[o]

\* However retries, overrides, sweeps and crashes interleave, an operation is
\* restarted at most max_retries times by users and at most once by a
\* superadmin, who then has resolved its flag.
AttemptBudget ==
    \A o \in Ops : attempts[o] <= MaxRetries[o] + (IF flag[o] = "resolved" THEN 1 ELSE 0)

\* What a handler has read is never ahead of the table, a retry in flight was
\* within its budget when it read, and an override in flight whose count is
\* still current works on a flag that is still unresolved: so of two overrides
\* in flight at most one can commit (async-operation-retry-override.mjs:32-55).
SnapshotsUsable ==
    \A h \in Handlers :
        LET r == req[h]
        IN /\ r.pc \in OverridePCs \cup {"retryTx"} => r.attempts <= attempts[r.op]
           /\ r.pc = "retryTx" => r.attempts < MaxRetries[r.op]
           /\ r.pc \in OverridePCs \ {"ovFlag"} /\ r.attempts = attempts[r.op]
                => flag[r.op] = "pending"

\* The newest row of async_operation_transitions agrees with the status, except
\* that an operation nobody has started has none, and that an override restarts
\* the operation without a row of its own.
AuditTrail ==
    \A o \in Ops :
        \/ logged[o] = status[o]
        \/ status[o] = "pending" /\ (logged[o] = "absent" \/ flag[o] = "resolved")

\* A terminal status is only ever left by a counted restart to 'pending': no
\* late cancel, late sweep or late failure handler reopens or rewrites it.
TerminalOnlyRestarted ==
    [][\A o \in Ops :
         status[o] \in TERMINAL_STATES /\ status'[o] # status[o]
           => /\ status'[o] = "pending"
              /\ attempts'[o] = attempts[o] + 1
              /\ attempts'[o] \in attemptRows'[o] \ attemptRows[o]]_vars

\* A worker that dies leaves no operation running for ever: the sweeps end it.
RunningIsSwept == \A o \in Ops : status[o] = "running" ~> status[o] # "running"

\* A cancellation that nobody confirms is forced.
CancellingIsForced == \A o \in Ops : status[o] = "cancelling" ~> status[o] # "cancelling"

\* tests/unit/async-operation-orphan-sweep.test.mjs:5 "orphan sweep recovers
\* running/pending": an operation that is never started is eventually failed.
PendingIsRecovered == \A o \in Ops : status[o] = "pending" ~> status[o] # "pending"

\* async-operation-retry.mjs:38 refuses to retry a flagged operation with the
\* hint "Contact your administrator or request a retry override.": when no
\* handler is working on a flagged failed operation, an override is accepted.
OverrideAvailable ==
    \A o \in Ops :
        /\ status[o] = "failed" /\ manual[o]
        /\ \A h \in Handlers : req[h].op # o
        => flag[o] = "pending" /\ ~overridePending[o]

=============================================================================
