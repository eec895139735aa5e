-------------------------- MODULE WebhookMasterKey --------------------------
(***************************************************************************)
(* Lifecycle of the platform key that seals webhook signing secrets:       *)
(* packages/webhook-engine/src/webhook-master-key*.mjs, the fences of      *)
(* migrations/004, the writers of apps/control-plane/webhook-db.mjs and    *)
(* the maintenance job webhook-key-lifecycle-cli.mjs.                      *)
(*                                                                         *)
(* A key is [id, mode, material]: the id is derived from the name of a     *)
(* Secret, never from its content, so a process may hold the right id with *)
(* the wrong material.  A sealed row is the key it was encrypted with and  *)
(* carries the label encryption_key_id as its id; the verification record  *)
(* of a key identifies mode and material.  Every lifecycle transaction     *)
(* holds the exclusive advisory lock from its first read to its COMMIT, so *)
(* it is one step that waits for the writers, who hold the lock shared     *)
(* from WriteFence to WriteCommit.  A COMMIT may be acknowledged, applied  *)
(* without acknowledgement, or lost.  Left out: the custody flags          *)
(* of keys, audit events, counts, and the deletion of the Secret.           *)
(***************************************************************************)
EXTENDS Naturals

CONSTANTS
    KeyIds, Materials,
    Canonical,      \* the materials that parse as canonical-v1
    MaterialOf,     \* the material of the Secret an operator's call names
    Secrets,        \* rows of webhook_signing_secrets
    Replicas, Jobs,
    Requests, Rotations,
    Calls,          \* what operators ask for
    Asks,           \* the calls each job may be started with
    NoKey, NoMode, NoRequest, NoRotation, NoSecret, NoCall,
    MaxNow          \* bound of the clock

Modes == {"canonical-v1", "legacy"}
Keys == [id : KeyIds, mode : Modes, material : Materials]
Unlabelled == [id : {NoKey}, mode : {"legacy"}, material : Materials]

CallType == [action : {"adopt", "rotate", "recover", "finalize"},
             request : Requests, rotation : Rotations \cup {NoRotation},
             source : KeyIds \cup {NoKey}, target : KeyIds, window : Nat]

ASSUME KeyAssumption ==
    /\ NoKey \notin KeyIds \cup Keys \cup Unlabelled
    /\ Canonical \subseteq Materials
    /\ MaterialOf \in [KeyIds -> Materials]

ASSUME NullAssumption ==
    /\ NoMode \notin Modes
    /\ NoRequest \notin Requests
    /\ NoRotation \notin Rotations
    /\ NoSecret \notin Secrets
    /\ NoCall \notin Calls
    /\ MaxNow \in Nat

\* What the CLI and the input checks of the repository let through.
ASSUME CallAssumption ==
    /\ Calls \subseteq CallType
    /\ \A c \in Calls :
        /\ c.action = "adopt" <=> c.source = NoKey
        /\ c.source # c.target
        /\ c.action = "rotate" => c.rotation # NoRotation
        /\ c.action \in {"adopt", "finalize"} => c.rotation = NoRotation
    /\ Asks \in [Jobs -> SUBSET Calls]

VARIABLES
    state,      \* webhook_master_key_state, life = "none" without the row
    ledger,     \* webhook_master_key_rotations, by request_id
    rows,       \* webhook_signing_secrets: the key a row is sealed with, or NoKey
    scaled,     \* spec.replicas of the control plane is not zero
    replica,    \* processes of the control plane
    job,        \* runs of the lifecycle CLI
    now

dbVars == <<state, ledger, rows>>
vars == <<state, ledger, rows, scaled, replica, job, now>>

NoState == [life |-> "none", current |-> NoKey, recovery |-> NoKey,
            deadline |-> 0, request |-> NoRequest, rotation |-> NoRotation]
NoEntry == [status |-> "none", call |-> NoCall, sourceMode |-> NoMode, targetMode |-> NoMode]
Down == [key |-> NoKey, phase |-> "down", row |-> NoSecret]
Idle == [pc |-> "idle", call |-> NoCall, currentMode |-> NoMode, recoveryMode |-> NoMode,
         clock |-> 0, restore |-> FALSE, ambiguous |-> FALSE]

PCs == {"idle", "quiesce", "scale", "drain", "call", "tx", "mark", "fail", "apply", "halted"}

Live == {s \in Secrets : rows[s] # NoKey}

-----------------------------------------------------------------------------
\* The advisory lock of webhook-master-key-fence.mjs: writers between the fence
\* and COMMIT share it, a lifecycle transaction excludes them.
Holds(r) == replica[r].phase \in {"fenced", "inserted"}

\* Mutant: the lifecycle lock does not conflict with the writers' lock.
LockIgnoresWriters == TRUE

LockFree == \A r \in Replicas : ~ Holds(r)

\* createCanonicalWebhookKeyContext and createLifecycleWebhookKeyContext
Parses(material, mode) ==
    \/ mode = "legacy"
    \/ mode = "canonical-v1" /\ material \in Canonical

KeyOf(id, mode) == [id |-> id, mode |-> mode, material |-> MaterialOf[id]]

-----------------------------------------------------------------------------
(* The control plane: boot and writes of signing secrets.                  *)

\* initializeOrVerify up to the verification: the first boot on an empty
\* database establishes its own canonical key.
Established(k) ==
    IF state.life = "none" /\ k.mode = "canonical-v1" /\ Live = {} /\ Parses(k.material, k.mode)
    THEN [NoState EXCEPT !.life = "serving", !.current = k]
    ELSE state

\* assertServingState, createRuntimeWebhookKeyContext, assertStateIdentity and
\* assertRowsUseKey.
Verified(k, st) ==
    /\ st.life = "serving"
    /\ st.recovery # NoKey => now < st.deadline
    /\ st.current = k
    /\ \A s \in Live : rows[s].id = k.id

\* A replica starts with the key its Deployment configures.  Without the
\* acknowledgement of COMMIT it does not serve, but the row may be there.
Boot(r, k, acknowledged) ==
    /\ scaled /\ replica[r] = Down /\ LockFree
    /\ Verified(k, Established(k))
    /\ state' = Established(k)
    /\ replica' = IF acknowledged
                  THEN [replica EXCEPT ![r] = [Down EXCEPT !.key = k, !.phase = "serving"]]
                  ELSE replica
    /\ UNCHANGED <<ledger, rows, scaled, job, now>>

\* falcone_webhook_key_write_current_id() = the key id of the process
WriteAuthorized(r) ==
    state.life = "serving" /\ state.current.id = replica[r].key.id

\* withSigningSecretWrite: BEGIN and acquireWebhookKeyWriteFence.  The secret
\* was encrypted before, with the key the process verified at boot.
WriteFence(r) ==
    /\ replica[r].phase = "serving" /\ WriteAuthorized(r)
    /\ replica' = [replica EXCEPT ![r].phase = "fenced"]
    /\ UNCHANGED <<state, ledger, rows, scaled, job, now>>

\* The INSERT under the row trigger, for a new subscription or a rotation of
\* its secret; not visible to others before COMMIT.
WriteInsert(r, s) ==
    /\ replica[r].phase = "fenced" /\ WriteAuthorized(r)
    /\ rows[s] = NoKey
    /\ \A q \in Replicas : replica[q].row # s
    /\ replica' = [replica EXCEPT ![r].phase = "inserted", ![r].row = s]
    /\ UNCHANGED <<state, ledger, rows, scaled, job, now>>

WriteCommit(r) ==
    /\ replica[r].phase = "inserted"
    /\ rows' = [rows EXCEPT ![replica[r].row] = replica[r].key]
    /\ replica' = [replica EXCEPT ![r].phase = "serving", ![r].row = NoSecret]
    /\ UNCHANGED <<state, ledger, scaled, job, now>>

\* ROLLBACK of a write
WriteAbort(r) ==
    /\ Holds(r)
    /\ replica' = [replica EXCEPT ![r].phase = "serving", ![r].row = NoSecret]
    /\ UNCHANGED <<state, ledger, rows, scaled, job, now>>

\* A replica terminates, at any time after it is told to or by crashing.
Stop(r) ==
    /\ replica[r] # Down
    /\ replica' = [replica EXCEPT ![r] = Down]
    /\ UNCHANGED <<state, ledger, rows, scaled, job, now>>

-----------------------------------------------------------------------------
(* Replay of a request the ledger already knows.                           *)

Entry(j) == ledger[job[j].call.request]

\* source_mode and target_mode as the repository resolves them: those of the
\* ledger for a known request, else those the CLI read before.
SourceMode(j) ==
    IF job[j].call.action \in {"adopt", "finalize"} THEN NoMode
    ELSE IF Entry(j).sourceMode # NoMode THEN Entry(j).sourceMode
    ELSE job[j].currentMode

TargetMode(j) ==
    CASE job[j].call.action = "adopt" -> "legacy"
      [] job[j].call.action = "rotate" -> "canonical-v1"
      [] job[j].call.action = "recover" ->
            IF Entry(j).targetMode # NoMode THEN Entry(j).targetMode ELSE job[j].recoveryMode
      [] OTHER -> job[j].currentMode     \* finalize

Source(j) == KeyOf(job[j].call.source, SourceMode(j))
Target(j) == KeyOf(job[j].call.target, TargetMode(j))

Swaps(c) == c.action \in {"rotate", "recover"}

\* The contexts of the call can be created from the material it names.
ContextsParse(j) ==
    /\ Parses(Target(j).material, Target(j).mode)
    /\ Swaps(job[j].call) => Parses(Source(j).material, Source(j).mode)

\* assertLedgerBinding
Bound(j) ==
    \/ Entry(j).status = "none"
    \/ /\ Entry(j).call = job[j].call
       /\ Entry(j).sourceMode = SourceMode(j)
       /\ Entry(j).targetMode = TargetMode(j)

\* assertDurableReplayState without key material
DurableReplay(e) ==
    /\ state.life = IF e.status = "recovery_required" THEN "recovery_required" ELSE "serving"
    /\ state.request = e.call.request
    /\ state.rotation = e.call.rotation
    /\ state.current.id = e.call.target /\ state.current.mode = e.targetMode
    /\ IF Swaps(e.call)
       THEN /\ state.recovery # NoKey
            /\ state.recovery.id = e.call.source /\ state.recovery.mode = e.sourceMode
       ELSE state.recovery = NoKey
    /\ \A s \in Live : rows[s].id = e.call.target

\* assertDurableReplayState with the contexts of the call
Replays(j) ==
    /\ DurableReplay(Entry(j))
    /\ state.current = Target(j)
    /\ Swaps(job[j].call) => state.recovery = Source(j)

\* authorizeQuiescedReplay
AuthorizedReplay(c) ==
    /\ ledger[c.request].status \in {"completed", "recovery_required"}
    /\ ledger[c.request].call = c
    /\ DurableReplay(ledger[c.request])

-----------------------------------------------------------------------------
(* The lifecycle transactions: when each reaches COMMIT and what it writes. *)

Fresh(j) == ContextsParse(j) /\ Bound(j) /\ Entry(j).status \in {"none", "failed"}

\* uq_webhook_master_key_rotation_id
RotationFree(j) ==
    \/ job[j].call.rotation = NoRotation
    \/ \A q \in Requests \ {job[j].call.request} :
            ledger[q].status # "none" => ledger[q].call.rotation # job[j].call.rotation

CanReplay(j) ==
    ContextsParse(j) /\ Bound(j) /\ Entry(j).status = "completed" /\ Replays(j)

\* resumeAmbiguousCommit
CanResume(j) ==
    /\ Swaps(job[j].call) /\ ContextsParse(j) /\ Bound(j)
    /\ Entry(j).status = "recovery_required" /\ Replays(j)

CanAdopt(j) ==
    /\ job[j].call.action = "adopt" /\ Fresh(j)
    /\ state.life = "none"
    /\ \A s \in Live : rows[s] = [Target(j) EXCEPT !.id = NoKey]

CanRotate(j) ==
    /\ job[j].call.action = "rotate" /\ Fresh(j) /\ RotationFree(j)
    /\ state.life = "serving" /\ state.recovery = NoKey
    /\ state.current = Source(j)
    /\ \A s \in Live : rows[s] = Source(j)

CanRecover(j) ==
    /\ job[j].call.action = "recover" /\ Fresh(j) /\ RotationFree(j)
    /\ state.life # "none"
    /\ state.current = Source(j) /\ state.recovery = Target(j)
    /\ job[j].clock < state.deadline
    /\ \A s \in Live : rows[s] = Source(j)

\* Mutant: finalization does not look at the deadline.
CanFinalizeEarly(j) ==
    /\ job[j].call.action = "finalize" /\ Fresh(j)
    /\ state.life = "serving" /\ state.current = Target(j)
    /\ state.recovery # NoKey /\ state.recovery.id = job[j].call.source
    /\ \A s \in Live : rows[s].id = Target(j).id

CanFinalize(j) ==
    /\ job[j].call.action = "finalize" /\ Fresh(j)
    /\ state.life = "serving" /\ state.current = Target(j)
    /\ state.recovery # NoKey /\ state.recovery.id = job[j].call.source
    /\ state.deadline <= job[j].clock
    /\ \A s \in Live : rows[s].id = Target(j).id

CanCommit(j) ==
    \/ CanReplay(j) \/ CanResume(j) \/ CanAdopt(j)
    \/ CanRotate(j) \/ CanRecover(j) \/ CanFinalize(j)

\* Mutant: ON CONFLICT DO NOTHING, a retry after a failure is not recorded.
CompletedOnce(j) ==
    IF Entry(j).status # "none" THEN ledger
    ELSE [ledger EXCEPT ![job[j].call.request] =
            [status |-> "completed", call |-> job[j].call,
             sourceMode |-> SourceMode(j), targetMode |-> TargetMode(j)]]

\* insertCompletedLedger
Completed(j) ==
    [ledger EXCEPT ![job[j].call.request] =
        [status |-> "completed", call |-> job[j].call,
         sourceMode |-> SourceMode(j), targetMode |-> TargetMode(j)]]

Resealed(k) == [s \in Secrets |-> IF rows[s] = NoKey THEN NoKey ELSE k]

\* Where the CLI goes after COMMIT: an unknown outcome of a rotation or a
\* recovery is marked, of an adoption or a finalization it is a failure.
AfterCommit(j, acknowledged) ==
    job' = [job EXCEPT ![j].pc =
        IF acknowledged THEN "apply"
        ELSE IF Swaps(job[j].call) THEN "mark" ELSE "fail"]

Transacts(j) == job[j].pc = "tx" /\ LockFree

Replay(j, acknowledged) ==
    /\ Transacts(j) /\ CanReplay(j)
    /\ AfterCommit(j, acknowledged)
    /\ UNCHANGED <<state, ledger, rows, scaled, replica, now>>

Resume(j, acknowledged) ==
    /\ Transacts(j) /\ CanResume(j)
    /\ state' = [state EXCEPT !.life = "serving"]
    /\ ledger' = [ledger EXCEPT ![job[j].call.request].status = "completed"]
    /\ AfterCommit(j, acknowledged)
    /\ UNCHANGED <<rows, scaled, replica, now>>

Adopt(j, acknowledged) ==
    /\ Transacts(j) /\ CanAdopt(j)
    /\ state' = [NoState EXCEPT !.life = "serving", !.current = Target(j),
                                !.request = job[j].call.request]
    /\ rows' = Resealed(Target(j))
    /\ ledger' = Completed(j)
    /\ AfterCommit(j, acknowledged)
    /\ UNCHANGED <<scaled, replica, now>>

\* The deadline starts at the transaction, not at the call.
Rotate(j, acknowledged) ==
    /\ Transacts(j) /\ CanRotate(j)
    /\ state' = [life |-> "serving", current |-> Target(j), recovery |-> state.current,
                 deadline |-> now + job[j].call.window,
                 request |-> job[j].call.request, rotation |-> job[j].call.rotation]
    /\ rows' = Resealed(Target(j))
    /\ ledger' = Completed(j)
    /\ AfterCommit(j, acknowledged)
    /\ UNCHANGED <<scaled, replica, now>>

\* The deadline is checked and renewed with the clock of the call.
Recover(j, acknowledged) ==
    /\ Transacts(j) /\ CanRecover(j)
    /\ state' = [life |-> "serving", current |-> state.recovery, recovery |-> state.current,
                 deadline |-> job[j].clock + job[j].call.window,
                 request |-> job[j].call.request, rotation |-> job[j].call.rotation]
    /\ rows' = Resealed(Target(j))
    /\ ledger' = Completed(j)
    /\ AfterCommit(j, acknowledged)
    /\ UNCHANGED <<scaled, replica, now>>

Finalize(j, acknowledged) ==
    /\ Transacts(j) /\ CanFinalize(j)
    /\ state' = [state EXCEPT !.recovery = NoKey, !.deadline = 0,
                              !.request = job[j].call.request, !.rotation = NoRotation]
    /\ ledger' = Completed(j)
    /\ AfterCommit(j, acknowledged)
    /\ UNCHANGED <<rows, scaled, replica, now>>

\* COMMIT was sent and the transaction rolled back.
CommitLost(j) ==
    /\ Transacts(j) /\ CanCommit(j)
    /\ AfterCommit(j, FALSE)
    /\ UNCHANGED <<state, ledger, rows, scaled, replica, now>>

\* The refusals with code WEBHOOK_KEY_STATE_AMBIGUOUS
RefusedAsAmbiguous(j) ==
    /\ ContextsParse(j) /\ Bound(j)
    /\ CASE Entry(j).status = "completed" -> state.life # "serving"
         [] Entry(j).status = "recovery_required" -> state.life # "recovery_required"
         [] OTHER ->
            \/ job[j].call.action = "rotate" /\ RotationFree(j) /\ state.life # "serving"
            \/ job[j].call.action = "recover" /\ state.life = "none"
            \/ job[j].call.action = "finalize" /\ state.life # "serving"

\* A check fails: ROLLBACK.
Refuse(j) ==
    /\ Transacts(j) /\ ~ CanCommit(j)
    /\ job' = [job EXCEPT ![j].pc = "fail", ![j].ambiguous = RefusedAsAmbiguous(j)]
    /\ UNCHANGED <<state, ledger, rows, scaled, replica, now>>

\* lock_timeout, statement_timeout or a lost connection before COMMIT
TransactionFails(j) ==
    /\ job[j].pc = "tx"
    /\ job' = [job EXCEPT ![j].pc = "fail"]
    /\ UNCHANGED <<state, ledger, rows, scaled, replica, now>>

-----------------------------------------------------------------------------
(* The lifecycle CLI around the transaction.                               *)

Start(j, c) ==
    /\ job[j].pc \in {"idle", "halted"}
    /\ job' = [job EXCEPT ![j] = [Idle EXCEPT !.pc = "quiesce", !.call = c]]
    /\ UNCHANGED <<state, ledger, rows, scaled, replica, now>>

\* quiesce reads the Deployment: a stopped one is only accepted for the replay
\* of a request that has committed.
Quiesce(j) ==
    /\ job[j].pc = "quiesce"
    /\ job' = IF scaled THEN [job EXCEPT ![j].pc = "scale"]
              ELSE IF AuthorizedReplay(job[j].call) THEN [job EXCEPT ![j].pc = "call"]
              ELSE [job EXCEPT ![j] = Idle]
    /\ UNCHANGED <<state, ledger, rows, scaled, replica, now>>

Scale(j) ==
    /\ job[j].pc = "scale"
    /\ scaled' = FALSE
    /\ job' = [job EXCEPT ![j].pc = "drain"]
    /\ UNCHANGED <<state, ledger, rows, replica, now>>

\* waitForDeploymentDrain: status.replicas is zero, which does not count the
\* pods that are still terminating.
Drain(j) ==
    /\ job[j].pc = "drain" /\ ~ scaled
    /\ job' = [job EXCEPT ![j].pc = "call", ![j].restore = TRUE]
    /\ UNCHANGED <<state, ledger, rows, scaled, replica, now>>

\* KUBE_DRAIN_TIMEOUT is thrown inside quiesce: nothing is restored.
DrainTimeout(j) ==
    /\ job[j].pc = "drain"
    /\ job' = [job EXCEPT ![j] = Idle]
    /\ UNCHANGED <<state, ledger, rows, scaled, replica, now>>

\* getResolutionState, then the clock of the call
ReadResolution(j) ==
    /\ job[j].pc = "call"
    /\ job' = [job EXCEPT ![j].pc = "tx", ![j].clock = now,
                ![j].currentMode = IF state.life = "none" THEN NoMode ELSE state.current.mode,
                ![j].recoveryMode = IF state.recovery = NoKey THEN NoMode
                                    ELSE state.recovery.mode]
    /\ UNCHANGED <<state, ledger, rows, scaled, replica, now>>

\* Mutant: only the state is marked, not the ledger.
MarkedStateOnly(e) == ledger

MarkedLedger(e) == [ledger EXCEPT ![e.call.request].status = "recovery_required"]

\* markAmbiguousCommit; when it cannot commit nothing is marked.  The CLI
\* leaves the consumers stopped.
MarkAmbiguous(j, committed) ==
    /\ job[j].pc = "mark"
    /\ IF committed /\ Entry(j).status = "completed" /\ Bound(j) /\ Replays(j)
       THEN /\ LockFree
            /\ state' = [state EXCEPT !.life = "recovery_required"]
            /\ ledger' = MarkedLedger(Entry(j))
       ELSE UNCHANGED <<state, ledger>>
    /\ job' = [job EXCEPT ![j].pc = "halted"]
    /\ UNCHANGED <<rows, scaled, replica, now>>

\* recordFailure: ON CONFLICT DO NOTHING, and a diagnostic that cannot be
\* written is dropped.  A finalization without a mode fails before it.
RecordFailure(j, recorded) ==
    IF /\ recorded /\ Entry(j).status = "none" /\ RotationFree(j)
       /\ job[j].call.action = "finalize" => job[j].currentMode # NoMode
    THEN /\ LockFree
         /\ ledger' = [ledger EXCEPT ![job[j].call.request] =
                [status |-> "failed", call |-> job[j].call,
                 sourceMode |-> IF Swaps(job[j].call) THEN job[j].currentMode ELSE NoMode,
                 targetMode |-> IF job[j].call.action = "recover" THEN job[j].recoveryMode
                                ELSE TargetMode(j)]]
    ELSE ledger' = ledger

\* The failure reaches the CLI, which restores the consumers unless the state
\* is ambiguous; the restore may fail too.
Fail(j, recorded, restored) ==
    /\ job[j].pc = "fail"
    /\ RecordFailure(j, recorded)
    /\ scaled' = (scaled \/ (restored /\ job[j].restore /\ ~ job[j].ambiguous))
    /\ job' = [job EXCEPT ![j] = Idle]
    /\ UNCHANGED <<state, rows, replica, now>>

\* The hook succeeded: Helm applies the Deployment of the target.
Apply(j) ==
    /\ job[j].pc = "apply"
    /\ scaled' = TRUE
    /\ job' = [job EXCEPT ![j] = Idle]
    /\ UNCHANGED <<state, ledger, rows, replica, now>>

\* The job's pod dies; an open transaction rolls back.
CrashJob(j) ==
    /\ job[j].pc \notin {"idle", "halted"}
    /\ job' = [job EXCEPT ![j] = Idle]
    /\ UNCHANGED <<state, ledger, rows, scaled, replica, now>>

Tick ==
    /\ now < MaxNow
    /\ now' = now + 1
    /\ UNCHANGED <<state, ledger, rows, scaled, replica, job>>

-----------------------------------------------------------------------------
Init ==
    /\ state = NoState
    /\ ledger = [q \in Requests |-> NoEntry]
    /\ rows \in [Secrets -> Unlabelled \cup {NoKey}]
    /\ scaled = TRUE
    /\ replica = [r \in Replicas |-> Down]
    /\ job = [j \in Jobs |-> Idle]
    /\ now = 0

ReplicaStep(r) ==
    \/ \E k \in Keys, acknowledged \in BOOLEAN : Boot(r, k, acknowledged)
    \/ WriteFence(r)
    \/ \E s \in Secrets : WriteInsert(r, s)
    \/ WriteCommit(r)
    \/ WriteAbort(r)
    \/ Stop(r)

Transaction(j) ==
    \/ \E acknowledged \in BOOLEAN :
        \/ Replay(j, acknowledged) \/ Resume(j, acknowledged) \/ Adopt(j, acknowledged)
        \/ Rotate(j, acknowledged) \/ Recover(j, acknowledged) \/ Finalize(j, acknowledged)
    \/ CommitLost(j)
    \/ Refuse(j)
    \/ TransactionFails(j)

JobStep(j) ==
    \/ Quiesce(j)
    \/ Scale(j)
    \/ Drain(j)
    \/ DrainTimeout(j)
    \/ ReadResolution(j)
    \/ Transaction(j)
    \/ \E committed \in BOOLEAN : MarkAmbiguous(j, committed)
    \/ \E recorded, restored \in BOOLEAN : Fail(j, recorded, restored)
    \/ Apply(j)

Next ==
    \/ \E r \in Replicas : ReplicaStep(r)
    \/ \E j \in Jobs : \E c \in Asks[j] : Start(j, c)
    \/ \E j \in Jobs : JobStep(j)
    \/ \E j \in Jobs : CrashJob(j)
    \/ Tick

Spec == Init /\ [][Next]_vars

-----------------------------------------------------------------------------
StateType ==
    {NoState} \cup
    [life : {"serving", "recovery_required"}, current : Keys, recovery : Keys \cup {NoKey},
     deadline : Nat, request : Requests \cup {NoRequest}, rotation : Rotations \cup {NoRotation}]

EntryType ==
    {NoEntry} \cup
    [status : {"completed", "failed", "recovery_required"}, call : Calls,
     sourceMode : Modes \cup {NoMode}, targetMode : Modes \cup {NoMode}]

ReplicaType ==
    {Down} \cup [key : Keys, phase : {"serving", "fenced"}, row : {NoSecret}]
           \cup [key : Keys, phase : {"inserted"}, row : Secrets]

JobType ==
    {Idle} \cup
    [pc : PCs \ {"idle"}, call : Calls, currentMode : Modes \cup {NoMode},
     recoveryMode : Modes \cup {NoMode}, clock : 0..MaxNow, restore : BOOLEAN,
     ambiguous : BOOLEAN]

\* The type of the state.  The life of the state row and the key of a replica
\* come and go together with the rest of their records.
TypeOK ==
    /\ state \in StateType
    /\ ledger \in [Requests -> EntryType]
    /\ rows \in [Secrets -> Keys \cup Unlabelled \cup {NoKey}]
    /\ scaled \in BOOLEAN
    /\ replica \in [Replicas -> ReplicaType]
    /\ job \in [Jobs -> JobType]
    /\ now \in 0..MaxNow

\* Once there is a state row, every signing secret is labelled with the serving
\* key and was encrypted with its bytes: no writer, however stale, leaves a
\* secret that the serving key cannot open.
RowsReadable ==
    state.life # "none" => \A s \in Live : rows[s] = state.current

\* The request that produced the serving state is always known to the ledger
\* with the same standing, so an exact retry of it is a replay or a resumption:
\* a marked ambiguous commit never loses its way back to serving.
LatestRequestReplayable ==
    state.request # NoRequest =>
        /\ ledger[state.request].status \in {"completed", "recovery_required"}
        /\ DurableReplay(ledger[state.request])

\* The serving key only changes in the step that completes a request the ledger
\* did not know as completed or ambiguous: no retry transforms the rows twice.
OneTransformPerRequest ==
    [][state.life # "none" /\ state'.current # state.current =>
        /\ state'.request \in Requests
        /\ ledger[state'.request].status \in {"none", "failed"}
        /\ ledger'[state'.request].status = "completed"]_vars

\* The key that rows were sealed with before the last transformation stays
\* available for recovery until its deadline, however late the finalization
\* job runs after it took its clock.
RecoveryRetained ==
    [][state.recovery # NoKey /\ state'.recovery = NoKey => state.deadline <= now]_vars

\* webhook-key-lifecycle-cli.mjs:203: after a lost commit acknowledgement "an
\* exact Helm retry reconciles the ledger and then proceeds to apply the target
\* Deployment".  The retry is only accepted on a stopped Deployment when the
\* ledger knows the request, which a COMMIT that rolled back never told it.
HaltedIsRetryable ==
    (/\ ~ scaled /\ \A j \in Jobs : job[j].pc \in {"idle", "halted"})
    => \A j \in Jobs : job[j].pc = "halted" => AuthorizedReplay(job[j].call)
=============================================================================
