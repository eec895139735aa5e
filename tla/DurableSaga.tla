---------------------------- MODULE DurableSaga ----------------------------
(***************************************************************************)
(* The durable saga of the control plane (apps/control-plane/saga.mjs):    *)
(* a request provisions external resources step by step, records how to    *)
(* undo each of them in saga_steps, and replays the undo records when it   *)
(* fails; a replica that boots sweeps the runs a crash left behind         *)
(* (control-plane-database-startup.mjs).                                   *)
(*                                                                         *)
(* One action is one SQL statement or one call of an external system.      *)
(* Both the request that runs a saga and the replica that boots replay     *)
(* compensations: they are the `workers', and share the actions of         *)
(* runCompensations.                                                       *)
(***************************************************************************)
EXTENDS Integers

CONSTANTS
    Runs,          \* saga_runs ids; also names the request that drives the run
    Replicas,      \* control-plane processes
    NoRun,
    NSteps,        \* forward steps of the saga
    Compensable,   \* the steps that carry a compensation descriptor
    SlowSagas,     \* may a live saga outlive the recovery window of 300 s
    MaxFaults      \* bound: replica crashes and database errors in a behaviour

Steps == 1..NSteps
Workers == Runs \cup Replicas

ASSUME StepsAssumption == NSteps \in Nat \ {0} /\ Compensable \subseteq Steps
ASSUME NamesAssumption == Runs \cap Replicas = {} /\ NoRun \notin Runs
ASSUME BoundsAssumption == SlowSagas \in BOOLEAN /\ MaxFaults \in Nat

VARIABLES
    \* saga_runs
    run,       \* status; "absent" before the INSERT
    old,       \* created_at < NOW() - olderThanSeconds
    \* saga_steps
    comp,      \* comp_status of the row (run, seq); "absent" before the INSERT
    \* async_operations: status of the row mirroring the run, "absent" if none
    mirror,
    \* the external systems
    effect,    \* "none", "done" or "undone": the side effect of each step
    execs,     \* how often the compensator of each step has been called
    \* memory of the processes
    pc,        \* where each request and each replica is
    host,      \* the replica that serves the request of a run
    seq,       \* Saga.seq
    queue,     \* runs claimed by recoverSagas and not processed yet
    target,    \* the run a worker replays
    todo,      \* rows selected by runCompensations and not processed yet
    cur,       \* the row a worker has claimed
    faults

tables == <<run, old, comp, mirror>>
world == <<effect, execs>>
memory == <<host, seq, queue, target, todo, cur>>
vars == <<tables, world, pc, memory, faults>>

RunStatuses == {"absent", "running", "completed", "failed", "compensated",
                "recovering", "recovered"}
CompStatuses == {"absent", "null", "pending", "compensating", "compensated", "comp_failed"}
Holding == {"exec", "markOk", "markFailed"}
Replaying == {"select", "claim"} \cup Holding
RequestPCs == {"idle", "ready", "record", "mirrorCompleted", "fail", "mirrorFailed",
               "done", "dead", "aborted"} \cup Replaying
ReplicaPCs == {"up", "down", "boot", "next"} \cup Replaying

Live(r) == pc[r] \notin {"idle", "done", "dead", "aborted"}
GoTo(w, to) == pc' = [pc EXCEPT ![w] = to]

-----------------------------------------------------------------------------
Init ==
    /\ run = [r \in Runs |-> "absent"]
    /\ old = [r \in Runs |-> FALSE]
    /\ comp = [r \in Runs |-> [s \in Steps |-> "absent"]]
    /\ mirror = [r \in Runs |-> "absent"]
    /\ effect = [r \in Runs |-> [s \in Steps |-> "none"]]
    /\ execs = [r \in Runs |-> [s \in Steps |-> 0]]
    /\ pc = [w \in Workers |-> IF w \in Runs THEN "idle" ELSE "up"]
    /\ host \in [Runs -> Replicas]
    /\ seq = [r \in Runs |-> 0]
    /\ queue = [n \in Replicas |-> {}]
    /\ target = [w \in Workers |-> NoRun]
    /\ todo = [w \in Workers |-> {}]
    /\ cur = [w \in Workers |-> 0]
    /\ faults = 0

(* The request. *)

\* Best-effort: a statement that fails leaves no mirror.
attachOperation(r) ==
    \E m \in {"running", "absent"} : mirror' = [mirror EXCEPT ![r] = m]

\* INSERT of the run, then of its mirror.
startSaga(r) ==
    /\ pc[r] = "idle"
    /\ pc[host[r]] = "up"
    /\ run' = [run EXCEPT ![r] = "running"]
    /\ attachOperation(r)
    /\ target' = [target EXCEPT ![r] = r]
    /\ GoTo(r, "ready")
    /\ UNCHANGED <<old, comp, world, host, seq, queue, todo, cur, faults>>

\* step(): the side effect comes first, its record second.  A call that
\* throws may still have had its effect.
stepEffect(r) ==
    /\ pc[r] = "ready"
    /\ seq[r] < NSteps
    /\ seq' = [seq EXCEPT ![r] = @ + 1]
    /\ \/ /\ effect' = [effect EXCEPT ![r][seq[r] + 1] = "done"]
          /\ GoTo(r, "record")
       \/ /\ \E e \in {"none", "done"} : effect' = [effect EXCEPT ![r][seq[r] + 1] = e]
          /\ GoTo(r, "fail")
    /\ UNCHANGED <<tables, execs, host, queue, target, todo, cur, faults>>

\* INSERT INTO saga_steps, which may itself throw.
recordStep(r) ==
    /\ pc[r] = "record"
    /\ \/ /\ comp' = [comp EXCEPT ![r][seq[r]] =
                        IF seq[r] \in Compensable THEN "pending" ELSE "null"]
          /\ GoTo(r, "ready")
       \/ UNCHANGED comp /\ GoTo(r, "fail")
    /\ UNCHANGED <<run, old, mirror, world, memory, faults>>

complete(r) ==
    /\ pc[r] = "ready"
    /\ seq[r] = NSteps
    /\ \/ run' = [run EXCEPT ![r] = "completed"] /\ GoTo(r, "mirrorCompleted")
       \/ UNCHANGED run /\ GoTo(r, "fail")
    /\ UNCHANGED <<old, comp, mirror, world, memory, faults>>

fail(r) ==
    /\ pc[r] = "fail"
    /\ run' = [run EXCEPT ![r] = "failed"]
    /\ GoTo(r, "mirrorFailed")
    /\ UNCHANGED <<old, comp, mirror, world, memory, faults>>

\* _opStatus: best-effort UPDATE of the mirror.
opStatus(r) ==
    /\ \/ /\ pc[r] = "mirrorCompleted"
          /\ GoTo(r, "done")
          /\ mirror' \in {mirror, [mirror EXCEPT ![r] = IF @ = "absent" THEN @ ELSE "completed"]}
       \/ /\ pc[r] = "mirrorFailed"
          /\ GoTo(r, "select")
          /\ mirror' \in {mirror, [mirror EXCEPT ![r] = IF @ = "absent" THEN @ ELSE "failed"]}
    /\ UNCHANGED <<run, old, comp, world, memory, faults>>

(* runCompensations, by a request in fail() or by a replica in             *)
(* recoverSagas().                                                         *)

\* SELECT the pending rows of the run.
selectPending(w) ==
    /\ pc[w] = "select"
    /\ todo' = [todo EXCEPT ![w] = {s \in Steps : comp[target[w]][s] = "pending"}]
    /\ GoTo(w, "claim")
    /\ UNCHANGED <<tables, world, host, seq, queue, target, cur, faults>>

\* Mutant: ORDER BY seq ASC.
OldestFirst(w, s) == s \in todo[w] /\ \A t \in todo[w] : s <= t

\* ORDER BY seq DESC
Newest(w, s) == s \in todo[w] /\ \A t \in todo[w] : t <= s

\* Mutants: the UPDATE without "AND comp_status = 'pending'"; a row that another
\* worker took is tried again for ever; the claimed row is not remembered.
claimUnchecked(w, s) ==
    /\ pc[w] = "claim"
    /\ Newest(w, s)
    /\ todo' = [todo EXCEPT ![w] = @ \ {s}]
    /\ comp' = [comp EXCEPT ![target[w]][s] = "compensating"]
    /\ cur' = [cur EXCEPT ![w] = s]
    /\ GoTo(w, "exec")
    /\ UNCHANGED <<run, old, mirror, world, host, seq, queue, target, faults>>
claimRetriesTaken(w, s) ==
    /\ pc[w] = "claim"
    /\ Newest(w, s)
    /\ comp[target[w]][s] = "pending"
    /\ todo' = [todo EXCEPT ![w] = @ \ {s}]
    /\ comp' = [comp EXCEPT ![target[w]][s] = "compensating"]
    /\ cur' = [cur EXCEPT ![w] = s]
    /\ GoTo(w, "exec")
    /\ UNCHANGED <<run, old, mirror, world, host, seq, queue, target, faults>>
claimForgetsRow(w, s) ==
    /\ pc[w] = "claim"
    /\ Newest(w, s)
    /\ todo' = [todo EXCEPT ![w] = @ \ {s}]
    /\ comp' = [comp EXCEPT ![target[w]][s] = "compensating"]
    /\ GoTo(w, "exec")
    /\ UNCHANGED <<run, old, mirror, world, host, seq, queue, target, cur, faults>>

\* Atomic claim of the newest row; a row another worker took is skipped.
claim(w, s) ==
    /\ pc[w] = "claim"
    /\ Newest(w, s)
    /\ todo' = [todo EXCEPT ![w] = @ \ {s}]
    /\ IF comp[target[w]][s] = "pending"
       THEN /\ comp' = [comp EXCEPT ![target[w]][s] = "compensating"]
            /\ cur' = [cur EXCEPT ![w] = s]
            /\ GoTo(w, "exec")
       ELSE UNCHANGED <<comp, cur, pc>>
    /\ UNCHANGED <<run, old, mirror, world, host, seq, queue, target, faults>>

\* The compensator either undoes the effect or throws.
execute(w) ==
    /\ pc[w] = "exec"
    /\ execs' = [execs EXCEPT ![target[w]][cur[w]] = @ + 1]
    /\ \/ effect' = [effect EXCEPT ![target[w]][cur[w]] = "undone"] /\ GoTo(w, "markOk")
       \/ UNCHANGED effect /\ GoTo(w, "markFailed")
    /\ UNCHANGED <<tables, memory, faults>>

\* The outcome is recorded; if the UPDATE to 'compensated' throws, the catch
\* block records 'comp_failed'.
markStep(w) ==
    /\ pc[w] \in {"markOk", "markFailed"}
    /\ \E c \in {"compensated", "comp_failed"} :
         /\ c = "compensated" => pc[w] = "markOk"
         /\ comp' = [comp EXCEPT ![target[w]][cur[w]] = c]
    /\ cur' = [cur EXCEPT ![w] = 0]
    /\ GoTo(w, "claim")
    /\ UNCHANGED <<run, old, mirror, world, host, seq, queue, target, todo, faults>>

\* Mutant: the outcome is written before the loop has ended.
finishEarly(w) ==
    /\ pc[w] = "claim"
    /\ run' = [run EXCEPT ![target[w]] = IF w \in Runs THEN "compensated" ELSE "recovered"]
    /\ GoTo(w, IF w \in Runs THEN "done" ELSE "next")
    /\ UNCHANGED <<old, comp, mirror, world, memory, faults>>

\* After the loop: fail() writes 'compensated', recoverSagas() 'recovered'.
finish(w) ==
    /\ pc[w] = "claim"
    /\ todo[w] = {}
    /\ run' = [run EXCEPT ![target[w]] = IF w \in Runs THEN "compensated" ELSE "recovered"]
    /\ GoTo(w, IF w \in Runs THEN "done" ELSE "next")
    /\ UNCHANGED <<old, comp, mirror, world, memory, faults>>

(* The replica. *)

\* The pod is restarted and boots.
boot(n) ==
    /\ pc[n] = "down"
    /\ GoTo(n, "boot")
    /\ UNCHANGED <<tables, world, memory, faults>>

\* Mutant: the sweep ignores the recovery window.
recoverSagasAnyAge(n) ==
    /\ pc[n] = "boot"
    /\ LET orphans == {r \in Runs : run[r] = "running"} IN
         /\ run' = [r \in Runs |-> IF r \in orphans THEN "recovering" ELSE run[r]]
         /\ queue' = [queue EXCEPT ![n] = orphans]
    /\ GoTo(n, "next")
    /\ UNCHANGED <<old, comp, mirror, world, host, seq, target, todo, cur, faults>>

\* One UPDATE ... RETURNING claims every run that is running and old.
recoverSagas(n) ==
    /\ pc[n] = "boot"
    /\ LET orphans == {r \in Runs : run[r] = "running" /\ old[r]} IN
         /\ run' = [r \in Runs |-> IF r \in orphans THEN "recovering" ELSE run[r]]
         /\ queue' = [queue EXCEPT ![n] = orphans]
    /\ GoTo(n, "next")
    /\ UNCHANGED <<old, comp, mirror, world, host, seq, target, todo, cur, faults>>

recoverNext(n) ==
    /\ pc[n] = "next"
    /\ \/ \E r \in queue[n] :
            /\ queue' = [queue EXCEPT ![n] = @ \ {r}]
            /\ target' = [target EXCEPT ![n] = r]
            /\ GoTo(n, "select")
       \/ queue[n] = {} /\ GoTo(n, "up") /\ UNCHANGED <<queue, target>>
    /\ UNCHANGED <<tables, world, host, seq, todo, cur, faults>>

\* A replica dies with the requests it serves and its own recovery.
crash(n) ==
    /\ faults < MaxFaults
    /\ pc[n] # "down"
    /\ faults' = faults + 1
    /\ pc' = [w \in Workers |-> IF w = n THEN "down"
                                ELSE IF w \in Runs /\ host[w] = n /\ Live(w) THEN "dead"
                                ELSE pc[w]]
    /\ queue' = [queue EXCEPT ![n] = {}]
    /\ UNCHANGED <<tables, world, host, seq, target, todo, cur>>

\* A statement of fail() or of runCompensations throws: the request is answered
\* with an error on a replica that goes on, the boot starts its recovery again
\* (schema-retry.mjs).
dbError(w) ==
    /\ faults < MaxFaults
    /\ pc[w] \in {"fail", "select", "claim", "markOk", "markFailed"}
    /\ faults' = faults + 1
    /\ IF w \in Runs THEN GoTo(w, "aborted") /\ UNCHANGED queue
       ELSE GoTo(w, "boot") /\ queue' = [queue EXCEPT ![w] = {}]
    /\ UNCHANGED <<tables, world, host, seq, target, todo, cur>>

\* The recovery window of the run has passed.
age(r) ==
    /\ run[r] # "absent"
    /\ ~old[r]
    /\ SlowSagas \/ ~Live(r)
    /\ old' = [old EXCEPT ![r] = TRUE]
    /\ UNCHANGED <<run, comp, mirror, world, pc, memory, faults>>

RequestStep(r) == stepEffect(r) \/ recordStep(r) \/ complete(r) \/ fail(r) \/ opStatus(r)

Replay(w) ==
    \/ selectPending(w)
    \/ \E s \in Steps : claim(w, s)
    \/ execute(w)
    \/ markStep(w)
    \/ finish(w)

ReplicaStep(n) == boot(n) \/ recoverSagas(n) \/ recoverNext(n)

Next ==
    \/ \E r \in Runs : startSaga(r) \/ RequestStep(r) \/ age(r)
    \/ \E w \in Workers : Replay(w) \/ dbError(w)
    \/ \E n \in Replicas : ReplicaStep(n) \/ crash(n)

Spec == Init /\ [][Next]_vars

\* Requests and replicas that are alive go on, a dead pod is restarted, and
\* time passes.
FairSpec ==
    /\ Spec
    /\ \A r \in Runs : WF_vars(RequestStep(r)) /\ WF_vars(age(r))
    /\ \A w \in Workers : WF_vars(Replay(w))
    /\ \A n \in Replicas : WF_vars(ReplicaStep(n))

-----------------------------------------------------------------------------
(* Properties. *)

\* Every column and every process's memory has its type; a worker that replays
\* has a run, and one past its claim has a step.
TablesOK ==
    /\ run \in [Runs -> RunStatuses]
    /\ old \in [Runs -> BOOLEAN]
    /\ comp \in [Runs -> [Steps -> CompStatuses]]
    /\ mirror \in [Runs -> {"absent", "running", "completed", "failed"}]
    /\ effect \in [Runs -> [Steps -> {"none", "done", "undone"}]]
    /\ execs \in [Runs -> [Steps -> Nat]]

ControlOK ==
    /\ pc \in [Workers -> RequestPCs \cup ReplicaPCs]
    /\ \A w \in Workers : pc[w] \in (IF w \in Runs THEN RequestPCs ELSE ReplicaPCs)
    /\ \A w \in Workers : pc[w] \in Replaying => target[w] \in Runs
    /\ \A w \in Workers : pc[w] \in Holding => cur[w] \in Steps
    /\ \A r \in Runs : pc[r] # "idle" => target[r] = r

MemoryOK ==
    /\ host \in [Runs -> Replicas]
    /\ seq \in [Runs -> 0..NSteps]
    /\ queue \in [Replicas -> SUBSET Runs]
    /\ target \in [Workers -> Runs \cup {NoRun}]
    /\ todo \in [Workers -> SUBSET Steps]
    /\ cur \in [Workers -> 0..NSteps]
    /\ faults \in 0..MaxFaults

TypeOK == TablesOK /\ ControlOK /\ MemoryOK

Holds(w, r, s) == pc[w] \in Holding /\ target[w] = r /\ cur[w] = s

\* The claim makes compensation exclusive: however a failing request, booting
\* replicas and crashes interleave, no compensator is called twice, and two
\* workers never hold the same step (saga.mjs:140-154).
CompensatedAtMostOnce ==
    /\ \A r \in Runs, s \in Steps : execs[r][s] <= 1
    /\ \A r \in Runs, s \in Steps, v, w \in Workers :
         Holds(v, r, s) /\ Holds(w, r, s) => v = w

\* Compensations of a run start newest-first: when a step is being undone, no
\* newer recorded step is still waiting (saga.mjs:11).
NewestFirst ==
    \A w \in Workers : pc[w] = "exec" =>
        \A s \in Steps : s > cur[w] => comp[target[w]][s] # "pending"

\* A run reported as completed has all its effects: none of its steps was
\* undone or is about to be (saga.mjs:168-172).
CompletedKeepsEffects ==
    \A r \in Runs : run[r] = "completed" =>
        \A s \in Steps : effect[r][s] = "done" /\ execs[r][s] = 0

\* A run reported as rolled back left no undo record waiting and nobody in the
\* middle of one (saga.mjs:126-127, 179-181).
RolledBackIsSettled ==
    \A r \in Runs : run[r] \in {"compensated", "recovered"} =>
        \A s \in Steps : comp[r][s] \notin {"pending", "compensating"}

\* A saga ends completed or with its rollback played, with two exceptions: its
\* replica crashed, or a statement of its own rollback threw (saga.mjs:122-128,
\* 140-162).  Racing recoveries, failing steps and failing compensators are no
\* exception.
SagaEnds ==
    \A r \in Runs : run[r] = "running" ~>
        run[r] \in {"completed", "compensated"} \/ pc[r] \in {"dead", "aborted"}

\* What the second exception costs: a rollback cut short by a database error on
\* a living replica, after the run is marked failed, is taken up by nobody, for
\* the sweep of a boot looks only at running runs (saga.mjs:170-172).  False of
\* the code (Saga_dberror.cfg).
CutRollbackResumes ==
    \A r \in Runs, s \in Compensable :
        pc[r] = "aborted" /\ run[r] = "failed" /\ comp[r][s] = "pending"
            ~> comp[r][s] # "pending"

\* saga.mjs:12-13 says recovery at startup compensates the sagas left running
\* by a crash, "so rollback survives a restart".
RollbackSurvivesRestart ==
    \A r \in Runs, s \in Compensable :
        pc[r] = "dead" /\ pc[host[r]] = "down" /\ run[r] = "running" /\ comp[r][s] = "pending"
            ~> comp[r][s] # "pending"
=============================================================================
