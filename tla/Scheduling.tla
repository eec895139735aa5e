----------------------------- MODULE Scheduling -----------------------------
(***************************************************************************)
(* The scheduling engine (packages/scheduling-engine): the periodic        *)
(* trigger that turns due jobs into executions, the runners it invokes,    *)
(* and the management API that creates, pauses, resumes, edits and deletes *)
(* jobs and configures the workspace, all against the same rows and        *)
(* without transactions: one action is one SQL statement (or one call of   *)
(* the outside), and everything a process has read may be stale when it    *)
(* writes.                                                                 *)
(*                                                                         *)
(* Time is counted in slots, the minutes a cron expression can match; an   *)
(* expression is the set of slots it matches.  Executions are named by     *)
(* (job, slot), the UNIQUE (job_id, scheduled_at) of the table.  There is  *)
(* one workspace.                                                          *)
(***************************************************************************)
EXTENDS Integers, FiniteSets

CONSTANTS
    Jobs, NoJob,
    InitialJobs,     \* jobs that exist and are active at the start
    Triggers,        \* concurrent invocations of scheduling-trigger
    Runners,         \* concurrent invocations of scheduling-job-runner
    Handlers,        \* concurrent requests to scheduling-management
    Crons,           \* cron expressions
    Limits,          \* values of max_active_jobs
    MaxFailures,     \* max_consecutive_failures of each job
    Counts,          \* values of consecutive_failure_count in request bodies
    MissedCap,       \* SCHEDULING_MISSED_WINDOW_CAP
    DateColumns,     \* does the client return TIMESTAMPTZ as Date objects (as
                     \* node-postgres does) or as strings (as the tests' fakes do)
    MaxTime,         \* bound: last slot the clock reaches
    Horizon,         \* bound: last slot a job can be planned for
    MaxRequests,     \* bound: requests to scheduling-management
    MaxFaults        \* bound: crashes in a behaviour

Time == 0..MaxTime
Slots == 1..Horizon

\* The first slot after t that the expression matches.
nextRunAt(cron, t) == CHOOSE s \in cron : s > t /\ \A u \in cron : u > t => s <= u

ASSUME JobsAssumption == InitialJobs \subseteq Jobs /\ NoJob \notin Jobs
ASSUME CronAssumption ==
    /\ Crons \subseteq SUBSET Slots
    /\ Crons # {}
    /\ \A c \in Crons, t \in Time : nextRunAt(c, t) \in c /\ nextRunAt(c, t) > t
ASSUME LimitsAssumption == Limits \subseteq Nat /\ Limits # {}
ASSUME BoundsAssumption ==
    /\ MaxFailures \in [Jobs -> Int] /\ Counts \subseteq Int
    /\ MissedCap \in Nat
    /\ DateColumns \in BOOLEAN
    /\ MaxTime \in Nat /\ Horizon \in Nat /\ MaxTime < Horizon
    /\ MaxRequests \in Nat /\ MaxFaults \in Nat

VARIABLES
    now,
    \* scheduling_configurations
    config,      \* [enabled, limit]
    \* scheduled_jobs
    status,      \* "absent" before the INSERT
    deletedAt,   \* deleted_at IS NOT NULL
    failures,    \* consecutive_failure_count
    plan,        \* [cron, next, last]: cron_expression, next_run_at and
                 \* last_triggered_at (0: null)
    \* scheduled_executions
    exec,        \* status of the row (job, slot); "absent" before the INSERT
    started,     \* started_at IS NOT NULL
    \* the outside
    invoked,     \* executions a runner has been invoked for
    acted,       \* how often the target action was called for (job, slot)
    \* memory of the processes
    trig, runr, req,
    requests, faults

jobVars == <<status, deletedAt, failures, plan>>
execVars == <<exec, started>>
outside == <<invoked, acted>>
counters == <<requests, faults>>
vars == <<now, config, jobVars, execVars, outside, trig, runr, req, counters>>

Statuses == {"absent", "active", "paused", "errored", "deleted"}
Outcomes == {"succeeded", "failed", "timed_out"}
ExecStatuses == {"absent", "missed", "running"} \cup Outcomes
Configs == [enabled : BOOLEAN, limit : Limits]
Plans == [cron : Crons, next : Slots, last : Time]

NoPlan == CHOOSE p \in Plans : TRUE
NoConfig == CHOOSE c \in Configs : TRUE

PlannedAfter(cron, t) == [cron |-> cron, next |-> nextRunAt(cron, t), last |-> 0]

Visible(j) == status[j] # "absent" /\ ~deletedAt[j]
Active(j) == status[j] = "active" /\ ~deletedAt[j]
ActiveJobs == {j \in Jobs : Active(j)}

-----------------------------------------------------------------------------
(* Memory of the processes. *)

\* Trigger: rows selected and not processed yet; the row in hand; the missed
\* slots of it still to insert.
IdleTrigger == [pc |-> "idle", due |-> {}, job |-> NoJob, plan |-> NoPlan, missed |-> {}]
TriggerPCs == {"idle", "next", "missed", "insert", "invoke", "advance"}

\* Runner: the execution, the count it read with the job, the outcome.
IdleRunner == [pc |-> "idle", job |-> NoJob, slot |-> 0, failures |-> 0, outcome |-> "failed"]
RunnerPCs == {"idle", "claim", "act", "await", "finalize", "count"}

\* Request: the job, what was read of it, the configuration read or to write,
\* and the ids selected for suspension.
IdleRequest == [pc |-> "idle", job |-> NoJob, plan |-> NoPlan, config |-> NoConfig,
                suspend |-> FALSE, ids |-> {}]
RequestPCs == {"idle", "createCount", "createInsert", "pause",
               "resumeConfig", "resumeCount", "resume", "edit",
               "configWrite", "suspendSelect", "suspend"}

Init ==
    /\ now = 0
    /\ config \in [enabled : {TRUE}, limit : Limits]
    /\ status = [j \in Jobs |-> IF j \in InitialJobs THEN "active" ELSE "absent"]
    /\ deletedAt = [j \in Jobs |-> FALSE]
    /\ failures = [j \in Jobs |-> 0]
    /\ \E c \in [InitialJobs -> Crons] :
         plan = [j \in Jobs |-> IF j \in InitialJobs THEN PlannedAfter(c[j], 0) ELSE NoPlan]
    /\ exec = [j \in Jobs |-> [t \in Slots |-> "absent"]]
    /\ started = [j \in Jobs |-> [t \in Slots |-> FALSE]]
    /\ invoked = {}
    /\ acted = [j \in Jobs |-> [t \in Slots |-> 0]]
    /\ trig = [p \in Triggers |-> IdleTrigger]
    /\ runr = [w \in Runners |-> IdleRunner]
    /\ req = [h \in Handlers |-> IdleRequest]
    /\ requests = 0 /\ faults = 0

Tick ==
    /\ now < MaxTime
    /\ now' = now + 1
    /\ UNCHANGED <<config, jobVars, execVars, outside, trig, runr, req, counters>>

-----------------------------------------------------------------------------
(* scheduling-trigger *)

\* The walk from last_triggered_at to the instant `end'.  It is meant to stop at
\* next_run_at itself; a Date object never equals the string it is compared with.
missedSlots(p, end) ==
    LET walk == {s \in p.cron : p.last < s /\ s < end}
        beforeNext == {s \in walk : ~(p.next \in walk /\ p.next <= s)}
        missed == IF DateColumns THEN walk ELSE beforeNext
    IN {s \in missed : Cardinality({u \in missed : u < s}) < MissedCap}

\* The rows the loop works on: job, plan and missed slots of each job selected.
dueRows(jobs, end) ==
    {<<j, plan[j], IF plan[j].last = 0 THEN {} ELSE missedSlots(plan[j], end)>> : j \in jobs}

\* Mutants: the SELECT without "next_run_at <= $1", and with a comparison that a
\* job whose last_triggered_at is NULL does not satisfy.
selectAllJobs(p) ==
    /\ trig[p].pc = "idle"
    /\ ActiveJobs # {}
    /\ trig' = [trig EXCEPT ![p] = [IdleTrigger EXCEPT !.pc = "next",
                                                      !.due = dueRows(ActiveJobs, now)]]
    /\ UNCHANGED <<now, config, jobVars, execVars, outside, runr, req, counters>>

selectTriggeredJobs(p) ==
    /\ trig[p].pc = "idle"
    /\ LET due == {j \in ActiveJobs : plan[j].next <= now /\ plan[j].last > 0} IN
         /\ due # {}
         /\ trig' = [trig EXCEPT ![p] = [IdleTrigger EXCEPT !.pc = "next",
                                                           !.due = dueRows(due, now)]]
    /\ UNCHANGED <<now, config, jobVars, execVars, outside, runr, req, counters>>

\* The clock stands at the start of slot `now' or somewhere inside it.
selectDueJobs(p) ==
    /\ trig[p].pc = "idle"
    /\ LET due == {j \in ActiveJobs : plan[j].next <= now} IN
         /\ due # {}
         /\ \E end \in {now, now + 1} :
              trig' = [trig EXCEPT ![p] = [IdleTrigger EXCEPT !.pc = "next",
                                                               !.due = dueRows(due, end)]]
    /\ UNCHANGED <<now, config, jobVars, execVars, outside, runr, req, counters>>

\* The next row of the loop, ORDER BY next_run_at; the invocation ends with the
\* last one.
nextJob(p) ==
    /\ trig[p].pc = "next"
    /\ \/ trig[p].due = {} /\ trig' = [trig EXCEPT ![p] = IdleTrigger]
       \/ \E row \in trig[p].due :
          /\ \A other \in trig[p].due : row[2].next <= other[2].next
          /\ trig' = [trig EXCEPT ![p] =
                       [pc |-> IF row[3] = {} THEN "insert" ELSE "missed",
                        due |-> @.due \ {row}, job |-> row[1], plan |-> row[2],
                        missed |-> row[3]]]
    /\ UNCHANGED <<now, config, jobVars, execVars, outside, runr, req, counters>>

\* INSERT ... 'missed' ... ON CONFLICT DO NOTHING, oldest slot first.
insertMissed(p, s) ==
    /\ trig[p].pc = "missed"
    /\ s \in trig[p].missed /\ \A u \in trig[p].missed : s <= u
    /\ exec' = [exec EXCEPT ![trig[p].job][s] = IF @ = "absent" THEN "missed" ELSE @]
    /\ trig' = [trig EXCEPT ![p].missed = @ \ {s},
                            ![p].pc = IF trig[p].missed = {s} THEN "insert" ELSE @]
    /\ UNCHANGED <<now, config, jobVars, started, outside, runr, req, counters>>

\* Mutant: ON CONFLICT DO UPDATE.
insertExecutionOverwrites(p) ==
    /\ trig[p].pc = "insert"
    /\ exec' = [exec EXCEPT ![trig[p].job][trig[p].plan.next] = "running"]
    /\ trig' = [trig EXCEPT ![p].pc = "invoke"]
    /\ UNCHANGED <<now, config, jobVars, started, outside, runr, req, counters>>

\* INSERT ... 'running' ... ON CONFLICT DO NOTHING; on conflict the loop goes on
\* without touching the job.
insertExecution(p) ==
    /\ trig[p].pc = "insert"
    /\ LET j == trig[p].job
           s == trig[p].plan.next IN
         IF exec[j][s] = "absent"
         THEN /\ exec' = [exec EXCEPT ![j][s] = "running"]
              /\ trig' = [trig EXCEPT ![p].pc = "invoke"]
         ELSE UNCHANGED exec /\ trig' = [trig EXCEPT ![p].pc = "next"]
    /\ UNCHANGED <<now, config, jobVars, started, outside, runr, req, counters>>

invokeRunner(p) ==
    /\ trig[p].pc = "invoke"
    /\ invoked' = invoked \cup {<<trig[p].job, trig[p].plan.next>>}
    /\ trig' = [trig EXCEPT ![p].pc = "advance"]
    /\ UNCHANGED <<now, config, jobVars, execVars, acted, runr, req, counters>>

\* UPDATE of last_triggered_at and next_run_at from the row as selected.
advanceJob(p) ==
    /\ trig[p].pc = "advance"
    /\ plan' = [plan EXCEPT ![trig[p].job].last = trig[p].plan.next,
                            ![trig[p].job].next = nextRunAt(trig[p].plan.cron, trig[p].plan.next)]
    /\ trig' = [trig EXCEPT ![p].pc = "next"]
    /\ UNCHANGED <<now, config, status, deletedAt, failures, execVars, outside, runr, req, counters>>

\* An invocation dies, or a statement or invokeRunner throws out of its loop.
crashTrigger(p) ==
    /\ faults < MaxFaults
    /\ trig[p].pc # "idle"
    /\ faults' = faults + 1
    /\ trig' = [trig EXCEPT ![p] = IdleTrigger]
    /\ UNCHANGED <<now, config, jobVars, execVars, outside, runr, req, requests>>

-----------------------------------------------------------------------------
(* scheduling-job-runner; an invocation may be delivered more than once.   *)

readJob(w, j, s) ==
    /\ runr[w].pc = "idle"
    /\ <<j, s>> \in invoked
    /\ Active(j)
    /\ runr' = [runr EXCEPT ![w] = [IdleRunner EXCEPT !.pc = "claim", !.job = j, !.slot = s,
                                                      !.failures = failures[j]]]
    /\ UNCHANGED <<now, config, jobVars, execVars, outside, trig, req, counters>>

\* Mutant: the UPDATE without "AND started_at IS NULL".
claimExecutionUnchecked(w) ==
    /\ runr[w].pc = "claim"
    /\ started' = [started EXCEPT ![runr[w].job][runr[w].slot] = TRUE]
    /\ runr' = [runr EXCEPT ![w].pc = "act"]
    /\ UNCHANGED <<now, config, jobVars, exec, outside, trig, req, counters>>

\* UPDATE ... SET started_at ... WHERE started_at IS NULL RETURNING *
claimExecution(w) ==
    /\ runr[w].pc = "claim"
    /\ IF started[runr[w].job][runr[w].slot]
       THEN UNCHANGED started /\ runr' = [runr EXCEPT ![w] = IdleRunner]
       ELSE /\ started' = [started EXCEPT ![runr[w].job][runr[w].slot] = TRUE]
            /\ runr' = [runr EXCEPT ![w].pc = "act"]
    /\ UNCHANGED <<now, config, jobVars, exec, outside, trig, req, counters>>

\* The target action is called ...
invokeAction(w) ==
    /\ runr[w].pc = "act"
    /\ acted' = [acted EXCEPT ![runr[w].job][runr[w].slot] = @ + 1]
    /\ runr' = [runr EXCEPT ![w].pc = "await"]
    /\ UNCHANGED <<now, config, jobVars, execVars, invoked, trig, req, counters>>

\* ... and returns or throws, if it ever does: the call is awaited without a
\* deadline, and whether it took too long is decided afterwards.
actionReturns(w) ==
    /\ runr[w].pc = "await"
    /\ \E o \in Outcomes : runr' = [runr EXCEPT ![w].pc = "finalize", ![w].outcome = o]
    /\ UNCHANGED <<now, config, jobVars, execVars, outside, trig, req, counters>>

finalizeExecution(w) ==
    /\ runr[w].pc = "finalize"
    /\ exec' = [exec EXCEPT ![runr[w].job][runr[w].slot] = runr[w].outcome]
    /\ runr' = [runr EXCEPT ![w].pc = "count"]
    /\ UNCHANGED <<now, config, jobVars, started, outside, trig, req, counters>>

\* A success resets the count; a failure writes the count and the status it
\* derived from the row it read at the start, where the job was active.
incrementFailureCount(w) ==
    /\ runr[w].pc = "count"
    /\ LET j == runr[w].job
           n == runr[w].failures + 1 IN
         IF runr[w].outcome = "succeeded"
         THEN failures' = [failures EXCEPT ![j] = 0] /\ UNCHANGED status
         ELSE /\ failures' = [failures EXCEPT ![j] = n]
              /\ status' = [status EXCEPT ![j] = IF n >= MaxFailures[j] THEN "errored" ELSE "active"]
    /\ runr' = [runr EXCEPT ![w] = IdleRunner]
    /\ UNCHANGED <<now, config, deletedAt, plan, execVars, outside, trig, req, counters>>

crashRunner(w) ==
    /\ faults < MaxFaults
    /\ runr[w].pc # "idle"
    /\ faults' = faults + 1
    /\ runr' = [runr EXCEPT ![w] = IdleRunner]
    /\ UNCHANGED <<now, config, jobVars, execVars, outside, trig, req, requests>>

-----------------------------------------------------------------------------
(* scheduling-management *)

\* A request arrives.
Accept(h) ==
    /\ req[h].pc = "idle"
    /\ requests < MaxRequests
    /\ requests' = requests + 1

othersUnchanged == UNCHANGED <<now, execVars, outside, trig, runr, faults>>
restUnchanged == othersUnchanged /\ UNCHANGED requests
Respond(h) == req' = [req EXCEPT ![h] = IdleRequest]
Reach(h, pc) == req' = [req EXCEPT ![h].pc = pc]

\* POST jobs: the configuration, then the count, then the INSERT.
createReadConfig(h, j, cron) ==
    /\ Accept(h)
    /\ status[j] = "absent"
    /\ \A g \in Handlers : req[g].job # j
    /\ config.enabled
    /\ req' = [req EXCEPT ![h] = [IdleRequest EXCEPT
                 !.pc = "createCount", !.job = j, !.config = config,
                 !.plan = [NoPlan EXCEPT !.cron = cron]]]
    /\ UNCHANGED <<config, jobVars>> /\ othersUnchanged

checkQuota(h) == Cardinality(ActiveJobs) < req[h].config.limit

createCount(h) ==
    /\ req[h].pc = "createCount"
    /\ IF checkQuota(h) THEN Reach(h, "createInsert") ELSE Respond(h)
    /\ UNCHANGED <<config, jobVars>> /\ restUnchanged

\* buildJobRecord: the request body may set the status, the count of failures
\* and next_run_at, none of which is checked; "errored" is any status that is
\* neither active nor paused.  The INSERT has no last_triggered_at.
BodyStatuses == {"active", "paused", "errored"}
buildJobRecord(cron, next) == [cron |-> cron, next |-> next, last |-> 0]

createInsert(h) ==
    /\ req[h].pc = "createInsert"
    /\ LET j == req[h].job IN
         /\ \E st \in BodyStatuses : status' = [status EXCEPT ![j] = st]
         /\ \E n \in Counts : failures' = [failures EXCEPT ![j] = n]
         /\ \E next \in Slots : plan' = [plan EXCEPT ![j] = buildJobRecord(req[h].plan.cron, next)]
    /\ Respond(h)
    /\ UNCHANGED <<config, deletedAt>> /\ restUnchanged

\* The SELECT of the current row that pause, resume and PATCH start with.
readCurrent(h, j, pc) ==
    /\ Accept(h)
    /\ Visible(j)
    /\ pc = "pause" => status[j] = "active"
    /\ pc = "resumeConfig" => status[j] = "paused"
    /\ req' = [req EXCEPT ![h] = [IdleRequest EXCEPT !.pc = pc, !.job = j, !.plan = plan[j]]]
    /\ UNCHANGED <<config, jobVars>> /\ othersUnchanged

\* Mutant: a status that the table does not know.
pauseJobUnknownStatus(h) ==
    /\ req[h].pc = "pause"
    /\ status' = [status EXCEPT ![req[h].job] = "suspended"]
    /\ Respond(h)
    /\ UNCHANGED <<config, deletedAt, failures, plan>> /\ restUnchanged

pauseJob(h) ==
    /\ req[h].pc = "pause"
    /\ status' = [status EXCEPT ![req[h].job] = "paused"]
    /\ Respond(h)
    /\ UNCHANGED <<config, deletedAt, failures, plan>> /\ restUnchanged

resumeConfig(h) ==
    /\ req[h].pc = "resumeConfig"
    /\ IF config.enabled
       THEN req' = [req EXCEPT ![h].pc = "resumeCount", ![h].config = config]
       ELSE Respond(h)
    /\ UNCHANGED <<config, jobVars>> /\ restUnchanged

resumeCount(h) ==
    /\ req[h].pc = "resumeCount"
    /\ IF checkQuota(h) THEN Reach(h, "resume") ELSE Respond(h)
    /\ UNCHANGED <<config, jobVars>> /\ restUnchanged

resumeJob(h) ==
    /\ req[h].pc = "resume"
    /\ status' = [status EXCEPT ![req[h].job] = "active"]
    /\ plan' = [plan EXCEPT ![req[h].job].next = nextRunAt(req[h].plan.cron, now)]
    /\ Respond(h)
    /\ UNCHANGED <<config, deletedAt, failures>> /\ restUnchanged

\* PATCH jobs: a new expression replans the job from now; without one the
\* next_run_at that was read is written back.
editJob(h) ==
    /\ req[h].pc = "edit"
    /\ LET j == req[h].job IN
         \/ plan' = [plan EXCEPT ![j].cron = req[h].plan.cron, ![j].next = req[h].plan.next]
         \/ \E c \in Crons :
              plan' = [plan EXCEPT ![j].cron = c, ![j].next = nextRunAt(c, now)]
    /\ Respond(h)
    /\ UNCHANGED <<config, status, deletedAt, failures>> /\ restUnchanged

deleteJob(h, j) ==
    /\ Accept(h)
    /\ status[j] # "absent"
    /\ status' = [status EXCEPT ![j] = "deleted"]
    /\ deletedAt' = [deletedAt EXCEPT ![j] = TRUE]
    /\ UNCHANGED <<config, failures, plan, req>> /\ othersUnchanged

\* PATCH config: getConfig and the merge, the upsert, and when the body
\* disables scheduling the SELECT and the UPDATE of the active jobs.
configRead(h, toggle, limit) ==
    /\ Accept(h)
    /\ req' = [req EXCEPT ![h] = [IdleRequest EXCEPT
                 !.pc = "configWrite",
                 !.config = [enabled |-> IF toggle = "keep" THEN config.enabled
                                         ELSE toggle = "enable",
                             limit |-> limit],
                 !.suspend = (toggle = "disable")]]
    /\ UNCHANGED <<config, jobVars>> /\ othersUnchanged

upsertConfig(h) ==
    /\ req[h].pc = "configWrite"
    /\ config' = req[h].config
    /\ IF req[h].suspend THEN Reach(h, "suspendSelect") ELSE Respond(h)
    /\ UNCHANGED jobVars /\ restUnchanged

getActiveJobsToSuspend(h) ==
    /\ req[h].pc = "suspendSelect"
    /\ IF ActiveJobs = {} THEN Respond(h)
       ELSE req' = [req EXCEPT ![h].pc = "suspend", ![h].ids = ActiveJobs]
    /\ UNCHANGED <<config, jobVars>> /\ restUnchanged

suspendJobs(h) ==
    /\ req[h].pc = "suspend"
    /\ status' = [j \in Jobs |-> IF j \in req[h].ids THEN "paused" ELSE status[j]]
    /\ Respond(h)
    /\ UNCHANGED <<config, deletedAt, failures, plan>> /\ restUnchanged

crashRequest(h) ==
    /\ faults < MaxFaults
    /\ req[h].pc # "idle"
    /\ faults' = faults + 1
    /\ Respond(h)
    /\ UNCHANGED <<now, config, jobVars, execVars, outside, trig, runr, requests>>

-----------------------------------------------------------------------------
TriggerStep(p) ==
    \/ nextJob(p)
    \/ \E s \in Slots : insertMissed(p, s)
    \/ insertExecution(p)
    \/ invokeRunner(p)
    \/ advanceJob(p)

RunnerStep(w) ==
    \/ claimExecution(w)
    \/ invokeAction(w)
    \/ finalizeExecution(w)
    \/ incrementFailureCount(w)

RequestStart(h) ==
    \/ \E j \in Jobs, c \in Crons : createReadConfig(h, j, c)
    \/ \E j \in Jobs, pc \in {"pause", "resumeConfig", "edit"} : readCurrent(h, j, pc)
    \/ \E j \in Jobs : deleteJob(h, j)
    \/ \E toggle \in {"enable", "disable", "keep"}, l \in Limits : configRead(h, toggle, l)

RequestStep(h) ==
    \/ createCount(h) \/ createInsert(h)
    \/ pauseJob(h)
    \/ resumeConfig(h) \/ resumeCount(h) \/ resumeJob(h)
    \/ editJob(h)
    \/ upsertConfig(h) \/ getActiveJobsToSuspend(h) \/ suspendJobs(h)

Next ==
    \/ Tick
    \/ \E p \in Triggers : selectDueJobs(p) \/ TriggerStep(p) \/ crashTrigger(p)
    \/ \E w \in Runners : \/ \E j \in Jobs, s \in Slots : readJob(w, j, s)
                         \/ RunnerStep(w) \/ actionReturns(w) \/ crashRunner(w)
    \/ \E h \in Handlers : RequestStart(h) \/ RequestStep(h) \/ crashRequest(h)

Spec == Init /\ [][Next]_vars

\* The trigger keeps being invoked and an invocation goes on.  Nothing else is
\* fair: a runner, a request or an action that is called may stop for ever.
FairSpec ==
    /\ Spec
    /\ \A p \in Triggers : WF_vars(selectDueJobs(p) \/ TriggerStep(p))

-----------------------------------------------------------------------------
(* Properties. *)

\* Every column and every process's memory has its type, and a runner that has
\* read its job works on an execution it was invoked for.
TablesOK ==
    /\ now \in Time
    /\ config \in Configs
    /\ status \in [Jobs -> Statuses]
    /\ deletedAt \in [Jobs -> BOOLEAN]
    /\ failures \in [Jobs -> Int]
    /\ plan \in [Jobs -> Plans]
    /\ exec \in [Jobs -> [Slots -> ExecStatuses]]
    /\ started \in [Jobs -> [Slots -> BOOLEAN]]
    /\ invoked \subseteq Jobs \X Slots
    /\ acted \in [Jobs -> [Slots -> Nat]]
    /\ requests \in 0..MaxRequests /\ faults \in 0..MaxFaults

TriggersOK ==
    /\ trig \in [Triggers -> [pc : TriggerPCs, due : SUBSET (Jobs \X Plans \X SUBSET Slots),
                              job : Jobs \cup {NoJob}, plan : Plans, missed : SUBSET Slots]]
    /\ \A p \in Triggers : trig[p].pc \notin {"idle", "next"} => trig[p].job \in Jobs

RunnersOK ==
    /\ runr \in [Runners -> [pc : RunnerPCs, job : Jobs \cup {NoJob}, slot : Slots \cup {0},
                             failures : Int, outcome : Outcomes]]
    /\ \A w \in Runners : runr[w].pc # "idle" => <<runr[w].job, runr[w].slot>> \in invoked

RequestsOK ==
    /\ req \in [Handlers -> [pc : RequestPCs, job : Jobs \cup {NoJob}, plan : Plans,
                             config : Configs, suspend : BOOLEAN, ids : SUBSET Jobs]]
    /\ \A h \in Handlers : req[h].pc \notin {"idle", "configWrite", "suspendSelect", "suspend"}
                             => req[h].job \in Jobs

TypeOK == TablesOK /\ TriggersOK /\ RunnersOK /\ RequestsOK

\* However triggers overlap, runner invocations are repeated and processes
\* crash, the target action of a (job, slot) is called at most once, and never
\* for a slot recorded as missed (scheduling-job-runner.mjs:19,
\* scheduling-trigger.mjs:49-59).
ActedAtMostOnce ==
    \A j \in Jobs, s \in Slots :
        /\ acted[j][s] <= 1
        /\ acted[j][s] = 1 => exec[j][s] \in {"running"} \cup Outcomes

\* An execution never starts before its slot, whatever PATCH, resume and the
\* triggers write to next_run_at from stale rows.
NeverEarly ==
    \A j \in Jobs, s \in Slots : exec[j][s] # "absent" => s <= now

\* A recorded result is final: a row never leaves an outcome or 'missed', and a
\* claim is never taken back.
ResultsFinal ==
    [][\A j \in Jobs, s \in Slots :
         /\ exec[j][s] \in Outcomes \cup {"missed"} => exec'[j][s] = exec[j][s]
         /\ started[j][s] => started'[j][s]]_vars

\* A slot that is due is never passed over in silence: it gets an execution row,
\* to run or as missed, unless the job is stopped or planned anew, whatever
\* triggers overlap or die in the middle of their loop.
DueSlotRecorded ==
    \A j \in Jobs, s \in Slots \cap Time :
        Active(j) /\ plan[j].next = s /\ s <= now
            ~> exec[j][s] # "absent" \/ ~Active(j) \/ plan[j].next # s

\* tests/e2e/workspace-scheduling/README.md:7 says of the happy path that
\* next_run_at advances: an active job does not stay at a slot that is due,
\* unless a process died.  False of the code: with the Date objects of the
\* driver (Scheduling_dates.cfg), and with a PATCH that writes a stale
\* next_run_at back (Scheduling_stale.cfg).
DueJobAdvances ==
    \A j \in Jobs, s \in Slots :
        Active(j) /\ plan[j].next = s /\ s <= now
            ~> ~Active(j) \/ plan[j].next # s \/ faults > 0

\* tests/e2e/workspace-scheduling/README.md:56: a paused job sees "new
\* executions after resume only": only a resume makes it active again.
OnlyResumeActivates ==
    [][\A j \in Jobs : status[j] = "paused" /\ status'[j] = "active" =>
         \E h \in Handlers : req[h].pc = "resume" /\ req[h].job = j]_vars
=============================================================================
