-------------------------- MODULE SchedulingProofs --------------------------
(***************************************************************************)
(* Proofs about Scheduling for any number of jobs, triggers, runners,      *)
(* requests and crashes, any cron expressions and either kind of           *)
(* timestamp column: types, that no slot is executed early or twice, and   *)
(* that recorded results are final.                                        *)
(***************************************************************************)
EXTENDS Scheduling, TLAPS

TriggerMemory ==
    [pc : TriggerPCs, due : SUBSET (Jobs \X Plans \X SUBSET Slots),
     job : Jobs \cup {NoJob}, plan : Plans, missed : SUBSET Slots]
RunnerMemory ==
    [pc : RunnerPCs, job : Jobs \cup {NoJob}, slot : Slots \cup {0},
     failures : Int, outcome : Outcomes]
RequestMemory ==
    [pc : RequestPCs, job : Jobs \cup {NoJob}, plan : Plans,
     config : Configs, suspend : BOOLEAN, ids : SUBSET Jobs]

TriggerOK(m) == m \in TriggerMemory /\ (m.pc \notin {"idle", "next"} => m.job \in Jobs)
RequestOK(m) ==
    /\ m \in RequestMemory
    /\ m.pc \notin {"idle", "configWrite", "suspendSelect", "suspend"} => m.job \in Jobs

\* What a trigger has selected and what it works on was due by time t.
DueOK(m, t) ==
    /\ \A row \in m.due : row[2].next <= t /\ \A s \in row[3] : s <= t
    /\ m.pc \in {"missed", "insert", "invoke", "advance"} =>
         m.plan.next <= t /\ \A s \in m.missed : s <= t

\* What the triggers hold is due, whatever requests do to the rows meanwhile.
DueInv == \A p \in Triggers : DueOK(trig[p], now)

Running == {"act", "await", "finalize"}

\* A runner past its claim works alone on an execution that is claimed and has
\* no result; an execution that is not claimed has neither a result nor called
\* its action; and a runner is only invoked for an execution that was inserted
\* as running.
ExecInv ==
    /\ \A w \in Runners : runr[w].pc \in Running =>
         started[runr[w].job][runr[w].slot] /\ exec[runr[w].job][runr[w].slot] = "running"
    /\ \A w \in Runners : runr[w].pc = "act" => acted[runr[w].job][runr[w].slot] = 0
    /\ \A v, w \in Runners :
         /\ runr[v].pc \in Running /\ runr[w].pc \in Running
         /\ runr[v].job = runr[w].job /\ runr[v].slot = runr[w].slot
         => v = w
    /\ \A j \in Jobs, s \in Slots :
         ~started[j][s] => acted[j][s] = 0 /\ exec[j][s] \notin Outcomes
    /\ \A j \in Jobs, s \in Slots :
         <<j, s>> \in invoked => exec[j][s] \in {"running"} \cup Outcomes
    /\ \A p \in Triggers : trig[p].pc = "invoke" =>
         exec[trig[p].job][trig[p].plan.next] \in {"running"} \cup Outcomes
    /\ \A j \in Jobs, s \in Slots :
         acted[j][s] <= 1 /\ (acted[j][s] = 1 => <<j, s>> \in invoked)

Inv == DueInv /\ NeverEarly /\ ExecInv

-----------------------------------------------------------------------------
(* Facts about the constants and about updates. *)

\* The first slot after a time the clock reaches is within the horizon.
LEMMA NextRunType ==
  ASSUME NEW c \in Crons, NEW t \in Time
  PROVE  nextRunAt(c, t) \in Slots
  BY CronAssumption

\* The rows of a job and of a tenant that do not exist yet have their types.
LEMMA DefaultTypes == NoPlan \in Plans /\ NoConfig \in Configs
<1>1. PICK c \in Crons : TRUE
  BY CronAssumption
<1>2. 1 \in Slots /\ 0 \in Time
  BY BoundsAssumption DEF Slots, Time
<1>3. [cron |-> c, next |-> 1, last |-> 0] \in Plans
  BY <1>2 DEF Plans
<1>4. PICK l \in Limits : TRUE
  BY LimitsAssumption
<1>5. [enabled |-> TRUE, limit |-> l] \in Configs
  BY DEF Configs
<1> QED BY <1>3, <1>5 DEF NoPlan, NoConfig

\* The memory of an idle trigger, runner or request has its type.
LEMMA IdleTypes ==
    /\ TriggerOK(IdleTrigger) /\ IdleTrigger.pc = "idle" /\ IdleTrigger.due = {}
    /\ IdleRunner \in RunnerMemory /\ IdleRunner.pc = "idle"
    /\ RequestOK(IdleRequest)
  BY DefaultTypes
  DEF TriggerOK, TriggerMemory, IdleTrigger, TriggerPCs, RunnerMemory, IdleRunner,
      RunnerPCs, Outcomes, RequestOK, RequestMemory, IdleRequest, RequestPCs

\* What an update of one cell of a two-level table leaves.
LEMMA CellUpdate ==
  ASSUME NEW S, NEW T, NEW V, NEW f \in [S -> [T -> V]],
         NEW a \in S, NEW b \in T, NEW v \in V
  PROVE  LET g == [f EXCEPT ![a][b] = v] IN
         /\ g \in [S -> [T -> V]]
         /\ g[a][b] = v
         /\ \A c \in S, d \in T : c # a \/ d # b => g[c][d] = f[c][d]
<1> DEFINE g == [f EXCEPT ![a][b] = v]
<1>1. g = [c \in S |-> IF c = a THEN [f[a] EXCEPT ![b] = v] ELSE f[c]]
  OBVIOUS
<1>2. f[a] \in [T -> V] /\ [f[a] EXCEPT ![b] = v] \in [T -> V]
  OBVIOUS
<1> QED BY <1>1, <1>2

\* The UPDATEs of a plan.
LEMMA PlanUpdates ==
  ASSUME plan \in [Jobs -> Plans], NEW j \in Jobs
  PROVE  /\ \A l \in Time, n \in Slots :
              [plan EXCEPT ![j].last = l, ![j].next = n] \in [Jobs -> Plans]
         /\ \A c \in Crons, n \in Slots :
              [plan EXCEPT ![j].cron = c, ![j].next = n] \in [Jobs -> Plans]
         /\ \A n \in Slots : [plan EXCEPT ![j].next = n] \in [Jobs -> Plans]
         /\ \A q \in Plans : [plan EXCEPT ![j] = q] \in [Jobs -> Plans]
  BY DEF Plans

-----------------------------------------------------------------------------
(* Memory of the triggers. *)

\* Missed slots are slots before `end'.
LEMMA MissedType ==
  ASSUME NEW q \in Plans, NEW t \in Time, NEW end \in {t, t + 1}
  PROVE  missedSlots(q, end) \subseteq {s \in Slots : s <= t}
<1>1. q.cron \subseteq Slots
  BY CronAssumption DEF Plans
<1>2. missedSlots(q, end) \subseteq {s \in q.cron : s < end}
  BY DEF missedSlots
<1>3. \A s \in Slots : s < end => s <= t
  BY BoundsAssumption DEF Slots, Time
<1> QED BY <1>1, <1>2, <1>3

\* A trigger's step leaves it with a well-typed memory that was due by now.
LEMMA TriggerMemoryStep ==
  ASSUME TypeOK, DueInv, NEW p \in Triggers,
         selectDueJobs(p) \/ TriggerStep(p) \/ crashTrigger(p)
  PROVE  \E m : trig' = [trig EXCEPT ![p] = m] /\ TriggerOK(m) /\ DueOK(m, now)
<1>0. /\ trig \in [Triggers -> TriggerMemory] /\ trig[p] \in TriggerMemory
      /\ TriggerOK(trig[p]) /\ DueOK(trig[p], now) /\ now \in Time
      /\ plan \in [Jobs -> Plans]
  BY DEF TypeOK, TriggersOK, TablesOK, TriggerMemory, TriggerOK, DueInv
<1>1. CASE selectDueJobs(p)
  <2>1. PICK due, end :
          /\ due = {j \in ActiveJobs : plan[j].next <= now}
          /\ end \in {now, now + 1}
          /\ trig' = [trig EXCEPT ![p] = [IdleTrigger EXCEPT !.pc = "next",
                                                           !.due = dueRows(due, end)]]
    BY <1>1 DEF selectDueJobs
  <2> DEFINE m == [IdleTrigger EXCEPT !.pc = "next", !.due = dueRows(due, end)]
  <2>2. due \subseteq Jobs /\ \A j \in due : plan[j] \in Plans /\ plan[j].next <= now
    BY <1>0, <2>1 DEF ActiveJobs
  <2>3. \A j \in due : missedSlots(plan[j], end) \subseteq {s \in Slots : s <= now}
    BY <1>0, <2>1, <2>2, MissedType
  <2>4. /\ dueRows(due, end) \in SUBSET (Jobs \X Plans \X SUBSET Slots)
        /\ \A row \in dueRows(due, end) : row[2].next <= now /\ \A s \in row[3] : s <= now
    BY <2>2, <2>3 DEF dueRows
  <2>5. m \in TriggerMemory /\ m.pc = "next" /\ m.due = dueRows(due, end)
    BY <2>4, DefaultTypes DEF TriggerMemory, TriggerPCs, IdleTrigger
  <2>6. TriggerOK(m) /\ DueOK(m, now)
    BY <2>4, <2>5 DEF TriggerOK, DueOK
  <2> QED BY <2>1, <2>6
<1>2. CASE nextJob(p)
  <2>1. CASE trig' = [trig EXCEPT ![p] = IdleTrigger]
    BY <2>1, IdleTypes DEF DueOK
  <2>2. CASE trig' # [trig EXCEPT ![p] = IdleTrigger]
    <3>1. PICK row \in trig[p].due :
            trig' = [trig EXCEPT ![p] =
                       [pc |-> IF row[3] = {} THEN "insert" ELSE "missed",
                        due |-> @.due \ {row}, job |-> row[1], plan |-> row[2],
                        missed |-> row[3]]]
      BY <1>2, <2>2 DEF nextJob
    <3> DEFINE m == [pc |-> IF row[3] = {} THEN "insert" ELSE "missed",
                     due |-> trig[p].due \ {row}, job |-> row[1], plan |-> row[2],
                     missed |-> row[3]]
    <3>2. trig' = [trig EXCEPT ![p] = m]
      BY <1>0, <3>1
    <3>3. row \in Jobs \X Plans \X SUBSET Slots
      BY <1>0 DEF TriggerMemory
    <3>4. row[1] \in Jobs /\ row[2] \in Plans /\ row[3] \in SUBSET Slots
      BY <3>3
    <3>5. m \in TriggerMemory
      BY <1>0, <3>4 DEF TriggerMemory, TriggerPCs
    <3>6. TriggerOK(m) /\ DueOK(m, now)
      BY <1>0, <3>4, <3>5 DEF TriggerOK, DueOK
    <3> QED BY <3>2, <3>6
  <2> QED BY <2>1, <2>2
<1>3. ASSUME NEW s \in Slots, insertMissed(p, s)
      PROVE  \E m : trig' = [trig EXCEPT ![p] = m] /\ TriggerOK(m) /\ DueOK(m, now)
  <2> DEFINE m == [trig[p] EXCEPT !.missed = trig[p].missed \ {s},
                                  !.pc = IF trig[p].missed = {s} THEN "insert" ELSE @]
  <2>1. trig' = [trig EXCEPT ![p] = m]
    BY <1>0, <1>3 DEF insertMissed, TriggerMemory
  <2>2. TriggerOK(m) /\ DueOK(m, now)
    BY <1>0, <1>3 DEF insertMissed, TriggerOK, DueOK, TriggerMemory, TriggerPCs
  <2> QED BY <2>1, <2>2
<1>4. CASE insertExecution(p) \/ invokeRunner(p) \/ advanceJob(p)
  <2>1. PICK to \in {"invoke", "next", "advance"} : trig' = [trig EXCEPT ![p].pc = to]
    BY <1>4 DEF insertExecution, invokeRunner, advanceJob
  <2> DEFINE m == [trig[p] EXCEPT !.pc = to]
  <2>2. trig' = [trig EXCEPT ![p] = m]
    BY <1>0, <2>1
  <2>3. trig[p].pc \in {"insert", "invoke", "advance"}
    BY <1>4 DEF insertExecution, invokeRunner, advanceJob
  <2>4. TriggerOK(m) /\ DueOK(m, now)
    BY <1>0, <2>3 DEF TriggerOK, DueOK, TriggerMemory, TriggerPCs
  <2> QED BY <2>2, <2>4
<1>5. CASE crashTrigger(p)
  BY <1>5, IdleTypes DEF crashTrigger, DueOK
<1> QED BY <1>1, <1>2, <1>3, <1>4, <1>5 DEF TriggerStep

-----------------------------------------------------------------------------
(* Types. *)

LEMMA InitOK == Init => TypeOK /\ Inv
<1> SUFFICES ASSUME Init PROVE TypeOK /\ Inv
  OBVIOUS
<1>1. 0 \in Time /\ 1 \in Slots
  BY BoundsAssumption DEF Time, Slots
<1>2. plan \in [Jobs -> Plans]
  <2>1. PICK c \in [InitialJobs -> Crons] :
          plan = [j \in Jobs |-> IF j \in InitialJobs THEN PlannedAfter(c[j], 0) ELSE NoPlan]
    BY DEF Init
  <2>2. \A j \in InitialJobs : PlannedAfter(c[j], 0) \in Plans
    <3> SUFFICES ASSUME NEW j \in InitialJobs PROVE PlannedAfter(c[j], 0) \in Plans
      OBVIOUS
    <3>1. nextRunAt(c[j], 0) \in Slots
      BY <1>1, NextRunType
    <3> QED BY <1>1, <3>1 DEF PlannedAfter, Plans
  <2> QED BY <2>1, <2>2, DefaultTypes
<1>3. TablesOK
  <2>0. config \in Configs
    <3>1. config \in [enabled : {TRUE}, limit : Limits]
      BY DEF Init
    <3>2. {TRUE} \subseteq BOOLEAN
      OBVIOUS
    <3> QED BY <3>1, <3>2 DEF Configs
  <2>1. now \in Time /\ requests \in 0..MaxRequests /\ faults \in 0..MaxFaults
    BY <1>1, BoundsAssumption DEF Init
  <2>2. /\ status \in [Jobs -> Statuses] /\ deletedAt \in [Jobs -> BOOLEAN]
        /\ failures \in [Jobs -> Int] /\ invoked \subseteq Jobs \X Slots
    BY DEF Init, Statuses
  <2>3. /\ exec \in [Jobs -> [Slots -> ExecStatuses]]
        /\ started \in [Jobs -> [Slots -> BOOLEAN]]
        /\ acted \in [Jobs -> [Slots -> Nat]]
    BY DEF Init, ExecStatuses
  <2> QED BY <1>2, <2>0, <2>1, <2>2, <2>3 DEF TablesOK
<1>4. TriggersOK /\ RunnersOK /\ RequestsOK
  BY IdleTypes
  DEF Init, TriggersOK, RunnersOK, RequestsOK, TriggerOK, TriggerMemory, RunnerMemory,
      RequestOK, RequestMemory
<1>5. DueInv /\ NeverEarly /\ ExecInv
  BY IdleTypes DEF Init, DueInv, DueOK, NeverEarly, ExecInv, Running, Outcomes
<1> QED BY <1>3, <1>4, <1>5 DEF TypeOK, Inv

\* A trigger's step keeps every type and holds only what is due.
LEMMA TriggerTypeOK ==
  ASSUME TypeOK, DueInv, NEW p \in Triggers,
         selectDueJobs(p) \/ TriggerStep(p) \/ crashTrigger(p)
  PROVE  TypeOK' /\ DueInv'
<1>1. PICK m : trig' = [trig EXCEPT ![p] = m] /\ TriggerOK(m) /\ DueOK(m, now)
  BY TriggerMemoryStep
<1>2. /\ now' = now /\ runr' = runr /\ req' = req
      /\ invoked \subseteq invoked'
  BY DEF selectDueJobs, TriggerStep, crashTrigger, nextJob, insertMissed, insertExecution,
         invokeRunner, advanceJob, outside
<1>3. TriggersOK'
  BY <1>1 DEF TypeOK, TriggersOK, TriggerOK, TriggerMemory
<1>4. DueInv'
  BY <1>1, <1>2 DEF TypeOK, TriggersOK, DueInv
<1>5. RunnersOK' /\ RequestsOK'
  BY <1>2 DEF TypeOK, RunnersOK, RequestsOK
<1>6. /\ TriggerOK(trig[p]) /\ DueOK(trig[p], now)
      /\ TablesOK
  BY DEF TypeOK, TriggersOK, TriggerOK, TriggerMemory, DueInv
<1>7. TablesOK'
  <2>1. CASE selectDueJobs(p) \/ nextJob(p)
    BY <1>6, <2>1 DEF selectDueJobs, nextJob, TablesOK, jobVars, execVars, outside, counters
  <2>2. ASSUME NEW s \in Slots, insertMissed(p, s) PROVE TablesOK'
    <3> DEFINE j == trig[p].job
    <3>1. j \in Jobs
      BY <1>6, <2>2 DEF insertMissed, TriggerOK
    <3>2. (IF exec[j][s] = "absent" THEN "missed" ELSE exec[j][s]) \in ExecStatuses
      BY <1>6, <3>1 DEF TablesOK, ExecStatuses
    <3>3. exec' = [exec EXCEPT ![j][s] = IF exec[j][s] = "absent" THEN "missed" ELSE exec[j][s]]
      BY <2>2 DEF insertMissed
    <3>4. exec' \in [Jobs -> [Slots -> ExecStatuses]]
      BY <1>6, <3>1, <3>2, <3>3, CellUpdate DEF TablesOK
    <3> QED BY <1>6, <2>2, <3>4 DEF insertMissed, TablesOK, jobVars, outside, counters
  <2>3. CASE insertExecution(p)
    <3>1. trig[p].job \in Jobs /\ trig[p].plan.next \in Slots
      BY <1>6, <2>3 DEF insertExecution, TriggerOK, TriggerMemory, Plans
    <3>2. CASE exec[trig[p].job][trig[p].plan.next] = "absent"
      <4>1. exec' = [exec EXCEPT ![trig[p].job][trig[p].plan.next] = "running"]
        BY <2>3, <3>2 DEF insertExecution
      <4>2. "running" \in ExecStatuses
        BY DEF ExecStatuses
      <4>3. exec' \in [Jobs -> [Slots -> ExecStatuses]]
        BY <1>6, <3>1, <4>1, <4>2, CellUpdate DEF TablesOK
      <4> QED BY <1>6, <2>3, <4>3 DEF insertExecution, TablesOK, jobVars, outside, counters
    <3>3. CASE exec[trig[p].job][trig[p].plan.next] # "absent"
      BY <1>6, <2>3, <3>3 DEF insertExecution, TablesOK, jobVars, outside, counters
    <3> QED BY <3>2, <3>3
  <2>4. CASE invokeRunner(p)
    <3>1. trig[p].job \in Jobs /\ trig[p].plan.next \in Slots
      BY <1>6, <2>4 DEF invokeRunner, TriggerOK, TriggerMemory, Plans
    <3> QED BY <1>6, <2>4, <3>1 DEF invokeRunner, TablesOK, jobVars, execVars, counters
  <2>5. CASE advanceJob(p)
    <3> DEFINE q == trig[p].plan
    <3>1. trig[p].job \in Jobs /\ q.next \in Slots /\ q.cron \in Crons
      BY <1>6, <2>5 DEF advanceJob, TriggerOK, TriggerMemory, Plans
    <3>2. q.next <= now
      BY <1>6, <2>5 DEF advanceJob, DueOK
    <3>3. q.next \in Time
      <4>1. now \in Time
        BY <1>6 DEF TablesOK
      <4> QED BY <3>1, <3>2, <4>1, BoundsAssumption DEF Time, Slots
    <3>4. nextRunAt(q.cron, q.next) \in Slots
      BY <3>1, <3>3, NextRunType
    <3>5. plan' = [plan EXCEPT ![trig[p].job].last = q.next,
                               ![trig[p].job].next = nextRunAt(q.cron, q.next)]
      BY <2>5 DEF advanceJob
    <3>6. plan' \in [Jobs -> Plans]
      BY <1>6, <3>1, <3>3, <3>4, <3>5, PlanUpdates DEF TablesOK
    <3> QED BY <1>6, <2>5, <3>6 DEF advanceJob, TablesOK, execVars, outside, counters
  <2>6. CASE crashTrigger(p)
    BY <1>6, <2>6, BoundsAssumption DEF crashTrigger, TablesOK, jobVars, execVars, outside, counters
  <2> QED BY <2>1, <2>2, <2>3, <2>4, <2>5, <2>6 DEF TriggerStep
<1> QED BY <1>3, <1>4, <1>5, <1>7 DEF TypeOK

\* A runner's step leaves it with a well-typed memory.
LEMMA RunnerMemoryStep ==
  ASSUME TypeOK, NEW w \in Runners,
         \/ \E j \in Jobs, s \in Slots : readJob(w, j, s)
         \/ RunnerStep(w) \/ actionReturns(w) \/ crashRunner(w)
  PROVE  \E m \in RunnerMemory :
            /\ runr' = [runr EXCEPT ![w] = m]
            /\ m.pc # "idle" => <<m.job, m.slot>> \in invoked
<1>0. /\ runr \in [Runners -> RunnerMemory] /\ runr[w] \in RunnerMemory
      /\ runr[w].pc # "idle" => <<runr[w].job, runr[w].slot>> \in invoked
      /\ failures \in [Jobs -> Int]
  BY DEF TypeOK, RunnersOK, TablesOK, RunnerMemory
<1>1. ASSUME NEW j \in Jobs, NEW s \in Slots, readJob(w, j, s)
      PROVE  \E m \in RunnerMemory : /\ runr' = [runr EXCEPT ![w] = m]
                                     /\ m.pc # "idle" => <<m.job, m.slot>> \in invoked
  <2> DEFINE m == [IdleRunner EXCEPT !.pc = "claim", !.job = j, !.slot = s,
                                     !.failures = failures[j]]
  <2>1. runr' = [runr EXCEPT ![w] = m] /\ <<j, s>> \in invoked
    BY <1>1 DEF readJob
  <2>2. m \in RunnerMemory /\ m.job = j /\ m.slot = s
    BY <1>0 DEF IdleRunner, RunnerMemory, RunnerPCs, Outcomes
  <2> QED BY <2>1, <2>2
<1>2. CASE \/ claimExecution(w) \/ invokeAction(w) \/ finalizeExecution(w)
           \/ incrementFailureCount(w) \/ crashRunner(w)
  <2>1. CASE runr' = [runr EXCEPT ![w] = IdleRunner]
    BY <2>1, IdleTypes
  <2>2. CASE runr' # [runr EXCEPT ![w] = IdleRunner]
    <3>1. PICK to \in {"act", "await", "count"} : runr' = [runr EXCEPT ![w].pc = to]
      BY <1>2, <2>2
      DEF claimExecution, invokeAction, finalizeExecution, incrementFailureCount,
          crashRunner
    <3>2. runr[w].pc # "idle"
      BY <1>2 DEF claimExecution, invokeAction, finalizeExecution, incrementFailureCount,
          crashRunner
    <3> DEFINE m == [runr[w] EXCEPT !.pc = to]
    <3>3. runr' = [runr EXCEPT ![w] = m]
      BY <1>0, <3>1
    <3>4. m \in RunnerMemory /\ m.job = runr[w].job /\ m.slot = runr[w].slot
      BY <1>0 DEF RunnerMemory, RunnerPCs
    <3> QED BY <1>0, <3>2, <3>3, <3>4
  <2> QED BY <2>1, <2>2
<1>3. CASE actionReturns(w)
  <2>1. PICK o \in Outcomes : runr' = [runr EXCEPT ![w].pc = "finalize", ![w].outcome = o]
    BY <1>3 DEF actionReturns
  <2> DEFINE m == [runr[w] EXCEPT !.pc = "finalize", !.outcome = o]
  <2>2. runr' = [runr EXCEPT ![w] = m]
    BY <1>0, <2>1
  <2>3. m \in RunnerMemory /\ m.job = runr[w].job /\ m.slot = runr[w].slot
    BY <1>0 DEF RunnerMemory, RunnerPCs
  <2> QED BY <1>0, <1>3, <2>2, <2>3 DEF actionReturns
<1> QED BY <1>1, <1>2, <1>3 DEF RunnerStep

\* A runner's step keeps every type.
LEMMA RunnerTypeOK ==
  ASSUME TypeOK, NEW w \in Runners,
         \/ \E j \in Jobs, s \in Slots : readJob(w, j, s)
         \/ RunnerStep(w) \/ actionReturns(w) \/ crashRunner(w)
  PROVE  TypeOK'
<1>1. PICK m \in RunnerMemory :
        /\ runr' = [runr EXCEPT ![w] = m]
        /\ m.pc # "idle" => <<m.job, m.slot>> \in invoked
  BY RunnerMemoryStep
<1>2. invoked' = invoked /\ trig' = trig /\ req' = req /\ now' = now
  BY DEF readJob, RunnerStep, crashRunner, claimExecution, invokeAction, actionReturns,
         finalizeExecution, incrementFailureCount, outside, counters
<1>3. RunnersOK' /\ TriggersOK' /\ RequestsOK'
  BY <1>1, <1>2 DEF TypeOK, RunnersOK, RunnerMemory, TriggersOK, RequestsOK
<1>4. /\ TablesOK /\ runr[w] \in RunnerMemory
      /\ runr[w].pc # "idle" => runr[w].job \in Jobs /\ runr[w].slot \in Slots
  BY DEF TypeOK, RunnersOK, RunnerMemory, TablesOK
<1>5. TablesOK'
  <2>1. ASSUME NEW j \in Jobs, NEW s \in Slots, readJob(w, j, s) PROVE TablesOK'
    BY <1>4, <2>1 DEF readJob, TablesOK, jobVars, execVars, outside, counters
  <2>2. CASE claimExecution(w)
    <3>1. CASE started' = started
      BY <1>4, <2>2, <3>1 DEF claimExecution, TablesOK, jobVars, outside, counters
    <3>2. CASE started' = [started EXCEPT ![runr[w].job][runr[w].slot] = TRUE]
      <4>1. started' \in [Jobs -> [Slots -> BOOLEAN]]
        BY <1>4, <2>2, <3>2, CellUpdate DEF claimExecution, TablesOK
      <4> QED BY <1>4, <2>2, <4>1 DEF claimExecution, TablesOK, jobVars, outside, counters
    <3> QED BY <2>2, <3>1, <3>2 DEF claimExecution
  <2>3. CASE invokeAction(w)
    <3>1. runr[w].job \in Jobs /\ runr[w].slot \in Slots
      BY <1>4, <2>3 DEF invokeAction
    <3>2. acted[runr[w].job][runr[w].slot] + 1 \in Nat
      BY <1>4, <3>1 DEF TablesOK
    <3>3. acted' = [acted EXCEPT ![runr[w].job][runr[w].slot] =
                                   acted[runr[w].job][runr[w].slot] + 1]
      BY <2>3 DEF invokeAction
    <3>4. acted' \in [Jobs -> [Slots -> Nat]]
      BY <1>4, <3>1, <3>2, <3>3, CellUpdate DEF TablesOK
    <3> QED BY <1>4, <2>3, <3>4 DEF invokeAction, TablesOK, jobVars, execVars, counters
  <2>4. CASE finalizeExecution(w)
    <3>1. runr[w].job \in Jobs /\ runr[w].slot \in Slots /\ runr[w].outcome \in ExecStatuses
      BY <1>4, <2>4 DEF finalizeExecution, RunnerMemory, ExecStatuses
    <3>2. exec' \in [Jobs -> [Slots -> ExecStatuses]]
      BY <1>4, <2>4, <3>1, CellUpdate DEF finalizeExecution, TablesOK
    <3> QED BY <1>4, <2>4, <3>2 DEF finalizeExecution, TablesOK, jobVars, outside, counters
  <2>5. CASE incrementFailureCount(w)
    <3>1. runr[w].job \in Jobs /\ runr[w].failures + 1 \in Int
      BY <1>4, <2>5 DEF incrementFailureCount, RunnerMemory
    <3>2. PICK n \in Int : failures' = [failures EXCEPT ![runr[w].job] = n]
      BY <2>5, <3>1 DEF incrementFailureCount
    <3>3. status' = status \/ \E st \in Statuses : status' = [status EXCEPT ![runr[w].job] = st]
      BY <2>5 DEF incrementFailureCount, Statuses
    <3>4. failures' \in [Jobs -> Int] /\ status' \in [Jobs -> Statuses]
      BY <1>4, <3>1, <3>2, <3>3 DEF TablesOK
    <3> QED BY <1>4, <2>5, <3>4 DEF incrementFailureCount, TablesOK, execVars, outside, counters
  <2>6. CASE crashRunner(w)
    BY <1>4, <2>6, BoundsAssumption DEF crashRunner, TablesOK, jobVars, execVars, outside, counters
  <2>7. CASE actionReturns(w)
    BY <1>4, <2>7 DEF actionReturns, TablesOK, jobVars, execVars, outside, counters
  <2> QED BY <2>1, <2>2, <2>3, <2>4, <2>5, <2>6, <2>7 DEF RunnerStep
<1> QED BY <1>3, <1>5 DEF TypeOK

\* A request's step leaves it with a well-typed memory.
LEMMA RequestMemoryStep ==
  ASSUME TypeOK, NEW h \in Handlers, RequestStart(h) \/ RequestStep(h) \/ crashRequest(h)
  PROVE  \E m : RequestOK(m) /\ req' = [req EXCEPT ![h] = m]
<1>0. /\ req \in [Handlers -> RequestMemory] /\ RequestOK(req[h]) /\ req[h] \in RequestMemory
      /\ plan \in [Jobs -> Plans] /\ config \in Configs
  BY DEF TypeOK, RequestsOK, TablesOK, RequestMemory, RequestOK
<1>1. ASSUME NEW j \in Jobs, NEW c \in Crons, createReadConfig(h, j, c)
      PROVE  \E m : RequestOK(m) /\ req' = [req EXCEPT ![h] = m]
  <2> DEFINE q == [NoPlan EXCEPT !.cron = c]
             m == [IdleRequest EXCEPT !.pc = "createCount", !.job = j, !.config = config,
                                      !.plan = q]
  <2>1. req' = [req EXCEPT ![h] = m]
    BY <1>1 DEF createReadConfig
  <2>2. q \in Plans
    BY DefaultTypes DEF Plans
  <2> HIDE DEF q
  <2>3. RequestOK(m)
    BY <1>0, <2>2, DefaultTypes DEF IdleRequest, RequestOK, RequestMemory, RequestPCs
  <2> QED BY <2>1, <2>3
<1>2. ASSUME NEW j \in Jobs, NEW pc \in {"pause", "resumeConfig", "edit"}, readCurrent(h, j, pc)
      PROVE  \E m : RequestOK(m) /\ req' = [req EXCEPT ![h] = m]
  <2> DEFINE m == [IdleRequest EXCEPT !.pc = pc, !.job = j, !.plan = plan[j]]
  <2>1. req' = [req EXCEPT ![h] = m]
    BY <1>2 DEF readCurrent
  <2>2. RequestOK(m)
    BY <1>0, DefaultTypes DEF IdleRequest, RequestOK, RequestMemory, RequestPCs
  <2> QED BY <2>1, <2>2
<1>3. ASSUME NEW j \in Jobs, deleteJob(h, j)
      PROVE  \E m : RequestOK(m) /\ req' = [req EXCEPT ![h] = m]
  <2>1. req' = [req EXCEPT ![h] = req[h]]
    BY <1>0, <1>3 DEF deleteJob
  <2> QED BY <1>0, <2>1
<1>4. ASSUME NEW toggle, NEW l \in Limits, configRead(h, toggle, l)
      PROVE  \E m : RequestOK(m) /\ req' = [req EXCEPT ![h] = m]
  <2> DEFINE e == IF toggle = "keep" THEN config.enabled ELSE toggle = "enable"
             g == [enabled |-> e, limit |-> l]
             b == (toggle = "disable")
             m == [IdleRequest EXCEPT !.pc = "configWrite", !.config = g, !.suspend = b]
  <2>1. req' = [req EXCEPT ![h] = m]
    BY <1>4 DEF configRead
  <2>2. e \in BOOLEAN /\ b \in BOOLEAN
    BY <1>0 DEF Configs
  <2> HIDE DEF e, b
  <2>3. g \in Configs
    BY <2>2 DEF Configs
  <2> HIDE DEF g
  <2>4. RequestOK(m)
    BY <1>0, <2>2, <2>3, DefaultTypes DEF IdleRequest, RequestOK, RequestMemory, RequestPCs
  <2> QED BY <2>1, <2>4
<1>5. CASE req' = [req EXCEPT ![h] = IdleRequest]
  BY <1>5, IdleTypes
<1>6. CASE createCount(h) \/ resumeCount(h) \/ upsertConfig(h)
  <2>1. CASE req' # [req EXCEPT ![h] = IdleRequest]
    <3>1. \/ req[h].pc = "createCount" /\ req' = [req EXCEPT ![h].pc = "createInsert"]
          \/ req[h].pc = "resumeCount" /\ req' = [req EXCEPT ![h].pc = "resume"]
          \/ req' = [req EXCEPT ![h].pc = "suspendSelect"]
      BY <1>6, <2>1 DEF createCount, resumeCount, upsertConfig, Reach, Respond
    <3>2. PICK to \in {"createInsert", "resume", "suspendSelect"} :
            /\ req' = [req EXCEPT ![h].pc = to]
            /\ to # "suspendSelect" => req[h].pc \in {"createCount", "resumeCount"}
      BY <3>1
    <3> DEFINE m == [req[h] EXCEPT !.pc = to]
    <3>3. req' = [req EXCEPT ![h] = m]
      BY <1>0, <3>2
    <3>4. RequestOK(m)
      BY <1>0, <3>2 DEF RequestOK, RequestMemory, RequestPCs
    <3> QED BY <3>3, <3>4
  <2> QED BY <1>5, <2>1
<1>7. CASE resumeConfig(h)
  <2>1. CASE req' # [req EXCEPT ![h] = IdleRequest]
    <3> DEFINE m == [req[h] EXCEPT !.pc = "resumeCount", !.config = config]
    <3>1. req' = [req EXCEPT ![h] = m] /\ req[h].pc = "resumeConfig"
      BY <1>0, <1>7, <2>1 DEF resumeConfig, Respond
    <3>2. RequestOK(m)
      BY <1>0, <3>1 DEF RequestOK, RequestMemory, RequestPCs
    <3> QED BY <3>1, <3>2
  <2> QED BY <1>5, <2>1
<1>8. CASE getActiveJobsToSuspend(h)
  <2>1. CASE req' # [req EXCEPT ![h] = IdleRequest]
    <3> DEFINE m == [req[h] EXCEPT !.pc = "suspend", !.ids = ActiveJobs]
    <3>1. req' = [req EXCEPT ![h] = m]
      BY <1>0, <1>8, <2>1 DEF getActiveJobsToSuspend, Respond
    <3>2. ActiveJobs \subseteq Jobs
      BY DEF ActiveJobs
    <3>3. RequestOK(m)
      BY <1>0, <3>2 DEF RequestOK, RequestMemory, RequestPCs
    <3> QED BY <3>1, <3>3
  <2> QED BY <1>5, <2>1
<1>9. CASE \/ createInsert(h) \/ pauseJob(h) \/ resumeJob(h) \/ editJob(h)
           \/ suspendJobs(h) \/ crashRequest(h)
  BY <1>5, <1>9 DEF createInsert, pauseJob, resumeJob, editJob, suspendJobs, crashRequest,
                    Respond
<1> QED BY <1>1, <1>2, <1>3, <1>4, <1>6, <1>7, <1>8, <1>9 DEF RequestStart, RequestStep

\* A request touches neither the executions nor the other processes.
LEMMA RequestFrame ==
  ASSUME NEW h \in Handlers, RequestStart(h) \/ RequestStep(h) \/ crashRequest(h)
  PROVE  UNCHANGED <<now, exec, started, invoked, acted, trig, runr>>
  BY DEF RequestStart, RequestStep, crashRequest, createReadConfig, readCurrent, deleteJob,
         configRead, createCount, createInsert, pauseJob, resumeConfig, resumeCount,
         resumeJob, editJob, upsertConfig, getActiveJobsToSuspend, suspendJobs,
         restUnchanged, othersUnchanged, execVars, outside

\* A request's step keeps every type.
LEMMA RequestTypeOK ==
  ASSUME TypeOK, NEW h \in Handlers, RequestStart(h) \/ RequestStep(h) \/ crashRequest(h)
  PROVE  TypeOK'
<1>1. PICK m : RequestOK(m) /\ req' = [req EXCEPT ![h] = m]
  BY RequestMemoryStep
<1>2. RequestsOK'
  BY <1>1 DEF TypeOK, RequestsOK, RequestOK, RequestMemory
<1>3. TriggersOK' /\ RunnersOK'
  BY RequestFrame DEF TypeOK, TriggersOK, RunnersOK
<1>4. /\ TablesOK /\ RequestOK(req[h])
  BY DEF TypeOK, RequestsOK, RequestOK, RequestMemory
<1>5. config' \in Configs /\ requests' \in 0..MaxRequests /\ faults' \in 0..MaxFaults
  <2>1. CASE upsertConfig(h)
    BY <1>4, <2>1
    DEF upsertConfig, RequestOK, RequestMemory, TablesOK, restUnchanged, othersUnchanged
  <2>2. CASE crashRequest(h)
    BY <1>4, <2>2, BoundsAssumption DEF crashRequest, TablesOK
  <2>3. CASE RequestStart(h)
    <3>1. config' = config /\ faults' = faults
      BY <2>3
      DEF RequestStart, createReadConfig, readCurrent, deleteJob, configRead, othersUnchanged
    <3>2. requests < MaxRequests /\ requests' = requests + 1
      BY <2>3
      DEF RequestStart, createReadConfig, readCurrent, deleteJob, configRead, Accept
    <3> QED BY <1>4, <3>1, <3>2, BoundsAssumption DEF TablesOK
  <2>4. CASE RequestStep(h) /\ ~upsertConfig(h)
    BY <1>4, <2>4
    DEF RequestStep, createCount, createInsert, pauseJob, resumeConfig, resumeCount, resumeJob,
        editJob, getActiveJobsToSuspend, suspendJobs, restUnchanged, othersUnchanged, TablesOK
  <2> QED BY <2>1, <2>2, <2>3, <2>4 DEF RequestStep
<1>6. /\ status' \in [Jobs -> Statuses] /\ deletedAt' \in [Jobs -> BOOLEAN]
      /\ failures' \in [Jobs -> Int] /\ plan' \in [Jobs -> Plans]
  <2>0. /\ status \in [Jobs -> Statuses] /\ deletedAt \in [Jobs -> BOOLEAN]
        /\ failures \in [Jobs -> Int] /\ plan \in [Jobs -> Plans] /\ now \in Time
        /\ req[h].plan.cron \in Crons /\ req[h].plan.next \in Slots
        /\ req[h].pc \in {"createInsert", "pause", "resume", "edit"} => req[h].job \in Jobs
    BY <1>4 DEF TablesOK, RequestOK, RequestMemory, Plans
  <2>1. CASE createInsert(h)
    <3>1. 0 \in Time /\ req[h].job \in Jobs
      BY <2>0, <2>1, BoundsAssumption DEF Time, createInsert
    <3>2. \A next \in Slots : buildJobRecord(req[h].plan.cron, next) \in Plans
      BY <2>0, <3>1 DEF buildJobRecord, Plans
    <3>3. plan' \in [Jobs -> Plans]
      <4>1. PICK next \in Slots :
              plan' = [plan EXCEPT ![req[h].job] = buildJobRecord(req[h].plan.cron, next)]
        BY <2>1 DEF createInsert
      <4> QED BY <2>0, <3>1, <3>2, <4>1
    <3>4. status' \in [Jobs -> Statuses]
      BY <2>0, <2>1, <3>1 DEF createInsert, Statuses, BodyStatuses
    <3>5. failures' \in [Jobs -> Int]
      BY <2>0, <2>1, <3>1, BoundsAssumption DEF createInsert
    <3> QED BY <2>0, <2>1, <3>3, <3>4, <3>5 DEF createInsert
  <2>2. CASE pauseJob(h) \/ suspendJobs(h)
    BY <2>0, <2>2 DEF pauseJob, suspendJobs, Statuses
  <2>3. CASE resumeJob(h)
    <3>1. nextRunAt(req[h].plan.cron, now) \in Slots
      BY <2>0, NextRunType
    <3>2. plan' \in [Jobs -> Plans]
      BY <2>0, <2>3, <3>1, PlanUpdates DEF resumeJob
    <3>3. status' \in [Jobs -> Statuses]
      BY <2>0, <2>3 DEF resumeJob, Statuses
    <3> QED BY <2>0, <2>3, <3>2, <3>3 DEF resumeJob
  <2>4. CASE editJob(h)
    <3>1. \A c \in Crons : nextRunAt(c, now) \in Slots
      BY <2>0, NextRunType
    <3>2. PICK c \in Crons, n \in Slots :
            plan' = [plan EXCEPT ![req[h].job].cron = c, ![req[h].job].next = n]
      BY <2>0, <2>4, <3>1 DEF editJob
    <3>3. req[h].job \in Jobs
      BY <2>0, <2>4 DEF editJob
    <3>4. plan' \in [Jobs -> Plans]
      BY <2>0, <3>2, <3>3, PlanUpdates
    <3> QED BY <2>0, <2>4, <3>4 DEF editJob
  <2>5. ASSUME NEW j \in Jobs, deleteJob(h, j)
        PROVE  /\ status' \in [Jobs -> Statuses] /\ deletedAt' \in [Jobs -> BOOLEAN]
               /\ failures' \in [Jobs -> Int] /\ plan' \in [Jobs -> Plans]
    BY <2>0, <2>5 DEF deleteJob, Statuses
  <2>6. CASE UNCHANGED jobVars
    BY <2>0, <2>6 DEF jobVars
  <2> QED BY <2>1, <2>2, <2>3, <2>4, <2>5, <2>6
    DEF RequestStart, RequestStep, createReadConfig, readCurrent, configRead, createCount,
        resumeConfig, resumeCount, upsertConfig, getActiveJobsToSuspend, crashRequest
<1>7. TablesOK'
  BY <1>4, <1>5, <1>6, RequestFrame DEF TablesOK
<1> QED BY <1>2, <1>3, <1>7 DEF TypeOK

-----------------------------------------------------------------------------
(* The executions. *)

\* Triggers and runners at work name cells of the table.
LEMMA WorkedOn ==
  ASSUME TypeOK
  PROVE  /\ \A w \in Runners : runr[w].pc # "idle" =>
               runr[w].job \in Jobs /\ runr[w].slot \in Slots
         /\ \A q \in Triggers : trig[q].pc = "invoke" =>
               trig[q].job \in Jobs /\ trig[q].plan.next \in Slots
<1>1. \A w \in Runners : runr[w].pc # "idle" =>
         runr[w].job \in Jobs /\ runr[w].slot \in Slots
  BY DEF TypeOK, RunnersOK, TablesOK
<1>2. \A q \in Triggers : trig[q].pc = "invoke" =>
         trig[q].job \in Jobs /\ trig[q].plan.next \in Slots
  <2>1. \A q \in Triggers : trig[q].plan \in Plans
    BY DEF TypeOK, TriggersOK
  <2>2. \A q \in Plans : q.next \in Slots
    BY DEF Plans
  <2> QED BY <2>1, <2>2 DEF TypeOK, TriggersOK
<1> QED BY <1>1, <1>2

\* How a step changes the table of executions: a trigger fills cells that are
\* empty, and only with slots that are due.
LEMMA TriggerCells ==
  ASSUME TypeOK, DueInv, NEW p \in Triggers,
         selectDueJobs(p) \/ TriggerStep(p) \/ crashTrigger(p)
  PROVE  \A j \in Jobs, s \in Slots :
            \/ exec'[j][s] = exec[j][s]
            \/ exec[j][s] = "absent" /\ exec'[j][s] \in {"missed", "running"} /\ s <= now
<1> DEFINE Filled == \A j \in Jobs, s \in Slots :
              \/ exec'[j][s] = exec[j][s]
              \/ exec[j][s] = "absent" /\ exec'[j][s] \in {"missed", "running"} /\ s <= now
<1>0. /\ TriggerOK(trig[p]) /\ DueOK(trig[p], now)
      /\ exec \in [Jobs -> [Slots -> ExecStatuses]]
  BY DEF TypeOK, TriggersOK, TablesOK, TriggerOK, TriggerMemory, DueInv
<1>1. ASSUME NEW s \in Slots, insertMissed(p, s) PROVE Filled
  <2> DEFINE j == trig[p].job
             v == IF exec[j][s] = "absent" THEN "missed" ELSE exec[j][s]
  <2>1. j \in Jobs /\ s <= now
    BY <1>0, <1>1 DEF insertMissed, TriggerOK, DueOK
  <2>2. v \in ExecStatuses
    BY <1>0, <2>1 DEF ExecStatuses
  <2>3. exec' = [exec EXCEPT ![j][s] = v]
    BY <1>1 DEF insertMissed
  <2>4. v = exec[j][s] \/ (exec[j][s] = "absent" /\ v = "missed")
    OBVIOUS
  <2> HIDE DEF v
  <2>5. /\ exec'[j][s] = v
        /\ \A k \in Jobs, u \in Slots : k # j \/ u # s => exec'[k][u] = exec[k][u]
    BY <1>0, <2>1, <2>2, <2>3, CellUpdate
  <2> QED BY <2>1, <2>4, <2>5
<1>2. CASE insertExecution(p)
  <2> DEFINE j == trig[p].job
             s == trig[p].plan.next
  <2>1. j \in Jobs /\ s \in Slots /\ s <= now
    BY <1>0, <1>2 DEF insertExecution, TriggerOK, TriggerMemory, Plans, DueOK
  <2>2. CASE exec[j][s] = "absent"
    <3>1. exec' = [exec EXCEPT ![j][s] = "running"]
      BY <1>2, <2>2 DEF insertExecution
    <3>2. "running" \in ExecStatuses
      BY DEF ExecStatuses
    <3>3. /\ exec'[j][s] = "running"
          /\ \A k \in Jobs, u \in Slots : k # j \/ u # s => exec'[k][u] = exec[k][u]
      BY <1>0, <2>1, <3>1, <3>2, CellUpdate
    <3> QED BY <2>1, <2>2, <3>3
  <2>3. CASE exec[j][s] # "absent"
    BY <1>2, <2>3 DEF insertExecution
  <2> QED BY <2>2, <2>3
<1>3. CASE \/ selectDueJobs(p) \/ nextJob(p) \/ invokeRunner(p) \/ advanceJob(p)
           \/ crashTrigger(p)
  BY <1>3 DEF selectDueJobs, nextJob, invokeRunner, advanceJob, crashTrigger, execVars
<1> QED BY <1>1, <1>2, <1>3 DEF TriggerStep

\* A trigger that is about to invoke a runner has its execution in the table.
LEMMA TriggerInvokes ==
  ASSUME TypeOK, DueInv, ExecInv, NEW p \in Triggers,
         selectDueJobs(p) \/ TriggerStep(p) \/ crashTrigger(p)
  PROVE  /\ trig'[p].pc = "invoke" =>
               exec'[trig'[p].job][trig'[p].plan.next] = "running"
         /\ \A q \in Triggers \ {p} : trig'[q] = trig[q]
         /\ \A x \in invoked' \ invoked :
               x = <<trig[p].job, trig[p].plan.next>> /\ trig[p].pc = "invoke"
<1>0. /\ trig \in [Triggers -> TriggerMemory] /\ TriggerOK(trig[p])
      /\ exec \in [Jobs -> [Slots -> ExecStatuses]]
  BY DEF TypeOK, TriggersOK, TablesOK, TriggerOK, TriggerMemory
<1>1. \A q \in Triggers \ {p} : trig'[q] = trig[q]
  BY <1>0, TriggerMemoryStep
<1>2. \A x \in invoked' \ invoked :
         x = <<trig[p].job, trig[p].plan.next>> /\ trig[p].pc = "invoke"
  BY DEF selectDueJobs, TriggerStep, crashTrigger, nextJob, insertMissed, insertExecution,
         invokeRunner, advanceJob, outside
<1>3. ASSUME trig'[p].pc = "invoke"
      PROVE  exec'[trig'[p].job][trig'[p].plan.next] = "running"
  <2>1. insertExecution(p)
    <3>1. ~selectDueJobs(p)
      BY <1>0, <1>3 DEF selectDueJobs, IdleTrigger
    <3>2. ~nextJob(p) /\ ~crashTrigger(p)
      BY <1>0, <1>3 DEF nextJob, crashTrigger, IdleTrigger
    <3>3. \A s \in Slots : ~insertMissed(p, s)
      BY <1>0, <1>3 DEF insertMissed, TriggerMemory
    <3>4. ~invokeRunner(p) /\ ~advanceJob(p)
      BY <1>0, <1>3 DEF invokeRunner, advanceJob, TriggerMemory
    <3> QED BY <3>1, <3>2, <3>3, <3>4 DEF TriggerStep
  <2> DEFINE j == trig[p].job
             s == trig[p].plan.next
  <2>2. j \in Jobs /\ s \in Slots
    BY <1>0, <2>1 DEF insertExecution, TriggerOK, TriggerMemory, Plans
  <2>3. exec[j][s] = "absent"
    BY <1>0, <1>3, <2>1 DEF insertExecution, TriggerMemory
  <2>4. /\ exec' = [exec EXCEPT ![j][s] = "running"]
        /\ trig' = [trig EXCEPT ![p].pc = "invoke"]
    BY <2>1, <2>3 DEF insertExecution
  <2>5. trig'[p].job = j /\ trig'[p].plan.next = s
    BY <1>0, <2>4 DEF TriggerMemory
  <2>6. "running" \in ExecStatuses
    BY DEF ExecStatuses
  <2>7. exec'[j][s] = "running"
    BY <1>0, <2>2, <2>4, <2>6, CellUpdate
  <2> QED BY <2>5, <2>7
<1> QED BY <1>1, <1>2, <1>3

\* A trigger's step keeps the invariant of the executions.
LEMMA TriggerInv ==
  ASSUME TypeOK, Inv, NEW p \in Triggers,
         selectDueJobs(p) \/ TriggerStep(p) \/ crashTrigger(p)
  PROVE  ExecInv' /\ NeverEarly'
<1> USE DEF Inv
<1>0. /\ now' = now /\ runr' = runr /\ started' = started /\ acted' = acted
      /\ invoked \subseteq invoked'
  BY DEF selectDueJobs, TriggerStep, crashTrigger, nextJob, insertMissed, insertExecution,
         invokeRunner, advanceJob, execVars, outside
<1>1. \A j \in Jobs, s \in Slots :
         \/ exec'[j][s] = exec[j][s]
         \/ exec[j][s] = "absent" /\ exec'[j][s] \in {"missed", "running"} /\ s <= now
  BY TriggerCells
<1>2. NeverEarly'
  BY <1>0, <1>1 DEF NeverEarly
<1>3. /\ trig'[p].pc = "invoke" => exec'[trig'[p].job][trig'[p].plan.next] = "running"
      /\ \A q \in Triggers \ {p} : trig'[q] = trig[q]
      /\ \A x \in invoked' \ invoked :
            x = <<trig[p].job, trig[p].plan.next>> /\ trig[p].pc = "invoke"
  BY TriggerInvokes
<1>4. /\ \A w \in Runners : runr[w].pc \in Running => runr[w].job \in Jobs /\ runr[w].slot \in Slots
      /\ \A q \in Triggers : trig[q].pc = "invoke" =>
            trig[q].job \in Jobs /\ trig[q].plan.next \in Slots
  BY WorkedOn DEF Running
<1>5. \A j \in Jobs, s \in Slots :
         exec[j][s] \in {"running"} \cup Outcomes => exec'[j][s] = exec[j][s]
  BY <1>1 DEF Outcomes
<1>6. \A w \in Runners : runr'[w].pc \in Running =>
         started'[runr'[w].job][runr'[w].slot] /\ exec'[runr'[w].job][runr'[w].slot] = "running"
  BY <1>0, <1>4, <1>5 DEF ExecInv
<1>7. \A j \in Jobs, s \in Slots :
         ~started'[j][s] => acted'[j][s] = 0 /\ exec'[j][s] \notin Outcomes
  BY <1>0, <1>1 DEF ExecInv, Outcomes
<1>8. \A j \in Jobs, s \in Slots :
         <<j, s>> \in invoked' => exec'[j][s] \in {"running"} \cup Outcomes
  <2> SUFFICES ASSUME NEW j \in Jobs, NEW s \in Slots, <<j, s>> \in invoked'
               PROVE  exec[j][s] \in {"running"} \cup Outcomes
    BY <1>5
  <2>1. CASE <<j, s>> \in invoked
    BY <2>1 DEF ExecInv
  <2>2. CASE <<j, s>> \notin invoked
    BY <1>3, <2>2 DEF ExecInv
  <2> QED BY <2>1, <2>2
<1>9. \A q \in Triggers : trig'[q].pc = "invoke" =>
         exec'[trig'[q].job][trig'[q].plan.next] \in {"running"} \cup Outcomes
  <2> SUFFICES ASSUME NEW q \in Triggers, trig'[q].pc = "invoke"
               PROVE  exec'[trig'[q].job][trig'[q].plan.next] \in {"running"} \cup Outcomes
    OBVIOUS
  <2>1. CASE q = p
    BY <1>3, <2>1
  <2>2. CASE q # p
    BY <1>3, <1>4, <1>5, <2>2 DEF ExecInv
  <2> QED BY <2>1, <2>2
<1>10. ExecInv'
  BY <1>0, <1>6, <1>7, <1>8, <1>9 DEF ExecInv
<1> QED BY <1>2, <1>10

\* A runner's step keeps the invariant of the executions: only one runner gets
\* past the claim, and only that one calls the action and writes the result.
LEMMA RunnerInv ==
  ASSUME TypeOK, ExecInv, NeverEarly, NEW w \in Runners,
         \/ \E j \in Jobs, s \in Slots : readJob(w, j, s)
         \/ RunnerStep(w) \/ actionReturns(w) \/ crashRunner(w)
  PROVE  /\ ExecInv' /\ NeverEarly'
         /\ \A j \in Jobs, s \in Slots :
              /\ exec[j][s] \in Outcomes \cup {"missed"} => exec'[j][s] = exec[j][s]
              /\ started[j][s] => started'[j][s]
<1>0. /\ trig' = trig /\ invoked' = invoked /\ now' = now
      /\ runr \in [Runners -> RunnerMemory]
      /\ exec \in [Jobs -> [Slots -> ExecStatuses]]
      /\ started \in [Jobs -> [Slots -> BOOLEAN]]
      /\ acted \in [Jobs -> [Slots -> Nat]]
  <2>1. trig' = trig /\ invoked' = invoked /\ now' = now
    BY DEF readJob, RunnerStep, crashRunner, claimExecution, invokeAction, actionReturns,
           finalizeExecution, incrementFailureCount, outside
  <2> QED BY <2>1 DEF TypeOK, RunnersOK, RunnerMemory, TablesOK
<1>1. /\ \A v \in Runners : runr[v].pc # "idle" => runr[v].job \in Jobs /\ runr[v].slot \in Slots
      /\ \A q \in Triggers : trig[q].pc = "invoke" =>
            trig[q].job \in Jobs /\ trig[q].plan.next \in Slots
      /\ runr[w].pc # "idle" => <<runr[w].job, runr[w].slot>> \in invoked
  BY WorkedOn DEF TypeOK, RunnersOK
<1>2. \A v \in Runners \ {w} : runr'[v] = runr[v]
  BY <1>0, RunnerMemoryStep
<1> DEFINE j == runr[w].job
           s == runr[w].slot
<1>3. CASE UNCHANGED <<exec, started, acted>> /\ runr'[w].pc \notin Running
  <2>1. \A v \in Runners : runr'[v].pc \in Running => runr'[v] = runr[v]
    BY <1>2, <1>3
  <2>2. ExecInv'
    BY <1>0, <1>3, <2>1 DEF ExecInv, Running
  <2> QED BY <1>0, <1>3, <2>2 DEF NeverEarly
<1>4. CASE claimExecution(w)
  <2>1. j \in Jobs /\ s \in Slots /\ <<j, s>> \in invoked
    BY <1>1, <1>4 DEF claimExecution
  <2>2. CASE started[j][s]
    BY <1>0, <1>3, <1>4, <2>2, IdleTypes DEF claimExecution, Running, outside
  <2>3. CASE ~started[j][s]
    <3>1. /\ started' = [started EXCEPT ![j][s] = TRUE]
          /\ runr' = [runr EXCEPT ![w].pc = "act"]
          /\ exec' = exec /\ acted' = acted
      BY <1>4, <2>3 DEF claimExecution, outside
    <3>2. /\ started'[j][s]
          /\ \A k \in Jobs, u \in Slots : k # j \/ u # s => started'[k][u] = started[k][u]
      <4>1. started[j] \in [Slots -> BOOLEAN]
        BY <1>0, <2>1
      <4>2. started' = [started EXCEPT ![j] = [started[j] EXCEPT ![s] = TRUE]]
        BY <3>1, Zenon
      <4>3. started'[j] = [started[j] EXCEPT ![s] = TRUE]
        BY <1>0, <2>1, <4>2
      <4>4. \A k \in Jobs : k # j => started'[k] = started[k]
        BY <1>0, <4>2
      <4>5. started'[j][s]
        BY <2>1, <4>1, <4>3
      <4>6. \A u \in Slots : u # s => started'[j][u] = started[j][u]
        BY <2>1, <4>1, <4>3
      <4> QED BY <4>4, <4>5, <4>6
    <3>3. runr'[w].pc = "act" /\ runr'[w].job = j /\ runr'[w].slot = s
      BY <1>0, <3>1 DEF RunnerMemory
    <3>4. acted[j][s] = 0 /\ exec[j][s] = "running"
      BY <2>1, <2>3 DEF ExecInv
    <3>5. \A v \in Runners \ {w} : runr[v].pc \in Running => runr[v].job # j \/ runr[v].slot # s
      BY <2>3 DEF ExecInv
    <3>6. \A k \in Jobs, u \in Slots : started[k][u] => started'[k][u]
      BY <3>2
    <3>7. \A v \in Runners : runr'[v].pc \in Running =>
             started'[runr'[v].job][runr'[v].slot] /\ exec'[runr'[v].job][runr'[v].slot] = "running"
      BY <1>1, <1>2, <3>1, <3>2, <3>3, <3>4, <3>6 DEF ExecInv, Running
    <3>8. \A v \in Runners : runr'[v].pc = "act" => acted'[runr'[v].job][runr'[v].slot] = 0
      BY <1>2, <3>1, <3>3, <3>4 DEF ExecInv
    <3>9. \A u, v \in Runners :
             /\ runr'[v].pc \in Running /\ runr'[u].pc \in Running
             /\ runr'[v].job = runr'[u].job /\ runr'[v].slot = runr'[u].slot
             => u = v
      BY <1>2, <3>3, <3>5 DEF ExecInv
    <3>10. \A k \in Jobs, u \in Slots :
             ~started'[k][u] => acted'[k][u] = 0 /\ exec'[k][u] \notin Outcomes
      BY <3>1, <3>6 DEF ExecInv
    <3>11. ExecInv'
      BY <1>0, <3>1, <3>7, <3>8, <3>9, <3>10 DEF ExecInv
    <3> QED BY <1>0, <3>1, <3>6, <3>11 DEF NeverEarly
  <2> QED BY <2>2, <2>3
<1>5. CASE invokeAction(w)
  <2>1. j \in Jobs /\ s \in Slots /\ <<j, s>> \in invoked /\ acted[j][s] = 0
    BY <1>1, <1>5 DEF invokeAction, ExecInv
  <2>2. runr' = [runr EXCEPT ![w].pc = "await"]
    BY <1>5 DEF invokeAction
  <2>3. exec' = exec /\ started' = started /\ acted' = [acted EXCEPT ![j][s] = acted[j][s] + 1]
    BY <1>5 DEF invokeAction, execVars
  <2>4. runr'[w].pc = "await" /\ runr'[w].job = j /\ runr'[w].slot = s /\ runr[w].pc = "act"
    BY <1>0, <1>5, <2>2 DEF RunnerMemory, invokeAction
  <2>5. acted[j][s] + 1 = 1 /\ 1 \in Nat
    BY <2>1
  <2>6. /\ acted'[j][s] = 1
        /\ \A k \in Jobs, u \in Slots : k # j \/ u # s => acted'[k][u] = acted[k][u]
    BY <1>0, <2>1, <2>3, <2>5, CellUpdate
  <2>7. \A v \in Runners \ {w} : runr[v].pc \in Running => runr[v].job # j \/ runr[v].slot # s
    BY <2>4 DEF ExecInv, Running
  <2>8. \A v \in Runners : runr'[v].pc \in Running =>
           /\ runr[v].pc \in Running
           /\ runr'[v].job = runr[v].job /\ runr'[v].slot = runr[v].slot
    BY <1>2, <2>4 DEF Running
  <2>9. \A v \in Runners : runr'[v].pc = "act" => acted'[runr'[v].job][runr'[v].slot] = 0
    <3> SUFFICES ASSUME NEW v \in Runners, runr'[v].pc = "act"
                 PROVE  acted'[runr'[v].job][runr'[v].slot] = 0
      OBVIOUS
    <3>1. v # w /\ runr'[v] = runr[v]
      BY <1>2, <2>4
    <3>2. runr[v].job \in Jobs /\ runr[v].slot \in Slots /\ acted[runr[v].job][runr[v].slot] = 0
      BY <1>1, <3>1 DEF ExecInv
    <3>3. runr[v].job # j \/ runr[v].slot # s
      BY <2>7, <3>1 DEF Running
    <3> QED BY <2>6, <3>1, <3>2, <3>3
  <2>10. started[j][s]
    BY <2>4 DEF ExecInv, Running
  <2>11. \A k \in Jobs, u \in Slots :
           ~started'[k][u] => acted'[k][u] = 0 /\ exec'[k][u] \notin Outcomes
    BY <2>3, <2>6, <2>10 DEF ExecInv
  <2>12. \A k \in Jobs, u \in Slots :
           acted'[k][u] <= 1 /\ (acted'[k][u] = 1 => <<k, u>> \in invoked')
    <3> SUFFICES ASSUME NEW k \in Jobs, NEW u \in Slots
                 PROVE  acted'[k][u] <= 1 /\ (acted'[k][u] = 1 => <<k, u>> \in invoked)
      BY <1>0
    <3>1. CASE k = j /\ u = s
      BY <2>1, <2>6, <3>1
    <3>2. CASE k # j \/ u # s
      BY <2>6, <3>2 DEF ExecInv
    <3> QED BY <3>1, <3>2
  <2>13. \A v \in Runners : runr'[v].pc \in Running =>
           started'[runr'[v].job][runr'[v].slot] /\ exec'[runr'[v].job][runr'[v].slot] = "running"
    BY <2>3, <2>8 DEF ExecInv
  <2>14. \A u, v \in Runners :
           /\ runr'[u].pc \in Running /\ runr'[v].pc \in Running
           /\ runr'[u].job = runr'[v].job /\ runr'[u].slot = runr'[v].slot
           => u = v
    BY <2>8 DEF ExecInv
  <2>15. ExecInv'
    BY <1>0, <2>3, <2>9, <2>11, <2>12, <2>13, <2>14 DEF ExecInv
  <2> QED BY <1>0, <2>3, <2>15 DEF NeverEarly
<1>6. CASE finalizeExecution(w)
  <2>1. j \in Jobs /\ s \in Slots /\ <<j, s>> \in invoked
    BY <1>1, <1>6 DEF finalizeExecution
  <2>2. started[j][s] /\ exec[j][s] = "running" /\ runr[w].pc = "finalize"
    BY <1>6 DEF finalizeExecution, ExecInv, Running
  <2>3. runr[w].outcome \in Outcomes /\ runr[w].outcome \in ExecStatuses
    BY <1>0 DEF RunnerMemory, ExecStatuses
  <2>4. /\ exec' = [exec EXCEPT ![j][s] = runr[w].outcome]
        /\ started' = started /\ acted' = acted
        /\ runr' = [runr EXCEPT ![w].pc = "count"]
    BY <1>6 DEF finalizeExecution, outside
  <2>5. /\ exec'[j][s] \in Outcomes
        /\ \A k \in Jobs, u \in Slots : k # j \/ u # s => exec'[k][u] = exec[k][u]
    BY <1>0, <2>1, <2>3, <2>4, CellUpdate
  <2>6. runr'[w].pc = "count"
    BY <1>0, <2>4 DEF RunnerMemory
  <2>7. \A v \in Runners : runr'[v].pc \in Running =>
           runr'[v] = runr[v] /\ (runr[v].job # j \/ runr[v].slot # s)
    BY <1>2, <2>2, <2>6 DEF ExecInv, Running
  <2>8. \A v \in Runners : runr'[v].pc \in Running =>
           started'[runr'[v].job][runr'[v].slot] /\ exec'[runr'[v].job][runr'[v].slot] = "running"
    BY <1>1, <2>4, <2>5, <2>7 DEF ExecInv, Running
  <2>9. \A v \in Runners : runr'[v].pc = "act" => acted'[runr'[v].job][runr'[v].slot] = 0
    BY <2>4, <2>7 DEF ExecInv, Running
  <2>10. \A k \in Jobs, u \in Slots :
           ~started'[k][u] => acted'[k][u] = 0 /\ exec'[k][u] \notin Outcomes
    BY <2>2, <2>4, <2>5 DEF ExecInv
  <2>11. \A k \in Jobs, u \in Slots :
           exec[k][u] \in {"running"} \cup Outcomes => exec'[k][u] \in {"running"} \cup Outcomes
    BY <2>5
  <2>12. ExecInv'
    BY <1>0, <1>1, <2>4, <2>7, <2>8, <2>9, <2>10, <2>11 DEF ExecInv
  <2>13. NeverEarly'
    BY <1>0, <2>2, <2>5 DEF NeverEarly
  <2> QED BY <2>2, <2>4, <2>5, <2>12, <2>13 DEF Outcomes
<1>7. ASSUME NEW k \in Jobs, NEW u \in Slots, readJob(w, k, u)
      PROVE  UNCHANGED <<exec, started, acted>> /\ runr'[w].pc \notin Running
  BY <1>0, <1>7 DEF readJob, Running, execVars, outside, IdleRunner
<1>8. CASE incrementFailureCount(w) \/ crashRunner(w)
  BY <1>0, <1>3, <1>8, IdleTypes DEF incrementFailureCount, crashRunner, Running, execVars, outside
<1>9. CASE actionReturns(w)
  <2>1. exec' = exec /\ started' = started /\ acted' = acted
    BY <1>9 DEF actionReturns, execVars, outside
  <2>2. PICK o \in Outcomes : runr' = [runr EXCEPT ![w].pc = "finalize", ![w].outcome = o]
    BY <1>9 DEF actionReturns
  <2>3. /\ runr'[w].pc = "finalize" /\ runr'[w].job = j /\ runr'[w].slot = s
        /\ runr[w].pc = "await"
    <3>1. runr[w] \in RunnerMemory /\ runr[w].pc = "await"
      BY <1>0, <1>9 DEF actionReturns
    <3>2. runr'[w] = [runr[w] EXCEPT !.pc = "finalize", !.outcome = o]
      BY <1>0, <2>2
    <3> QED BY <3>1, <3>2 DEF RunnerMemory
  <2>4. \A v \in Runners : runr'[v].pc \in Running =>
           /\ runr[v].pc \in Running
           /\ runr'[v].job = runr[v].job /\ runr'[v].slot = runr[v].slot
           /\ runr'[v].pc = "act" => runr[v].pc = "act"
    BY <1>2, <2>3 DEF Running
  <2>5. \A v \in Runners : runr'[v].pc = "act" => acted'[runr'[v].job][runr'[v].slot] = 0
    BY <2>1, <2>4 DEF ExecInv, Running
  <2>6. \A v \in Runners : runr'[v].pc \in Running =>
           started'[runr'[v].job][runr'[v].slot] /\ exec'[runr'[v].job][runr'[v].slot] = "running"
    BY <2>1, <2>4 DEF ExecInv
  <2>7. \A u, v \in Runners :
           /\ runr'[u].pc \in Running /\ runr'[v].pc \in Running
           /\ runr'[u].job = runr'[v].job /\ runr'[u].slot = runr'[v].slot
           => u = v
    BY <2>4 DEF ExecInv
  <2>8. ExecInv'
    BY <1>0, <2>1, <2>5, <2>6, <2>7 DEF ExecInv
  <2> QED BY <1>0, <2>1, <2>8 DEF NeverEarly
<1> QED BY <1>3, <1>4, <1>5, <1>6, <1>7, <1>8, <1>9 DEF RunnerStep

-----------------------------------------------------------------------------
(* Theorems. *)

\* Time passing takes nothing back.
LEMMA TickInv ==
  ASSUME TypeOK, Inv, Tick
  PROVE  TypeOK' /\ Inv'
<1>1. /\ UNCHANGED <<config, status, deletedAt, failures, plan, exec, started, invoked, acted,
                     trig, runr, req, requests, faults>>
      /\ now' = now + 1 /\ now \in Int /\ now' \in Time
  BY BoundsAssumption DEF Tick, TypeOK, TablesOK, Time, jobVars, execVars, outside, counters
<1>2. TypeOK'
  BY <1>1 DEF TypeOK, TablesOK, TriggersOK, RunnersOK, RequestsOK
<1>3. NeverEarly'
  BY <1>1 DEF Inv, NeverEarly, Slots
<1>4. DueInv'
  <2> SUFFICES ASSUME NEW p \in Triggers PROVE DueOK(trig[p], now + 1)
    BY <1>1 DEF DueInv, DueOK
  <2>1. trig[p] \in TriggerMemory /\ DueOK(trig[p], now)
    BY DEF TypeOK, TriggersOK, TriggerMemory, Inv, DueInv
  <2>2. \A n \in Slots : n <= now => n <= now + 1
    BY <1>1 DEF Slots
  <2>3. \A row \in trig[p].due : row[2] \in Plans /\ row[3] \in SUBSET Slots
    BY <2>1 DEF TriggerMemory
  <2>4. \A q \in Plans : q.next \in Slots
    BY DEF Plans
  <2>5. trig[p].plan \in Plans /\ trig[p].missed \in SUBSET Slots
    BY <2>1 DEF TriggerMemory
  <2> QED BY <2>1, <2>2, <2>3, <2>4, <2>5 DEF DueOK
<1>5. ExecInv'
  BY <1>1 DEF Inv, ExecInv
<1> QED BY <1>2, <1>3, <1>4, <1>5 DEF Inv

\* The result of an execution and its claim are never taken back by a step.
LEMMA NextInv ==
  ASSUME TypeOK, Inv, [Next]_vars
  PROVE  /\ TypeOK' /\ Inv'
         /\ \A j \in Jobs, s \in Slots :
              /\ exec[j][s] \in Outcomes \cup {"missed"} => exec'[j][s] = exec[j][s]
              /\ started[j][s] => started'[j][s]
<1> DEFINE Final == \A j \in Jobs, s \in Slots :
              /\ exec[j][s] \in Outcomes \cup {"missed"} => exec'[j][s] = exec[j][s]
              /\ started[j][s] => started'[j][s]
<1>1. CASE UNCHANGED vars
  <2>1. UNCHANGED <<now, config, status, deletedAt, failures, plan, exec, started, invoked,
                    acted, trig, runr, req, requests, faults>>
    BY <1>1 DEF vars, jobVars, execVars, outside, counters
  <2>2. TypeOK'
    BY <2>1 DEF TypeOK, TablesOK, TriggersOK, RunnersOK, RequestsOK
  <2>3. Inv'
    BY <2>1 DEF Inv, DueInv, NeverEarly, ExecInv
  <2> QED BY <2>1, <2>2, <2>3
<1>2. CASE Tick
  <2>1. exec' = exec /\ started' = started
    BY <1>2 DEF Tick, execVars
  <2> QED BY <1>2, <2>1, TickInv
<1>3. ASSUME NEW p \in Triggers, selectDueJobs(p) \/ TriggerStep(p) \/ crashTrigger(p)
      PROVE  TypeOK' /\ Inv' /\ Final
  <2>1. TypeOK' /\ DueInv' /\ ExecInv' /\ NeverEarly'
    BY <1>3, TriggerTypeOK, TriggerInv DEF Inv
  <2>2. started' = started
    BY <1>3 DEF selectDueJobs, TriggerStep, crashTrigger, nextJob, insertMissed,
                insertExecution, invokeRunner, advanceJob, execVars
  <2>3. Final
    BY <1>3, <2>2, TriggerCells DEF Outcomes, Inv
  <2> QED BY <2>1, <2>3 DEF Inv
<1>4. ASSUME NEW w \in Runners,
             \/ \E j \in Jobs, s \in Slots : readJob(w, j, s)
             \/ RunnerStep(w) \/ actionReturns(w) \/ crashRunner(w)
      PROVE  TypeOK' /\ Inv' /\ Final
  <2>1. TypeOK' /\ ExecInv' /\ NeverEarly' /\ Final
    BY <1>4, RunnerTypeOK, RunnerInv DEF Inv
  <2>2. trig' = trig /\ now' = now
    BY <1>4 DEF readJob, RunnerStep, crashRunner, claimExecution, invokeAction, actionReturns,
                finalizeExecution, incrementFailureCount
  <2> QED BY <2>1, <2>2 DEF Inv, DueInv
<1>5. ASSUME NEW h \in Handlers, RequestStart(h) \/ RequestStep(h) \/ crashRequest(h)
      PROVE  TypeOK' /\ Inv' /\ Final
  <2>1. TypeOK' /\ UNCHANGED <<now, exec, started, invoked, acted, trig, runr>>
    BY <1>5, RequestTypeOK, RequestFrame
  <2> QED BY <2>1 DEF Inv, DueInv, NeverEarly, ExecInv
<1> QED BY <1>1, <1>2, <1>3, <1>4, <1>5 DEF Next

\* Types, what triggers hold, and the claim of executions hold together.
LEMMA SchedulingInvariant == Spec => [](TypeOK /\ Inv)
<1>1. TypeOK /\ Inv /\ [Next]_vars => TypeOK' /\ Inv'
  BY NextInv
<1> QED BY <1>1, InitOK, PTL DEF Spec

\* Every table and every process keeps its type; in particular next_run_at and
\* last_triggered_at stay times, although triggers write them from rows they
\* selected earlier.
THEOREM TypeCorrect == Spec => []TypeOK
  BY SchedulingInvariant, PTL

\* No execution is recorded before its slot, whatever requests write to
\* next_run_at while a trigger works on the rows it has read.
THEOREM SlotsNeverEarly == Spec => []NeverEarly
<1>1. TypeOK /\ Inv => NeverEarly
  BY DEF Inv
<1> QED BY <1>1, SchedulingInvariant, PTL

\* The UNIQUE (job_id, scheduled_at) of the table and the claim on started_at
\* make the target action of a slot run at most once, for any number of
\* overlapping triggers, repeated runner invocations and crashes.
THEOREM ActionsExclusive == Spec => []ActedAtMostOnce
<1>1. TypeOK /\ Inv => ActedAtMostOnce
  BY DEF Inv, ExecInv, ActedAtMostOnce
<1> QED BY <1>1, SchedulingInvariant, PTL

\* A result and a claim, once written, stay.
THEOREM ResultsAreFinal == Spec => ResultsFinal
<1>1. TypeOK /\ Inv /\ [Next]_vars =>
        [\A j \in Jobs, s \in Slots :
           /\ exec[j][s] \in Outcomes \cup {"missed"} => exec'[j][s] = exec[j][s]
           /\ started[j][s] => started'[j][s]]_vars
  BY NextInv
<1> QED BY <1>1, SchedulingInvariant, PTL DEF Spec, ResultsFinal
=============================================================================
