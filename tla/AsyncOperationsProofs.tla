----------------------- MODULE AsyncOperationsProofs -----------------------
(***************************************************************************)
(* Proofs about AsyncOperations, for every set of operations and handlers, *)
(* every retry budget and every sweep threshold.                           *)
(***************************************************************************)
EXTENDS AsyncOperations, TLAPS

\* The sweep thresholds give a natural largest age.
LEMMA MaxAgeType == MaxAge \in Nat
  BY ThresholdAssumption DEF MaxAge

\* The memory of a handler that has returned is well formed.
LEMMA IdleType == Idle \in Request /\ Idle.pc = "idle"
  BY DEF Idle, Request, PCs

\* A fresh row and idle handlers have their types.
LEMMA InitTypeOK == Init => TypeOK
<1> SUFFICES ASSUME Init PROVE TypeOK
  OBVIOUS
<1>1. RequestsOK
  BY IdleType DEF Init, RequestsOK
<1> QED
  BY <1>1, MaxAgeType, ThresholdAssumption DEF Init, TypeOK, Statuses, NoOrphanSweep

\* A handler that returns keeps the handlers' memory well formed.
LEMMA ReturnOK ==
  ASSUME NEW h \in Handlers, RequestsOK, Return(h)
  PROVE  RequestsOK'
  BY IdleType DEF RequestsOK, Return

\* So does one that goes on to its next step.
LEMMA GoToOK ==
  ASSUME NEW h \in Handlers, NEW pc \in PCs, RequestsOK, req[h].pc # "idle", GoTo(h, pc)
  PROVE  RequestsOK'
  BY DEF RequestsOK, GoTo, Request

\* So does one that starts with a well formed memory.
LEMMA BeginOK ==
  ASSUME NEW h \in Handlers, NEW r \in Request, r.op \in Ops,
         RequestsOK, req' = [req EXCEPT ![h] = r]
  PROVE  RequestsOK'
  BY DEF RequestsOK

\* A handler that has read a row has a well formed memory.
LEMMA ReadRowType ==
  ASSUME NEW pc \in PCs, NEW o \in Ops, TypeOK
  PROVE  ReadRow(pc, o) \in Request /\ ReadRow(pc, o).op = o
  BY DEF ReadRow, Idle, Request, PCs, TypeOK

\* Starting a handler keeps every type.
LEMMA StartTypeOK ==
  ASSUME NEW h \in Handlers, NEW o \in Ops, TypeOK, StartStep(h, o)
  PROVE  TypeOK'
<1> USE MaxAgeType
<1>0. RequestsOK
  BY DEF TypeOK
<1>1. ASSUME NEW new \in Statuses, transitionOperation(h, o, new) PROVE TypeOK'
  <2>1. PICK requiresIntervention \in BOOLEAN :
          IF new = "failed"
          THEN req' = [req EXCEPT ![h] =
                 [Idle EXCEPT !.pc = "classify", !.op = o,
                    !.mustIntervene = \/ attempts[o] >= ProfileMaxRetries
                                      \/ requiresIntervention]]
          ELSE UNCHANGED req
    BY <1>1 DEF transitionOperation
  <2> DEFINE must == attempts[o] >= ProfileMaxRetries \/ requiresIntervention
             r == [Idle EXCEPT !.pc = "classify", !.op = o, !.mustIntervene = must]
  <2>2. must \in BOOLEAN
    OBVIOUS
  <2>3. r \in Request /\ r.op \in Ops
    <3> HIDE DEF must
    <3> QED BY <2>2 DEF Idle, Request, PCs
  <2>4. RequestsOK'
    <3>1. CASE new = "failed"
      <4>1. req' = [req EXCEPT ![h] = r]
        BY <2>1, <3>1
      <4> HIDE DEF r
      <4> QED BY <4>1, <2>3, <1>0, BeginOK
    <3>2. CASE new # "failed"
      BY <2>1, <3>2, <1>0 DEF RequestsOK
    <3> QED BY <3>1, <3>2
  <2> QED
    BY <1>1, <2>4 DEF TypeOK, transitionOperation, SetStatus, Touch, retryVars, sweepVars
<1>2. CASE cancelRead(h, o)
  <2> DEFINE r == [Idle EXCEPT !.pc = "cancelTx", !.op = o, !.target = cancelTarget(status[o])]
  <2>1. r \in Request /\ r.op \in Ops
    BY DEF Idle, Request, PCs, Statuses, cancelTarget
  <2>2. req' = [req EXCEPT ![h] = r]
    BY <1>2 DEF cancelRead
  <2>3. RequestsOK'
    <3> HIDE DEF r
    <3> QED BY <2>1, <2>2, <1>0, BeginOK
  <2> QED BY <1>2, <2>3 DEF TypeOK, cancelRead, rowVars, retryVars, sweepVars
<1>3. CASE retryRead(h, o)
  <2>0. ReadRow("retryTx", o) \in Request /\ ReadRow("retryTx", o).op = o
    BY ReadRowType DEF PCs
  <2>1. RequestsOK'
    BY <1>3, <1>0, <2>0, BeginOK DEF retryRead
  <2> QED BY <1>3, <2>1 DEF TypeOK, retryRead, rowVars, retryVars, sweepVars
<1>4. CASE overrideReadOperation(h, o)
  <2>1. RequestsOK'
    BY <1>4, <1>0, ReadRowType, BeginOK DEF overrideReadOperation, PCs
  <2> QED BY <1>4, <2>1 DEF TypeOK, overrideReadOperation, rowVars, retryVars, sweepVars
<1> QED BY <1>1, <1>2, <1>3, <1>4 DEF StartStep

\* Every later step of a handler keeps every type.
LEMMA ContinueTypeOK ==
  ASSUME NEW h \in Handlers, TypeOK, ContinueStep(h)
  PROVE  TypeOK'
<1> USE MaxAgeType
<1>0. RequestsOK
  BY DEF TypeOK
<1>a. req[h].pc # "idle" => req[h].op \in Ops /\ req[h].attempts \in Nat
                            /\ req[h].target \in Statuses \cup {"absent"}
  BY <1>0 DEF RequestsOK, Request
<1>b. /\ "mark" \in PCs /\ "flag" \in PCs /\ "ovSelect" \in PCs
      /\ "ovExists" \in PCs /\ "ovInsert" \in PCs /\ "ovTx" \in PCs
  BY DEF PCs
<1>1. CASE classifyFailure(h)
  <2>1. RequestsOK'
    BY <1>1, <1>0, <1>b, ReturnOK, GoToOK DEF classifyFailure
  <2> QED BY <1>1, <1>a, <2>1 DEF TypeOK, classifyFailure, Touch, retryVars, sweepVars
<1>2. CASE setManualInterventionRequired(h)
  <2>1. RequestsOK'
    BY <1>2, <1>0, <1>b, GoToOK DEF setManualInterventionRequired
  <2> QED
    BY <1>2, <1>a, <2>1 DEF TypeOK, setManualInterventionRequired, Touch, retryVars, sweepVars
<1>3. CASE createManualInterventionFlag(h)
  <2>1. RequestsOK'
    BY <1>3, <1>0, ReturnOK DEF createManualInterventionFlag
  <2> QED
    BY <1>3, <1>a, <2>1 DEF TypeOK, createManualInterventionFlag, rowVars, sweepVars
<1>4. CASE cancelTx(h)
  <2>1. RequestsOK'
    BY <1>4, <1>0, ReturnOK DEF cancelTx
  <2> QED
    BY <1>4, <1>a, <2>1 DEF TypeOK, cancelTx, SetStatus, Touch, retryVars, sweepVars
<1>5. CASE retryTx(h)
  <2>1. RequestsOK'
    BY <1>5, <1>0, ReturnOK DEF retryTx
  <2> QED
    BY <1>5, <1>a, <2>1 DEF TypeOK, retryTx, SetStatus, Touch, Statuses, sweepVars
<1>6. CASE overrideReadFlag(h)
  <2>1. RequestsOK'
    BY <1>6, <1>0, <1>b, ReturnOK, GoToOK DEF overrideReadFlag
  <2> QED BY <1>6, <2>1 DEF TypeOK, overrideReadFlag, rowVars, retryVars, sweepVars
<1>7. CASE overrideFindPending(h)
  <2>1. RequestsOK'
    BY <1>7, <1>0, <1>b, ReturnOK, GoToOK DEF overrideFindPending
  <2> QED BY <1>7, <2>1 DEF TypeOK, overrideFindPending, rowVars, retryVars, sweepVars
<1>8. CASE overrideInsert(h)
  <2>1. RequestsOK'
    BY <1>8, <1>0, <1>b, GoToOK DEF overrideInsert
  <2> QED BY <1>8, <1>a, <2>1 DEF TypeOK, overrideInsert, rowVars, sweepVars
<1>9. CASE overrideTx(h)
  <2>1. RequestsOK'
    BY <1>9, <1>0, ReturnOK DEF overrideTx
  <2>2. req[h].op \in Ops /\ req[h].attempts + 1 \in Nat
    BY <1>9, <1>a DEF overrideTx
  <2>3. CASE attemptIsNew(req[h].op, req[h].attempts + 1)
    <3>1. /\ attemptRows' \in [Ops -> SUBSET Nat]
          /\ attempts' \in [Ops -> Nat]
      BY <1>9, <2>2, <2>3 DEF TypeOK, overrideTx
    <3>2. /\ status' \in [Ops -> Statuses \cup {"absent"}]
          /\ flag' \in [Ops -> {"none", "pending", "resolved"}]
          /\ age' \in [Ops -> 0..MaxAge]
      BY <1>9, <2>2, <2>3 DEF TypeOK, overrideTx, Touch, Statuses
    <3>3. manual' \in [Ops -> BOOLEAN]
      BY <1>9, <2>2, <2>3 DEF TypeOK, overrideTx
    <3> QED BY <1>9, <2>1, <3>1, <3>2, <3>3 DEF TypeOK, overrideTx, sweepVars
  <2>4. CASE ~attemptIsNew(req[h].op, req[h].attempts + 1)
    BY <1>9, <2>1, <2>4 DEF TypeOK, overrideTx, sweepVars
  <2> QED BY <2>3, <2>4
<1> QED BY <1>1, <1>2, <1>3, <1>4, <1>5, <1>6, <1>7, <1>8, <1>9 DEF ContinueStep

\* The sweeps keep every type.
LEMMA SweepTypeOK ==
  ASSUME TypeOK, TimeoutSweepStep \/ OrphanSweepStep
  PROVE  TypeOK'
<1> USE MaxAgeType
<1>1. CASE findTimedOutCandidates
  BY <1>1 DEF TypeOK, RequestsOK, findTimedOutCandidates, Stale, rowVars, retryVars
<1>2. ASSUME NEW o \in Ops, sweepTimedOut(o) PROVE TypeOK'
  BY <1>2 DEF TypeOK, RequestsOK, sweepTimedOut, systemTransition, SetStatus, Touch, Statuses, retryVars
<1>3. CASE findOrphanCandidates
  BY <1>3 DEF TypeOK, RequestsOK, findOrphanCandidates, Stale, rowVars, retryVars
<1>4. CASE findStaleCancellingCandidates
  BY <1>4 DEF TypeOK, RequestsOK, findStaleCancellingCandidates, Stale, rowVars, retryVars
<1>5. ASSUME NEW o \in Ops, sweepOrphan(o) PROVE TypeOK'
  BY <1>5 DEF TypeOK, RequestsOK, sweepOrphan, systemTransition, SetStatus, Touch, Statuses, retryVars
<1>6. ASSUME NEW o \in Ops, sweepCancelling(o) PROVE TypeOK'
  BY <1>6 DEF TypeOK, RequestsOK, sweepCancelling, systemTransition, SetStatus, Touch, Statuses, retryVars
<1>7. CASE endOrphanSweep
  BY <1>7 DEF TypeOK, RequestsOK, endOrphanSweep, NoOrphanSweep, rowVars, retryVars
<1> QED BY <1>1, <1>2, <1>3, <1>4, <1>5, <1>6, <1>7 DEF TimeoutSweepStep, OrphanSweepStep

\* Creation, time and crashes keep every type.
LEMMA EnvironmentTypeOK ==
  ASSUME TypeOK,
         \/ \E o \in Ops : CreateOperation(o) \/ Tick(o)
         \/ \E h \in Handlers : CrashHandler(h)
         \/ CrashSweeps
  PROVE  TypeOK'
<1> USE MaxAgeType, ThresholdAssumption
<1>1. ASSUME NEW o \in Ops, CreateOperation(o) PROVE TypeOK'
  BY <1>1 DEF TypeOK, RequestsOK, CreateOperation, Touch, Statuses, retryVars, sweepVars
<1>2. ASSUME NEW o \in Ops, Tick(o) PROVE TypeOK'
  BY <1>2 DEF TypeOK, RequestsOK, Tick, retryVars, sweepVars
<1>3. ASSUME NEW h \in Handlers, CrashHandler(h) PROVE TypeOK'
  <2>1. RequestsOK'
    BY <1>3, ReturnOK DEF CrashHandler, TypeOK
  <2> QED BY <1>3, <2>1 DEF TypeOK, CrashHandler, rowVars, retryVars, sweepVars
<1>4. CASE CrashSweeps
  BY <1>4 DEF TypeOK, RequestsOK, CrashSweeps, NoOrphanSweep, rowVars, retryVars
<1> QED BY <1>1, <1>2, <1>3, <1>4

\* Every step keeps every type.
LEMMA NextTypeOK == TypeOK /\ [Next]_vars => TypeOK'
<1> SUFFICES ASSUME TypeOK, [Next]_vars PROVE TypeOK'
  OBVIOUS
<1>1. CASE Next
  BY <1>1, StartTypeOK, ContinueTypeOK, SweepTypeOK, EnvironmentTypeOK DEF Next
<1>2. CASE UNCHANGED vars
  BY <1>2 DEF TypeOK, RequestsOK, vars, rowVars, retryVars, sweepVars
<1> QED BY <1>1, <1>2

\* Types hold in every reachable state of the operation tables and handlers.
THEOREM TypeCorrect == Spec => []TypeOK
  BY InitTypeOK, NextTypeOK, PTL DEF Spec

-----------------------------------------------------------------------------
(* The retry budget.  Neither AttemptsRecorded nor AttemptBudget is        *)
(* inductive alone: a transaction trusts what its handler read earlier, so *)
(* the invariant also says what a read still guarantees when it is used.   *)

BudgetInv == AttemptsRecorded /\ AttemptBudget /\ SnapshotsUsable

\* The steps at which a handler relies on the attempt_count it has read.
RelyingPCs == OverridePCs \cup {"retryTx"}

\* Before the first retry nothing is counted and nothing is in flight.
LEMMA InitBudget == Init => BudgetInv
<1> SUFFICES ASSUME Init PROVE BudgetInv
  OBVIOUS
<1>1. AttemptsRecorded
  BY DEF Init, AttemptsRecorded
<1>2. AttemptBudget
  BY MaxRetriesAssumption DEF Init, AttemptBudget
<1>3. SnapshotsUsable
  BY DEF Init, SnapshotsUsable, Idle, OverridePCs
<1> QED BY <1>1, <1>2, <1>3 DEF BudgetInv

\* A step that neither counts an attempt nor touches a flag, and starts no
\* handler that relies on a count, keeps the budget.
LEMMA QuietStep ==
  ASSUME BudgetInv, UNCHANGED <<attempts, attemptRows, flag>>,
         \A g \in Handlers : req'[g] = req[g] \/ req'[g].pc \notin RelyingPCs
  PROVE  BudgetInv'
<1>1. AttemptsRecorded'
  BY DEF BudgetInv, AttemptsRecorded
<1>2. AttemptBudget'
  BY DEF BudgetInv, AttemptBudget
<1>3. SnapshotsUsable'
  <2> SUFFICES ASSUME NEW g \in Handlers
               PROVE  LET r == req'[g]
                      IN /\ r.pc \in RelyingPCs => r.attempts <= attempts'[r.op]
                         /\ r.pc = "retryTx" => r.attempts < MaxRetries[r.op]
                         /\ r.pc \in OverridePCs \ {"ovFlag"} /\ r.attempts = attempts'[r.op]
                              => flag'[r.op] = "pending"
    BY DEF SnapshotsUsable, RelyingPCs
  <2>1. CASE req'[g] = req[g]
    BY <2>1 DEF BudgetInv, SnapshotsUsable, RelyingPCs
  <2>2. CASE req'[g].pc \notin RelyingPCs
    BY <2>2 DEF RelyingPCs
  <2> QED BY <2>1, <2>2
<1> QED BY <1>1, <1>2, <1>3 DEF BudgetInv

\* Starting a handler keeps the budget: a retry or an override reads the count.
LEMMA StartBudget ==
  ASSUME NEW h \in Handlers, NEW o \in Ops, TypeOK, BudgetInv, StartStep(h, o)
  PROVE  BudgetInv'
<1>0. req \in [Handlers -> Request]
  BY DEF TypeOK, RequestsOK
<1>1. ASSUME NEW new \in Statuses, transitionOperation(h, o, new) PROVE BudgetInv'
  <2>1. \A g \in Handlers : req'[g] = req[g] \/ req'[g].pc \notin RelyingPCs
    BY <1>0, <1>1 DEF transitionOperation, Idle, RelyingPCs, OverridePCs
  <2> QED BY <1>1, <2>1, QuietStep DEF transitionOperation, retryVars
<1>2. CASE cancelRead(h, o)
  <2>1. \A g \in Handlers : req'[g] = req[g] \/ req'[g].pc \notin RelyingPCs
    BY <1>0, <1>2 DEF cancelRead, Idle, RelyingPCs, OverridePCs
  <2> QED BY <1>2, <2>1, QuietStep DEF cancelRead, rowVars, retryVars
<1>3. CASE retryRead(h, o)
  <2>1. UNCHANGED <<attempts, attemptRows, flag>>
    BY <1>3 DEF retryRead, rowVars, retryVars
  <2>2. req'[h].pc = "retryTx" /\ req'[h].op = o /\ req'[h].attempts = attempts[o]
    BY <1>0, <1>3 DEF retryRead, ReadRow, Idle
  <2>3. \A g \in Handlers \ {h} : req'[g] = req[g]
    BY <1>0, <1>3 DEF retryRead
  <2>4. attempts[o] < MaxRetries[o] /\ attempts[o] \in Nat
    BY <1>3 DEF retryRead, TypeOK
  <2>5. SnapshotsUsable'
    BY <2>1, <2>2, <2>3, <2>4 DEF BudgetInv, SnapshotsUsable, OverridePCs
  <2> QED BY <2>1, <2>5 DEF BudgetInv, AttemptsRecorded, AttemptBudget
<1>4. CASE overrideReadOperation(h, o)
  <2>1. UNCHANGED <<attempts, attemptRows, flag>>
    BY <1>4 DEF overrideReadOperation, rowVars, retryVars
  <2>2. req'[h].pc = "ovFlag" /\ req'[h].op = o /\ req'[h].attempts = attempts[o]
    BY <1>0, <1>4 DEF overrideReadOperation, ReadRow, Idle
  <2>3. \A g \in Handlers \ {h} : req'[g] = req[g]
    BY <1>0, <1>4 DEF overrideReadOperation
  <2>4. attempts[o] \in Nat
    BY DEF TypeOK
  <2>5. SnapshotsUsable'
    BY <2>1, <2>2, <2>3, <2>4 DEF BudgetInv, SnapshotsUsable, OverridePCs
  <2> QED BY <2>1, <2>5 DEF BudgetInv, AttemptsRecorded, AttemptBudget
<1> QED BY <1>1, <1>2, <1>3, <1>4 DEF StartStep

\* An override that goes on without writing keeps the budget, provided it has
\* seen the flag pending by then.
LEMMA OverrideGoesOn ==
  ASSUME NEW h \in Handlers, NEW pc \in PCs, TypeOK, BudgetInv,
         req[h].pc \in OverridePCs, GoTo(h, pc), pc \in OverridePCs \ {"ovFlag"},
         req[h].pc = "ovFlag" => flag[req[h].op] = "pending",
         UNCHANGED <<attempts, attemptRows, flag>>
  PROVE  BudgetInv'
<1>1. req'[h].pc = pc /\ req'[h].op = req[h].op /\ req'[h].attempts = req[h].attempts
  BY DEF GoTo, TypeOK, RequestsOK, Request
<1>2. \A g \in Handlers \ {h} : req'[g] = req[g]
  BY DEF GoTo, TypeOK, RequestsOK
<1>3. SnapshotsUsable'
  <2> SUFFICES ASSUME NEW g \in Handlers
               PROVE  LET r == req'[g]
                      IN /\ r.pc \in RelyingPCs => r.attempts <= attempts'[r.op]
                         /\ r.pc = "retryTx" => r.attempts < MaxRetries[r.op]
                         /\ r.pc \in OverridePCs \ {"ovFlag"} /\ r.attempts = attempts'[r.op]
                              => flag'[r.op] = "pending"
    BY DEF SnapshotsUsable, RelyingPCs
  <2>1. CASE g = h
    BY <2>1, <1>1 DEF BudgetInv, SnapshotsUsable, OverridePCs, RelyingPCs
  <2>2. CASE g # h
    BY <2>2, <1>2 DEF BudgetInv, SnapshotsUsable, RelyingPCs
  <2> QED BY <2>1, <2>2
<1> QED BY <1>3 DEF BudgetInv, AttemptsRecorded, AttemptBudget

\* A handler that returns without writing a count or a flag keeps the budget.
LEMMA ReturnBudget ==
  ASSUME NEW h \in Handlers, TypeOK, BudgetInv, Return(h),
         UNCHANGED <<attempts, attemptRows, flag>>
  PROVE  BudgetInv'
<1>1. \A g \in Handlers : req'[g] = req[g] \/ req'[g].pc \notin RelyingPCs
  BY DEF TypeOK, RequestsOK, Return, Idle, RelyingPCs, OverridePCs
<1> QED BY <1>1, QuietStep

\* One more number extends the interval of the numbers so far.
LEMMA IntervalExtends ==
  ASSUME NEW n \in Nat
  PROVE  1..(n + 1) = (1..n) \cup {n + 1}
  OBVIOUS

\* A committed restart: the count read was current, so the number inserted is
\* the next one and every other read falls behind.
LEMMA RestartCounts ==
  ASSUME NEW h \in Handlers, TypeOK, BudgetInv,
         req[h].pc \in {"retryTx", "ovTx"},
         attemptIsNew(req[h].op, req[h].attempts + 1),
         attemptRows' = [attemptRows EXCEPT ![req[h].op] = @ \cup {req[h].attempts + 1}],
         attempts' = [attempts EXCEPT ![req[h].op] = @ + 1],
         \A o \in Ops \ {req[h].op} : flag'[o] = flag[o],
         Return(h)
  PROVE  /\ req[h].op \in Ops /\ req[h].attempts = attempts[req[h].op]
         /\ AttemptsRecorded' /\ SnapshotsUsable'
<1> DEFINE o == req[h].op
<1>1. o \in Ops /\ req[h].attempts \in Nat /\ attempts[o] \in Nat
  BY DEF TypeOK, RequestsOK, Request
<1>2. req[h].attempts <= attempts[o]
  BY DEF BudgetInv, SnapshotsUsable, OverridePCs
<1>3. attemptRows[o] = 1..attempts[o]
  BY <1>1 DEF BudgetInv, AttemptsRecorded
<1>4. req[h].attempts = attempts[o]
  BY <1>1, <1>2, <1>3 DEF attemptIsNew
<1>5. AttemptsRecorded'
  <2> SUFFICES ASSUME NEW x \in Ops PROVE attemptRows'[x] = 1..attempts'[x]
    BY DEF AttemptsRecorded
  <2>1. CASE x = o
    <3>1. attemptRows'[x] = (1..attempts[o]) \cup {attempts[o] + 1}
      BY <2>1, <1>1, <1>3, <1>4 DEF TypeOK
    <3>2. attempts'[x] = attempts[o] + 1
      BY <2>1, <1>1 DEF TypeOK
    <3> QED BY <3>1, <3>2, <1>1, IntervalExtends
  <2>2. CASE x # o
    BY <2>2 DEF TypeOK, BudgetInv, AttemptsRecorded
  <2> QED BY <2>1, <2>2
<1>6. SnapshotsUsable'
  <2> SUFFICES ASSUME NEW g \in Handlers
               PROVE  LET r == req'[g]
                      IN /\ r.pc \in RelyingPCs => r.attempts <= attempts'[r.op]
                         /\ r.pc = "retryTx" => r.attempts < MaxRetries[r.op]
                         /\ r.pc \in OverridePCs \ {"ovFlag"} /\ r.attempts = attempts'[r.op]
                              => flag'[r.op] = "pending"
    BY DEF SnapshotsUsable, RelyingPCs
  <2>1. CASE g = h
    BY <2>1 DEF Return, TypeOK, RequestsOK, Idle, RelyingPCs, OverridePCs
  <2>2. CASE g # h
    <3>1. req'[g] = req[g]
      BY <2>2 DEF Return, TypeOK, RequestsOK
    <3>2. req[g].attempts \in Nat /\ (req[g].pc # "idle" => req[g].op \in Ops)
      BY DEF TypeOK, RequestsOK, Request
    <3>3. CASE req[g].op = o
      <4>1. attempts'[req[g].op] = attempts[o] + 1
        BY <3>3, <1>1 DEF TypeOK
      <4>2. req[g].pc \in RelyingPCs => req[g].attempts <= attempts[o]
        BY <3>3 DEF BudgetInv, SnapshotsUsable, RelyingPCs
      <4>3. req[g].pc = "retryTx" => req[g].attempts < MaxRetries[req[g].op]
        BY DEF BudgetInv, SnapshotsUsable
      <4> QED BY <3>1, <3>2, <4>1, <4>2, <4>3, <1>1 DEF RelyingPCs
    <3>4. CASE req[g].op # o
      <4>1. req[g].pc \in RelyingPCs
              => attempts'[req[g].op] = attempts[req[g].op] /\ flag'[req[g].op] = flag[req[g].op]
        BY <3>2, <3>4 DEF TypeOK, RelyingPCs, OverridePCs
      <4> QED BY <3>1, <4>1 DEF BudgetInv, SnapshotsUsable, RelyingPCs
    <3> QED BY <3>3, <3>4
  <2> QED BY <2>1, <2>2
<1> QED BY <1>1, <1>4, <1>5, <1>6

\* The retry transaction stays within max_retries.
LEMMA RetryTxBudget ==
  ASSUME NEW h \in Handlers, TypeOK, BudgetInv, retryTx(h)
  PROVE  BudgetInv'
<1> DEFINE o == req[h].op
           n == req[h].attempts + 1
<1>0. Return(h) /\ flag' = flag /\ req[h].pc = "retryTx"
  BY DEF retryTx
<1>1. CASE attemptIsNew(o, n) /\ status[o] = "failed"
  <2>1. /\ attemptRows' = [attemptRows EXCEPT ![o] = @ \cup {n}]
        /\ attempts' = [attempts EXCEPT ![o] = @ + 1]
    BY <1>1 DEF retryTx
  <2>2. /\ o \in Ops /\ req[h].attempts = attempts[o]
        /\ AttemptsRecorded' /\ SnapshotsUsable'
    BY <1>0, <1>1, <2>1, RestartCounts
  <2>3. attempts[o] < MaxRetries[o]
    BY <1>0, <2>2 DEF BudgetInv, SnapshotsUsable
  <2>4. AttemptBudget'
    <3> SUFFICES ASSUME NEW x \in Ops
                 PROVE  attempts'[x] <= MaxRetries[x] + (IF flag'[x] = "resolved" THEN 1 ELSE 0)
      BY DEF AttemptBudget
    <3>1. CASE x = o
      <4>1. attempts[o] \in Nat /\ MaxRetries[o] \in Nat
        BY <2>2, MaxRetriesAssumption DEF TypeOK
      <4>2. attempts'[o] = attempts[o] + 1
        BY <2>1, <2>2 DEF TypeOK
      <4>3. attempts'[o] <= MaxRetries[o]
        BY <4>1, <4>2, <2>3
      <4> QED BY <3>1, <4>1, <4>2, <4>3
    <3>2. CASE x # o
      <4>1. attempts'[x] = attempts[x] /\ flag'[x] = flag[x]
        BY <3>2, <2>1, <1>0 DEF TypeOK
      <4> QED BY <4>1 DEF BudgetInv, AttemptBudget
    <3> QED BY <3>1, <3>2
  <2> QED BY <2>2, <2>4 DEF BudgetInv
<1>2. CASE ~(attemptIsNew(o, n) /\ status[o] = "failed")
  <2>1. UNCHANGED <<attempts, attemptRows, flag>>
    BY <1>0, <1>2 DEF retryTx
  <2> QED BY <2>1, <1>0, ReturnBudget
<1> QED BY <1>1, <1>2

\* The override transaction spends the one extra attempt and resolves the flag.
LEMMA OverrideTxBudget ==
  ASSUME NEW h \in Handlers, TypeOK, BudgetInv, overrideTx(h)
  PROVE  BudgetInv'
<1> DEFINE o == req[h].op
           n == req[h].attempts + 1
<1>0. Return(h) /\ req[h].pc = "ovTx"
  BY DEF overrideTx
<1>1. CASE attemptIsNew(o, n)
  <2>1. /\ attemptRows' = [attemptRows EXCEPT ![o] = @ \cup {n}]
        /\ attempts' = [attempts EXCEPT ![o] = @ + 1]
        /\ flag' = [flag EXCEPT ![o] = "resolved"]
    BY <1>1 DEF overrideTx
  <2>2. \A x \in Ops \ {o} : flag'[x] = flag[x]
    BY <2>1 DEF TypeOK
  <2>3. /\ o \in Ops /\ req[h].attempts = attempts[o]
        /\ AttemptsRecorded' /\ SnapshotsUsable'
    BY <1>0, <1>1, <2>1, <2>2, RestartCounts
  <2>4. flag[o] = "pending"
    BY <1>0, <2>3 DEF BudgetInv, SnapshotsUsable, OverridePCs
  <2>5. attempts[o] <= MaxRetries[o]
    BY <2>3, <2>4, MaxRetriesAssumption DEF BudgetInv, AttemptBudget, TypeOK
  <2>6. AttemptBudget'
    <3> SUFFICES ASSUME NEW x \in Ops
                 PROVE  attempts'[x] <= MaxRetries[x] + (IF flag'[x] = "resolved" THEN 1 ELSE 0)
      BY DEF AttemptBudget
    <3>1. CASE x = o
      <4>1. attempts[o] \in Nat /\ MaxRetries[o] \in Nat
        BY <2>3, MaxRetriesAssumption DEF TypeOK
      <4>2. attempts'[o] = attempts[o] + 1 /\ flag'[o] = "resolved"
        BY <2>1, <2>3 DEF TypeOK
      <4>3. attempts'[o] <= MaxRetries[o] + 1
        BY <4>1, <4>2, <2>5
      <4> QED BY <3>1, <4>2, <4>3
    <3>2. CASE x # o
      <4>1. attempts'[x] = attempts[x] /\ flag'[x] = flag[x]
        BY <3>2, <2>1, <2>2 DEF TypeOK
      <4> QED BY <4>1 DEF BudgetInv, AttemptBudget
    <3> QED BY <3>1, <3>2
  <2> QED BY <2>3, <2>6 DEF BudgetInv
<1>2. CASE ~attemptIsNew(o, n)
  <2>1. UNCHANGED <<attempts, attemptRows, flag>>
    BY <1>2 DEF overrideTx
  <2> QED BY <2>1, <1>0, ReturnBudget
<1> QED BY <1>1, <1>2

\* The flag row a failure handler inserts is pending, never resolved.
LEMMA FlagBudget ==
  ASSUME NEW h \in Handlers, TypeOK, BudgetInv, createManualInterventionFlag(h)
  PROVE  BudgetInv'
<1>1. UNCHANGED <<attempts, attemptRows>>
  BY DEF createManualInterventionFlag, rowVars
<1>2. req[h].op \in Ops
  BY DEF createManualInterventionFlag, TypeOK, RequestsOK
<1>3. \A o \in Ops : (flag'[o] = "resolved" <=> flag[o] = "resolved")
                    /\ (flag[o] = "pending" => flag'[o] = "pending")
  BY <1>2 DEF createManualInterventionFlag, TypeOK
<1>4. AttemptsRecorded'
  BY <1>1 DEF BudgetInv, AttemptsRecorded
<1>5. AttemptBudget'
  BY <1>1, <1>3 DEF BudgetInv, AttemptBudget
<1>6. SnapshotsUsable'
  <2> SUFFICES ASSUME NEW g \in Handlers
               PROVE  LET r == req'[g]
                      IN /\ r.pc \in RelyingPCs => r.attempts <= attempts'[r.op]
                         /\ r.pc = "retryTx" => r.attempts < MaxRetries[r.op]
                         /\ r.pc \in OverridePCs \ {"ovFlag"} /\ r.attempts = attempts'[r.op]
                              => flag'[r.op] = "pending"
    BY DEF SnapshotsUsable, RelyingPCs
  <2>1. CASE g = h
    BY <2>1 DEF createManualInterventionFlag, Return, TypeOK, RequestsOK, Idle,
                RelyingPCs, OverridePCs
  <2>2. CASE g # h
    <3>1. req'[g] = req[g]
      BY <2>2 DEF createManualInterventionFlag, Return, TypeOK, RequestsOK
    <3>2. req[g].pc # "idle" => req[g].op \in Ops
      BY DEF TypeOK, RequestsOK
    <3> QED
      BY <3>1, <3>2, <1>1, <1>3 DEF BudgetInv, SnapshotsUsable, RelyingPCs, OverridePCs
  <2> QED BY <2>1, <2>2
<1> QED BY <1>4, <1>5, <1>6 DEF BudgetInv

\* Every later step of a handler keeps the budget.
LEMMA ContinueBudget ==
  ASSUME NEW h \in Handlers, TypeOK, BudgetInv, ContinueStep(h)
  PROVE  BudgetInv'
<1>1. CASE classifyFailure(h)
  <2>1. UNCHANGED <<attempts, attemptRows, flag>>
    BY <1>1 DEF classifyFailure, retryVars
  <2>2. \A g \in Handlers : req'[g] = req[g] \/ req'[g].pc \notin RelyingPCs
    BY <1>1 DEF classifyFailure, GoTo, Return, TypeOK, RequestsOK, Request, Idle,
                RelyingPCs, OverridePCs
  <2> QED BY <2>1, <2>2, QuietStep
<1>2. CASE setManualInterventionRequired(h)
  <2>1. UNCHANGED <<attempts, attemptRows, flag>>
    BY <1>2 DEF setManualInterventionRequired, retryVars
  <2>2. \A g \in Handlers : req'[g] = req[g] \/ req'[g].pc \notin RelyingPCs
    BY <1>2 DEF setManualInterventionRequired, GoTo, TypeOK, RequestsOK, Request,
                RelyingPCs, OverridePCs
  <2> QED BY <2>1, <2>2, QuietStep
<1>3. CASE createManualInterventionFlag(h)
  BY <1>3, FlagBudget
<1>4. CASE cancelTx(h)
  BY <1>4, ReturnBudget DEF cancelTx, retryVars
<1>5. CASE retryTx(h)
  BY <1>5, RetryTxBudget
<1>6. CASE overrideReadFlag(h)
  <2>1. UNCHANGED <<attempts, attemptRows, flag>>
    BY <1>6 DEF overrideReadFlag, rowVars, retryVars
  <2>2. CASE flag[req[h].op] = "pending"
    BY <1>6, <2>1, <2>2, OverrideGoesOn DEF overrideReadFlag, OverridePCs, PCs
  <2>3. CASE flag[req[h].op] # "pending"
    BY <1>6, <2>1, <2>3, ReturnBudget DEF overrideReadFlag
  <2> QED BY <2>2, <2>3
<1>7. CASE overrideFindPending(h)
  <2>1. UNCHANGED <<attempts, attemptRows, flag>>
    BY <1>7 DEF overrideFindPending, rowVars, retryVars
  <2>2. CASE req[h].pc = "ovSelect" /\ GoTo(h, "ovExists")
    BY <2>1, <2>2, OverrideGoesOn DEF OverridePCs, PCs
  <2>3. CASE req[h].pc = "ovExists" /\ GoTo(h, "ovInsert")
    BY <2>1, <2>3, OverrideGoesOn DEF OverridePCs, PCs
  <2>4. CASE Return(h)
    BY <2>1, <2>4, ReturnBudget
  <2> QED BY <1>7, <2>2, <2>3, <2>4 DEF overrideFindPending
<1>8. CASE overrideInsert(h)
  BY <1>8, OverrideGoesOn DEF overrideInsert, rowVars, OverridePCs, PCs
<1>9. CASE overrideTx(h)
  BY <1>9, OverrideTxBudget
<1> QED BY <1>1, <1>2, <1>3, <1>4, <1>5, <1>6, <1>7, <1>8, <1>9 DEF ContinueStep

\* Every step keeps the budget.
LEMMA NextBudget == TypeOK /\ BudgetInv /\ [Next]_vars => BudgetInv'
<1> SUFFICES ASSUME TypeOK, BudgetInv, [Next]_vars PROVE BudgetInv'
  OBVIOUS
<1>1. ASSUME NEW o \in Ops, CreateOperation(o) \/ Tick(o) PROVE BudgetInv'
  BY <1>1, QuietStep DEF CreateOperation, Tick, retryVars
<1>2. ASSUME NEW h \in Handlers, NEW o \in Ops, StartStep(h, o) PROVE BudgetInv'
  BY <1>2, StartBudget
<1>3. ASSUME NEW h \in Handlers, ContinueStep(h) PROVE BudgetInv'
  BY <1>3, ContinueBudget
<1>4. ASSUME NEW h \in Handlers, CrashHandler(h) PROVE BudgetInv'
  BY <1>4, ReturnBudget DEF CrashHandler, rowVars, retryVars
<1>5. CASE TimeoutSweepStep
  BY <1>5, QuietStep DEF TimeoutSweepStep, findTimedOutCandidates, sweepTimedOut,
                         rowVars, retryVars
<1>6. CASE OrphanSweepStep
  BY <1>6, QuietStep DEF OrphanSweepStep, findOrphanCandidates, findStaleCancellingCandidates,
                         sweepOrphan, sweepCancelling, endOrphanSweep, rowVars, retryVars
<1>7. CASE CrashSweeps
  BY <1>7, QuietStep DEF CrashSweeps, rowVars, retryVars
<1>8. CASE UNCHANGED vars
  BY <1>8, QuietStep DEF vars, rowVars, retryVars
<1> QED BY <1>1, <1>2, <1>3, <1>4, <1>5, <1>6, <1>7, <1>8 DEF Next

\* Both invariants hold together in every reachable state.
LEMMA BudgetInvariant == Spec => [](TypeOK /\ BudgetInv)
  BY InitTypeOK, NextTypeOK, InitBudget, NextBudget, PTL DEF Spec

\* retry_attempts is exactly 1 .. attempt_count, whoever restarts the operation.
THEOREM AttemptsAlwaysRecorded == Spec => []AttemptsRecorded
  BY BudgetInvariant, PTL DEF BudgetInv

\* At most max_retries restarts by users and one by a superadmin, however the
\* retry and override handlers interleave or crash.
THEOREM AttemptBudgetHolds == Spec => []AttemptBudget
  BY BudgetInvariant, PTL DEF BudgetInv

\* What a retry or an override read before its transaction is still good enough
\* when it commits: a count below the budget, an unresolved flag.
THEOREM SnapshotsAlwaysUsable == Spec => []SnapshotsUsable
  BY BudgetInvariant, PTL DEF BudgetInv

-----------------------------------------------------------------------------
(* Terminal statuses. *)

RestartOf(o) ==
    status[o] \in TERMINAL_STATES /\ status'[o] # status[o]
      => /\ status'[o] = "pending"
         /\ attempts'[o] = attempts[o] + 1
         /\ attempts'[o] \in attemptRows'[o] \ attemptRows[o]

\* A validated UPDATE never starts from a terminal status.
LEMMA ValidatedUpdate ==
  ASSUME TypeOK, NEW x \in Ops, NEW new, validateTransition(status[x], new), SetStatus(x, new)
  PROVE  \A o \in Ops : RestartOf(o)
<1>1. status[x] \notin TERMINAL_STATES
  BY DEF validateTransition, VALID_TRANSITIONS, TERMINAL_STATES
<1>2. \A o \in Ops \ {x} : status'[o] = status[o]
  BY DEF SetStatus, TypeOK
<1> QED BY <1>1, <1>2 DEF RestartOf

\* A committed retry or override restarts with the next attempt number.
LEMMA CountedRestart ==
  ASSUME NEW h \in Handlers, TypeOK, BudgetInv,
         req[h].pc \in {"retryTx", "ovTx"},
         attemptIsNew(req[h].op, req[h].attempts + 1),
         attemptRows' = [attemptRows EXCEPT ![req[h].op] = @ \cup {req[h].attempts + 1}],
         attempts' = [attempts EXCEPT ![req[h].op] = @ + 1],
         status' = [status EXCEPT ![req[h].op] = "pending"],
         \A o \in Ops \ {req[h].op} : flag'[o] = flag[o],
         Return(h)
  PROVE  \A o \in Ops : RestartOf(o)
<1> DEFINE x == req[h].op
<1>1. x \in Ops /\ req[h].attempts = attempts[x]
  BY RestartCounts
<1>2. attempts[x] \in Nat
  BY <1>1 DEF TypeOK
<1>3. /\ status'[x] = "pending" /\ attempts'[x] = attempts[x] + 1
      /\ attempts[x] + 1 \in attemptRows'[x]
      /\ attempts[x] + 1 \notin attemptRows[x]
  BY <1>1 DEF TypeOK, attemptIsNew
<1>4. \A o \in Ops \ {x} : status'[o] = status[o]
  BY DEF TypeOK
<1> QED BY <1>1, <1>3, <1>4 DEF RestartOf

\* Every step respects terminal statuses.
LEMMA NextTerminal == TypeOK /\ BudgetInv /\ [Next]_vars => \A o \in Ops : RestartOf(o)
<1> SUFFICES ASSUME TypeOK, BudgetInv, [Next]_vars PROVE \A o \in Ops : RestartOf(o)
  OBVIOUS
<1>0. CASE status' = status
  BY <1>0 DEF RestartOf
<1>1. ASSUME NEW o \in Ops, CreateOperation(o) PROVE \A x \in Ops : RestartOf(x)
  BY <1>1 DEF CreateOperation, RestartOf, TERMINAL_STATES, TypeOK
<1>2. ASSUME NEW h \in Handlers, NEW o \in Ops, StartStep(h, o)
      PROVE  \A x \in Ops : RestartOf(x)
  <2>1. ASSUME NEW new \in Statuses, transitionOperation(h, o, new)
        PROVE  \A x \in Ops : RestartOf(x)
    BY <2>1, ValidatedUpdate DEF transitionOperation
  <2> QED
    BY <1>0, <1>2, <2>1 DEF StartStep, cancelRead, retryRead, overrideReadOperation, rowVars
<1>3. ASSUME NEW h \in Handlers, ContinueStep(h) PROVE \A x \in Ops : RestartOf(x)
  <2>1. CASE cancelTx(h)
    <3>1. req[h].op \in Ops
      BY <2>1 DEF cancelTx, TypeOK, RequestsOK
    <3> QED BY <2>1, <3>1, <1>0, ValidatedUpdate DEF cancelTx
  <2>2. CASE retryTx(h)
    <3>1. CASE attemptIsNew(req[h].op, req[h].attempts + 1) /\ status[req[h].op] = "failed"
      BY <2>2, <3>1, CountedRestart DEF retryTx, SetStatus
    <3>2. CASE ~(attemptIsNew(req[h].op, req[h].attempts + 1) /\ status[req[h].op] = "failed")
      BY <2>2, <3>2, <1>0 DEF retryTx
    <3> QED BY <3>1, <3>2
  <2>3. CASE overrideTx(h)
    <3>1. CASE attemptIsNew(req[h].op, req[h].attempts + 1)
      <4>1. \A o \in Ops \ {req[h].op} : flag'[o] = flag[o]
        BY <2>3, <3>1 DEF overrideTx, TypeOK
      <4> QED BY <2>3, <3>1, <4>1, CountedRestart DEF overrideTx
    <3>2. CASE ~attemptIsNew(req[h].op, req[h].attempts + 1)
      BY <2>3, <3>2, <1>0 DEF overrideTx
    <3> QED BY <3>1, <3>2
  <2> QED
    BY <1>0, <1>3, <2>1, <2>2, <2>3
    DEF ContinueStep, classifyFailure, setManualInterventionRequired,
        createManualInterventionFlag, overrideReadFlag, overrideFindPending,
        overrideInsert, rowVars
<1>4. CASE TimeoutSweepStep
  BY <1>0, <1>4, ValidatedUpdate
  DEF TimeoutSweepStep, findTimedOutCandidates, sweepTimedOut, systemTransition, rowVars
<1>5. CASE OrphanSweepStep
  BY <1>0, <1>5, ValidatedUpdate
  DEF OrphanSweepStep, findOrphanCandidates, findStaleCancellingCandidates,
      sweepOrphan, sweepCancelling, endOrphanSweep, systemTransition, rowVars
<1>6. CASE \/ \E o \in Ops : Tick(o)
           \/ \E h \in Handlers : CrashHandler(h)
           \/ CrashSweeps
           \/ UNCHANGED vars
  BY <1>0, <1>6 DEF Tick, CrashHandler, CrashSweeps, vars, rowVars
<1> QED BY <1>1, <1>2, <1>3, <1>4, <1>5, <1>6 DEF Next

\* No sweep, cancellation or failure handler, however late, changes a terminal
\* status: only a counted restart does.
THEOREM TerminalRespected == Spec => TerminalOnlyRestarted
<1>1. TypeOK /\ BudgetInv /\ [Next]_vars
        => [\A o \in Ops :
              status[o] \in TERMINAL_STATES /\ status'[o] # status[o]
                => /\ status'[o] = "pending"
                   /\ attempts'[o] = attempts[o] + 1
                   /\ attempts'[o] \in attemptRows'[o] \ attemptRows[o]]_vars
  BY NextTerminal DEF RestartOf
<1> QED BY <1>1, BudgetInvariant, PTL DEF Spec, TerminalOnlyRestarted

-----------------------------------------------------------------------------
(* The transition log. *)

\* An UPDATE that writes its transition row keeps the log in step.
LEMMA LoggedUpdate ==
  ASSUME TypeOK, AuditTrail, NEW x \in Ops, NEW new, SetStatus(x, new), flag' = flag
  PROVE  AuditTrail'
<1>1. logged'[x] = status'[x]
  BY DEF SetStatus, TypeOK
<1>2. \A o \in Ops \ {x} : status'[o] = status[o] /\ logged'[o] = logged[o]
  BY DEF SetStatus, TypeOK
<1> QED BY <1>1, <1>2 DEF AuditTrail

\* A step that writes neither the row's status, nor its log, and resolves no
\* flag the other way, keeps it too.
LEMMA UnloggedStep ==
  ASSUME AuditTrail, status' = status, logged' = logged,
         \A o \in Ops : flag[o] = "resolved" => flag'[o] = "resolved"
  PROVE  AuditTrail'
  BY DEF AuditTrail

\* Every step keeps the log in step with the row.
LEMMA NextAudit == TypeOK /\ AuditTrail /\ [Next]_vars => AuditTrail'
<1> SUFFICES ASSUME TypeOK, AuditTrail, [Next]_vars PROVE AuditTrail'
  OBVIOUS
<1>0. CASE UNCHANGED <<status, logged, flag>>
  BY <1>0, UnloggedStep
<1>1. ASSUME NEW o \in Ops, CreateOperation(o) PROVE AuditTrail'
  <2>1. logged[o] = "absent" /\ status'[o] = "pending" /\ logged' = logged /\ flag' = flag
    BY <1>1 DEF CreateOperation, AuditTrail, TypeOK, retryVars
  <2>2. \A x \in Ops \ {o} : status'[x] = status[x]
    BY <1>1 DEF CreateOperation, TypeOK
  <2> QED BY <2>1, <2>2 DEF AuditTrail
<1>2. ASSUME NEW h \in Handlers, NEW o \in Ops, StartStep(h, o) PROVE AuditTrail'
  <2>1. ASSUME NEW new \in Statuses, transitionOperation(h, o, new) PROVE AuditTrail'
    BY <2>1, LoggedUpdate DEF transitionOperation, retryVars
  <2> QED
    BY <1>0, <1>2, <2>1
    DEF StartStep, cancelRead, retryRead, overrideReadOperation, rowVars, retryVars
<1>3. ASSUME NEW h \in Handlers, ContinueStep(h) PROVE AuditTrail'
  <2>1. CASE cancelTx(h)
    <3>1. req[h].op \in Ops
      BY <2>1 DEF cancelTx, TypeOK, RequestsOK
    <3> QED BY <2>1, <3>1, <1>0, LoggedUpdate DEF cancelTx, retryVars
  <2>2. CASE retryTx(h)
    <3>1. req[h].op \in Ops
      BY <2>2 DEF retryTx, TypeOK, RequestsOK
    <3> QED BY <2>2, <3>1, <1>0, LoggedUpdate DEF retryTx
  <2>3. CASE overrideTx(h)
    <3>1. CASE attemptIsNew(req[h].op, req[h].attempts + 1)
      <4> DEFINE x == req[h].op
      <4>1. x \in Ops
        BY <2>3 DEF overrideTx, TypeOK, RequestsOK
      <4>2. status'[x] = "pending" /\ flag'[x] = "resolved" /\ logged' = logged
        BY <2>3, <3>1, <4>1 DEF overrideTx, TypeOK
      <4>3. \A o \in Ops \ {x} : status'[o] = status[o] /\ flag'[o] = flag[o]
        BY <2>3, <3>1 DEF overrideTx, TypeOK
      <4> QED BY <4>1, <4>2, <4>3 DEF AuditTrail
    <3>2. CASE ~attemptIsNew(req[h].op, req[h].attempts + 1)
      BY <2>3, <3>2, <1>0 DEF overrideTx
    <3> QED BY <3>1, <3>2
  <2>4. CASE createManualInterventionFlag(h)
    <3>1. \A o \in Ops : flag[o] = "resolved" => flag'[o] = "resolved"
      BY <2>4 DEF createManualInterventionFlag, TypeOK
    <3> QED BY <2>4, <3>1, UnloggedStep DEF createManualInterventionFlag, rowVars
  <2> QED
    BY <1>0, <1>3, <2>1, <2>2, <2>3, <2>4
    DEF ContinueStep, classifyFailure, setManualInterventionRequired,
        overrideReadFlag, overrideFindPending, overrideInsert, rowVars, retryVars
<1>4. CASE TimeoutSweepStep
  BY <1>0, <1>4, LoggedUpdate
  DEF TimeoutSweepStep, findTimedOutCandidates, sweepTimedOut, systemTransition,
      rowVars, retryVars
<1>5. CASE OrphanSweepStep
  BY <1>0, <1>5, LoggedUpdate
  DEF OrphanSweepStep, findOrphanCandidates, findStaleCancellingCandidates,
      sweepOrphan, sweepCancelling, endOrphanSweep, systemTransition, rowVars, retryVars
<1>6. CASE \/ \E o \in Ops : Tick(o)
           \/ \E h \in Handlers : CrashHandler(h)
           \/ CrashSweeps
           \/ UNCHANGED vars
  BY <1>0, <1>6 DEF Tick, CrashHandler, CrashSweeps, vars, rowVars, retryVars
<1> QED BY <1>1, <1>2, <1>3, <1>4, <1>5, <1>6 DEF Next

\* The newest transition row tells the status of the operation, however the
\* handlers and sweeps interleave, except for a fresh operation and one that an
\* override put back to pending (whose UPDATE writes no transition row).
THEOREM AuditTrailKept == Spec => []AuditTrail
<1>1. Init => AuditTrail
  BY DEF Init, AuditTrail
<1> QED BY <1>1, InitTypeOK, NextTypeOK, NextAudit, PTL DEF Spec
=============================================================================
