------------------------- MODULE DurableSagaProofs -------------------------
(***************************************************************************)
(* Proofs about DurableSaga for any number of runs, replicas, steps and    *)
(* faults: types, and that no compensation is ever executed twice, with    *)
(* sagas slower than the recovery window or not; and, when no saga is      *)
(* slower, that rollback is complete, newest-first, and never touches a    *)
(* completed run.                                                          *)
(***************************************************************************)
EXTENDS DurableSaga, TLAPS

\* A recorded step is claimed by at most one worker, and a compensator has been
\* called only for a step that was claimed.
ClaimInv ==
    /\ \A w \in Workers : pc[w] \in Holding => comp[target[w]][cur[w]] = "compensating"
    /\ \A w \in Workers : pc[w] = "exec" => execs[target[w]][cur[w]] = 0
    /\ \A v, w \in Workers :
         pc[v] \in Holding /\ pc[w] \in Holding /\ target[v] = target[w] /\ cur[v] = cur[w]
           => v = w
    /\ \A r \in Runs, s \in Steps :
         comp[r][s] \in {"absent", "null", "pending"} => execs[r][s] = 0
    /\ \A r \in Runs, s \in Steps : execs[r][s] <= 1

\* The rows of a run are inserted once each, in the order of seq.
RecordInv ==
    /\ \A r \in Runs : \A s \in Steps : s > seq[r] => comp[r][s] = "absent"
    /\ \A r \in Runs : pc[r] = "record" => seq[r] \in Steps /\ comp[r][seq[r]] = "absent"

Inv == ClaimInv /\ RecordInv

-----------------------------------------------------------------------------
(* Types. *)

\* What an update of one cell of a two-level table gives.
LEMMA CellUpdate ==
  ASSUME NEW S, NEW T, NEW V, NEW f \in [S -> [T -> V]],
         NEW a \in S, NEW b \in T, NEW v \in V
  PROVE  LET g == [f EXCEPT ![a][b] = v] IN
         /\ g \in [S -> [T -> V]]
         /\ g[a][b] = v
         /\ \A c \in S, d \in T : <<c, d>> # <<a, b>> => g[c][d] = f[c][d]
<1> DEFINE g == [f EXCEPT ![a][b] = v]
<1>1. g = [c \in S |-> IF c = a THEN [f[a] EXCEPT ![b] = v] ELSE f[c]]
  OBVIOUS
<1>2. f[a] \in [T -> V] /\ [f[a] EXCEPT ![b] = v] \in [T -> V]
  OBVIOUS
<1> QED BY <1>1, <1>2

\* Control keeps its type when one worker moves.
LEMMA ControlMoves ==
  ASSUME ControlOK, NEW w \in Workers, NEW to,
         GoTo(w, to),
         to \in (IF w \in Runs THEN RequestPCs ELSE ReplicaPCs),
         \A v \in Workers \ {w} : target'[v] = target[v] /\ cur'[v] = cur[v],
         to \in Replaying => target'[w] \in Runs,
         to \in Holding => cur'[w] \in Steps,
         w \in Runs /\ to # "idle" => target'[w] = w
  PROVE  ControlOK'
<1>1. pc'[w] = to /\ \A v \in Workers \ {w} : pc'[v] = pc[v]
  BY DEF ControlOK, GoTo
<1>2. pc' \in [Workers -> RequestPCs \cup ReplicaPCs]
  BY DEF ControlOK, GoTo
<1>3. Runs \subseteq Workers
  BY DEF Workers
<1> QED BY <1>1, <1>2, <1>3 DEF ControlOK

\* Initially nothing is recorded, claimed or undone.
LEMMA InitInv == Init => TypeOK /\ Inv
<1> SUFFICES ASSUME Init PROVE TypeOK /\ Inv
  OBVIOUS
<1>1. \A w \in Workers : /\ w \in Runs => pc[w] = "idle"
                         /\ w \notin Runs => pc[w] = "up"
  BY DEF Init
<1>2. TablesOK
  BY DEF Init, TablesOK, RunStatuses, CompStatuses
<1>3. ControlOK
  <2>1. pc \in [Workers -> RequestPCs \cup ReplicaPCs]
    BY DEF Init, RequestPCs, ReplicaPCs
  <2>2. Runs \subseteq Workers
    BY DEF Workers
  <2> QED BY <1>1, <2>1, <2>2 DEF ControlOK, RequestPCs, ReplicaPCs, Replaying, Holding
<1>4. MemoryOK
  BY StepsAssumption, BoundsAssumption DEF Init, MemoryOK, Steps
<1>5. ClaimInv
  <2>1. \A w \in Workers : pc[w] \notin Holding
    BY <1>1 DEF Holding
  <2>2. \A r \in Runs, s \in Steps : execs[r][s] = 0
    BY DEF Init
  <2> QED BY <2>1, <2>2 DEF ClaimInv, Holding
<1>6. RecordInv
  <2>1. \A r \in Runs : pc[r] = "idle"
    BY <1>1 DEF Workers
  <2> QED BY <2>1 DEF Init, RecordInv
<1> QED BY <1>2, <1>3, <1>4, <1>5, <1>6 DEF TypeOK, Inv

\* A request's step keeps every type.
LEMMA RequestTypeOK ==
  ASSUME TypeOK, RecordInv, NEW r \in Runs, startSaga(r) \/ RequestStep(r) \/ age(r)
  PROVE  TypeOK'
<1> USE DEF TypeOK
<1>0. r \in Workers /\ target \in [Workers -> Runs \cup {NoRun}]
  BY DEF MemoryOK, Workers
<1>1. CASE startSaga(r)
  <2>1. TablesOK'
    BY <1>1 DEF startSaga, attachOperation, TablesOK, RunStatuses, world
  <2>2. MemoryOK'
    BY <1>0, <1>1 DEF startSaga, MemoryOK
  <2>3. ControlOK'
    BY <1>0, <1>1, ControlMoves DEF startSaga, RequestPCs, Replaying, Holding
  <2> QED BY <2>1, <2>2, <2>3
<1>2. CASE stepEffect(r)
  <2>1. seq[r] \in 0..NSteps /\ seq[r] + 1 \in Steps /\ seq[r] + 1 \in 0..NSteps
    BY <1>2, StepsAssumption DEF stepEffect, MemoryOK, Steps
  <2>2. PICK e \in {"none", "done", "undone"} : effect' = [effect EXCEPT ![r][seq[r] + 1] = e]
    BY <1>2 DEF stepEffect
  <2>3. effect' \in [Runs -> [Steps -> {"none", "done", "undone"}]]
    BY <2>1, <2>2, CellUpdate DEF TablesOK
  <2>4. TablesOK'
    BY <1>2, <2>3 DEF stepEffect, TablesOK, tables
  <2>5. MemoryOK'
    BY <1>2, <2>1 DEF stepEffect, MemoryOK
  <2>6. PICK to \in {"record", "fail"} : GoTo(r, to)
    BY <1>2 DEF stepEffect
  <2>7. ControlOK'
    BY <1>0, <1>2, <2>6, ControlMoves DEF stepEffect, ControlOK, RequestPCs, Replaying, Holding
  <2> QED BY <2>4, <2>5, <2>7
<1>3. CASE recordStep(r)
  <2>1. seq[r] \in Steps \/ comp' = comp
    BY <1>3 DEF recordStep, RecordInv
  <2>2. comp' \in [Runs -> [Steps -> CompStatuses]]
    <3>1. CASE comp' = comp
      BY <3>1 DEF TablesOK
    <3>2. CASE comp' # comp
      <4>1. PICK c \in CompStatuses : comp' = [comp EXCEPT ![r][seq[r]] = c]
        BY <1>3, <3>2 DEF recordStep, CompStatuses
      <4> QED BY <2>1, <3>2, <4>1, CellUpdate DEF TablesOK
    <3> QED BY <3>1, <3>2
  <2>3. TablesOK'
    BY <1>3, <2>2 DEF recordStep, TablesOK, world
  <2>4. MemoryOK'
    BY <1>3 DEF recordStep, MemoryOK, memory
  <2>5. PICK to \in {"ready", "fail"} : GoTo(r, to)
    BY <1>3 DEF recordStep
  <2>6. ControlOK'
    BY <1>0, <1>3, <2>5, ControlMoves
    DEF recordStep, ControlOK, RequestPCs, Replaying, Holding, memory
  <2> QED BY <2>3, <2>4, <2>6
<1>4. CASE complete(r)
  <2>1. TablesOK'
    BY <1>4 DEF complete, TablesOK, RunStatuses, world
  <2>2. MemoryOK'
    BY <1>4 DEF complete, MemoryOK, memory
  <2>3. PICK to \in {"mirrorCompleted", "fail"} : GoTo(r, to)
    BY <1>4 DEF complete
  <2>4. ControlOK'
    BY <1>0, <1>4, <2>3, ControlMoves
    DEF complete, ControlOK, RequestPCs, Replaying, Holding, memory
  <2> QED BY <2>1, <2>2, <2>4
<1>5. CASE fail(r)
  <2>1. TablesOK'
    BY <1>5 DEF fail, TablesOK, RunStatuses, world
  <2>2. MemoryOK'
    BY <1>5 DEF fail, MemoryOK, memory
  <2>3. ControlOK'
    BY <1>0, <1>5, ControlMoves DEF fail, ControlOK, RequestPCs, Replaying, Holding, memory
  <2> QED BY <2>1, <2>2, <2>3
<1>6. CASE opStatus(r)
  <2>1. PICK m \in {"completed", "failed"} :
          mirror' \in {mirror, [mirror EXCEPT ![r] = IF @ = "absent" THEN @ ELSE m]}
    BY <1>6 DEF opStatus
  <2>2. mirror' \in [Runs -> {"absent", "running", "completed", "failed"}]
    BY <2>1 DEF TablesOK
  <2>3. TablesOK'
    BY <1>6, <2>2 DEF opStatus, TablesOK, world
  <2>4. MemoryOK'
    BY <1>6 DEF opStatus, MemoryOK, memory
  <2>5. pc[r] # "idle" /\ \E to \in {"done", "select"} : GoTo(r, to)
    BY <1>6 DEF opStatus
  <2>6. PICK to \in {"done", "select"} : GoTo(r, to)
    BY <2>5
  <2>7. target' = target /\ cur' = cur /\ target[r] = r
    BY <1>6, <2>5 DEF opStatus, memory, ControlOK
  <2>8. ControlOK'
    BY <1>0, <2>6, <2>7, ControlMoves DEF RequestPCs, Replaying, Holding
  <2> QED BY <2>3, <2>4, <2>8
<1>7. CASE age(r)
  <2>1. TablesOK'
    BY <1>7 DEF age, TablesOK, world
  <2> QED BY <1>7, <2>1 DEF age, ControlOK, MemoryOK, memory
<1> QED BY <1>1, <1>2, <1>3, <1>4, <1>5, <1>6, <1>7 DEF RequestStep

\* A replay step keeps every type.
LEMMA ReplayTypeOK ==
  ASSUME TypeOK, NEW w \in Workers, Replay(w) \/ dbError(w)
  PROVE  TypeOK'
<1> USE DEF TypeOK
<1>0. /\ pc[w] \in Replaying => target[w] \in Runs /\ (w \in Runs => target[w] = w)
      /\ pc[w] \in Holding => cur[w] \in Steps
      /\ w \in Runs => pc[w] \in RequestPCs
      /\ w \notin Runs => pc[w] \in ReplicaPCs /\ w \in Replicas
  BY DEF ControlOK, Workers, Replaying, Holding
<1>1. CASE selectPending(w)
  <2>1. MemoryOK'
    BY <1>1 DEF selectPending, MemoryOK
  <2>2. ControlOK'
    BY <1>0, <1>1, ControlMoves
    DEF selectPending, ControlOK, RequestPCs, ReplicaPCs, Replaying, Holding
  <2> QED BY <1>1, <2>1, <2>2 DEF selectPending, TablesOK, tables, world
<1>2. ASSUME NEW s \in Steps, claim(w, s) PROVE TypeOK'
  <2>1. target[w] \in Runs /\ s \in 0..NSteps
    BY <1>0, <1>2 DEF claim, Replaying, Steps
  <2>2. CASE comp[target[w]][s] = "pending"
    <3>1. comp' \in [Runs -> [Steps -> CompStatuses]]
      <4>1. "compensating" \in CompStatuses
        BY DEF CompStatuses
      <4>2. comp' = [comp EXCEPT ![target[w]][s] = "compensating"]
        BY <1>2, <2>2 DEF claim
      <4> QED BY <2>1, <4>1, <4>2, CellUpdate DEF TablesOK
    <3>2. TablesOK'
      BY <1>2, <3>1 DEF claim, TablesOK, world
    <3>3. MemoryOK'
      BY <1>2, <2>1, <2>2 DEF claim, MemoryOK
    <3>4. cur'[w] = s /\ \A v \in Workers \ {w} : cur'[v] = cur[v]
      BY <1>2, <2>2 DEF claim, MemoryOK
    <3>5. GoTo(w, "exec") /\ target' = target /\ pc[w] \in Replaying
      BY <1>2, <2>2 DEF claim, Replaying
    <3>6. ControlOK'
      BY <1>0, <3>4, <3>5, ControlMoves DEF RequestPCs, ReplicaPCs, Replaying, Holding
    <3> QED BY <3>2, <3>3, <3>6
  <2>3. CASE comp[target[w]][s] # "pending"
    BY <1>2, <2>3 DEF claim, TablesOK, ControlOK, MemoryOK, world
  <2> QED BY <2>2, <2>3
<1>3. CASE execute(w)
  <2>1. target[w] \in Runs /\ cur[w] \in Steps
    BY <1>0, <1>3 DEF execute, Replaying, Holding
  <2>2. execs[target[w]][cur[w]] + 1 \in Nat
    BY <2>1 DEF TablesOK
  <2>3. execs' \in [Runs -> [Steps -> Nat]]
    BY <1>3, <2>1, <2>2, CellUpdate DEF execute, TablesOK
  <2>4. effect' \in [Runs -> [Steps -> {"none", "done", "undone"}]]
    <3>1. CASE effect' = effect
      BY <3>1 DEF TablesOK
    <3>2. CASE effect' = [effect EXCEPT ![target[w]][cur[w]] = "undone"]
      BY <2>1, <3>2, CellUpdate DEF TablesOK
    <3> QED BY <1>3, <3>1, <3>2 DEF execute
  <2>5. PICK to \in {"markOk", "markFailed"} : GoTo(w, to)
    BY <1>3 DEF execute
  <2>6. target' = target /\ cur' = cur /\ pc[w] \in Replaying
    BY <1>3 DEF execute, memory, Replaying, Holding
  <2>7. ControlOK'
    BY <1>0, <2>1, <2>5, <2>6, ControlMoves DEF RequestPCs, ReplicaPCs, Replaying, Holding
  <2> QED BY <1>3, <2>3, <2>4, <2>7 DEF execute, TablesOK, MemoryOK, tables, memory
<1>4. CASE markStep(w)
  <2>1. target[w] \in Runs /\ cur[w] \in Steps /\ pc[w] \in Replaying
    BY <1>0, <1>4 DEF markStep, Replaying, Holding
  <2>2. PICK c \in CompStatuses : comp' = [comp EXCEPT ![target[w]][cur[w]] = c]
    BY <1>4 DEF markStep, CompStatuses
  <2>3. comp' \in [Runs -> [Steps -> CompStatuses]]
    BY <2>1, <2>2, CellUpdate DEF TablesOK
  <2>4. MemoryOK'
    BY <1>4, StepsAssumption DEF markStep, MemoryOK
  <2>5. \A v \in Workers \ {w} : cur'[v] = cur[v] /\ target'[v] = target[v]
    BY <1>4 DEF markStep, MemoryOK
  <2>6. GoTo(w, "claim") /\ target' = target
    BY <1>4 DEF markStep
  <2>7. ControlOK'
    BY <1>0, <2>1, <2>5, <2>6, ControlMoves DEF RequestPCs, ReplicaPCs, Replaying, Holding
  <2> QED BY <1>4, <2>3, <2>4, <2>7 DEF markStep, TablesOK, world
<1>5. CASE finish(w)
  <2>1. TablesOK'
    BY <1>5 DEF finish, TablesOK, RunStatuses, world
  <2>2. GoTo(w, IF w \in Runs THEN "done" ELSE "next") /\ target' = target /\ cur' = cur
        /\ pc[w] \in Replaying
    BY <1>5 DEF finish, memory, Replaying
  <2>3. ControlOK'
    BY <1>0, <2>2, ControlMoves DEF RequestPCs, ReplicaPCs, Replaying, Holding
  <2> QED BY <1>5, <2>1, <2>3 DEF finish, MemoryOK, memory
<1>6. CASE dbError(w)
  <2>1. target' = target /\ cur' = cur /\ (w \in Runs => target[w] = w)
    BY <1>0, <1>6 DEF dbError, ControlOK
  <2>2. GoTo(w, IF w \in Runs THEN "aborted" ELSE "boot")
    BY <1>6 DEF dbError
  <2>3. ControlOK'
    BY <1>0, <2>1, <2>2, ControlMoves DEF RequestPCs, ReplicaPCs, Replaying, Holding
  <2>4. MemoryOK'
    BY <1>0, <1>6, BoundsAssumption DEF dbError, MemoryOK
  <2> QED BY <1>6, <2>3, <2>4 DEF dbError, TablesOK, tables, world
<1> QED BY <1>1, <1>2, <1>3, <1>4, <1>5, <1>6 DEF Replay

\* A replica's step or crash keeps every type.
LEMMA ReplicaTypeOK ==
  ASSUME TypeOK, NEW n \in Replicas, ReplicaStep(n) \/ crash(n)
  PROVE  TypeOK'
<1> USE DEF TypeOK
<1>0. n \in Workers /\ n \notin Runs /\ n \in Replicas
  BY NamesAssumption DEF Workers
<1>1. CASE boot(n)
  <2>1. ControlOK'
    BY <1>0, <1>1, ControlMoves DEF boot, ReplicaPCs, Replaying, Holding, memory
  <2> QED BY <1>1, <2>1 DEF boot, TablesOK, MemoryOK, tables, world, memory
<1>2. CASE recoverSagas(n)
  <2>1. run' \in [Runs -> RunStatuses]
    BY <1>2 DEF recoverSagas, TablesOK, RunStatuses
  <2>2. ControlOK'
    BY <1>0, <1>2, ControlMoves DEF recoverSagas, ReplicaPCs, Replaying, Holding
  <2>3. MemoryOK'
    BY <1>2 DEF recoverSagas, MemoryOK
  <2> QED BY <1>2, <2>1, <2>2, <2>3 DEF recoverSagas, TablesOK, world
<1>3. CASE recoverNext(n)
  <2>1. CASE queue[n] = {} /\ GoTo(n, "up") /\ UNCHANGED <<queue, target>>
    <3>1. ControlOK'
      BY <1>0, <1>3, <2>1, ControlMoves DEF recoverNext, ReplicaPCs, Replaying, Holding
    <3> QED BY <1>3, <2>1, <3>1 DEF recoverNext, TablesOK, MemoryOK, tables, world
  <2>2. ASSUME NEW r \in queue[n], queue' = [queue EXCEPT ![n] = @ \ {r}],
               target' = [target EXCEPT ![n] = r], GoTo(n, "select")
        PROVE  TypeOK'
    <3>1. r \in Runs
      BY <2>2 DEF MemoryOK
    <3>2. MemoryOK'
      BY <1>3, <2>2, <3>1 DEF recoverNext, MemoryOK
    <3>3. target'[n] = r /\ \A v \in Workers \ {n} : target'[v] = target[v] /\ cur'[v] = cur[v]
      BY <1>0, <1>3, <2>2 DEF recoverNext, MemoryOK
    <3>4. ControlOK'
      BY <1>0, <2>2, <3>1, <3>3, ControlMoves DEF ReplicaPCs, Replaying, Holding
    <3> QED BY <1>3, <3>2, <3>4 DEF recoverNext, TablesOK, tables, world
  <2> QED BY <1>3, <2>1, <2>2 DEF recoverNext
<1>4. CASE crash(n)
  <2>1. \A w \in Workers : \/ pc'[w] = pc[w]
                           \/ w \notin Runs /\ pc'[w] = "down"
                           \/ w \in Runs /\ pc'[w] = "dead" /\ pc[w] # "idle"
    BY <1>0, <1>4 DEF crash, Live
  <2>2. pc' \in [Workers -> RequestPCs \cup ReplicaPCs]
    BY <1>4 DEF crash, ControlOK, RequestPCs, ReplicaPCs
  <2>3. Runs \subseteq Workers
    BY DEF Workers
  <2>4. \A w \in Workers :
          /\ pc'[w] \in (IF w \in Runs THEN RequestPCs ELSE ReplicaPCs)
          /\ pc'[w] \in Replaying => pc[w] \in Replaying
          /\ pc'[w] \in Holding => pc[w] \in Holding
          /\ w \in Runs /\ pc'[w] # "idle" => pc[w] # "idle"
    BY <2>1 DEF ControlOK, RequestPCs, ReplicaPCs, Replaying, Holding
  <2>5. target' = target /\ cur' = cur
    BY <1>4 DEF crash
  <2>6. ControlOK'
    BY <2>2, <2>3, <2>4, <2>5 DEF ControlOK
  <2>7. MemoryOK'
    BY <1>4, BoundsAssumption DEF crash, MemoryOK
  <2> QED BY <1>4, <2>6, <2>7 DEF crash, TablesOK, tables, world
<1> QED BY <1>1, <1>2, <1>3, <1>4 DEF ReplicaStep

-----------------------------------------------------------------------------
(* The claim protocol. *)

\* Steps that claim nothing, undo nothing and at most insert a new row keep the
\* claim invariant.
LEMMA ClaimFrame ==
  ASSUME TypeOK, ClaimInv, execs' = execs,
         \A w \in Workers : pc'[w] \in Holding =>
            pc'[w] = pc[w] /\ target'[w] = target[w] /\ cur'[w] = cur[w],
         \A r \in Runs, s \in Steps :
            \/ comp'[r][s] = comp[r][s]
            \/ comp[r][s] = "absent" /\ comp'[r][s] \in {"pending", "null"}
  PROVE  ClaimInv'
<1>1. \A w \in Workers : pc[w] \in Holding => target[w] \in Runs /\ cur[w] \in Steps
  BY DEF TypeOK, ControlOK, Replaying
<1>2. \A w \in Workers : pc'[w] \in Holding => comp'[target'[w]][cur'[w]] = "compensating"
  BY <1>1 DEF ClaimInv
<1>3. \A w \in Workers : pc'[w] = "exec" => execs'[target'[w]][cur'[w]] = 0
  BY DEF ClaimInv, Holding
<1>4. \A r \in Runs, s \in Steps :
         comp'[r][s] \in {"absent", "null", "pending"} => execs'[r][s] = 0
  BY DEF ClaimInv
<1> QED BY <1>2, <1>3, <1>4 DEF ClaimInv

\* Steps that insert no row keep the record invariant.
LEMMA RecordFrame ==
  ASSUME RecordInv, seq' = seq,
         \A r \in Runs : pc'[r] = "record" => pc[r] = "record",
         \A r \in Runs, s \in Steps : comp[r][s] = "absent" => comp'[r][s] = "absent"
  PROVE  RecordInv'
  BY DEF RecordInv

\* A request never disturbs a claim, and records each step once.
LEMMA RequestInv ==
  ASSUME TypeOK, Inv, NEW r \in Runs, startSaga(r) \/ RequestStep(r) \/ age(r)
  PROVE  Inv'
<1> USE DEF Inv
<1>0. /\ r \in Workers /\ Runs \subseteq Workers
      /\ pc \in [Workers -> RequestPCs \cup ReplicaPCs]
      /\ comp \in [Runs -> [Steps -> CompStatuses]]
      /\ target \in [Workers -> Runs \cup {NoRun}]
      /\ seq \in [Runs -> 0..NSteps]
  BY DEF TypeOK, ControlOK, TablesOK, MemoryOK, Workers
<1>1. CASE startSaga(r) \/ complete(r) \/ fail(r) \/ opStatus(r)
  <2>1. /\ execs' = execs /\ comp' = comp /\ cur' = cur /\ seq' = seq
        /\ \A v \in Workers \ {r} : pc'[v] = pc[v] /\ target'[v] = target[v]
    BY <1>0, <1>1 DEF startSaga, complete, fail, opStatus, GoTo, world, memory
  <2>2. pc'[r] \in {"ready", "mirrorCompleted", "mirrorFailed", "fail", "done", "select"}
    BY <1>0, <1>1 DEF startSaga, complete, fail, opStatus, GoTo
  <2>3. ClaimInv'
    BY <2>1, <2>2, ClaimFrame DEF Holding
  <2>4. RecordInv'
    BY <1>0, <2>1, <2>2, RecordFrame
  <2> QED BY <2>3, <2>4
<1>2. CASE stepEffect(r)
  <2>1. /\ UNCHANGED <<execs, comp, cur, target>>
        /\ \A v \in Workers \ {r} : pc'[v] = pc[v]
        /\ pc'[r] \in {"record", "fail"}
    BY <1>0, <1>2 DEF stepEffect, GoTo, tables
  <2>2. ClaimInv'
    BY <2>1, ClaimFrame DEF Holding
  <2>3. /\ seq'[r] = seq[r] + 1 /\ seq[r] + 1 \in Steps /\ seq[r] \in Int
        /\ \A q \in Runs \ {r} : seq'[q] = seq[q]
    BY <1>0, <1>2, StepsAssumption DEF stepEffect, Steps
  <2>4. \A s \in Steps : s \in Int
    BY DEF Steps
  <2>5. RecordInv'
    BY <1>0, <2>1, <2>3, <2>4 DEF RecordInv
  <2> QED BY <2>2, <2>5
<1>3. CASE recordStep(r)
  <2>1. /\ UNCHANGED <<execs, cur, target, seq>>
        /\ \A v \in Workers \ {r} : pc'[v] = pc[v]
        /\ pc'[r] \in {"ready", "fail"} /\ pc[r] = "record"
    BY <1>0, <1>3 DEF recordStep, GoTo, world, memory
  <2>2. seq[r] \in Steps /\ comp[r][seq[r]] = "absent"
    BY <2>1 DEF RecordInv
  <2>3. /\ comp'[r][seq[r]] \in {"pending", "null", "absent"}
        /\ \A q \in Runs, s \in Steps : <<q, s>> # <<r, seq[r]>> => comp'[q][s] = comp[q][s]
    <3>1. CASE comp' = comp
      BY <2>2, <3>1
    <3>2. CASE comp' # comp
      <4>1. PICK c \in {"pending", "null"} : comp' = [comp EXCEPT ![r][seq[r]] = c]
        BY <1>3, <3>2 DEF recordStep
      <4>2. c \in CompStatuses
        BY DEF CompStatuses
      <4> QED BY <1>0, <2>2, <4>1, <4>2, CellUpdate
    <3> QED BY <3>1, <3>2
  <2>4. ClaimInv'
    <3>1. \A q \in Runs, s \in Steps :
             \/ comp'[q][s] = comp[q][s]
             \/ comp[q][s] = "absent" /\ comp'[q][s] \in {"pending", "null"}
      BY <2>2, <2>3
    <3> QED BY <2>1, <3>1, ClaimFrame DEF Holding
  <2>5. \A q \in Runs : \A s \in Steps : s > seq[q] => comp'[q][s] = "absent"
    <3>1. ~(seq[r] > seq[r])
      BY <1>0
    <3> QED BY <2>3, <3>1 DEF RecordInv
  <2>6. \A q \in Runs : pc'[q] = "record" => seq[q] \in Steps /\ comp'[q][seq[q]] = "absent"
    BY <1>0, <2>1, <2>3 DEF RecordInv
  <2> QED BY <2>1, <2>4, <2>5, <2>6 DEF RecordInv
<1>4. CASE age(r)
  BY <1>4 DEF age, ClaimInv, RecordInv, world, memory
<1> QED BY <1>1, <1>2, <1>3, <1>4 DEF RequestStep

\* Replaying keeps claims exclusive: only a pending row is claimed, and only
\* its holder calls the compensator.
LEMMA ReplayInv ==
  ASSUME TypeOK, Inv, NEW w \in Workers, Replay(w) \/ dbError(w)
  PROVE  Inv'
<1> USE DEF Inv
<1>0. /\ Runs \subseteq Workers
      /\ pc \in [Workers -> RequestPCs \cup ReplicaPCs]
      /\ comp \in [Runs -> [Steps -> CompStatuses]]
      /\ execs \in [Runs -> [Steps -> Nat]]
      /\ cur \in [Workers -> 0..NSteps]
      /\ \A v \in Workers : pc[v] \in Holding => target[v] \in Runs /\ cur[v] \in Steps
      /\ pc[w] \in Replaying => target[w] \in Runs
  BY DEF TypeOK, ControlOK, TablesOK, MemoryOK, Workers, Replaying
<1>1. CASE selectPending(w) \/ finish(w) \/ dbError(w)
  <2>1. /\ UNCHANGED <<execs, comp, cur, target, seq>>
        /\ \A v \in Workers \ {w} : pc'[v] = pc[v]
        /\ pc'[w] \in {"claim", "done", "next", "aborted", "boot"}
    BY <1>0, <1>1 DEF selectPending, finish, dbError, GoTo, tables, world, memory
  <2>2. ClaimInv'
    BY <2>1, ClaimFrame DEF Holding
  <2>3. RecordInv'
    BY <1>0, <2>1, RecordFrame
  <2> QED BY <2>2, <2>3
<1>2. ASSUME NEW s \in Steps, claim(w, s) PROVE Inv'
  <2>1. CASE comp[target[w]][s] # "pending"
    BY <1>2, <2>1 DEF claim, ClaimInv, RecordInv, world
  <2>2. CASE comp[target[w]][s] = "pending"
    <3>1. /\ UNCHANGED <<execs, target, seq>> /\ target[w] \in Runs
          /\ pc'[w] = "exec" /\ pc[w] = "claim" /\ cur'[w] = s
          /\ \A v \in Workers \ {w} : pc'[v] = pc[v] /\ cur'[v] = cur[v]
      BY <1>0, <1>2, <2>2 DEF claim, GoTo, world, Replaying
    <3>2. "compensating" \in CompStatuses
      BY DEF CompStatuses
    <3>3. /\ comp'[target[w]][s] = "compensating"
          /\ \A q \in Runs, t \in Steps :
               <<q, t>> # <<target[w], s>> => comp'[q][t] = comp[q][t]
      <4>1. comp' = [comp EXCEPT ![target[w]][s] = "compensating"]
        BY <1>2, <2>2 DEF claim
      <4> QED BY <1>0, <3>1, <3>2, <4>1, CellUpdate
    <3>4. \A v \in Workers \ {w} : pc[v] \in Holding => <<target[v], cur[v]>> # <<target[w], s>>
      BY <2>2 DEF ClaimInv
    <3>5. ClaimInv'
      <4>1. \A v \in Workers : pc'[v] \in Holding => comp'[target'[v]][cur'[v]] = "compensating"
        BY <1>0, <3>1, <3>3, <3>4 DEF ClaimInv
      <4>2. \A v \in Workers : pc'[v] = "exec" => execs'[target'[v]][cur'[v]] = 0
        BY <2>2, <3>1 DEF ClaimInv
      <4>3. \A v, x \in Workers :
              pc'[v] \in Holding /\ pc'[x] \in Holding /\ target'[v] = target'[x]
                /\ cur'[v] = cur'[x] => v = x
        BY <3>1, <3>4 DEF ClaimInv
      <4>4. \A q \in Runs, t \in Steps :
              comp'[q][t] \in {"absent", "null", "pending"} => execs'[q][t] = 0
        BY <3>1, <3>3 DEF ClaimInv
      <4> QED BY <3>1, <4>1, <4>2, <4>3, <4>4 DEF ClaimInv
    <3>6. RecordInv'
      <4>1. \A q \in Runs, t \in Steps : comp[q][t] = "absent" => comp'[q][t] = "absent"
        BY <2>2, <3>3
      <4> QED BY <1>0, <3>1, <4>1, RecordFrame
    <3> QED BY <3>5, <3>6
  <2> QED BY <2>1, <2>2
<1>3. CASE execute(w)
  <2>1. /\ UNCHANGED <<comp, cur, target, seq>>
        /\ pc[w] = "exec" /\ pc'[w] \in {"markOk", "markFailed"}
        /\ \A v \in Workers \ {w} : pc'[v] = pc[v]
        /\ target[w] \in Runs /\ cur[w] \in Steps
    BY <1>0, <1>3 DEF execute, GoTo, tables, memory, Holding
  <2>2. execs[target[w]][cur[w]] = 0 /\ comp[target[w]][cur[w]] = "compensating"
    BY <2>1 DEF ClaimInv, Holding
  <2>3. execs' = [execs EXCEPT ![target[w]][cur[w]] = 1]
    BY <1>3, <2>1, <2>2 DEF execute
  <2>4. /\ execs'[target[w]][cur[w]] = 1
        /\ \A q \in Runs, t \in Steps :
             <<q, t>> # <<target[w], cur[w]>> => execs'[q][t] = execs[q][t]
    BY <1>0, <2>1, <2>3, CellUpdate
  <2>5. ClaimInv'
    <3>1. \A v \in Workers : pc'[v] \in Holding => pc[v] \in Holding
      BY <2>1 DEF Holding
    <3>2. \A v \in Workers : pc'[v] = "exec" =>
             pc[v] = "exec" /\ <<target[v], cur[v]>> # <<target[w], cur[w]>>
      BY <2>1 DEF ClaimInv, Holding
    <3>3. \A v \in Workers : pc'[v] = "exec" => execs'[target'[v]][cur'[v]] = 0
      BY <1>0, <2>1, <2>4, <3>2 DEF ClaimInv, Holding
    <3>4. \A q \in Runs, t \in Steps :
             comp'[q][t] \in {"absent", "null", "pending"} => execs'[q][t] = 0
      BY <2>1, <2>2, <2>4 DEF ClaimInv
    <3>5. \A q \in Runs, t \in Steps : execs'[q][t] <= 1
      BY <2>4 DEF ClaimInv
    <3> QED BY <2>1, <3>1, <3>3, <3>4, <3>5 DEF ClaimInv
  <2>6. RecordInv'
    BY <1>0, <2>1, RecordFrame
  <2> QED BY <2>5, <2>6
<1>4. CASE markStep(w)
  <2>1. /\ UNCHANGED <<execs, target, seq>>
        /\ pc[w] \in Holding /\ pc'[w] = "claim"
        /\ \A v \in Workers \ {w} : pc'[v] = pc[v] /\ cur'[v] = cur[v]
        /\ target[w] \in Runs /\ cur[w] \in Steps
    BY <1>0, <1>4 DEF markStep, GoTo, world, Holding
  <2>2. PICK c \in {"compensated", "comp_failed"} : comp' = [comp EXCEPT ![target[w]][cur[w]] = c]
    BY <1>4 DEF markStep
  <2>3. c \in CompStatuses
    BY DEF CompStatuses
  <2>4. /\ comp'[target[w]][cur[w]] = c
        /\ \A q \in Runs, t \in Steps :
             <<q, t>> # <<target[w], cur[w]>> => comp'[q][t] = comp[q][t]
    BY <1>0, <2>1, <2>2, <2>3, CellUpdate
  <2>5. comp[target[w]][cur[w]] = "compensating"
    BY <2>1 DEF ClaimInv
  <2>6. ClaimInv'
    <3>1. \A v \in Workers : pc'[v] \in Holding =>
             v # w /\ pc[v] \in Holding /\ <<target[v], cur[v]>> # <<target[w], cur[w]>>
      BY <2>1 DEF ClaimInv, Holding
    <3>2. \A v \in Workers : pc'[v] \in Holding => comp'[target'[v]][cur'[v]] = "compensating"
      BY <1>0, <2>1, <2>4, <3>1 DEF ClaimInv
    <3>3. \A v \in Workers : pc'[v] = "exec" => execs'[target'[v]][cur'[v]] = 0
      BY <2>1 DEF ClaimInv, Holding
    <3>4. \A v, x \in Workers :
            pc'[v] \in Holding /\ pc'[x] \in Holding /\ target'[v] = target'[x]
              /\ cur'[v] = cur'[x] => v = x
      BY <2>1, <3>1 DEF ClaimInv
    <3>5. \A q \in Runs, t \in Steps :
             comp'[q][t] \in {"absent", "null", "pending"} => execs'[q][t] = 0
      BY <2>1, <2>4 DEF ClaimInv
    <3> QED BY <2>1, <3>2, <3>3, <3>4, <3>5 DEF ClaimInv
  <2>7. RecordInv'
    <3>1. \A q \in Runs, t \in Steps : comp[q][t] = "absent" => comp'[q][t] = "absent"
      BY <2>4, <2>5
    <3> QED BY <1>0, <2>1, <3>1, RecordFrame
  <2> QED BY <2>6, <2>7
<1> QED BY <1>1, <1>2, <1>3, <1>4 DEF Replay

\* Boots, recovery sweeps and crashes of replicas disturb no claim.
LEMMA ReplicaInv ==
  ASSUME TypeOK, Inv, NEW n \in Replicas, ReplicaStep(n) \/ crash(n)
  PROVE  Inv'
<1> USE DEF Inv
<1>0. /\ n \in Workers /\ n \notin Runs /\ Runs \subseteq Workers
      /\ pc \in [Workers -> RequestPCs \cup ReplicaPCs]
      /\ target \in [Workers -> Runs \cup {NoRun}]
  BY NamesAssumption DEF TypeOK, ControlOK, MemoryOK, Workers
<1>1. UNCHANGED <<execs, comp, cur, seq>>
  BY DEF ReplicaStep, boot, recoverSagas, recoverNext, crash, tables, world, memory
<1>2. \A w \in Workers : /\ pc'[w] \in Holding => pc'[w] = pc[w] /\ target'[w] = target[w]
                         /\ pc'[w] = "record" => pc[w] = "record"
  <2>1. CASE crash(n)
    BY <2>1 DEF crash, Holding
  <2>2. CASE ReplicaStep(n)
    <3>1. /\ pc'[n] \in {"boot", "next", "select", "up"}
          /\ \A w \in Workers \ {n} : pc'[w] = pc[w] /\ target'[w] = target[w]
      BY <1>0, <2>2 DEF ReplicaStep, boot, recoverSagas, recoverNext, GoTo, memory
    <3> QED BY <3>1 DEF Holding
  <2> QED BY <2>1, <2>2
<1>3. ClaimInv'
  BY <1>1, <1>2, ClaimFrame
<1>4. RecordInv'
  BY <1>0, <1>1, <1>2, RecordFrame
<1> QED BY <1>3, <1>4

\* Types and the claim protocol hold together.
LEMMA SagaInvariant == Spec => [](TypeOK /\ Inv)
<1>1. TypeOK /\ Inv /\ [Next]_vars => TypeOK' /\ Inv'
  <2> SUFFICES ASSUME TypeOK, Inv, [Next]_vars PROVE TypeOK' /\ Inv'
    OBVIOUS
  <2>1. CASE UNCHANGED vars
    BY <2>1 DEF vars, tables, world, memory, TypeOK, TablesOK, ControlOK, MemoryOK, Inv,
                ClaimInv, RecordInv
  <2>2. CASE Next
    BY <2>2, RequestTypeOK, ReplayTypeOK, ReplicaTypeOK, RequestInv, ReplayInv, ReplicaInv
    DEF Next, Inv
  <2> QED BY <2>1, <2>2
<1> QED BY <1>1, InitInv, PTL DEF Spec

\* Every table and every process keeps its type.
THEOREM TypeCorrect == Spec => []TypeOK
  BY SagaInvariant, PTL

\* The atomic claim makes every compensation run at most once, and only in one
\* worker at a time, for any number of replicas, runs, steps and faults, even
\* when a live saga is swept by a booting replica.
THEOREM ClaimsExclusive == Spec => []CompensatedAtMostOnce
<1>1. TypeOK /\ Inv => CompensatedAtMostOnce
  BY DEF Inv, ClaimInv, CompensatedAtMostOnce, Holds
<1> QED BY <1>1, SagaInvariant, PTL

-----------------------------------------------------------------------------
(* Runs shorter than the recovery window: a live run is never swept.       *)

Ended == {"done", "dead", "aborted"}

\* No undo record of the run is being played.
NoneClaimed(r) == \A s \in Steps : comp[r][s] # "compensating"

\* The status of a run that its own request still drives.
StatusOf(r) ==
    /\ old[r] => pc[r] \in Ended
    /\ pc[r] = "idle" => run[r] = "absent" /\ seq[r] = 0
    /\ pc[r] \in {"ready", "record", "fail"} => run[r] = "running"
    /\ pc[r] = "mirrorCompleted" => run[r] = "completed"
    /\ pc[r] \in {"mirrorFailed"} \cup Replaying => run[r] = "failed"

\* What the status of a run says of its undo records.
RecordsOf(r) ==
    /\ run[r] \in {"absent", "running", "completed"} =>
         NoneClaimed(r) /\ \A s \in Steps : execs[r][s] = 0
    /\ pc[r] = "mirrorFailed" => NoneClaimed(r)
    /\ run[r] \in {"compensated", "recovered"} =>
         \A s \in Steps : comp[r][s] \notin {"pending", "compensating"}

\* The effects of a run that has not failed.
EffectsOf(r) ==
    /\ pc[r] \in {"ready", "record"} =>
         \A s \in Steps : s <= seq[r] => effect[r][s] = "done"
    /\ run[r] = "completed" => \A s \in Steps : effect[r][s] = "done"

RunInv == \A r \in Runs : StatusOf(r) /\ RecordsOf(r) /\ EffectsOf(r)

\* What a replaying worker knows of the records of its run: the pending ones
\* are still on its list, the list is below the record it has claimed, and
\* nobody else has claimed one.
WorkerOf(w) ==
    /\ pc[w] \in {"select", "claim"} => NoneClaimed(target[w])
    /\ pc[w] \in {"claim"} \cup Holding =>
         \A s \in Steps : comp[target[w]][s] = "pending" => s \in todo[w]
    /\ pc[w] \in Holding =>
         /\ \A s \in Steps : comp[target[w]][s] = "compensating" => s = cur[w]
         /\ \A s \in todo[w] : s < cur[w]

WorkerInv == \A w \in Workers : WorkerOf(w)

\* A run under recovery is dead, and belongs to one replica: it waits in one
\* queue, or one replica replays it.
OwnerInv ==
    /\ \A n \in Replicas : \A r \in queue[n] :
         run[r] = "recovering" /\ pc[r] \in Ended /\ NoneClaimed(r)
    /\ \A n \in Replicas : pc[n] \in Replaying =>
         /\ run[target[n]] = "recovering" /\ pc[target[n]] \in Ended
         /\ \A m \in Replicas : target[n] \notin queue[m]
    /\ \A n, m \in Replicas : \A r \in queue[n] : r \in queue[m] => n = m
    /\ \A n, m \in Replicas :
         pc[n] \in Replaying /\ pc[m] \in Replaying /\ target[n] = target[m] => n = m

RollbackInv == RunInv /\ WorkerInv /\ OwnerInv

\* Initially no run exists and nobody replays.
LEMMA InitRollback == Init => RollbackInv
<1> SUFFICES ASSUME Init PROVE RollbackInv
  OBVIOUS
<1>1. Runs \subseteq Workers /\ Replicas \subseteq Workers /\ Runs \cap Replicas = {}
  BY NamesAssumption DEF Workers
<1>2. /\ \A r \in Runs : pc[r] = "idle" /\ run[r] = "absent" /\ seq[r] = 0 /\ ~old[r]
      /\ \A r \in Runs, s \in Steps : comp[r][s] = "absent" /\ execs[r][s] = 0
      /\ \A n \in Replicas : pc[n] = "up" /\ queue[n] = {}
  BY <1>1 DEF Init
<1>3. RunInv
  BY <1>2 DEF RunInv, StatusOf, RecordsOf, EffectsOf, NoneClaimed, Replaying, Holding
<1>4. \A w \in Workers : pc[w] \notin Replaying
  BY <1>2 DEF Workers, Replaying, Holding
<1>5. WorkerInv
  BY <1>4 DEF WorkerInv, WorkerOf, Replaying
<1>6. OwnerInv
  BY <1>1, <1>2, <1>4 DEF OwnerInv
<1> QED BY <1>3, <1>5, <1>6 DEF RollbackInv

\* A worker that acts for a run (its request, or the one replica that replays
\* it) disturbs no other run, worker or owner: what it owes are the facts about
\* itself and its run.
LEMMA LocalStep ==
  ASSUME TypeOK, RollbackInv, NEW w \in Workers, NEW x \in Runs,
         \/ w = x /\ pc[w] \notin Ended
         \/ w \in Replicas /\ pc[w] \in Replaying /\ target[w] = x,
         \A v \in Workers \ {w} : /\ pc'[v] = pc[v] /\ target'[v] = target[v]
                                  /\ todo'[v] = todo[v] /\ cur'[v] = cur[v],
         \A q \in Runs \ {x} : /\ run'[q] = run[q] /\ old'[q] = old[q] /\ comp'[q] = comp[q]
                               /\ execs'[q] = execs[q] /\ effect'[q] = effect[q]
                               /\ seq'[q] = seq[q],
         \A n \in Replicas : queue'[n] \subseteq queue[n],
         w \in Replicas /\ pc'[w] \in Replaying => target'[w] = x /\ run'[x] = run[x],
         StatusOf(x)', RecordsOf(x)', EffectsOf(x)', WorkerOf(w)'
  PROVE  RollbackInv'
<1>0. /\ Runs \subseteq Workers /\ Replicas \subseteq Workers
      /\ \A n \in Replicas : n \notin Runs
      /\ \A v \in Workers : v \in Runs \/ v \in Replicas
  BY NamesAssumption DEF Workers
<1>1. \A n \in Replicas : x \notin queue[n]
  BY DEF RollbackInv, OwnerInv
<1>2. \A v \in Workers \ {w} : pc[v] \in Replaying => target[v] \in Runs /\ target[v] # x
  <2> SUFFICES ASSUME NEW v \in Workers \ {w}, pc[v] \in Replaying
               PROVE  target[v] \in Runs /\ target[v] # x
    OBVIOUS
  <2>1. target[v] \in Runs
    BY DEF TypeOK, ControlOK
  <2>2. CASE v \in Runs
    <3>1. target[v] = v /\ pc[v] \notin Ended
      BY <2>2 DEF TypeOK, ControlOK, Replaying, Holding, Ended
    <3> QED BY <2>1, <3>1 DEF RollbackInv, OwnerInv
  <2>3. CASE v \in Replicas
    BY <1>0, <2>1, <2>3 DEF RollbackInv, OwnerInv
  <2> QED BY <1>0, <2>2, <2>3
<1>3. \A q \in Runs \ {x} : pc'[q] = pc[q]
  BY <1>0
<1>4. RunInv'
  <2>1. ASSUME NEW q \in Runs \ {x} PROVE (StatusOf(q) /\ RecordsOf(q) /\ EffectsOf(q))'
    BY <1>3 DEF RollbackInv, RunInv, StatusOf, RecordsOf, EffectsOf, NoneClaimed
  <2> QED BY <2>1 DEF RunInv
<1>5. WorkerInv'
  <2>1. ASSUME NEW v \in Workers \ {w} PROVE WorkerOf(v)'
    <3>1. CASE pc[v] \notin Replaying
      BY <3>1 DEF WorkerOf, Replaying
    <3>2. CASE pc[v] \in Replaying
      <4>1. comp'[target[v]] = comp[target[v]]
        BY <1>2, <3>2
      <4> QED BY <4>1 DEF RollbackInv, WorkerInv, WorkerOf, NoneClaimed
    <3> QED BY <3>1, <3>2
  <2> QED BY <2>1 DEF WorkerInv
<1>6. \A q \in Runs \ {x} : NoneClaimed(q) => NoneClaimed(q)'
  BY DEF NoneClaimed
<1>7. \A n \in Replicas : \A r \in queue'[n] : r \in queue[n] /\ r \in Runs \ {x}
  BY <1>1 DEF TypeOK, MemoryOK
<1>8. \A n \in Replicas : \A r \in queue'[n] :
         (run[r] = "recovering" /\ pc[r] \in Ended /\ NoneClaimed(r))'
  BY <1>3, <1>6, <1>7 DEF RollbackInv, OwnerInv
<1>9. ASSUME NEW n \in Replicas, pc'[n] \in Replaying
      PROVE  /\ pc[n] \in Replaying /\ target'[n] = target[n]
             /\ run'[target[n]] = run[target[n]] /\ pc'[target[n]] = pc[target[n]]
  <2>1. CASE n = w
    <3>1. pc[w] \in Replaying /\ target[w] = x /\ x # w
      BY <1>0, <2>1
    <3> QED BY <1>0, <1>9, <2>1, <3>1
  <2>2. CASE n # w
    BY <1>0, <1>2, <1>3, <1>9, <2>2
  <2> QED BY <2>1, <2>2
<1>10. OwnerInv'
  <2>1. \A n \in Replicas : pc'[n] \in Replaying =>
         /\ run'[target'[n]] = "recovering" /\ pc'[target'[n]] \in Ended
         /\ \A m \in Replicas : target'[n] \notin queue'[m]
    BY <1>7, <1>9 DEF RollbackInv, OwnerInv
  <2>2. \A n, m \in Replicas : \A r \in queue'[n] : r \in queue'[m] => n = m
    BY <1>7 DEF RollbackInv, OwnerInv
  <2>3. \A n, m \in Replicas :
         pc'[n] \in Replaying /\ pc'[m] \in Replaying /\ target'[n] = target'[m] => n = m
    BY <1>9 DEF RollbackInv, OwnerInv
  <2> QED BY <1>8, <2>1, <2>2, <2>3 DEF OwnerInv
<1> QED BY <1>4, <1>5, <1>10 DEF RollbackInv

\* The request that drives a run.
LEMMA RequestRollback ==
  ASSUME TypeOK, RollbackInv, NEW r \in Runs, startSaga(r) \/ RequestStep(r)
  PROVE  RollbackInv'
<1>0. /\ r \in Workers /\ r \notin Replicas /\ Runs \subseteq Workers
      /\ pc \in [Workers -> RequestPCs \cup ReplicaPCs]
      /\ run \in [Runs -> RunStatuses]
      /\ comp \in [Runs -> [Steps -> CompStatuses]]
      /\ effect \in [Runs -> [Steps -> {"none", "done", "undone"}]]
      /\ target \in [Workers -> Runs \cup {NoRun}]
      /\ seq \in [Runs -> 0..NSteps]
      /\ pc[r] # "idle" => target[r] = r
  BY NamesAssumption DEF TypeOK, ControlOK, TablesOK, MemoryOK, Workers
<1>1. StatusOf(r) /\ RecordsOf(r) /\ EffectsOf(r)
  BY DEF RollbackInv, RunInv
<1>2. CASE startSaga(r)
  <2>1. /\ UNCHANGED <<old, comp, execs, effect, seq, queue, todo, cur>>
        /\ pc[r] = "idle" /\ pc'[r] = "ready" /\ run'[r] = "running"
        /\ \A v \in Workers \ {r} : pc'[v] = pc[v] /\ target'[v] = target[v]
        /\ \A q \in Runs \ {r} : run'[q] = run[q]
    BY <1>0, <1>2 DEF startSaga, GoTo, world
  <2>2. pc[r] \notin Ended /\ pc'[r] \notin Replaying
    BY <2>1 DEF Ended, Replaying, Holding
  <2>3. StatusOf(r)' /\ WorkerOf(r)'
    BY <1>1, <2>1, <2>2 DEF StatusOf, WorkerOf, Replaying, Ended
  <2>4. RecordsOf(r)'
    BY <1>1, <2>1 DEF StatusOf, RecordsOf, NoneClaimed
  <2>5. EffectsOf(r)'
    <3>1. \A s \in Steps : ~(s <= seq[r])
      BY <1>1, <2>1 DEF StatusOf, Steps
    <3> QED BY <2>1, <3>1 DEF EffectsOf
  <2> QED BY <1>0, <2>1, <2>2, <2>3, <2>4, <2>5, LocalStep
<1>3. CASE stepEffect(r)
  <2> DEFINE k == seq[r] + 1
  <2>1. /\ UNCHANGED <<run, old, comp, execs, queue, target, todo, cur>>
        /\ pc[r] = "ready" /\ pc'[r] \in {"record", "fail"}
        /\ \A v \in Workers \ {r} : pc'[v] = pc[v]
        /\ \A q \in Runs \ {r} : seq'[q] = seq[q]
        /\ seq'[r] = k /\ k \in Steps /\ seq[r] \in Int
    BY <1>0, <1>3, StepsAssumption DEF stepEffect, GoTo, tables, Steps
  <2>2. PICK e \in {"none", "done"} :
           effect' = [effect EXCEPT ![r][k] = e] /\ (pc'[r] = "record" => e = "done")
    BY <1>0, <1>3 DEF stepEffect, GoTo
  <2>3. /\ effect'[r][k] = e
        /\ \A s \in Steps \ {k} : effect'[r][s] = effect[r][s]
        /\ \A q \in Runs \ {r} : effect'[q] = effect[q]
    BY <1>0, <2>1, <2>2
  <2>4. pc[r] \notin Ended /\ pc'[r] \notin Replaying
    BY <2>1 DEF Ended, Replaying, Holding
  <2>5. StatusOf(r)' /\ RecordsOf(r)' /\ WorkerOf(r)'
    BY <1>1, <2>1, <2>4 DEF StatusOf, RecordsOf, NoneClaimed, WorkerOf, Replaying, Ended
  <2>6. EffectsOf(r)'
    <3>1. \A s \in Steps : s \in Int /\ (s <= k => s = k \/ s <= seq[r])
      BY <2>1 DEF Steps
    <3>2. \A s \in Steps : s <= seq[r] => effect[r][s] = "done" /\ s # k
      BY <1>1, <2>1, <3>1 DEF EffectsOf
    <3>3. run'[r] = "running"
      BY <1>1, <2>1 DEF StatusOf
    <3> QED BY <2>1, <2>2, <2>3, <3>1, <3>2, <3>3 DEF EffectsOf
  <2> QED BY <1>0, <2>1, <2>3, <2>4, <2>5, <2>6, LocalStep
<1>4. CASE recordStep(r)
  <2>1. /\ UNCHANGED <<run, old, execs, effect, seq, queue, target, todo, cur>>
        /\ pc[r] = "record" /\ pc'[r] \in {"ready", "fail"}
        /\ \A v \in Workers \ {r} : pc'[v] = pc[v]
    BY <1>0, <1>4 DEF recordStep, GoTo, world, memory
  <2>2. /\ \A q \in Runs \ {r} : comp'[q] = comp[q]
        /\ \A s \in Steps : comp'[r][s] = "compensating" => comp[r][s] = "compensating"
    <3>1. CASE comp' = comp
      BY <3>1
    <3>2. ASSUME NEW c \in {"pending", "null"}, comp' = [comp EXCEPT ![r][seq[r]] = c]
          PROVE  /\ \A q \in Runs \ {r} : comp'[q] = comp[q]
                 /\ \A s \in Steps : comp'[r][s] = "compensating" => comp[r][s] = "compensating"
      BY <1>0, <3>2
    <3> QED BY <1>4, <3>1, <3>2 DEF recordStep
  <2>3. pc[r] \notin Ended /\ pc'[r] \notin Replaying
    BY <2>1 DEF Ended, Replaying, Holding
  <2>4. run[r] = "running"
    BY <1>1, <2>1 DEF StatusOf
  <2>5. StatusOf(r)' /\ WorkerOf(r)' /\ EffectsOf(r)'
    BY <1>1, <2>1, <2>3, <2>4 DEF StatusOf, EffectsOf, WorkerOf, Replaying, Ended
  <2>6. RecordsOf(r)'
    BY <1>1, <2>1, <2>2, <2>4 DEF RecordsOf, NoneClaimed
  <2> QED BY <1>0, <2>1, <2>2, <2>3, <2>5, <2>6, LocalStep
<1>5. CASE complete(r)
  <2>1. /\ UNCHANGED <<old, comp, execs, effect, seq, queue, target, todo, cur>>
        /\ pc[r] = "ready" /\ seq[r] = NSteps
        /\ \/ run'[r] = "completed" /\ pc'[r] = "mirrorCompleted"
           \/ run'[r] = run[r] /\ pc'[r] = "fail"
        /\ \A v \in Workers \ {r} : pc'[v] = pc[v]
        /\ \A q \in Runs \ {r} : run'[q] = run[q]
    BY <1>0, <1>5 DEF complete, GoTo, world, memory
  <2>2. pc[r] \notin Ended /\ pc'[r] \notin Replaying /\ run[r] = "running"
    BY <1>1, <2>1 DEF StatusOf, Ended, Replaying, Holding
  <2>3. \A s \in Steps : s <= seq[r]
    BY <2>1, StepsAssumption DEF Steps
  <2>4. StatusOf(r)' /\ WorkerOf(r)' /\ EffectsOf(r)'
    BY <1>1, <2>1, <2>2, <2>3 DEF StatusOf, EffectsOf, WorkerOf, Replaying, Ended
  <2>5. RecordsOf(r)'
    BY <1>1, <2>1, <2>2 DEF RecordsOf, NoneClaimed
  <2> QED BY <1>0, <2>1, <2>2, <2>4, <2>5, LocalStep
<1>6. CASE fail(r)
  <2>1. /\ UNCHANGED <<old, comp, execs, effect, seq, queue, target, todo, cur>>
        /\ pc[r] = "fail" /\ pc'[r] = "mirrorFailed" /\ run'[r] = "failed"
        /\ \A v \in Workers \ {r} : pc'[v] = pc[v]
        /\ \A q \in Runs \ {r} : run'[q] = run[q]
    BY <1>0, <1>6 DEF fail, GoTo, world, memory
  <2>2. pc[r] \notin Ended /\ pc'[r] \notin Replaying /\ run[r] = "running"
    BY <1>1, <2>1 DEF StatusOf, Ended, Replaying, Holding
  <2>3. StatusOf(r)' /\ WorkerOf(r)' /\ EffectsOf(r)'
    BY <1>1, <2>1, <2>2 DEF StatusOf, EffectsOf, WorkerOf, Replaying, Ended
  <2>4. RecordsOf(r)'
    BY <1>1, <2>1, <2>2 DEF RecordsOf, NoneClaimed
  <2> QED BY <1>0, <2>1, <2>2, <2>3, <2>4, LocalStep
<1>7. CASE opStatus(r)
  <2>1. /\ UNCHANGED <<run, old, comp, execs, effect, seq, queue, target, todo, cur>>
        /\ \/ pc[r] = "mirrorCompleted" /\ pc'[r] = "done"
           \/ pc[r] = "mirrorFailed" /\ pc'[r] = "select"
        /\ \A v \in Workers \ {r} : pc'[v] = pc[v]
    BY <1>0, <1>7 DEF opStatus, GoTo, world, memory
  <2>2. pc[r] \notin Ended /\ target[r] = r
    BY <1>0, <2>1 DEF Ended
  <2>3. StatusOf(r)' /\ RecordsOf(r)' /\ EffectsOf(r)'
    BY <1>1, <2>1 DEF StatusOf, RecordsOf, EffectsOf, NoneClaimed, Replaying, Holding, Ended
  <2>4. WorkerOf(r)'
    BY <1>1, <2>1, <2>2 DEF RecordsOf, WorkerOf, NoneClaimed, Holding
  <2> QED BY <1>0, <2>1, <2>2, <2>3, <2>4, LocalStep
<1> QED BY <1>2, <1>3, <1>4, <1>5, <1>6, <1>7 DEF RequestStep

\* A worker that replays the undo records of its run, or gives up.
LEMMA ReplayRollback ==
  ASSUME TypeOK, RollbackInv, NEW w \in Workers, Replay(w) \/ dbError(w)
  PROVE  RollbackInv'
<1> DEFINE x == target[w]
<1>0. /\ Runs \subseteq Workers /\ Replicas \subseteq Workers
      /\ \A n \in Replicas : n \notin Runs
      /\ \A v \in Workers : v \in Runs \/ v \in Replicas
      /\ pc \in [Workers -> RequestPCs \cup ReplicaPCs]
      /\ run \in [Runs -> RunStatuses]
      /\ comp \in [Runs -> [Steps -> CompStatuses]]
      /\ execs \in [Runs -> [Steps -> Nat]]
      /\ effect \in [Runs -> [Steps -> {"none", "done", "undone"}]]
      /\ todo \in [Workers -> SUBSET Steps]
      /\ cur \in [Workers -> 0..NSteps]
      /\ queue \in [Replicas -> SUBSET Runs]
      /\ pc[w] \in Holding => cur[w] \in Steps
  BY NamesAssumption DEF TypeOK, ControlOK, TablesOK, MemoryOK, Workers
<1>1. WorkerOf(w)
  BY DEF RollbackInv, WorkerInv
<1>2. pc[w] \in Replaying \cup {"fail"}
  BY DEF Replay, dbError, selectPending, claim, execute, markStep, finish, Replaying, Holding
<1>3. /\ x \in Runs
      /\ \/ w = x /\ pc[w] \notin Ended
         \/ w \in Replicas /\ pc[w] \in Replaying
  <2>1. CASE w \in Runs
    BY <1>2, <2>1 DEF TypeOK, ControlOK, Replaying, Holding, Ended
  <2>2. CASE w \in Replicas
    <3>1. pc[w] \in ReplicaPCs
      BY <1>0, <2>2 DEF TypeOK, ControlOK
    <3>2. pc[w] \in Replaying
      BY <1>2, <3>1 DEF ReplicaPCs, Replaying, Holding
    <3> QED BY <2>2, <3>2 DEF TypeOK, ControlOK
  <2> QED BY <1>0, <2>1, <2>2
<1>4. StatusOf(x) /\ RecordsOf(x) /\ EffectsOf(x)
  BY <1>3 DEF RollbackInv, RunInv
<1>5. /\ pc[w] \in Replaying => run[x] \in {"failed", "recovering"}
      /\ pc[w] \in Replaying => pc[x] \notin {"idle", "ready", "record", "fail",
                                              "mirrorCompleted", "mirrorFailed"}
  <2>1. CASE w = x
    BY <1>4, <2>1 DEF StatusOf, Replaying, Holding
  <2>2. CASE w \in Replicas
    BY <2>2 DEF RollbackInv, OwnerInv, Ended
  <2> QED BY <1>3, <2>1, <2>2
<1>6. CASE selectPending(w)
  <2>1. /\ UNCHANGED <<run, old, comp, execs, effect, seq, queue, target, cur>>
        /\ pc[w] = "select" /\ pc'[w] = "claim"
        /\ todo'[w] = {s \in Steps : comp[x][s] = "pending"}
        /\ \A v \in Workers \ {w} : pc'[v] = pc[v] /\ todo'[v] = todo[v]
    BY <1>0, <1>6 DEF selectPending, GoTo, tables, world
  <2>2. WorkerOf(w)'
    BY <1>1, <2>1 DEF WorkerOf, NoneClaimed, Holding
  <2>3. StatusOf(x)' /\ RecordsOf(x)' /\ EffectsOf(x)'
    BY <1>0, <1>3, <1>4, <1>5, <2>1
    DEF StatusOf, RecordsOf, EffectsOf, NoneClaimed, Replaying, Holding, Ended
  <2> QED BY <1>3, <2>1, <2>2, <2>3, LocalStep
<1>7. ASSUME NEW s \in Steps, claim(w, s) PROVE RollbackInv'
  <2>1. /\ UNCHANGED <<run, old, execs, effect, seq, queue, target>>
        /\ pc[w] = "claim" /\ s \in todo[w] /\ \A t \in todo[w] : t <= s
        /\ todo'[w] = todo[w] \ {s}
        /\ \A v \in Workers \ {w} : todo'[v] = todo[v]
        /\ \A t \in todo[w] : t \in Int
        /\ s \in Int
    BY <1>0, <1>7 DEF claim, Newest, world, Steps
  <2>2. CASE comp[x][s] # "pending"
    <3>1. UNCHANGED <<comp, cur, pc>>
      BY <1>7, <2>2 DEF claim
    <3>2. WorkerOf(w)'
      BY <1>1, <2>1, <2>2, <3>1 DEF WorkerOf, NoneClaimed, Holding
    <3>3. StatusOf(x)' /\ RecordsOf(x)' /\ EffectsOf(x)'
      BY <1>4, <2>1, <3>1 DEF StatusOf, RecordsOf, EffectsOf, NoneClaimed
    <3> QED BY <1>3, <2>1, <3>1, <3>2, <3>3, LocalStep
  <2>3. CASE comp[x][s] = "pending"
    <3>1. /\ comp' = [comp EXCEPT ![x][s] = "compensating"]
          /\ pc'[w] = "exec" /\ cur'[w] = s
          /\ \A v \in Workers \ {w} : pc'[v] = pc[v] /\ cur'[v] = cur[v]
      BY <1>0, <1>7, <2>3 DEF claim, GoTo
    <3>2. /\ comp'[x][s] = "compensating"
          /\ \A t \in Steps \ {s} : comp'[x][t] = comp[x][t]
          /\ \A q \in Runs \ {x} : comp'[q] = comp[q]
      BY <1>0, <1>3, <3>1
    <3>3. WorkerOf(w)'
      <4>1. \A t \in Steps : comp'[x][t] = "compensating" => t = s
        BY <1>1, <2>1, <3>2 DEF WorkerOf, NoneClaimed
      <4>2. \A t \in Steps : comp'[x][t] = "pending" => t \in todo'[w]
        BY <1>1, <2>1, <3>2 DEF WorkerOf
      <4>3. \A t \in todo'[w] : t < s
        BY <2>1
      <4> QED BY <2>1, <3>1, <4>1, <4>2, <4>3 DEF WorkerOf, Holding
    <3>4. StatusOf(x)' /\ EffectsOf(x)'
      BY <1>0, <1>3, <1>4, <1>5, <2>1, <3>1
      DEF StatusOf, EffectsOf, Replaying, Holding, Ended
    <3>5. RecordsOf(x)'
      <4>1. run'[x] \in {"failed", "recovering"} /\ pc'[x] # "mirrorFailed"
        BY <1>0, <1>3, <1>5, <2>1, <3>1 DEF Replaying
      <4> QED BY <2>1, <4>1 DEF RecordsOf
    <3> QED BY <1>3, <2>1, <3>1, <3>2, <3>3, <3>4, <3>5, LocalStep
  <2> QED BY <2>2, <2>3
<1>8. CASE execute(w)
  <2>1. /\ UNCHANGED <<run, old, comp, seq, queue, target, todo, cur>>
        /\ pc[w] = "exec" /\ pc'[w] \in {"markOk", "markFailed"}
        /\ \A v \in Workers \ {w} : pc'[v] = pc[v]
        /\ \A q \in Runs \ {x} : execs'[q] = execs[q] /\ effect'[q] = effect[q]
    BY <1>0, <1>3, <1>8 DEF execute, GoTo, tables, memory
  <2>2. WorkerOf(w)'
    BY <1>1, <2>1 DEF WorkerOf, NoneClaimed, Holding
  <2>3. /\ run'[x] \in {"failed", "recovering"}
        /\ pc'[x] \notin {"ready", "record", "mirrorFailed"}
    BY <1>0, <1>3, <1>5, <2>1 DEF Replaying, Holding
  <2>4. StatusOf(x)'
    BY <1>0, <1>3, <1>4, <1>5, <2>1 DEF StatusOf, Replaying, Holding, Ended
  <2>5. RecordsOf(x)' /\ EffectsOf(x)'
    BY <2>1, <2>3 DEF RecordsOf, EffectsOf
  <2> QED BY <1>3, <2>1, <2>2, <2>4, <2>5, LocalStep
<1>9. CASE markStep(w)
  <2>1. /\ UNCHANGED <<run, old, execs, effect, seq, queue, target, todo>>
        /\ pc[w] \in Holding /\ pc'[w] = "claim"
        /\ \A v \in Workers \ {w} : pc'[v] = pc[v] /\ cur'[v] = cur[v]
    BY <1>0, <1>9 DEF markStep, GoTo, world, Holding
  <2>2. PICK c \in {"compensated", "comp_failed"} : comp' = [comp EXCEPT ![x][cur[w]] = c]
    BY <1>9 DEF markStep
  <2>3. /\ comp'[x][cur[w]] = c
        /\ \A t \in Steps \ {cur[w]} : comp'[x][t] = comp[x][t]
        /\ \A q \in Runs \ {x} : comp'[q] = comp[q]
    BY <1>0, <1>3, <2>1, <2>2
  <2>4. WorkerOf(w)'
    <3>1. \A t \in Steps : comp'[x][t] # "compensating"
      BY <1>1, <2>1, <2>3 DEF WorkerOf
    <3>2. \A t \in Steps : comp'[x][t] = "pending" => t \in todo[w]
      BY <1>1, <2>1, <2>3 DEF WorkerOf
    <3> QED BY <2>1, <3>1, <3>2 DEF WorkerOf, NoneClaimed, Holding
  <2>5. /\ run'[x] \in {"failed", "recovering"}
        /\ pc'[x] \notin {"ready", "record", "mirrorFailed"}
    BY <1>0, <1>3, <1>5, <2>1 DEF Replaying, Holding
  <2>6. StatusOf(x)'
    BY <1>0, <1>3, <1>4, <1>5, <2>1 DEF StatusOf, Replaying, Holding, Ended
  <2>7. RecordsOf(x)' /\ EffectsOf(x)'
    BY <2>1, <2>5 DEF RecordsOf, EffectsOf
  <2> QED BY <1>3, <2>1, <2>3, <2>4, <2>6, <2>7, LocalStep
<1>10. CASE finish(w)
  <2>1. /\ UNCHANGED <<old, comp, execs, effect, seq, queue, target, todo, cur>>
        /\ pc[w] = "claim" /\ todo[w] = {}
        /\ run'[x] \in {"compensated", "recovered"}
        /\ \A q \in Runs \ {x} : run'[q] = run[q]
        /\ pc'[w] = IF w \in Runs THEN "done" ELSE "next"
        /\ \A v \in Workers \ {w} : pc'[v] = pc[v]
    BY <1>0, <1>3, <1>10 DEF finish, GoTo, world, memory
  <2>2. pc'[w] \notin Replaying /\ pc'[x] \in Ended
    <3>1. CASE w = x
      BY <1>0, <1>3, <2>1, <3>1 DEF Replaying, Holding, Ended
    <3>2. CASE w \in Replicas
      BY <1>0, <1>3, <2>1, <3>2 DEF RollbackInv, OwnerInv, Replaying, Holding
    <3> QED BY <1>3, <3>1, <3>2
  <2>3. WorkerOf(w)'
    BY <2>2 DEF WorkerOf, Replaying
  <2>4. StatusOf(x)' /\ EffectsOf(x)'
    BY <2>1, <2>2 DEF StatusOf, EffectsOf, Replaying, Holding, Ended
  <2>5. \A s \in Steps : comp[x][s] \notin {"pending", "compensating"}
    BY <1>1, <2>1 DEF WorkerOf, NoneClaimed
  <2>6. RecordsOf(x)'
    BY <2>1, <2>2, <2>5 DEF RecordsOf, NoneClaimed, Ended
  <2> QED BY <1>3, <2>1, <2>2, <2>3, <2>4, <2>6, LocalStep
<1>11. CASE dbError(w)
  <2>1. /\ UNCHANGED <<run, old, comp, execs, effect, seq, target, todo, cur>>
        /\ pc'[w] = IF w \in Runs THEN "aborted" ELSE "boot"
        /\ \A v \in Workers \ {w} : pc'[v] = pc[v]
        /\ \A n \in Replicas : queue'[n] \subseteq queue[n]
    BY <1>0, <1>11 DEF dbError, GoTo, tables, world
  <2>2. pc'[w] \notin Replaying /\ pc'[x] \in Ended
    <3>1. CASE w = x
      BY <1>0, <1>3, <2>1, <3>1 DEF Replaying, Holding, Ended
    <3>2. CASE w \in Replicas
      BY <1>0, <1>3, <2>1, <3>2 DEF RollbackInv, OwnerInv, Replaying, Holding
    <3> QED BY <1>3, <3>1, <3>2
  <2>3. WorkerOf(w)'
    BY <2>2 DEF WorkerOf, Replaying
  <2>4. StatusOf(x)' /\ RecordsOf(x)' /\ EffectsOf(x)'
    BY <1>4, <2>1, <2>2
    DEF StatusOf, RecordsOf, EffectsOf, NoneClaimed, Replaying, Holding, Ended
  <2> QED BY <1>3, <2>1, <2>2, <2>3, <2>4, LocalStep
<1> QED BY <1>6, <1>7, <1>8, <1>9, <1>10, <1>11 DEF Replay

\* Boots, sweeps and crashes of replicas: a sweep takes only runs whose request
\* has ended, and no run twice.
LEMMA ReplicaRollback ==
  ASSUME TypeOK, RollbackInv, NEW n \in Replicas, ReplicaStep(n) \/ crash(n)
  PROVE  RollbackInv'
<1>0. /\ n \in Workers /\ n \notin Runs /\ Runs \subseteq Workers /\ Replicas \subseteq Workers
      /\ \A m \in Replicas : m \notin Runs
      /\ pc \in [Workers -> RequestPCs \cup ReplicaPCs]
      /\ run \in [Runs -> RunStatuses]
      /\ target \in [Workers -> Runs \cup {NoRun}]
      /\ queue \in [Replicas -> SUBSET Runs]
      /\ \A w \in Workers : pc[w] \in Replaying => target[w] \in Runs
  BY NamesAssumption DEF TypeOK, ControlOK, TablesOK, MemoryOK, Workers
<1>1. UNCHANGED <<old, comp, execs, effect, seq, todo, cur>>
  BY DEF ReplicaStep, boot, recoverSagas, recoverNext, crash, tables, world, memory
<1>2. \A r \in Runs : NoneClaimed(r)' <=> NoneClaimed(r)
  BY <1>1 DEF NoneClaimed
<1>3. CASE crash(n)
  <2>1. /\ UNCHANGED <<run, target>>
        /\ \A w \in Workers : \/ pc'[w] = pc[w]
                              \/ w \in Replicas /\ pc'[w] = "down"
                              \/ w \in Runs /\ pc'[w] = "dead"
        /\ \A m \in Replicas : queue'[m] \subseteq queue[m]
    BY <1>0, <1>3 DEF crash, tables
  <2>2. \A w \in Workers : pc'[w] \in Replaying => pc'[w] = pc[w]
    BY <2>1 DEF Replaying, Holding
  <2>3. \A r \in Runs : pc'[r] = pc[r] \/ pc'[r] = "dead"
    BY <1>0, <2>1
  <2>4. RunInv'
    <3>1. ASSUME NEW r \in Runs PROVE (StatusOf(r) /\ RecordsOf(r) /\ EffectsOf(r))'
      BY <1>1, <2>1, <2>3
      DEF RollbackInv, RunInv, StatusOf, RecordsOf, EffectsOf, NoneClaimed, Ended,
          Replaying, Holding
    <3> QED BY <3>1 DEF RunInv
  <2>5. WorkerInv'
    BY <1>1, <2>1, <2>2 DEF RollbackInv, WorkerInv, WorkerOf, NoneClaimed, Replaying
  <2>6. \A r \in Runs : pc[r] \in Ended => pc'[r] \in Ended
    BY <2>3 DEF Ended
  <2>7. OwnerInv'
    <3>1. \A m \in Replicas : \A r \in queue'[m] : r \in queue[m] /\ r \in Runs
      BY <1>0, <2>1
    <3>2. \A m \in Replicas : \A r \in queue'[m] :
             (run[r] = "recovering" /\ pc[r] \in Ended /\ NoneClaimed(r))'
      BY <1>2, <2>1, <2>6, <3>1 DEF RollbackInv, OwnerInv
    <3>3. \A m \in Replicas : pc'[m] \in Replaying => pc[m] \in Replaying /\ target[m] \in Runs
      BY <1>0, <2>2
    <3>4. \A m \in Replicas : pc'[m] \in Replaying =>
             /\ run'[target'[m]] = "recovering" /\ pc'[target'[m]] \in Ended
             /\ \A k \in Replicas : target'[m] \notin queue'[k]
      BY <2>1, <2>6, <3>1, <3>3 DEF RollbackInv, OwnerInv
    <3>5. \A m, k \in Replicas : \A r \in queue'[m] : r \in queue'[k] => m = k
      BY <3>1 DEF RollbackInv, OwnerInv
    <3>6. \A m, k \in Replicas :
             pc'[m] \in Replaying /\ pc'[k] \in Replaying /\ target'[m] = target'[k] => m = k
      BY <2>1, <3>3 DEF RollbackInv, OwnerInv
    <3> QED BY <3>2, <3>4, <3>5, <3>6 DEF OwnerInv
  <2> QED BY <2>4, <2>5, <2>7 DEF RollbackInv
<1>4. CASE boot(n)
  <2>1. /\ UNCHANGED <<run, target, queue>>
        /\ pc'[n] = "boot" /\ \A w \in Workers \ {n} : pc'[w] = pc[w]
    BY <1>0, <1>4 DEF boot, GoTo, tables, memory
  <2>2. pc'[n] \notin Replaying
    BY <2>1 DEF Replaying, Holding
  <2>3. \A r \in Runs : pc'[r] = pc[r]
    BY <1>0, <2>1
  <2>4. RunInv'
    BY <1>1, <2>1, <2>3 DEF RollbackInv, RunInv, StatusOf, RecordsOf, EffectsOf, NoneClaimed
  <2>5. WorkerInv'
    BY <1>1, <2>1, <2>2 DEF RollbackInv, WorkerInv, WorkerOf, NoneClaimed, Replaying
  <2>6. OwnerInv'
    BY <1>0, <1>2, <2>1, <2>2, <2>3 DEF RollbackInv, OwnerInv
  <2> QED BY <2>4, <2>5, <2>6 DEF RollbackInv
<1>5. CASE recoverSagas(n)
  <2> DEFINE orphans == {r \in Runs : run[r] = "running" /\ old[r]}
  <2>1. /\ UNCHANGED target
        /\ \A r \in Runs : run'[r] = IF r \in orphans THEN "recovering" ELSE run[r]
        /\ queue'[n] = orphans /\ \A m \in Replicas \ {n} : queue'[m] = queue[m]
        /\ pc'[n] = "next" /\ \A w \in Workers \ {n} : pc'[w] = pc[w]
    BY <1>0, <1>5 DEF recoverSagas, GoTo
  <2>2. pc'[n] \notin Replaying
    BY <2>1 DEF Replaying, Holding
  <2>3. \A r \in Runs : pc'[r] = pc[r]
    BY <1>0, <2>1
  <2>4. \A r \in orphans : pc[r] \in Ended /\ NoneClaimed(r)
    BY DEF RollbackInv, RunInv, StatusOf, RecordsOf
  <2>5. RunInv'
    <3>1. ASSUME NEW r \in Runs PROVE (StatusOf(r) /\ RecordsOf(r) /\ EffectsOf(r))'
      <4>1. StatusOf(r) /\ RecordsOf(r) /\ EffectsOf(r)
        BY DEF RollbackInv, RunInv
      <4>2. CASE r \in orphans
        BY <1>1, <2>1, <2>3, <2>4, <4>1, <4>2
        DEF StatusOf, RecordsOf, EffectsOf, Ended, Replaying, Holding
      <4>3. CASE r \notin orphans
        BY <1>1, <2>1, <2>3, <4>1, <4>3 DEF StatusOf, RecordsOf, EffectsOf, NoneClaimed
      <4> QED BY <4>2, <4>3
    <3> QED BY <3>1 DEF RunInv
  <2>6. WorkerInv'
    BY <1>1, <2>1, <2>2 DEF RollbackInv, WorkerInv, WorkerOf, NoneClaimed, Replaying
  <2>7. OwnerInv'
    <3>1. \A m \in Replicas \ {n} : \A r \in queue[m] : r \in Runs /\ r \notin orphans
      BY <1>0 DEF RollbackInv, OwnerInv
    <3>2. \A m \in Replicas : \A r \in queue'[m] :
             (run[r] = "recovering" /\ pc[r] \in Ended /\ NoneClaimed(r))'
      <4>1. \A r \in orphans : (run[r] = "recovering" /\ pc[r] \in Ended /\ NoneClaimed(r))'
        BY <1>2, <2>1, <2>3, <2>4
      <4>2. \A m \in Replicas \ {n} : \A r \in queue[m] :
               (run[r] = "recovering" /\ pc[r] \in Ended /\ NoneClaimed(r))'
        BY <1>2, <2>1, <2>3, <3>1 DEF RollbackInv, OwnerInv
      <4> QED BY <2>1, <4>1, <4>2
    <3>3. \A m \in Replicas : pc'[m] \in Replaying =>
             /\ m # n /\ pc[m] \in Replaying /\ target[m] \in Runs /\ target[m] \notin orphans
      BY <1>0, <2>1, <2>2 DEF RollbackInv, OwnerInv
    <3>4. \A m \in Replicas : pc'[m] \in Replaying =>
             /\ run'[target'[m]] = "recovering" /\ pc'[target'[m]] \in Ended
             /\ \A k \in Replicas : target'[m] \notin queue'[k]
      BY <2>1, <2>3, <3>3 DEF RollbackInv, OwnerInv
    <3>5. \A m, k \in Replicas : \A r \in queue'[m] : r \in queue'[k] => m = k
      BY <2>1, <3>1 DEF RollbackInv, OwnerInv
    <3>6. \A m, k \in Replicas :
             pc'[m] \in Replaying /\ pc'[k] \in Replaying /\ target'[m] = target'[k] => m = k
      BY <2>1, <3>3 DEF RollbackInv, OwnerInv
    <3> QED BY <3>2, <3>4, <3>5, <3>6 DEF OwnerInv
  <2> QED BY <2>5, <2>6, <2>7 DEF RollbackInv
<1>6. CASE recoverNext(n)
  <2>0. run' = run
    BY <1>6 DEF recoverNext, tables
  <2>1. ASSUME NEW r \in queue[n], queue' = [queue EXCEPT ![n] = @ \ {r}],
               target' = [target EXCEPT ![n] = r], GoTo(n, "select")
        PROVE  RollbackInv'
    <3>1. /\ pc[n] = "next" /\ pc'[n] = "select" /\ target'[n] = r /\ r \in Runs
          /\ queue'[n] = queue[n] \ {r} /\ \A m \in Replicas \ {n} : queue'[m] = queue[m]
          /\ \A w \in Workers \ {n} : pc'[w] = pc[w] /\ target'[w] = target[w]
      BY <1>0, <1>6, <2>1 DEF recoverNext, GoTo
    <3>2. /\ run[r] = "recovering" /\ pc[r] \in Ended /\ NoneClaimed(r)
          /\ \A m \in Replicas \ {n} : r \notin queue[m]
          /\ \A m \in Replicas : pc[m] \in Replaying => target[m] # r
      BY <3>1 DEF RollbackInv, OwnerInv
    <3>3. \A q \in Runs : pc'[q] = pc[q]
      BY <1>0, <3>1
    <3>4. RunInv'
      BY <1>1, <2>0, <3>3 DEF RollbackInv, RunInv, StatusOf, RecordsOf, EffectsOf, NoneClaimed
    <3>5. WorkerInv'
      <4>1. WorkerOf(n)'
        BY <1>1, <3>1, <3>2 DEF WorkerOf, NoneClaimed, Holding
      <4>2. ASSUME NEW w \in Workers \ {n} PROVE WorkerOf(w)'
        BY <1>1, <3>1 DEF RollbackInv, WorkerInv, WorkerOf, NoneClaimed
      <4> QED BY <4>1, <4>2 DEF WorkerInv
    <3>6. OwnerInv'
      <4>1. \A m \in Replicas : \A q \in queue'[m] : q \in queue[m] /\ q \in Runs /\ q # r
        BY <1>0, <3>1, <3>2
      <4>2. \A m \in Replicas : \A q \in queue'[m] :
               (run[q] = "recovering" /\ pc[q] \in Ended /\ NoneClaimed(q))'
        BY <1>2, <2>0, <3>3, <4>1 DEF RollbackInv, OwnerInv
      <4>3. \A m \in Replicas \ {n} : pc'[m] \in Replaying =>
               pc[m] \in Replaying /\ target'[m] = target[m] /\ target[m] \in Runs
        BY <1>0, <3>1
      <4>4. \A m \in Replicas : pc'[m] \in Replaying =>
               /\ run'[target'[m]] = "recovering" /\ pc'[target'[m]] \in Ended
               /\ \A k \in Replicas : target'[m] \notin queue'[k]
        BY <2>0, <3>1, <3>2, <3>3, <4>1, <4>3 DEF RollbackInv, OwnerInv
      <4>5. \A m, k \in Replicas : \A q \in queue'[m] : q \in queue'[k] => m = k
        BY <4>1 DEF RollbackInv, OwnerInv
      <4>6. \A m, k \in Replicas :
               pc'[m] \in Replaying /\ pc'[k] \in Replaying /\ target'[m] = target'[k] => m = k
        BY <3>1, <3>2, <4>3 DEF RollbackInv, OwnerInv
      <4> QED BY <4>2, <4>4, <4>5, <4>6 DEF OwnerInv
    <3> QED BY <3>4, <3>5, <3>6 DEF RollbackInv
  <2>2. CASE GoTo(n, "up") /\ UNCHANGED <<queue, target>>
    <3>1. pc'[n] = "up" /\ \A w \in Workers \ {n} : pc'[w] = pc[w]
      BY <1>0, <2>2 DEF GoTo
    <3>2. pc'[n] \notin Replaying /\ \A r \in Runs : pc'[r] = pc[r]
      BY <1>0, <3>1 DEF Replaying, Holding
    <3>3. RunInv'
      BY <1>1, <2>0, <3>2 DEF RollbackInv, RunInv, StatusOf, RecordsOf, EffectsOf, NoneClaimed
    <3>4. WorkerInv'
      BY <1>1, <2>2, <3>1, <3>2 DEF RollbackInv, WorkerInv, WorkerOf, NoneClaimed, Replaying
    <3>5. OwnerInv'
      BY <1>0, <1>2, <2>0, <2>2, <3>1, <3>2 DEF RollbackInv, OwnerInv
    <3> QED BY <3>3, <3>4, <3>5 DEF RollbackInv
  <2> QED BY <1>6, <2>1, <2>2 DEF recoverNext
<1> QED BY <1>3, <1>4, <1>5, <1>6 DEF ReplicaStep

\* The recovery window passes only over runs whose request has ended.
LEMMA AgeRollback ==
  ASSUME TypeOK, RollbackInv, ~SlowSagas, NEW r \in Runs, age(r)
  PROVE  RollbackInv'
<1>1. /\ UNCHANGED <<run, comp, execs, effect, seq, pc, queue, target, todo, cur>>
      /\ \A q \in Runs \ {r} : old'[q] = old[q]
  BY DEF age, world, memory, TypeOK, TablesOK
<1>2. pc[r] \in Ended
  BY DEF age, Live, RollbackInv, RunInv, StatusOf, Ended
<1>3. RunInv'
  BY <1>1, <1>2 DEF RollbackInv, RunInv, StatusOf, RecordsOf, EffectsOf, NoneClaimed
<1>4. WorkerInv' /\ OwnerInv'
  BY <1>1 DEF RollbackInv, WorkerInv, WorkerOf, OwnerInv, NoneClaimed
<1> QED BY <1>3, <1>4 DEF RollbackInv

\* Without sagas slower than the window, recovery and requests never meet.
LEMMA RollbackInvariant == ASSUME ~SlowSagas PROVE Spec => []RollbackInv
<1>1. TypeOK /\ RollbackInv /\ [Next]_vars => RollbackInv'
  <2> SUFFICES ASSUME TypeOK, RollbackInv, [Next]_vars PROVE RollbackInv'
    OBVIOUS
  <2>1. CASE UNCHANGED vars
    BY <2>1 DEF vars, tables, world, memory, RollbackInv, RunInv, StatusOf, RecordsOf,
                EffectsOf, NoneClaimed, WorkerInv, WorkerOf, OwnerInv
  <2>2. CASE Next
    BY <2>2, RequestRollback, ReplayRollback, ReplicaRollback, AgeRollback DEF Next
  <2> QED BY <2>1, <2>2
<1> QED BY <1>1, InitRollback, TypeCorrect, PTL DEF Spec

\* When no saga outlives the recovery window, compensations of a run start
\* newest-first, whoever plays them and whatever crashes.
THEOREM UndoneNewestFirst == ASSUME ~SlowSagas PROVE Spec => []NewestFirst
<1>1. TypeOK /\ RollbackInv => NewestFirst
  <2> SUFFICES ASSUME TypeOK, RollbackInv, NEW w \in Workers, pc[w] = "exec",
                      NEW s \in Steps, s > cur[w]
               PROVE  comp[target[w]][s] # "pending"
    BY DEF NewestFirst
  <2>1. s \in Int /\ cur[w] \in Int
    BY DEF TypeOK, MemoryOK, Steps
  <2> QED BY <2>1 DEF RollbackInv, WorkerInv, WorkerOf, Holding
<1> QED BY <1>1, RollbackInvariant, TypeCorrect, PTL

\* When no saga outlives the recovery window, a run reported as completed keeps
\* all its effects: no recovery undoes a step of it.
THEOREM CompletedIsKept == ASSUME ~SlowSagas PROVE Spec => []CompletedKeepsEffects
<1>1. RollbackInv => CompletedKeepsEffects
  BY DEF RollbackInv, RunInv, RecordsOf, EffectsOf, CompletedKeepsEffects
<1> QED BY <1>1, RollbackInvariant, PTL

\* When no saga outlives the recovery window, a run reported as rolled back has
\* no undo record waiting and nobody in the middle of one.
THEOREM RollbackIsComplete == ASSUME ~SlowSagas PROVE Spec => []RolledBackIsSettled
<1>1. RollbackInv => RolledBackIsSettled
  BY DEF RollbackInv, RunInv, RecordsOf, RolledBackIsSettled
<1> QED BY <1>1, RollbackInvariant, PTL
=============================================================================
