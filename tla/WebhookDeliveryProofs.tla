------------------------ MODULE WebhookDeliveryProofs ------------------------
(***************************************************************************)
(* Proofs about WebhookDelivery for any finite sets of subscriptions and   *)
(* events, any number of dispatchers and management requests and any       *)
(* limits: types, the budget of requests of a delivery, what is sent after *)
(* a subscription is stopped, and what disabling rests on.                 *)
(***************************************************************************)
EXTENDS WebhookDelivery, FiniteSetTheorems, TLAPS

\* A dispatch has an event, the worker a subscription, a request its own, and
\* no request of the management API asks for "disabled".
LocalsInv ==
    /\ \A p \in Dispatchers :
         /\ pc[p] # "idle" => event[p] \in Events
         /\ Working(p) => sub[p] \in Subs
         /\ pc[p] = "record" => outcome[p] # "none"
    /\ \A m \in Managers :
         /\ mpc[m] # "idle" => msub[m] \in Subs
         /\ mto[m] # "disabled"

\* The unique row of a subscription and an event makes its first inserter the
\* only dispatcher that ever works on it.
OwnerInv ==
    /\ \A p \in Dispatchers : Working(p) => dstatus[Mine(p)] # "none"
    /\ \A p, q \in Dispatchers :
         Working(p) /\ Working(q) /\ Mine(p) = Mine(q) => p = q

\* The requests of a delivery are covered by the attempts its row or its worker
\* has counted, and one more is only decided below the maximum.
RowBudget(d) ==
    /\ posts[d] <= MaxAttempts
    /\ dstatus[d] = "none" => posts[d] = 0

WorkerBudget(p) ==
    /\ pc[p] = "post" =>
         posts[Mine(p)] <= attempts[Mine(p)] /\ attempts[Mine(p)] < MaxAttempts
    /\ pc[p] = "record" => posts[Mine(p)] <= attempt[p] /\ attempt[p] <= MaxAttempts
    /\ pc[p] \in {"publish", "schedule", "requeue"} =>
         /\ posts[Mine(p)] <= attempt[p] /\ attempt[p] <= MaxAttempts
         /\ attempts[Mine(p)] = attempt[p]
    /\ pc[p] = "requeue" => attempt[p] < MaxAttempts

BudgetInv ==
    /\ \A d \in Deliveries : RowBudget(d)
    /\ \A p \in Dispatchers : WorkerBudget(p)

\* Nothing counts against a subscription that is not stopped, and a worker that
\* is about to send, again or for the first time, has sent nothing since it was.
StopInv ==
    /\ \A d \in Deliveries :
         /\ stopPosts[d] <= 1
         /\ ~Stopped(status[d[1]]) => stopPosts[d] = 0
         /\ dstatus[d] = "none" => stopPosts[d] = 0
    /\ \A p \in Dispatchers :
         pc[p] \in {"post", "requeue"} => stopPosts[Mine(p)] = 0

\* The deliveries of s that are permanently failed, and of these the ones whose
\* failure is not about to be counted.
Failed(s) == {e \in Events : dstatus[<<s, e>>] = "permanently_failed"}
Uncounted(s) == {e \in Events : \E p \in Dispatchers :
                    pc[p] = "count" /\ Mine(p) = <<s, e>>}
Counted(s) == Failed(s) \ Uncounted(s)

\* A permanently failed row has no worker but the one that counts it.
PermanentInv ==
    \A p \in Dispatchers :
        Working(p) =>
            (dstatus[Mine(p)] = "permanently_failed" <=> pc[p] \in {"count", "disable"})

\* Every failure counted is of a delivery of its own.
CountInv == \A s \in Subs : failures[s] <= Cardinality(Counted(s))

\* Only a full count disables.
DisableInv ==
    /\ \A p \in Dispatchers : pc[p] = "disable" => failures[sub[p]] >= Threshold
    /\ \A s \in Subs : status[s] = "disabled" => failures[s] >= Threshold

IInv ==
    /\ TypeOK /\ LocalsInv /\ OwnerInv /\ BudgetInv /\ StopInv
    /\ PermanentInv /\ CountInv /\ DisableInv

-----------------------------------------------------------------------------
(* Types.                                                                  *)

\* A row is failed for good by its own recording only when the request was
\* blocked.
LEMMA RecordedStatusFacts ==
  ASSUME NEW out \in Outcomes
  PROVE  /\ RecordedStatus(out) \in {"succeeded", "failed", "permanently_failed"}
         /\ RecordedStatus(out) = "permanently_failed" <=>
              out \in {"blocked", "redirect_blocked"}
<1>1. CASE out = "succeeded"
  BY <1>1 DEF RecordedStatus
<1>2. CASE out \in {"failed", "timed_out"}
  BY <1>2 DEF RecordedStatus
<1>3. CASE out \in {"blocked", "redirect_blocked"}
  BY <1>3 DEF RecordedStatus
<1> QED BY <1>1, <1>2, <1>3 DEF Outcomes

\* What control and the locals of the worker are after a move.
MovedOK ==
    /\ pc' \in [Dispatchers -> PCs]
    /\ attempt' \in [Dispatchers -> Nat]
    /\ outcome' \in [Dispatchers -> Outcomes \cup {"none"}]

\* A move of a dispatch leaves well typed control and locals.
LEMMA MoveType ==
  ASSUME TypeOK, NEW p \in Dispatchers, NEW q \in PCs, Leave(p, q) \/ Go(p, q)
  PROVE  MovedOK
  BY DEF TypeOK, Leave, Go, MovedOK

\* Types are kept by every step.
LEMMA TypeStep ==
  ASSUME TypeOK, LocalsInv, [Next]_vars
  PROVE  TypeOK'
<1> USE LimitsAssumption DEF TypeOK, LocalsInv, PCs, Outcomes, SubStatus, DeliveryStatus,
        Working, Mine, Deliveries, subVars, rowVars, dispVars, mgrVars, ghostVars
<1>1. ASSUME NEW p \in Dispatchers, NEW e \in Events, Dispatch(p, e)
      PROVE  TypeOK'
  BY <1>1 DEF Dispatch
<1>2. ASSUME NEW p \in Dispatchers, NEW s \in Subs, Skip(p, s)
      PROVE  TypeOK'
  BY <1>2 DEF Skip
<1>3. ASSUME NEW p \in Dispatchers, NEW s \in Subs, Insert(p, s)
      PROVE  TypeOK'
  BY <1>3 DEF Insert
<1>4. ASSUME NEW p \in Dispatchers, Finish(p)
      PROVE  TypeOK'
  BY <1>4 DEF Finish
<1>5. ASSUME NEW p \in Dispatchers, Abort(p)
      PROVE  TypeOK'
  BY <1>5 DEF Abort, Leave
<1>6. ASSUME NEW p \in Dispatchers, Refuse(p)
      PROVE  TypeOK'
  BY <1>6 DEF Refuse
<1>7. ASSUME NEW p \in Dispatchers, NEW out \in Outcomes, Post(p, out)
      PROVE  TypeOK'
  BY <1>7 DEF Post
<1>8. ASSUME NEW p \in Dispatchers, Record(p)
      PROVE  TypeOK'
  <2>1. RecordedStatus(outcome[p]) \in DeliveryStatus
    BY <1>8, RecordedStatusFacts DEF Record
  <2>2. \E q \in PCs : Leave(p, q) \/ Go(p, q)
    BY <1>8 DEF Record
  <2>3. MovedOK
    BY <2>2, MoveType
  <2> QED BY <1>8, <2>1, <2>3 DEF Record, MovedOK
<1>9. ASSUME NEW p \in Dispatchers, RecordFails(p)
      PROVE  TypeOK'
  BY <1>9 DEF RecordFails
<1>10. ASSUME NEW p \in Dispatchers, Publish(p)
      PROVE  TypeOK'
  BY <1>10 DEF Publish, Leave
<1>11. ASSUME NEW p \in Dispatchers, PublishFails(p)
      PROVE  TypeOK'
  BY <1>11 DEF PublishFails
<1>12. ASSUME NEW p \in Dispatchers, Schedule(p)
      PROVE  TypeOK'
  <2>1. \E q \in PCs : Leave(p, q) \/ Go(p, q)
    BY <1>12 DEF Schedule
  <2>2. MovedOK
    BY <2>1, MoveType
  <2> QED BY <1>12, <2>2 DEF Schedule, MovedOK
<1>13. ASSUME NEW p \in Dispatchers, Requeue(p)
      PROVE  TypeOK'
  BY <1>13 DEF Requeue, Leave
<1>14. ASSUME NEW p \in Dispatchers, GiveUp(p)
      PROVE  TypeOK'
  BY <1>14 DEF GiveUp, Leave
<1>15. ASSUME NEW p \in Dispatchers, Count(p)
      PROVE  TypeOK'
  BY <1>15 DEF Count, Leave, ShouldAutoDisable
<1>16. ASSUME NEW p \in Dispatchers, Disable(p)
      PROVE  TypeOK'
  BY <1>16 DEF Disable, Leave, Restart
<1>17. ASSUME NEW m \in Managers, NEW s \in Subs, NEW to \in SubStatus, ReadSub(m, s, to)
      PROVE  TypeOK'
  BY <1>17 DEF ReadSub
<1>18. ASSUME NEW m \in Managers, WriteSub(m)
      PROVE  TypeOK'
  <2>1. deleted' \in [Subs -> BOOLEAN]
    BY <1>18, Zenon DEF WriteSub
  <2>2. stopPosts' \in [Deliveries -> Nat]
    BY <1>18 DEF WriteSub, Restart
  <2>3. /\ mpc' \in [Managers -> {"idle", "write", "cancel"}]
        /\ msub' \in [Managers -> Subs \cup {NoSub}]
        /\ mto' \in [Managers -> SubStatus]
    <3>1. \/ mpc' = [mpc EXCEPT ![m] = "cancel"] /\ UNCHANGED <<msub, mto>>
          \/ EndRequest(m)
      BY <1>18 DEF WriteSub
    <3> QED BY <3>1 DEF EndRequest
  <2>4. status' \in [Subs -> SubStatus]
    BY <1>18 DEF WriteSub
  <2> HIDE DEF SubStatus, Deliveries
  <2>5. UNCHANGED <<failures, rowVars, dispVars, posts>>
    BY <1>18 DEF WriteSub
  <2> QED
    BY <2>1, <2>2, <2>3, <2>4, <2>5
<1>19. ASSUME NEW m \in Managers, CancelPending(m)
      PROVE  TypeOK'
  BY <1>19 DEF CancelPending, EndRequest
<1>20. ASSUME NEW m \in Managers, AbandonRequest(m)
      PROVE  TypeOK'
  BY <1>20 DEF AbandonRequest, EndRequest
<1>21. CASE UNCHANGED vars
  BY <1>21 DEF vars
<1> HIDE DEF TypeOK, LocalsInv
<1> QED
  BY <1>1, <1>2, <1>3, <1>4, <1>5, <1>6, <1>7, <1>8, <1>9, <1>10, <1>11,
     <1>12, <1>13, <1>14, <1>15, <1>16, <1>17, <1>18, <1>19, <1>20, <1>21
     DEF Next, LoopStep, WorkerStep, ManagerStep

\* A dispatch keeps its event and its subscription, and no request asks for
\* "disabled".
LEMMA LocalsStep ==
  ASSUME TypeOK, LocalsInv, [Next]_vars
  PROVE  LocalsInv'
<1> USE DEF TypeOK, LocalsInv, Working, SubStatus, Outcomes,
        subVars, rowVars, dispVars, mgrVars, ghostVars
<1>1. ASSUME NEW p \in Dispatchers, NEW e \in Events, Dispatch(p, e)
      PROVE  LocalsInv'
  BY <1>1 DEF Dispatch
<1>2. ASSUME NEW p \in Dispatchers, NEW s \in Subs, Skip(p, s)
      PROVE  LocalsInv'
  BY <1>2 DEF Skip
<1>3. ASSUME NEW p \in Dispatchers, NEW s \in Subs, Insert(p, s)
      PROVE  LocalsInv'
  BY <1>3 DEF Insert
<1>4. ASSUME NEW p \in Dispatchers, Finish(p)
      PROVE  LocalsInv'
  BY <1>4 DEF Finish
<1>5. ASSUME NEW p \in Dispatchers, Abort(p)
      PROVE  LocalsInv'
  BY <1>5 DEF Abort, Leave
<1>6. ASSUME NEW p \in Dispatchers, Refuse(p)
      PROVE  LocalsInv'
  BY <1>6 DEF Refuse
<1>7. ASSUME NEW p \in Dispatchers, NEW out \in Outcomes, Post(p, out)
      PROVE  LocalsInv'
  BY <1>7 DEF Post
<1>8. ASSUME NEW p \in Dispatchers, Record(p)
      PROVE  LocalsInv'
  BY <1>8 DEF Record, Leave, Go
<1>9. ASSUME NEW p \in Dispatchers, RecordFails(p)
      PROVE  LocalsInv'
  BY <1>9 DEF RecordFails
<1>10. ASSUME NEW p \in Dispatchers, Publish(p)
      PROVE  LocalsInv'
  BY <1>10 DEF Publish, Leave
<1>11. ASSUME NEW p \in Dispatchers, PublishFails(p)
      PROVE  LocalsInv'
  BY <1>11 DEF PublishFails
<1>12. ASSUME NEW p \in Dispatchers, Schedule(p)
      PROVE  LocalsInv'
  BY <1>12 DEF Schedule, Leave, Go, CancelsRetry, HasRetriesRemaining
<1>13. ASSUME NEW p \in Dispatchers, Requeue(p)
      PROVE  LocalsInv'
  BY <1>13 DEF Requeue, Leave
<1>14. ASSUME NEW p \in Dispatchers, GiveUp(p)
      PROVE  LocalsInv'
  BY <1>14 DEF GiveUp, Leave
<1>15. ASSUME NEW p \in Dispatchers, Count(p)
      PROVE  LocalsInv'
  BY <1>15 DEF Count, Leave, ShouldAutoDisable
<1>16. ASSUME NEW p \in Dispatchers, Disable(p)
      PROVE  LocalsInv'
  BY <1>16 DEF Disable, Leave, Restart
<1>17. ASSUME NEW m \in Managers, NEW s \in Subs, NEW to \in SubStatus, ReadSub(m, s, to)
      PROVE  LocalsInv'
  BY <1>17 DEF ReadSub
<1>18. ASSUME NEW m \in Managers, WriteSub(m)
      PROVE  LocalsInv'
  BY <1>18 DEF WriteSub, EndRequest, Restart
<1>19. ASSUME NEW m \in Managers, CancelPending(m)
      PROVE  LocalsInv'
  BY <1>19 DEF CancelPending, EndRequest
<1>20. ASSUME NEW m \in Managers, AbandonRequest(m)
      PROVE  LocalsInv'
  BY <1>20 DEF AbandonRequest, EndRequest
<1>21. CASE UNCHANGED vars
  BY <1>21 DEF vars
<1> QED
  BY <1>1, <1>2, <1>3, <1>4, <1>5, <1>6, <1>7, <1>8, <1>9, <1>10, <1>11,
     <1>12, <1>13, <1>14, <1>15, <1>16, <1>17, <1>18, <1>19, <1>20, <1>21
     DEF Next, LoopStep, WorkerStep, ManagerStep

-----------------------------------------------------------------------------
(* One worker for each delivery.                                           *)

LEMMA OwnerStep ==
  ASSUME TypeOK, LocalsInv, OwnerInv, [Next]_vars
  PROVE  OwnerInv'
<1> USE DEF TypeOK, LocalsInv, OwnerInv, Working, Mine, Deliveries,
        subVars, rowVars, dispVars, mgrVars, ghostVars
<1>1. ASSUME NEW p \in Dispatchers, NEW e \in Events, Dispatch(p, e)
      PROVE  OwnerInv'
  BY <1>1 DEF Dispatch
<1>2. ASSUME NEW p \in Dispatchers, NEW s \in Subs, Skip(p, s)
      PROVE  OwnerInv'
  BY <1>2 DEF Skip
<1>3. ASSUME NEW p \in Dispatchers, NEW s \in Subs, Insert(p, s)
      PROVE  OwnerInv'
  BY <1>3 DEF Insert
<1>4. ASSUME NEW p \in Dispatchers, Finish(p)
      PROVE  OwnerInv'
  BY <1>4 DEF Finish
<1>5. ASSUME NEW p \in Dispatchers, Abort(p)
      PROVE  OwnerInv'
  BY <1>5 DEF Abort, Leave
<1>6. ASSUME NEW p \in Dispatchers, Refuse(p)
      PROVE  OwnerInv'
  BY <1>6 DEF Refuse
<1>7. ASSUME NEW p \in Dispatchers, NEW out \in Outcomes, Post(p, out)
      PROVE  OwnerInv'
  BY <1>7 DEF Post
<1>8. ASSUME NEW p \in Dispatchers, Record(p)
      PROVE  OwnerInv'
  <2>0. /\ RecordedStatus(outcome[p]) # "none"
        /\ dstatus' = [dstatus EXCEPT ![Mine(p)] = RecordedStatus(outcome[p])]
        /\ attempts' = [attempts EXCEPT ![Mine(p)] = attempt[p]]
        /\ \/ pc' = [pc EXCEPT ![p] = "next"] /\ attempt' = [attempt EXCEPT ![p] = 0]
           \/ /\ UNCHANGED attempt
              /\ \E q \in {"publish", "schedule"} : pc' = [pc EXCEPT ![p] = q]
        /\ UNCHANGED <<subVars, event, todo, sub, mgrVars, ghostVars>>
    BY <1>8, RecordedStatusFacts DEF Record, Outcomes, Leave, Go
  <2>1. pc[p] = "record"
    BY <1>8 DEF Record
  <2>2. \A q \in Dispatchers :
          /\ Mine(q)' = Mine(q)
          /\ Working(q) => Mine(q) \in Deliveries
          /\ Working(q)' => Working(q)
    BY <2>0, <2>1
  <2> HIDE DEF Mine, Deliveries, Working
  <2>3. \A d \in Deliveries : dstatus[d] # "none" => dstatus'[d] # "none"
    BY <2>0
  <2> QED BY <2>2, <2>3
<1>9. ASSUME NEW p \in Dispatchers, RecordFails(p)
      PROVE  OwnerInv'
  BY <1>9 DEF RecordFails
<1>10. ASSUME NEW p \in Dispatchers, Publish(p)
      PROVE  OwnerInv'
  BY <1>10 DEF Publish, Leave
<1>11. ASSUME NEW p \in Dispatchers, PublishFails(p)
      PROVE  OwnerInv'
  BY <1>11 DEF PublishFails
<1>12. ASSUME NEW p \in Dispatchers, Schedule(p)
      PROVE  OwnerInv'
  <2>1. /\ pc[p] = "schedule"
        /\ \E q \in {"next", "requeue", "give_up"} : pc' = [pc EXCEPT ![p] = q]
        /\ UNCHANGED <<subVars, rowVars, event, todo, sub, mgrVars, ghostVars>>
    BY <1>12 DEF Schedule, Leave, Go
  <2> QED BY <2>1
<1>13. ASSUME NEW p \in Dispatchers, Requeue(p)
      PROVE  OwnerInv'
  BY <1>13 DEF Requeue, Leave
<1>14. ASSUME NEW p \in Dispatchers, GiveUp(p)
      PROVE  OwnerInv'
  BY <1>14 DEF GiveUp, Leave
<1>15. ASSUME NEW p \in Dispatchers, Count(p)
      PROVE  OwnerInv'
  BY <1>15 DEF Count, Leave, ShouldAutoDisable
<1>16. ASSUME NEW p \in Dispatchers, Disable(p)
      PROVE  OwnerInv'
  BY <1>16 DEF Disable, Leave, Restart
<1>17. ASSUME NEW m \in Managers, NEW s \in Subs, NEW to \in SubStatus, ReadSub(m, s, to)
      PROVE  OwnerInv'
  BY <1>17 DEF ReadSub
<1>18. ASSUME NEW m \in Managers, WriteSub(m)
      PROVE  OwnerInv'
  BY <1>18 DEF WriteSub, EndRequest, Restart
<1>19. ASSUME NEW m \in Managers, CancelPending(m)
      PROVE  OwnerInv'
  BY <1>19 DEF CancelPending, EndRequest
<1>20. ASSUME NEW m \in Managers, AbandonRequest(m)
      PROVE  OwnerInv'
  BY <1>20 DEF AbandonRequest, EndRequest
<1>21. CASE UNCHANGED vars
  BY <1>21 DEF vars
<1> HIDE DEF TypeOK, LocalsInv, OwnerInv
<1> QED
  BY <1>1, <1>2, <1>3, <1>4, <1>5, <1>6, <1>7, <1>8, <1>9, <1>10, <1>11,
     <1>12, <1>13, <1>14, <1>15, <1>16, <1>17, <1>18, <1>19, <1>20, <1>21
     DEF Next, LoopStep, WorkerStep, ManagerStep

-----------------------------------------------------------------------------
(* The budget of requests.                                                 *)

LEMMA BudgetStep ==
  ASSUME TypeOK, LocalsInv, OwnerInv, BudgetInv, [Next]_vars
  PROVE  BudgetInv'
<1> USE LimitsAssumption
    DEF TypeOK, LocalsInv, OwnerInv, BudgetInv, RowBudget, WorkerBudget, Working,
        Mine, Deliveries, subVars, rowVars, dispVars, mgrVars, ghostVars
<1>1. ASSUME NEW p \in Dispatchers, NEW e \in Events, Dispatch(p, e)
      PROVE  BudgetInv'
  BY <1>1 DEF Dispatch
<1>2. ASSUME NEW p \in Dispatchers, NEW s \in Subs, Skip(p, s)
      PROVE  BudgetInv'
  BY <1>2 DEF Skip
<1>3. ASSUME NEW p \in Dispatchers, NEW s \in Subs, Insert(p, s)
      PROVE  BudgetInv'
  <2>1. ASSUME NEW d \in Deliveries
        PROVE  RowBudget(d)'
    BY <1>3, <2>1 DEF Insert
  <2>2. WorkerBudget(p)'
    BY <1>3 DEF Insert
  <2>3. ASSUME NEW q \in Dispatchers, q # p
        PROVE  WorkerBudget(q)'
    <3>1. pc'[q] = pc[q] /\ attempt'[q] = attempt[q] /\ Mine(q)' = Mine(q)
      BY <1>3, <2>3 DEF Insert
    <3>2. Working(q) => Mine(q) \in Deliveries /\ Mine(q) # <<s, event[p]>>
      BY <1>3, <2>3 DEF Insert
    <3> HIDE DEF Mine
    <3>3. Working(q) => /\ posts'[Mine(q)] = posts[Mine(q)]
                        /\ attempts'[Mine(q)] = attempts[Mine(q)]
      BY <1>3, <2>3, <3>2 DEF Insert
    <3> HIDE DEF TypeOK, LocalsInv, OwnerInv, Deliveries
    <3> QED BY <3>1, <3>3
  <2> QED BY <2>1, <2>2, <2>3
<1>4. ASSUME NEW p \in Dispatchers, Finish(p)
      PROVE  BudgetInv'
  BY <1>4 DEF Finish
<1>5. ASSUME NEW p \in Dispatchers, Abort(p)
      PROVE  BudgetInv'
  BY <1>5 DEF Abort, Leave
<1>6. ASSUME NEW p \in Dispatchers, Refuse(p)
      PROVE  BudgetInv'
  <2>0. Mine(p) \in Deliveries /\ \A q \in Dispatchers : Mine(q)' = Mine(q)
    BY <1>6 DEF Refuse
  <2> HIDE DEF Mine
  <2>1. posts[Mine(p)] \in Nat /\ attempts[Mine(p)] \in Nat
    BY <2>0
  <2>2. WorkerBudget(p)'
    BY <1>6, <2>0, <2>1 DEF Refuse
  <2>3. \A q \in Dispatchers : q # p => WorkerBudget(q)'
    BY <1>6, <2>0 DEF Refuse
  <2>4. \A d \in Deliveries : RowBudget(d)'
    BY <1>6 DEF Refuse
  <2> QED BY <2>2, <2>3, <2>4
<1>7. ASSUME NEW p \in Dispatchers, NEW out \in Outcomes, Post(p, out)
      PROVE  BudgetInv'
  <2>0. Mine(p) \in Deliveries /\ Mine(p)' = Mine(p) /\ pc[p] = "post"
    BY <1>7 DEF Post
  <2>1. /\ posts[Mine(p)] \in Nat /\ attempts[Mine(p)] \in Nat
    BY <2>0
  <2>5. posts[Mine(p)] < MaxAttempts /\ dstatus[Mine(p)] # "none"
    <3>1. posts[Mine(p)] <= attempts[Mine(p)] /\ attempts[Mine(p)] < MaxAttempts
      BY <2>0
    <3>2. dstatus[Mine(p)] # "none"
      BY <2>0
    <3> HIDE DEF Mine, TypeOK, BudgetInv
    <3> QED BY <2>1, <3>1, <3>2
  <2>3. ASSUME NEW q \in Dispatchers, q # p
        PROVE  WorkerBudget(q)'
    <3>1. pc'[q] = pc[q] /\ attempt'[q] = attempt[q] /\ Mine(q)' = Mine(q)
      BY <1>7, <2>3 DEF Post
    <3>2. Working(q) => Mine(q) \in Deliveries /\ Mine(q) # Mine(p)
      BY <1>7, <2>3 DEF Post
    <3> HIDE DEF Mine
    <3>3. Working(q) => /\ posts'[Mine(q)] = posts[Mine(q)]
                        /\ attempts'[Mine(q)] = attempts[Mine(q)]
      BY <1>7, <2>3, <3>2 DEF Post
    <3> HIDE DEF TypeOK, LocalsInv, OwnerInv, Deliveries
    <3> QED BY <3>1, <3>3
  <2> HIDE DEF Mine
  <2>2. WorkerBudget(p)'
    BY <1>7, <2>0, <2>1 DEF Post
  <2>4. ASSUME NEW d \in Deliveries
        PROVE  RowBudget(d)'
    <3>1. posts'[d] = IF d = Mine(p) THEN posts[d] + 1 ELSE posts[d]
      BY <1>7, <2>0 DEF Post
    <3>2. dstatus'[d] = dstatus[d]
      BY <1>7 DEF Post
    <3> QED BY <2>1, <2>5, <3>1, <3>2
  <2> QED BY <2>2, <2>3, <2>4
<1>8. ASSUME NEW p \in Dispatchers, Record(p)
      PROVE  BudgetInv'
  <2>0. /\ RecordedStatus(outcome[p]) # "none"
        /\ dstatus' = [dstatus EXCEPT ![Mine(p)] = RecordedStatus(outcome[p])]
        /\ attempts' = [attempts EXCEPT ![Mine(p)] = attempt[p]]
        /\ \/ pc' = [pc EXCEPT ![p] = "next"] /\ attempt' = [attempt EXCEPT ![p] = 0]
           \/ /\ UNCHANGED attempt
              /\ \E q \in {"publish", "schedule"} : pc' = [pc EXCEPT ![p] = q]
        /\ UNCHANGED <<subVars, event, todo, sub, mgrVars, ghostVars>>
    BY <1>8, RecordedStatusFacts DEF Record, Outcomes, Leave, Go
  <2>1. ASSUME NEW d \in Deliveries
        PROVE  RowBudget(d)'
    BY <2>0, <2>1
  <2>2. WorkerBudget(p)'
    <3>1. Mine(p) \in Deliveries /\ Mine(p)' = Mine(p) /\ pc[p] = "record"
      BY <1>8, <2>0 DEF Record
    <3> HIDE DEF Mine
    <3>2. posts'[Mine(p)] = posts[Mine(p)] /\ attempts'[Mine(p)] = attempt[p]
      BY <2>0, <3>1
    <3> QED BY <2>0, <3>1, <3>2
  <2>3. ASSUME NEW q \in Dispatchers, q # p
        PROVE  WorkerBudget(q)'
    <3>1. pc'[q] = pc[q] /\ attempt'[q] = attempt[q] /\ Mine(q)' = Mine(q)
      BY <1>8, <2>3, <2>0
    <3>2. Working(q) => Mine(q) \in Deliveries /\ Mine(q) # Mine(p)
      BY <1>8, <2>3 DEF Record
    <3> HIDE DEF Mine
    <3>3. Working(q) => /\ posts'[Mine(q)] = posts[Mine(q)]
                        /\ attempts'[Mine(q)] = attempts[Mine(q)]
      BY <1>8, <2>3, <3>2, <2>0
    <3> HIDE DEF TypeOK, LocalsInv, OwnerInv, Deliveries
    <3> QED BY <3>1, <3>3
  <2> QED BY <2>1, <2>2, <2>3
<1>9. ASSUME NEW p \in Dispatchers, RecordFails(p)
      PROVE  BudgetInv'
  BY <1>9 DEF RecordFails
<1>10. ASSUME NEW p \in Dispatchers, Publish(p)
      PROVE  BudgetInv'
  BY <1>10 DEF Publish, Leave
<1>11. ASSUME NEW p \in Dispatchers, PublishFails(p)
      PROVE  BudgetInv'
  BY <1>11 DEF PublishFails
<1>12. ASSUME NEW p \in Dispatchers, Schedule(p)
      PROVE  BudgetInv'
  BY <1>12 DEF Schedule, Leave, Go, CancelsRetry, HasRetriesRemaining
<1>13. ASSUME NEW p \in Dispatchers, Requeue(p)
      PROVE  BudgetInv'
  BY <1>13 DEF Requeue, Leave
<1>14. ASSUME NEW p \in Dispatchers, GiveUp(p)
      PROVE  BudgetInv'
  BY <1>14 DEF GiveUp, Leave
<1>15. ASSUME NEW p \in Dispatchers, Count(p)
      PROVE  BudgetInv'
  BY <1>15 DEF Count, Leave, ShouldAutoDisable
<1>16. ASSUME NEW p \in Dispatchers, Disable(p)
      PROVE  BudgetInv'
  BY <1>16 DEF Disable, Leave, Restart
<1>17. ASSUME NEW m \in Managers, NEW s \in Subs, NEW to \in SubStatus, ReadSub(m, s, to)
      PROVE  BudgetInv'
  BY <1>17 DEF ReadSub
<1>18. ASSUME NEW m \in Managers, WriteSub(m)
      PROVE  BudgetInv'
  BY <1>18 DEF WriteSub, EndRequest, Restart
<1>19. ASSUME NEW m \in Managers, CancelPending(m)
      PROVE  BudgetInv'
  BY <1>19 DEF CancelPending, EndRequest
<1>20. ASSUME NEW m \in Managers, AbandonRequest(m)
      PROVE  BudgetInv'
  BY <1>20 DEF AbandonRequest, EndRequest
<1>21. CASE UNCHANGED vars
  BY <1>21 DEF vars
<1> HIDE DEF TypeOK, LocalsInv, OwnerInv, BudgetInv
<1> QED
  BY <1>1, <1>2, <1>3, <1>4, <1>5, <1>6, <1>7, <1>8, <1>9, <1>10, <1>11,
     <1>12, <1>13, <1>14, <1>15, <1>16, <1>17, <1>18, <1>19, <1>20, <1>21
     DEF Next, LoopStep, WorkerStep, ManagerStep

-----------------------------------------------------------------------------
(* Requests after a stop.                                                  *)

LEMMA StopStep ==
  ASSUME TypeOK, LocalsInv, OwnerInv, StopInv, [Next]_vars
  PROVE  StopInv'
<1> USE DEF TypeOK, LocalsInv, OwnerInv, StopInv, Stopped, Working, Mine, Deliveries,
        subVars, rowVars, dispVars, mgrVars, ghostVars
<1>1. ASSUME NEW p \in Dispatchers, NEW e \in Events, Dispatch(p, e)
      PROVE  StopInv'
  BY <1>1 DEF Dispatch
<1>2. ASSUME NEW p \in Dispatchers, NEW s \in Subs, Skip(p, s)
      PROVE  StopInv'
  BY <1>2 DEF Skip
<1>3. ASSUME NEW p \in Dispatchers, NEW s \in Subs, Insert(p, s)
      PROVE  StopInv'
  BY <1>3 DEF Insert
<1>4. ASSUME NEW p \in Dispatchers, Finish(p)
      PROVE  StopInv'
  BY <1>4 DEF Finish
<1>5. ASSUME NEW p \in Dispatchers, Abort(p)
      PROVE  StopInv'
  BY <1>5 DEF Abort, Leave
<1>6. ASSUME NEW p \in Dispatchers, Refuse(p)
      PROVE  StopInv'
  BY <1>6 DEF Refuse
<1>7. ASSUME NEW p \in Dispatchers, NEW out \in Outcomes, Post(p, out)
      PROVE  StopInv'
  BY <1>7 DEF Post
<1>8. ASSUME NEW p \in Dispatchers, Record(p)
      PROVE  StopInv'
  <2>0. /\ RecordedStatus(outcome[p]) # "none"
        /\ dstatus' = [dstatus EXCEPT ![Mine(p)] = RecordedStatus(outcome[p])]
        /\ attempts' = [attempts EXCEPT ![Mine(p)] = attempt[p]]
        /\ \/ pc' = [pc EXCEPT ![p] = "next"] /\ attempt' = [attempt EXCEPT ![p] = 0]
           \/ /\ UNCHANGED attempt
              /\ \E q \in {"publish", "schedule"} : pc' = [pc EXCEPT ![p] = q]
        /\ UNCHANGED <<subVars, event, todo, sub, mgrVars, ghostVars>>
    BY <1>8, RecordedStatusFacts DEF Record, Outcomes, Leave, Go
  <2>1. pc[p] = "record"
    BY <1>8 DEF Record
  <2> QED BY <2>0, <2>1
<1>9. ASSUME NEW p \in Dispatchers, RecordFails(p)
      PROVE  StopInv'
  BY <1>9 DEF RecordFails
<1>10. ASSUME NEW p \in Dispatchers, Publish(p)
      PROVE  StopInv'
  BY <1>10 DEF Publish, Leave
<1>11. ASSUME NEW p \in Dispatchers, PublishFails(p)
      PROVE  StopInv'
  BY <1>11 DEF PublishFails
<1>12. ASSUME NEW p \in Dispatchers, Schedule(p)
      PROVE  StopInv'
  BY <1>12 DEF Schedule, Leave, Go, CancelsRetry, HasRetriesRemaining
<1>13. ASSUME NEW p \in Dispatchers, Requeue(p)
      PROVE  StopInv'
  BY <1>13 DEF Requeue, Leave
<1>14. ASSUME NEW p \in Dispatchers, GiveUp(p)
      PROVE  StopInv'
  BY <1>14 DEF GiveUp, Leave
<1>15. ASSUME NEW p \in Dispatchers, Count(p)
      PROVE  StopInv'
  BY <1>15 DEF Count, Leave, ShouldAutoDisable
<1>16. ASSUME NEW p \in Dispatchers, Disable(p)
      PROVE  StopInv'
  BY <1>16 DEF Disable, Leave, Restart
<1>17. ASSUME NEW m \in Managers, NEW s \in Subs, NEW to \in SubStatus, ReadSub(m, s, to)
      PROVE  StopInv'
  BY <1>17 DEF ReadSub
<1>18. ASSUME NEW m \in Managers, WriteSub(m)
      PROVE  StopInv'
  BY <1>18 DEF WriteSub, EndRequest, Restart
<1>19. ASSUME NEW m \in Managers, CancelPending(m)
      PROVE  StopInv'
  BY <1>19 DEF CancelPending, EndRequest
<1>20. ASSUME NEW m \in Managers, AbandonRequest(m)
      PROVE  StopInv'
  BY <1>20 DEF AbandonRequest, EndRequest
<1>21. CASE UNCHANGED vars
  BY <1>21 DEF vars
<1> HIDE DEF TypeOK, LocalsInv, OwnerInv, StopInv
<1> QED
  BY <1>1, <1>2, <1>3, <1>4, <1>5, <1>6, <1>7, <1>8, <1>9, <1>10, <1>11,
     <1>12, <1>13, <1>14, <1>15, <1>16, <1>17, <1>18, <1>19, <1>20, <1>21
     DEF Next, LoopStep, WorkerStep, ManagerStep

-----------------------------------------------------------------------------
(* Failures, their count and disabling.                                    *)

LEMMA PermanentStep ==
  ASSUME TypeOK, LocalsInv, OwnerInv, PermanentInv, [Next]_vars
  PROVE  PermanentInv'
<1> USE DEF TypeOK, LocalsInv, OwnerInv, PermanentInv, Working, Mine, Deliveries,
        subVars, rowVars, dispVars, mgrVars, ghostVars
<1>1. ASSUME NEW p \in Dispatchers, NEW e \in Events, Dispatch(p, e)
      PROVE  PermanentInv'
  BY <1>1 DEF Dispatch
<1>2. ASSUME NEW p \in Dispatchers, NEW s \in Subs, Skip(p, s)
      PROVE  PermanentInv'
  BY <1>2 DEF Skip
<1>3. ASSUME NEW p \in Dispatchers, NEW s \in Subs, Insert(p, s)
      PROVE  PermanentInv'
  BY <1>3 DEF Insert
<1>4. ASSUME NEW p \in Dispatchers, Finish(p)
      PROVE  PermanentInv'
  BY <1>4 DEF Finish
<1>5. ASSUME NEW p \in Dispatchers, Abort(p)
      PROVE  PermanentInv'
  BY <1>5 DEF Abort, Leave
<1>6. ASSUME NEW p \in Dispatchers, Refuse(p)
      PROVE  PermanentInv'
  BY <1>6 DEF Refuse
<1>7. ASSUME NEW p \in Dispatchers, NEW out \in Outcomes, Post(p, out)
      PROVE  PermanentInv'
  BY <1>7 DEF Post
<1>8. ASSUME NEW p \in Dispatchers, Record(p)
      PROVE  PermanentInv'
  <2>0. /\ pc[p] = "record"
        /\ dstatus' = [dstatus EXCEPT ![Mine(p)] = RecordedStatus(outcome[p])]
        /\ \/ pc' = [pc EXCEPT ![p] = "next"]
           \/ /\ RecordedStatus(outcome[p]) # "permanently_failed"
              /\ \E q \in {"publish", "schedule"} : pc' = [pc EXCEPT ![p] = q]
        /\ UNCHANGED <<subVars, event, todo, sub, mgrVars, ghostVars>>
    BY <1>8, RecordedStatusFacts DEF Record, Outcomes, Leave, Go
  <2> QED BY <2>0
<1>9. ASSUME NEW p \in Dispatchers, RecordFails(p)
      PROVE  PermanentInv'
  BY <1>9 DEF RecordFails
<1>10. ASSUME NEW p \in Dispatchers, Publish(p)
      PROVE  PermanentInv'
  BY <1>10 DEF Publish, Leave
<1>11. ASSUME NEW p \in Dispatchers, PublishFails(p)
      PROVE  PermanentInv'
  BY <1>11 DEF PublishFails
<1>12. ASSUME NEW p \in Dispatchers, Schedule(p)
      PROVE  PermanentInv'
  <2>1. /\ pc[p] = "schedule"
        /\ \E q \in {"next", "requeue", "give_up"} : pc' = [pc EXCEPT ![p] = q]
        /\ UNCHANGED <<subVars, rowVars, event, todo, sub, mgrVars, ghostVars>>
    BY <1>12 DEF Schedule, Leave, Go
  <2> QED BY <2>1
<1>13. ASSUME NEW p \in Dispatchers, Requeue(p)
      PROVE  PermanentInv'
  BY <1>13 DEF Requeue, Leave
<1>14. ASSUME NEW p \in Dispatchers, GiveUp(p)
      PROVE  PermanentInv'
  BY <1>14 DEF GiveUp, Leave
<1>15. ASSUME NEW p \in Dispatchers, Count(p)
      PROVE  PermanentInv'
  BY <1>15 DEF Count, Leave, ShouldAutoDisable
<1>16. ASSUME NEW p \in Dispatchers, Disable(p)
      PROVE  PermanentInv'
  BY <1>16 DEF Disable, Leave, Restart
<1>17. ASSUME NEW m \in Managers, NEW s \in Subs, NEW to \in SubStatus, ReadSub(m, s, to)
      PROVE  PermanentInv'
  BY <1>17 DEF ReadSub
<1>18. ASSUME NEW m \in Managers, WriteSub(m)
      PROVE  PermanentInv'
  BY <1>18 DEF WriteSub, EndRequest, Restart
<1>19. ASSUME NEW m \in Managers, CancelPending(m)
      PROVE  PermanentInv'
  BY <1>19 DEF CancelPending, EndRequest
<1>20. ASSUME NEW m \in Managers, AbandonRequest(m)
      PROVE  PermanentInv'
  BY <1>20 DEF AbandonRequest, EndRequest
<1>21. CASE UNCHANGED vars
  BY <1>21 DEF vars
<1> HIDE DEF TypeOK, LocalsInv, OwnerInv, PermanentInv
<1> QED
  BY <1>1, <1>2, <1>3, <1>4, <1>5, <1>6, <1>7, <1>8, <1>9, <1>10, <1>11,
     <1>12, <1>13, <1>14, <1>15, <1>16, <1>17, <1>18, <1>19, <1>20, <1>21
     DEF Next, LoopStep, WorkerStep, ManagerStep

\* What a step leaves of the permanently failed rows and of their counting.
Stays ==
    /\ \A d \in Deliveries :
         dstatus[d] = "permanently_failed" => dstatus'[d] = "permanently_failed"
    /\ \A q \in Dispatchers : pc'[q] = "count" =>
         /\ Mine(q)' = Mine(q)
         /\ pc[q] = "count" \/ dstatus[Mine(q)] # "permanently_failed"

\* A permanently failed row stays so, and no worker comes to count it later.
LEMMA PermanentStays ==
  ASSUME TypeOK, LocalsInv, OwnerInv, PermanentInv, [Next]_vars
  PROVE  Stays
<1> USE DEF TypeOK, LocalsInv, OwnerInv, PermanentInv, Working, Mine, Deliveries, Stays,
        subVars, rowVars, dispVars, mgrVars, ghostVars
<1>1. ASSUME NEW p \in Dispatchers, NEW e \in Events, Dispatch(p, e)
      PROVE  Stays
  BY <1>1 DEF Dispatch
<1>2. ASSUME NEW p \in Dispatchers, NEW s \in Subs, Skip(p, s)
      PROVE  Stays
  BY <1>2 DEF Skip
<1>3. ASSUME NEW p \in Dispatchers, NEW s \in Subs, Insert(p, s)
      PROVE  Stays
  BY <1>3 DEF Insert
<1>4. ASSUME NEW p \in Dispatchers, Finish(p)
      PROVE  Stays
  BY <1>4 DEF Finish
<1>5. ASSUME NEW p \in Dispatchers, Abort(p)
      PROVE  Stays
  BY <1>5 DEF Abort, Leave
<1>6. ASSUME NEW p \in Dispatchers, Refuse(p)
      PROVE  Stays
  BY <1>6 DEF Refuse
<1>7. ASSUME NEW p \in Dispatchers, NEW out \in Outcomes, Post(p, out)
      PROVE  Stays
  BY <1>7 DEF Post
<1>8. ASSUME NEW p \in Dispatchers, Record(p)
      PROVE  Stays
  <2>0. /\ pc[p] = "record"
        /\ dstatus' = [dstatus EXCEPT ![Mine(p)] = RecordedStatus(outcome[p])]
        /\ \/ pc' = [pc EXCEPT ![p] = "next"]
           \/ /\ RecordedStatus(outcome[p]) # "permanently_failed"
              /\ \E q \in {"publish", "schedule"} : pc' = [pc EXCEPT ![p] = q]
        /\ UNCHANGED <<subVars, event, todo, sub, mgrVars, ghostVars>>
    BY <1>8, RecordedStatusFacts DEF Record, Outcomes, Leave, Go
  <2> QED BY <2>0
<1>9. ASSUME NEW p \in Dispatchers, RecordFails(p)
      PROVE  Stays
  BY <1>9 DEF RecordFails
<1>10. ASSUME NEW p \in Dispatchers, Publish(p)
      PROVE  Stays
  BY <1>10 DEF Publish, Leave
<1>11. ASSUME NEW p \in Dispatchers, PublishFails(p)
      PROVE  Stays
  BY <1>11 DEF PublishFails
<1>12. ASSUME NEW p \in Dispatchers, Schedule(p)
      PROVE  Stays
  <2>1. /\ pc[p] = "schedule"
        /\ \E q \in {"next", "requeue", "give_up"} : pc' = [pc EXCEPT ![p] = q]
        /\ UNCHANGED <<subVars, rowVars, event, todo, sub, mgrVars, ghostVars>>
    BY <1>12 DEF Schedule, Leave, Go
  <2> QED BY <2>1
<1>13. ASSUME NEW p \in Dispatchers, Requeue(p)
      PROVE  Stays
  BY <1>13 DEF Requeue, Leave
<1>14. ASSUME NEW p \in Dispatchers, GiveUp(p)
      PROVE  Stays
  BY <1>14 DEF GiveUp, Leave
<1>15. ASSUME NEW p \in Dispatchers, Count(p)
      PROVE  Stays
  BY <1>15 DEF Count, Leave, ShouldAutoDisable
<1>16. ASSUME NEW p \in Dispatchers, Disable(p)
      PROVE  Stays
  BY <1>16 DEF Disable, Leave, Restart
<1>17. ASSUME NEW m \in Managers, NEW s \in Subs, NEW to \in SubStatus, ReadSub(m, s, to)
      PROVE  Stays
  BY <1>17 DEF ReadSub
<1>18. ASSUME NEW m \in Managers, WriteSub(m)
      PROVE  Stays
  BY <1>18 DEF WriteSub, EndRequest, Restart
<1>19. ASSUME NEW m \in Managers, CancelPending(m)
      PROVE  Stays
  BY <1>19 DEF CancelPending, EndRequest
<1>20. ASSUME NEW m \in Managers, AbandonRequest(m)
      PROVE  Stays
  BY <1>20 DEF AbandonRequest, EndRequest
<1>21. CASE UNCHANGED vars
  BY <1>21 DEF vars
<1> HIDE DEF TypeOK, LocalsInv, OwnerInv, PermanentInv, Stays
<1> QED
  BY <1>1, <1>2, <1>3, <1>4, <1>5, <1>6, <1>7, <1>8, <1>9, <1>10, <1>11,
     <1>12, <1>13, <1>14, <1>15, <1>16, <1>17, <1>18, <1>19, <1>20, <1>21
     DEF Next, LoopStep, WorkerStep, ManagerStep

\* Only a full count leads to the step that disables, and counts never shrink.
LEMMA DisableStep ==
  ASSUME TypeOK, LocalsInv, DisableInv, [Next]_vars
  PROVE  DisableInv'
<1> USE LimitsAssumption DEF TypeOK, LocalsInv, DisableInv, Working,
        subVars, rowVars, dispVars, mgrVars, ghostVars
<1>1. ASSUME NEW p \in Dispatchers, NEW e \in Events, Dispatch(p, e)
      PROVE  DisableInv'
  BY <1>1 DEF Dispatch
<1>2. ASSUME NEW p \in Dispatchers, NEW s \in Subs, Skip(p, s)
      PROVE  DisableInv'
  BY <1>2 DEF Skip
<1>3. ASSUME NEW p \in Dispatchers, NEW s \in Subs, Insert(p, s)
      PROVE  DisableInv'
  BY <1>3 DEF Insert
<1>4. ASSUME NEW p \in Dispatchers, Finish(p)
      PROVE  DisableInv'
  BY <1>4 DEF Finish
<1>5. ASSUME NEW p \in Dispatchers, Abort(p)
      PROVE  DisableInv'
  BY <1>5 DEF Abort, Leave
<1>6. ASSUME NEW p \in Dispatchers, Refuse(p)
      PROVE  DisableInv'
  BY <1>6 DEF Refuse
<1>7. ASSUME NEW p \in Dispatchers, NEW out \in Outcomes, Post(p, out)
      PROVE  DisableInv'
  BY <1>7 DEF Post
<1>8. ASSUME NEW p \in Dispatchers, Record(p)
      PROVE  DisableInv'
  BY <1>8 DEF Record, Leave, Go
<1>9. ASSUME NEW p \in Dispatchers, RecordFails(p)
      PROVE  DisableInv'
  BY <1>9 DEF RecordFails
<1>10. ASSUME NEW p \in Dispatchers, Publish(p)
      PROVE  DisableInv'
  BY <1>10 DEF Publish, Leave
<1>11. ASSUME NEW p \in Dispatchers, PublishFails(p)
      PROVE  DisableInv'
  BY <1>11 DEF PublishFails
<1>12. ASSUME NEW p \in Dispatchers, Schedule(p)
      PROVE  DisableInv'
  BY <1>12 DEF Schedule, Leave, Go, CancelsRetry, HasRetriesRemaining
<1>13. ASSUME NEW p \in Dispatchers, Requeue(p)
      PROVE  DisableInv'
  BY <1>13 DEF Requeue, Leave
<1>14. ASSUME NEW p \in Dispatchers, GiveUp(p)
      PROVE  DisableInv'
  BY <1>14 DEF GiveUp, Leave
<1>15. ASSUME NEW p \in Dispatchers, Count(p)
      PROVE  DisableInv'
  BY <1>15 DEF Count, Leave, ShouldAutoDisable
<1>16. ASSUME NEW p \in Dispatchers, Disable(p)
      PROVE  DisableInv'
  BY <1>16 DEF Disable, Leave, Restart
<1>17. ASSUME NEW m \in Managers, NEW s \in Subs, NEW to \in SubStatus, ReadSub(m, s, to)
      PROVE  DisableInv'
  BY <1>17 DEF ReadSub
<1>18. ASSUME NEW m \in Managers, WriteSub(m)
      PROVE  DisableInv'
  BY <1>18 DEF WriteSub, EndRequest, Restart
<1>19. ASSUME NEW m \in Managers, CancelPending(m)
      PROVE  DisableInv'
  BY <1>19 DEF CancelPending, EndRequest
<1>20. ASSUME NEW m \in Managers, AbandonRequest(m)
      PROVE  DisableInv'
  BY <1>20 DEF AbandonRequest, EndRequest
<1>21. CASE UNCHANGED vars
  BY <1>21 DEF vars
<1> HIDE DEF TypeOK, LocalsInv, DisableInv
<1> QED
  BY <1>1, <1>2, <1>3, <1>4, <1>5, <1>6, <1>7, <1>8, <1>9, <1>10, <1>11,
     <1>12, <1>13, <1>14, <1>15, <1>16, <1>17, <1>18, <1>19, <1>20, <1>21
     DEF Next, LoopStep, WorkerStep, ManagerStep

\* Only the step that counts changes the counter.
LEMMA FailuresStep ==
  ASSUME [Next]_vars
  PROVE  UNCHANGED failures \/ \E p \in Dispatchers : Count(p)
  BY DEF Next, LoopStep, WorkerStep, ManagerStep, Dispatch, Skip, Insert, Finish, Abort,
         Refuse, Post, Record, RecordFails, Publish, PublishFails, Schedule, Requeue,
         GiveUp, Disable, ReadSub, WriteSub, CancelPending, AbandonRequest, vars, subVars

\* The deliveries whose failure is counted only grow.
LEMMA CountedGrows ==
  ASSUME TypeOK, LocalsInv, OwnerInv, PermanentInv, [Next]_vars, NEW s \in Subs
  PROVE  /\ IsFiniteSet(Counted(s)) /\ IsFiniteSet(Counted(s)')
         /\ Counted(s) \subseteq Counted(s)'
         /\ Cardinality(Counted(s)) \in Nat /\ Cardinality(Counted(s)') \in Nat
         /\ Cardinality(Counted(s)) <= Cardinality(Counted(s)')
<1>1. Counted(s) \subseteq Events /\ Counted(s)' \subseteq Events
  BY DEF Counted, Failed
<1>2. IsFiniteSet(Counted(s)) /\ IsFiniteSet(Counted(s)')
  BY <1>1, SubsAssumption, FS_Subset
<1>3. ASSUME NEW e \in Counted(s)
      PROVE  e \in Counted(s)'
  <2>1. /\ e \in Events /\ dstatus[<<s, e>>] = "permanently_failed"
        /\ \A q \in Dispatchers : ~(pc[q] = "count" /\ Mine(q) = <<s, e>>)
    BY DEF Counted, Failed, Uncounted
  <2>2. Stays
    BY PermanentStays
  <2>3. dstatus'[<<s, e>>] = "permanently_failed"
    BY <2>1, <2>2 DEF Stays, Deliveries
  <2>4. \A q \in Dispatchers : ~(pc'[q] = "count" /\ Mine(q)' = <<s, e>>)
    BY <2>1, <2>2 DEF Stays
  <2> QED BY <2>1, <2>3, <2>4 DEF Counted, Failed, Uncounted
<1>4. Counted(s) \subseteq Counted(s)'
  BY <1>3
<1> QED BY <1>2, <1>4, FS_Subset, FS_CardinalityType

\* A count is made once for a delivery, which stays failed.
LEMMA CountStep ==
  ASSUME TypeOK, LocalsInv, OwnerInv, PermanentInv, CountInv, [Next]_vars
  PROVE  CountInv'
<1> SUFFICES ASSUME NEW s \in Subs
             PROVE  failures'[s] <= Cardinality(Counted(s)')
  BY DEF CountInv
<1>1. failures[s] \in Nat /\ failures[s] <= Cardinality(Counted(s))
  BY DEF TypeOK, CountInv
<1>2. CASE failures'[s] = failures[s]
  BY <1>1, <1>2, CountedGrows
<1>3. CASE failures'[s] # failures[s]
  <2>1. PICK p \in Dispatchers : Count(p)
    BY <1>3, FailuresStep
  <2>2. /\ pc[p] = "count" /\ sub[p] = s /\ event[p] \in Events
        /\ failures'[s] = failures[s] + 1
    BY <1>3, <2>1 DEF Count, TypeOK, LocalsInv, Working
  <2>3. /\ Mine(p) = <<s, event[p]>> /\ dstatus[Mine(p)] = "permanently_failed"
        /\ dstatus' = dstatus /\ Mine(p)' = Mine(p) /\ pc'[p] # "count"
        /\ \A q \in Dispatchers : q # p => pc'[q] = pc[q] /\ Mine(q)' = Mine(q)
    BY <2>1, <2>2 DEF PermanentInv, Mine, Working, Count, Leave, rowVars, TypeOK
  <2>4. \A q \in Dispatchers : ~(pc'[q] = "count" /\ Mine(q)' = <<s, event[p]>>)
    BY <2>2, <2>3 DEF OwnerInv, Working
  <2>5. event[p] \in Counted(s)'
    BY <2>2, <2>3, <2>4 DEF Counted, Failed, Uncounted
  <2>6. event[p] \notin Counted(s)
    BY <2>2, <2>3 DEF Counted, Uncounted
  <2>7. Counted(s) \cup {event[p]} \subseteq Counted(s)'
    BY <2>5, CountedGrows
  <2>8. Cardinality(Counted(s) \cup {event[p]}) = Cardinality(Counted(s)) + 1
    BY <2>6, CountedGrows, FS_AddElement
  <2>9. Cardinality(Counted(s) \cup {event[p]}) <= Cardinality(Counted(s)')
    BY <2>7, CountedGrows, FS_Subset
  <2> QED BY <1>1, <2>2, <2>8, <2>9, CountedGrows
<1> QED BY <1>2, <1>3

-----------------------------------------------------------------------------
(* The theorems.                                                           *)

LEMMA InitInv == Init => IInv
<1> SUFFICES ASSUME Init PROVE IInv
  OBVIOUS
<1>1. TypeOK
  BY DEF Init, TypeOK, SubStatus, DeliveryStatus, PCs, Outcomes
<1>2. LocalsInv /\ OwnerInv /\ PermanentInv
  BY DEF Init, LocalsInv, OwnerInv, PermanentInv, Working
<1>3. BudgetInv /\ StopInv
  BY LimitsAssumption DEF Init, BudgetInv, RowBudget, WorkerBudget, StopInv, Deliveries
<1>4. CountInv
  <2> SUFFICES ASSUME NEW s \in Subs
               PROVE  0 <= Cardinality(Counted(s))
    BY DEF Init, CountInv
  <2>1. IsFiniteSet(Counted(s))
    BY SubsAssumption, FS_Subset DEF Counted, Failed
  <2> QED BY <2>1, FS_CardinalityType
<1>5. DisableInv
  BY DEF Init, DisableInv
<1> QED BY <1>1, <1>2, <1>3, <1>4, <1>5 DEF IInv

\* The inductive invariant is kept by every step.
LEMMA InvStep == IInv /\ [Next]_vars => IInv'
  BY TypeStep, LocalsStep, OwnerStep, BudgetStep, StopStep, PermanentStep, CountStep,
     DisableStep
  DEF IInv

\* The inductive invariant holds in every reachable state.
LEMMA InvAlways == Spec => []IInv
  BY InitInv, InvStep, PTL DEF Spec

\* Every reachable state has the declared type.
THEOREM TypeCorrect == Spec => []TypeOK
<1>1. IInv => TypeOK
  BY DEF IInv
<1> QED BY <1>1, InvAlways, PTL

\* webhook-delivery-worker.mjs and webhook-retry-scheduler.mjs: however often
\* an event is dispatched, whichever call fails after a request and however
\* workers of other deliveries interleave, a delivery sends at most MaxAttempts
\* requests.
THEOREM BudgetNeverExceeded == Spec => []AttemptBudget
<1>1. IInv => AttemptBudget
  BY DEF IInv, BudgetInv, RowBudget, AttemptBudget
<1> QED BY <1>1, InvAlways, PTL

\* The check of the retry scheduler suffices: a subscription that is paused or
\* deleted sends at most the one request of a delivery that was decided before.
THEOREM StopsAfterOneRequest == Spec => []OneRequestAfterStop
<1>1. IInv => OneRequestAfterStop
  BY DEF IInv, StopInv, OneRequestAfterStop
<1> QED BY <1>1, InvAlways, PTL

\* A subscription is only disabled with Threshold deliveries that failed for
\* good, in spite of the separate steps that fail a delivery, count it and
\* disable.
THEOREM DisabledOnlyByFailures == Spec => []DisabledByFailures
<1>1. ASSUME IInv, NEW s \in Subs, status[s] = "disabled"
      PROVE  Cardinality(Failed(s)) >= Threshold
  <2>1. /\ failures[s] \in Nat /\ failures[s] >= Threshold
        /\ failures[s] <= Cardinality(Counted(s))
    BY <1>1 DEF IInv, TypeOK, DisableInv, CountInv
  <2>2. Counted(s) \subseteq Failed(s) /\ Failed(s) \subseteq Events
    BY DEF Counted, Failed
  <2>3. IsFiniteSet(Failed(s)) /\ IsFiniteSet(Counted(s))
    BY <2>2, SubsAssumption, FS_Subset
  <2>4. /\ Cardinality(Counted(s)) <= Cardinality(Failed(s))
        /\ Cardinality(Counted(s)) \in Nat /\ Cardinality(Failed(s)) \in Nat
    BY <2>2, <2>3, FS_Subset, FS_CardinalityType
  <2> QED BY <2>1, <2>4, LimitsAssumption
<1>2. IInv => DisabledByFailures
  BY <1>1 DEF DisabledByFailures, Failed
<1> QED BY <1>2, InvAlways, PTL
=============================================================================
