--------------------------- MODULE WebhookDelivery ---------------------------
(***************************************************************************)
(* Delivery of webhook events: packages/webhook-engine/actions.            *)
(*                                                                         *)
(* The dispatcher takes a snapshot of the active subscriptions and, one    *)
(* after the other, inserts a delivery and runs the delivery worker, which *)
(* posts the event, records the outcome and on failure calls the retry     *)
(* scheduler; the runtime adapter of the control plane runs the worker     *)
(* again at once, inside the scheduler's call.  Meanwhile the management   *)
(* handler pauses, resumes and deletes subscriptions: it reads a row and   *)
(* later writes it back.  Every await is a place where others may run.     *)
(*                                                                         *)
(* The body, signature and target of a request, the backoff (the adapter   *)
(* does not wait for it) and the audit events are abstracted; an error of  *)
(* a database or Kafka call is a choice.  The tables the dispatcher and    *)
(* the worker use are injected into them: external, modelled by their use. *)
(***************************************************************************)
EXTENDS Naturals, FiniteSets

CONSTANTS
    Subs,            \* webhook_subscriptions rows
    Events,          \* event ids
    Dispatchers,     \* invocations of the dispatcher, each handles one event
    Managers,        \* concurrent requests of the management API
    MaxAttempts,     \* WEBHOOK_MAX_RETRY_ATTEMPTS
    Threshold,       \* WEBHOOK_AUTO_DISABLE_THRESHOLD
    NoSub,           \* no subscription is being handled
    NoEvent          \* no event is being handled

ASSUME NoSubIsNoSub == NoSub \notin Subs
ASSUME NoEventIsNoEvent == NoEvent \notin Events
ASSUME LimitsAssumption == MaxAttempts \in Nat \ {0} /\ Threshold \in Nat \ {0}
ASSUME SubsAssumption == IsFiniteSet(Subs) /\ IsFiniteSet(Events)

Deliveries == Subs \X Events

SubStatus == {"active", "paused", "disabled", "deleted"}
DeliveryStatus ==
    {"none", "pending", "failed", "succeeded", "permanently_failed", "cancelled"}
Outcomes == {"succeeded", "failed", "blocked", "redirect_blocked", "timed_out"}
PCs == {"idle", "next", "post", "record", "publish", "schedule", "requeue",
        "give_up", "count", "disable", "done", "aborted"}

VARIABLES
    status,      \* webhook_subscriptions.status
    deleted,     \* webhook_subscriptions.deleted_at IS NOT NULL
    failures,    \* webhook_subscriptions.consecutive_failures
    dstatus,     \* webhook_deliveries.status, "none" when there is no row
    attempts,    \* webhook_deliveries.attempt_count
    pc,          \* where each dispatcher is, the worker it awaits included
    event,       \* the event it dispatches
    todo,        \* the subscriptions of its snapshot not yet handled
    sub,         \* the subscription it is handling
    attempt,     \* attemptNum of the worker
    outcome,     \* outcome of the attempt
    mpc,         \* where each management request is
    msub,        \* the subscription it read
    mto,         \* the status it will write
    posts,       \* ghost: requests sent for each delivery
    stopPosts    \* ghost: those sent since its subscription was last stopped

subVars == <<status, deleted, failures>>
rowVars == <<dstatus, attempts>>
dispVars == <<pc, event, todo, sub, attempt, outcome>>
mgrVars == <<mpc, msub, mto>>
ghostVars == <<posts, stopPosts>>
vars == <<subVars, rowVars, dispVars, mgrVars, ghostVars>>

TypeOK ==
    /\ status \in [Subs -> SubStatus]
    /\ deleted \in [Subs -> BOOLEAN]
    /\ failures \in [Subs -> Nat]
    /\ dstatus \in [Deliveries -> DeliveryStatus]
    /\ attempts \in [Deliveries -> Nat]
    /\ pc \in [Dispatchers -> PCs]
    /\ event \in [Dispatchers -> Events \cup {NoEvent}]
    /\ todo \in [Dispatchers -> SUBSET Subs]
    /\ sub \in [Dispatchers -> Subs \cup {NoSub}]
    /\ attempt \in [Dispatchers -> Nat]
    /\ outcome \in [Dispatchers -> Outcomes \cup {"none"}]
    /\ mpc \in [Managers -> {"idle", "write", "cancel"}]
    /\ msub \in [Managers -> Subs \cup {NoSub}]
    /\ mto \in [Managers -> SubStatus]
    /\ posts \in [Deliveries -> Nat]
    /\ stopPosts \in [Deliveries -> Nat]

-----------------------------------------------------------------------------
\* The delivery a dispatcher is working on.
Mine(p) == <<sub[p], event[p]>>

Working(p) == pc[p] \in {"post", "record", "publish", "schedule", "requeue",
                         "give_up", "count", "disable"}

\* The subscription statuses that end the retries of a delivery.
Stopped(st) == st \in {"deleted", "paused"}

\* Mutant: the scheduler looks for deleted subscriptions only.
CancelsRetryDeletedOnly(st) == st = "deleted"

\* What the scheduler reads as a reason not to go on.
CancelsRetry(st) == st \in {"deleted", "paused"}

\* Mutant: one attempt more than allowed.
HasRetriesRemainingLate(n, max) == n <= max

HasRetriesRemaining(n, max) == n < max

ShouldAutoDisable(n) == n >= Threshold

\* Moves of the management API, as TRANSITIONS allows them.
CanTransition(from, to) ==
    \/ from = "active" /\ to \in {"paused", "disabled", "deleted"}
    \/ from = "paused" /\ to \in {"active", "deleted"}
    \/ from = "disabled" /\ to \in {"active", "deleted"}

\* A worker's call ends: control goes to q and its locals are gone.
Leave(p, q) ==
    /\ pc' = [pc EXCEPT ![p] = q]
    /\ attempt' = [attempt EXCEPT ![p] = 0]
    /\ outcome' = [outcome EXCEPT ![p] = "none"]

\* It goes on at q.
Go(p, q) == pc' = [pc EXCEPT ![p] = q] /\ UNCHANGED <<attempt, outcome>>

\* The ghost count starts again when a subscription stops being stopped.
Restart(s, to) ==
    stopPosts' = [d \in Deliveries |->
                    IF d[1] = s /\ ~Stopped(to) THEN 0 ELSE stopPosts[d]]

Init ==
    /\ status = [s \in Subs |-> "active"]
    /\ deleted = [s \in Subs |-> FALSE]
    /\ failures = [s \in Subs |-> 0]
    /\ dstatus = [d \in Deliveries |-> "none"]
    /\ attempts = [d \in Deliveries |-> 0]
    /\ pc = [p \in Dispatchers |-> "idle"]
    /\ event = [p \in Dispatchers |-> NoEvent]
    /\ todo = [p \in Dispatchers |-> {}]
    /\ sub = [p \in Dispatchers |-> NoSub]
    /\ attempt = [p \in Dispatchers |-> 0]
    /\ outcome = [p \in Dispatchers |-> "none"]
    /\ mpc = [m \in Managers |-> "idle"]
    /\ msub = [m \in Managers |-> NoSub]
    /\ mto = [m \in Managers |-> "active"]
    /\ posts = [d \in Deliveries |-> 0]
    /\ stopPosts = [d \in Deliveries |-> 0]

-----------------------------------------------------------------------------
(* The dispatcher.                                                         *)

\* webhook-dispatcher main up to its loop: the snapshot of the subscriptions.
Dispatch(p, e) ==
    /\ pc[p] = "idle"
    /\ pc' = [pc EXCEPT ![p] = "next"]
    /\ event' = [event EXCEPT ![p] = e]
    /\ todo' = [todo EXCEPT ![p] = {s \in Subs : status[s] = "active"
                                                 /\ ~deleted[s]}]
    /\ UNCHANGED <<subVars, rowVars, sub, attempt, outcome, mgrVars, ghostVars>>

\* The next subscription is skipped: the rate limit of the workspace is
\* exceeded, or the pair of subscription and event has a row already.
Skip(p, s) ==
    /\ pc[p] = "next"
    /\ s \in todo[p]
    /\ todo' = [todo EXCEPT ![p] = @ \ {s}]
    /\ UNCHANGED <<subVars, rowVars, pc, event, sub, attempt, outcome, mgrVars,
                   ghostVars>>

\* insertDelivery succeeds and the worker is invoked.
Insert(p, s) ==
    /\ pc[p] = "next"
    /\ s \in todo[p]
    /\ dstatus[<<s, event[p]>>] = "none"
    /\ dstatus' = [dstatus EXCEPT ![<<s, event[p]>>] = "pending"]
    /\ attempts' = [attempts EXCEPT ![<<s, event[p]>>] = 0]
    /\ todo' = [todo EXCEPT ![p] = @ \ {s}]
    /\ sub' = [sub EXCEPT ![p] = s]
    /\ pc' = [pc EXCEPT ![p] = "post"]
    /\ UNCHANGED <<subVars, event, attempt, outcome, mgrVars, ghostVars>>

Finish(p) ==
    /\ pc[p] = "next"
    /\ todo[p] = {}
    /\ pc' = [pc EXCEPT ![p] = "done"]
    /\ UNCHANGED <<subVars, rowVars, event, todo, sub, attempt, outcome, mgrVars,
                   ghostVars>>

\* An error outside the worker's try, or the end of the process: nothing
\* takes the dispatch up again.
Abort(p) ==
    /\ pc[p] \notin {"idle", "done", "aborted"}
    /\ Leave(p, "aborted")
    /\ todo' = [todo EXCEPT ![p] = {}]
    /\ UNCHANGED <<subVars, rowVars, event, sub, mgrVars, ghostVars>>

-----------------------------------------------------------------------------
(* The delivery worker.                                                    *)

\* resolveDeliveryTarget refuses the address: no request is sent.
Refuse(p) ==
    /\ pc[p] = "post"
    /\ attempt' = [attempt EXCEPT ![p] = attempts[Mine(p)] + 1]
    /\ outcome' = [outcome EXCEPT ![p] = "blocked"]
    /\ pc' = [pc EXCEPT ![p] = "record"]
    /\ UNCHANGED <<subVars, rowVars, event, todo, sub, mgrVars, ghostVars>>

\* The request: the row is read, whatever its status and the status of the
\* subscription are, and the event is posted.
Post(p, out) ==
    /\ pc[p] = "post"
    /\ attempt' = [attempt EXCEPT ![p] = attempts[Mine(p)] + 1]
    /\ outcome' = [outcome EXCEPT ![p] = out]
    /\ pc' = [pc EXCEPT ![p] = "record"]
    /\ posts' = [posts EXCEPT ![Mine(p)] = @ + 1]
    /\ stopPosts' = [stopPosts EXCEPT
                       ![Mine(p)] = IF Stopped(status[sub[p]]) THEN @ + 1 ELSE @]
    /\ UNCHANGED <<subVars, rowVars, event, todo, sub, mgrVars>>

\* The status an outcome leaves in the row.
RecordedStatus(out) ==
    CASE out = "succeeded" -> "succeeded"
      [] out \in {"failed", "timed_out"} -> "failed"
      [] out \in {"blocked", "redirect_blocked"} -> "permanently_failed"

\* insertAttempt and updateDelivery, in the try or in the catch.
Record(p) ==
    /\ pc[p] = "record"
    /\ dstatus' = [dstatus EXCEPT ![Mine(p)] = RecordedStatus(outcome[p])]
    /\ attempts' = [attempts EXCEPT ![Mine(p)] = attempt[p]]
    /\ IF outcome[p] \in {"blocked", "redirect_blocked"}
       THEN Leave(p, "next")
       ELSE Go(p, IF outcome[p] = "succeeded" THEN "publish" ELSE "schedule")
    /\ UNCHANGED <<subVars, event, todo, sub, mgrVars, ghostVars>>

\* Recording the outcome of a request fails inside the try: the catch treats
\* the attempt as timed out.  Outside the try an error is Abort.
RecordFails(p) ==
    /\ pc[p] = "record"
    /\ outcome[p] \in {"succeeded", "failed", "redirect_blocked"}
    /\ outcome' = [outcome EXCEPT ![p] = "timed_out"]
    /\ UNCHANGED <<subVars, rowVars, pc, event, todo, sub, attempt, mgrVars,
                   ghostVars>>

\* The success event is published.
Publish(p) ==
    /\ pc[p] = "publish"
    /\ Leave(p, "next")
    /\ UNCHANGED <<subVars, rowVars, event, todo, sub, mgrVars, ghostVars>>

\* Kafka refuses it inside the try: a delivery recorded as succeeded goes to
\* the catch and is recorded as failed.
PublishFails(p) ==
    /\ pc[p] = "publish"
    /\ pc' = [pc EXCEPT ![p] = "record"]
    /\ outcome' = [outcome EXCEPT ![p] = "timed_out"]
    /\ UNCHANGED <<subVars, rowVars, event, todo, sub, attempt, mgrVars,
                   ghostVars>>

-----------------------------------------------------------------------------
(* The retry scheduler.                                                    *)

\* Its reads and its decision.
Schedule(p) ==
    /\ pc[p] = "schedule"
    /\ IF CancelsRetry(status[sub[p]])
       THEN Leave(p, "next")
       ELSE Go(p, IF HasRetriesRemaining(attempt[p], MaxAttempts)
                  THEN "requeue" ELSE "give_up")
    /\ UNCHANGED <<subVars, rowVars, event, todo, sub, mgrVars, ghostVars>>

\* The row goes back to pending and the worker is invoked again.
Requeue(p) ==
    /\ pc[p] = "requeue"
    /\ dstatus' = [dstatus EXCEPT ![Mine(p)] = "pending"]
    /\ Leave(p, "post")
    /\ UNCHANGED <<subVars, attempts, event, todo, sub, mgrVars, ghostVars>>

\* Mutant: the row keeps the status of its last attempt.
GiveUpUnwritten(p) ==
    /\ pc[p] = "give_up"
    /\ Leave(p, "count")
    /\ UNCHANGED <<subVars, rowVars, event, todo, sub, mgrVars, ghostVars>>

\* No attempt is left.
GiveUp(p) ==
    /\ pc[p] = "give_up"
    /\ dstatus' = [dstatus EXCEPT ![Mine(p)] = "permanently_failed"]
    /\ Leave(p, "count")
    /\ UNCHANGED <<subVars, attempts, event, todo, sub, mgrVars, ghostVars>>

\* incrementSubscriptionFailures, which returns the row it updated.
Count(p) ==
    /\ pc[p] = "count"
    /\ failures' = [failures EXCEPT ![sub[p]] = @ + 1]
    /\ Leave(p, IF ShouldAutoDisable(failures[sub[p]] + 1) THEN "disable"
                                                          ELSE "next")
    /\ UNCHANGED <<status, deleted, rowVars, event, todo, sub, mgrVars,
                   ghostVars>>

\* The subscription is disabled, whatever its status is by now.
Disable(p) ==
    /\ pc[p] = "disable"
    /\ status' = [status EXCEPT ![sub[p]] = "disabled"]
    /\ Restart(sub[p], "disabled")
    /\ Leave(p, "next")
    /\ UNCHANGED <<deleted, failures, rowVars, event, todo, sub, mgrVars, posts>>

-----------------------------------------------------------------------------
(* The management handler.                                                 *)

\* requireSubscription, and the transition checked on the row it returned.
ReadSub(m, s, to) ==
    /\ mpc[m] = "idle"
    /\ to \in {"paused", "active", "deleted"}
    /\ ~deleted[s]
    /\ CanTransition(status[s], to)
    /\ mpc' = [mpc EXCEPT ![m] = "write"]
    /\ msub' = [msub EXCEPT ![m] = s]
    /\ mto' = [mto EXCEPT ![m] = to]
    /\ UNCHANGED <<subVars, rowVars, dispVars, ghostVars>>

\* The request is answered and its record forgotten.
EndRequest(m) ==
    /\ mpc' = [mpc EXCEPT ![m] = "idle"]
    /\ msub' = [msub EXCEPT ![m] = NoSub]
    /\ mto' = [mto EXCEPT ![m] = "active"]

\* replaceSubscription: status and deleted_at of the record read before.
WriteSub(m) ==
    /\ mpc[m] = "write"
    /\ status' = [status EXCEPT ![msub[m]] = mto[m]]
    /\ deleted' = [deleted EXCEPT ![msub[m]] = mto[m] = "deleted"]
    /\ Restart(msub[m], mto[m])
    /\ IF mto[m] = "deleted"
       THEN mpc' = [mpc EXCEPT ![m] = "cancel"] /\ UNCHANGED <<msub, mto>>
       ELSE EndRequest(m)
    /\ UNCHANGED <<failures, rowVars, dispVars, posts>>

\* Mutant: every delivery of the subscription is cancelled.
CancelAll(m) ==
    /\ mpc[m] = "cancel"
    /\ dstatus' = [d \in Deliveries |->
                     IF d[1] = msub[m] /\ dstatus[d] # "none"
                     THEN "cancelled" ELSE dstatus[d]]
    /\ EndRequest(m)
    /\ UNCHANGED <<subVars, attempts, dispVars, ghostVars>>

\* cancelPendingDeliveries.
CancelPending(m) ==
    /\ mpc[m] = "cancel"
    /\ dstatus' = [d \in Deliveries |->
                     IF d[1] = msub[m] /\ dstatus[d] = "pending"
                     THEN "cancelled" ELSE dstatus[d]]
    /\ EndRequest(m)
    /\ UNCHANGED <<subVars, attempts, dispVars, ghostVars>>

\* The request fails, or its process ends, before its next statement.
AbandonRequest(m) ==
    /\ mpc[m] # "idle"
    /\ EndRequest(m)
    /\ UNCHANGED <<subVars, rowVars, dispVars, ghostVars>>

-----------------------------------------------------------------------------
WorkerStep(p) ==
    \/ Refuse(p)
    \/ \E out \in Outcomes \ {"blocked"} : Post(p, out)
    \/ Record(p) \/ RecordFails(p) \/ Publish(p) \/ PublishFails(p)
    \/ Schedule(p) \/ Requeue(p) \/ GiveUp(p) \/ Count(p) \/ Disable(p)

LoopStep(p) ==
    \/ \E s \in Subs : Skip(p, s) \/ Insert(p, s)
    \/ Finish(p)

ManagerStep(m) ==
    \/ \E s \in Subs, to \in SubStatus : ReadSub(m, s, to)
    \/ WriteSub(m) \/ CancelPending(m) \/ AbandonRequest(m)

Next ==
    \/ \E p \in Dispatchers :
          \/ \E e \in Events : Dispatch(p, e)
          \/ LoopStep(p) \/ WorkerStep(p) \/ Abort(p)
    \/ \E m \in Managers : ManagerStep(m)

Spec == Init /\ [][Next]_vars

\* An awaited call of a dispatch that has begun returns or throws: the
\* request has a timeout and the rest are database and Kafka calls.  Events
\* and management requests need not come, and nobody is made to fail.
Fairness == \A p \in Dispatchers : WF_vars(LoopStep(p) \/ WorkerStep(p))

FairSpec == Spec /\ Fairness

-----------------------------------------------------------------------------
(* Properties.                                                             *)

\* The requests sent for one delivery never exceed its max_attempts, however
\* often the event is dispatched, and whichever call fails after a request:
\* the unique row, attempt_count and hasRetriesRemaining bound them together.
AttemptBudget == \A d \in Deliveries : posts[d] <= MaxAttempts

\* Pausing or deleting a subscription stops its deliveries: as long as it
\* stays paused or deleted, at most the one request of each delivery that was
\* already decided is sent.  The worker checks nothing; the check of the
\* scheduler between two attempts is what this rests on.
OneRequestAfterStop == \A d \in Deliveries : stopPosts[d] <= 1

\* A disabled subscription has at least Threshold deliveries that are
\* permanently failed: no failure is counted twice or for a delivery that has
\* another outcome, and no request of the management API disables.
DisabledByFailures ==
    \A s \in Subs :
        status[s] = "disabled" =>
            Cardinality({e \in Events :
                           dstatus[<<s, e>>] = "permanently_failed"}) >= Threshold

\* What isTerminal accepts.
Settled(d) == dstatus[d] \in {"succeeded", "permanently_failed", "cancelled"}

\* A delivery that is being worked on is settled in the end, unless its
\* subscription is stopped or its dispatch fails: the retries end, and no path
\* of the worker and the scheduler leaves the row behind.  (A row left behind
\* by a stop or a failure is never taken up again.)
DeliveriesSettle ==
    \A d \in Deliveries :
        (\E p \in Dispatchers : Working(p) /\ Mine(p) = d) ~>
            \/ Settled(d)
            \/ Stopped(status[d[1]])
            \/ \E p \in Dispatchers : pc[p] = "aborted" /\ Mine(p) = d

=============================================================================
