---------------------------- MODULE ChangeCapture ----------------------------
(***************************************************************************)
(* Change data capture of one document collection:                         *)
(* packages/mongo-cdc-bridge.                                              *)
(*                                                                         *)
(* PostgreSQL sends the changes of a replication slot in commit order, and *)
(* after a reconnection again from the position the slot has confirmed.    *)
(* WalReplicationClient hands them one at a time to ChangeStreamWatcher,   *)
(* which publishes the changes of its collection to Kafka, stores the      *)
(* resume token and acknowledges; the client confirms a COMMIT when all    *)
(* changes it emitted are acknowledged.  A failed publish halts the        *)
(* watcher.  ChangeStreamManager starts and stops the watcher as polls of  *)
(* mongo_capture_configs find it active or not.                            *)
(*                                                                         *)
(* A handler that awaits the catalog, Kafka or the database cannot be      *)
(* cancelled: it goes on after its connection is lost, next to the         *)
(* handlers of the new connection, and after its watcher is stopped.  The  *)
(* replication library, Kafka and PostgreSQL are external: no message      *)
(* reaches a handler from a connection that is lost or stopped, a handler  *)
(* that throws ends its connection, an acknowledgement may be lost with    *)
(* its connection, and a send that reports an error may have been done.    *)
(* The envelope, its size limit, the audit rows and the metrics are left   *)
(* out.                                                                    *)
(***************************************************************************)
EXTENDS Integers, Sequences, FiniteSets

CONSTANTS
    Wal,          \* the messages of the slot, in the order they are sent
    Streams,      \* connections whose handlers may still run
    NoStream,     \* not connected
    MaxDrops,     \* bound: connections lost
    MaxCrashes,   \* bound: restarts of the process
    MaxRequests   \* bound: enable and disable requests

\* mine: a change of the captured collection; other: of another tenant or
\* collection; opaque: one that is not decoded or whose collection is gone.
Kinds == {"mine", "other", "opaque", "commit"}

ASSUME WalAssumption == Wal \in Seq([kind : Kinds, lsn : Nat \ {0}])
ASSUME StreamsAssumption == IsFiniteSet(Streams) /\ NoStream \notin Streams
ASSUME BoundsAssumption ==
    MaxDrops \in Nat /\ MaxCrashes \in Nat /\ MaxRequests \in Nat

Positions == 1 .. Len(Wal)
Mine == {i \in Positions : Wal[i].kind = "mine"}
Changes == {i \in Positions : Wal[i].kind \in {"mine", "other"}}

VARIABLES
    status,      \* mongo_capture_configs.status
    flush,       \* confirmed_flush_lsn of the slot, as a position of Wal
    published,   \* positions of the changes that are in Kafka
    known,       \* the configuration is in the cache of the manager
    starting,    \* _startWatcher waits for ensureSlot
    watching,    \* its watcher is in manager.watchers
    running,     \* watcher.running
    stopped,     \* client._stopped
    confirmed,   \* client._confirmedChangeLsn, 0 when null
    last,        \* client._lastChangeLsn, 0 when null
    durable,     \* client._durableLsn as a position of Wal, 0 when null
    stray,       \* ghost: a handler of a lost connection has written `last'
    current,     \* the connection of the client
    pc,          \* what each connection's handler is doing
    pos,         \* the message it is at
    late,        \* connections whose watcher is stopped and forgotten
    errorUpdate, \* an UPDATE to 'errored' is under way
    drops, crashes, requests

storeVars == <<status, flush, published>>
watchVars == <<known, starting, watching, running>>
clientVars == <<stopped, confirmed, last, durable, stray>>
streamVars == <<current, pc, pos, late>>
countVars == <<drops, crashes, requests>>
vars == <<storeVars, watchVars, clientVars, streamVars, errorUpdate, countVars>>

InFlight == {s \in Streams : pc[s] \in {"resolve", "publish", "persist", "audit"}}

TypeOK ==
    /\ status \in {"active", "errored", "disabled"}
    /\ flush \in 0 .. Len(Wal) /\ durable \in 0 .. Len(Wal)
    /\ published \subseteq Mine
    /\ known \in BOOLEAN /\ starting \in BOOLEAN
    /\ watching \in BOOLEAN /\ running \in BOOLEAN
    /\ stopped \in BOOLEAN /\ stray \in BOOLEAN /\ errorUpdate \in BOOLEAN
    /\ confirmed \in Nat /\ last \in Nat
    /\ current \in Streams \cup {NoStream}
    /\ pc \in [Streams -> {"free", "read", "resolve", "publish", "persist", "audit"}]
    /\ pos \in [Streams -> 1 .. Len(Wal) + 1]
    /\ late \in SUBSET Streams
    /\ \A s \in Streams : pc[s] = "read" => s = current
    /\ late \subseteq InFlight
    /\ current # NoStream => watching /\ ~stopped
    /\ drops \in 0 .. MaxDrops /\ crashes \in 0 .. MaxCrashes
    /\ requests \in 0 .. MaxRequests

-----------------------------------------------------------------------------
Highest(m, n) == IF m > n THEN m ELSE n

\* The connections of S have no handler any more.
Release(S) ==
    /\ pc' = [s \in Streams |-> IF s \in S THEN "free" ELSE pc[s]]
    /\ pos' = [s \in Streams |-> IF s \in S THEN 1 ELSE pos[s]]

Reading == {s \in Streams : pc[s] = "read"}

\* A new WalReplicationClient.
NewClient(stop) ==
    /\ stopped' = stop
    /\ confirmed' = 0 /\ last' = 0 /\ durable' = 0 /\ stray' = FALSE

Init ==
    /\ status = "active" /\ flush = 0 /\ published = {}
    /\ known = TRUE /\ starting = FALSE /\ watching = TRUE /\ running = TRUE
    /\ stopped = FALSE /\ confirmed = 0 /\ last = 0 /\ durable = 0 /\ stray = FALSE
    /\ current = NoStream
    /\ pc = [s \in Streams |-> "free"]
    /\ pos = [s \in Streams |-> 1]
    /\ late = {}
    /\ errorUpdate = FALSE
    /\ drops = 0 /\ crashes = 0 /\ requests = 0

-----------------------------------------------------------------------------
(* WalReplicationClient                                                    *)

\* _runWithReconnect subscribes: the slot sends from its confirmed position.
Connect(s) ==
    /\ watching /\ ~stopped /\ current = NoStream /\ pc[s] = "free"
    /\ current' = s
    /\ pc' = [pc EXCEPT ![s] = "read"]
    /\ pos' = [pos EXCEPT ![s] = flush + 1]
    /\ UNCHANGED <<storeVars, watchVars, clientVars, late, errorUpdate, countVars>>

\* The connection is lost; a handler that is waiting goes on.
Drop ==
    /\ current # NoStream /\ drops < MaxDrops
    /\ drops' = drops + 1
    /\ current' = NoStream
    /\ Release(Reading)
    /\ UNCHANGED <<storeVars, watchVars, clientVars, late, errorUpdate, crashes,
                   requests>>

\* The next message is of kind k.
NextIs(s, k) ==
    /\ pc[s] = "read" /\ pos[s] <= Len(Wal)
    /\ Wal[pos[s]].kind = k

Advance(s) == pos' = [pos EXCEPT ![s] = @ + 1] /\ UNCHANGED <<current, pc, late>>

\* Mutant: every commit is confirmed.
AllAcknowledgedAlways == TRUE

\* The consumer has acknowledged every change it was given.
AllAcknowledged == confirmed # 0 /\ (last = 0 \/ confirmed >= last)

\* _onData, a commit: confirmed to the server if all changes are acknowledged.
OnCommit(s) ==
    /\ NextIs(s, "commit")
    /\ Advance(s)
    /\ IF AllAcknowledged
       THEN /\ durable' = pos[s]
            /\ flush' \in {flush, Highest(flush, pos[s])}
       ELSE UNCHANGED <<durable, flush>>
    /\ UNCHANGED <<status, published, watchVars, stopped, confirmed, last, stray,
                   errorUpdate, countVars>>

\* A heartbeat that wants a reply repeats the last confirmation.
OnHeartbeat ==
    /\ current # NoStream /\ durable > flush
    /\ flush' = durable
    /\ UNCHANGED <<status, published, watchVars, clientVars, streamVars,
                   errorUpdate, countVars>>

\* _onData, a message that yields no record.
OnOpaque(s) ==
    /\ NextIs(s, "opaque")
    /\ Advance(s)
    /\ UNCHANGED <<storeVars, watchVars, clientVars, errorUpdate, countVars>>

\* _onData, a change: its collection is looked up in the catalog.
OnChange(s) ==
    /\ NextIs(s, "mine") \/ NextIs(s, "other")
    /\ pc' = [pc EXCEPT ![s] = "resolve"]
    /\ UNCHANGED <<storeVars, watchVars, clientVars, current, pos, late,
                   errorUpdate, countVars>>

\* The handler returns: the connection, if it is still there, sends the next.
Return(s) ==
    /\ \/ /\ s = current
          /\ pc' = [pc EXCEPT ![s] = "read"]
          /\ pos' = [pos EXCEPT ![s] = @ + 1]
       \/ s # current /\ Release({s})
    /\ late' = late \ {s}
    /\ UNCHANGED current

\* The query fails: the handler throws, which ends its connection.
ResolveFails(s) ==
    /\ pc[s] = "resolve" /\ drops < MaxDrops
    /\ drops' = drops + 1
    /\ Release({s})
    /\ current' = IF s = current THEN NoStream ELSE current
    /\ late' = late \ {s}
    /\ UNCHANGED <<storeVars, watchVars, clientVars, errorUpdate, crashes, requests>>

\* The collection is known: _lastChangeLsn of the handler's client is written,
\* also when its connection was lost meanwhile.
Emit(s) ==
    IF s \in late
    THEN UNCHANGED <<last, stray>>
    ELSE last' = Wal[pos[s]].lsn /\ stray' = (stray \/ s # current)

\* Mutant: records of other collections are not acknowledged.
AcknowledgeOtherNever(s) == UNCHANGED confirmed

\* _handle of a record that does not match: acknowledged while running.
AcknowledgeOther(s) ==
    confirmed' = IF running /\ s \notin late THEN Highest(confirmed, Wal[pos[s]].lsn)
                                           ELSE confirmed

OnOther(s) ==
    /\ pc[s] = "resolve" /\ Wal[pos[s]].kind = "other"
    /\ Emit(s)
    /\ AcknowledgeOther(s)
    /\ Return(s)
    /\ UNCHANGED <<storeVars, watchVars, stopped, durable, errorUpdate, countVars>>

\* _handle of a matching record: published, or ignored by a halted watcher.
OnMine(s) ==
    /\ pc[s] = "resolve" /\ Wal[pos[s]].kind = "mine"
    /\ Emit(s)
    /\ IF running /\ s \notin late
       THEN pc' = [pc EXCEPT ![s] = "publish"] /\ UNCHANGED <<current, pos, late>>
       ELSE Return(s)
    /\ UNCHANGED <<storeVars, watchVars, stopped, confirmed, durable,
                   errorUpdate, countVars>>

-----------------------------------------------------------------------------
(* ChangeStreamWatcher._handle, one action per await                       *)

Published(s) ==
    /\ pc[s] = "publish"
    /\ published' = published \cup {pos[s]}
    /\ pc' = [pc EXCEPT ![s] = "persist"]
    /\ UNCHANGED <<status, flush, watchVars, clientVars, current, pos, late,
                   errorUpdate, countVars>>

\* The catch block halts the watcher of the handler.
StopRunning(s) == running' = (running /\ s \in late)

\* Mutant: a failed publish is logged and the next record is taken.
PublishFailsLogged(s) ==
    /\ pc[s] = "publish"
    /\ Return(s)
    /\ UNCHANGED <<storeVars, watchVars, clientVars, errorUpdate, countVars>>

\* The publish is refused (rate limit, broker) or its answer is lost.
PublishFails(s) ==
    /\ pc[s] = "publish"
    /\ published' \in {published, published \cup {pos[s]}}
    /\ StopRunning(s)
    /\ pc' = [pc EXCEPT ![s] = "audit"]
    /\ UNCHANGED <<status, flush, known, starting, watching, clientVars, current, pos,
                   late, errorUpdate, countVars>>

\* resumeTokenStore.upsert and walClient.acknowledge.
Persisted(s) ==
    /\ pc[s] = "persist"
    /\ confirmed' = IF s \in late THEN confirmed
                    ELSE Highest(confirmed, Wal[pos[s]].lsn)
    /\ Return(s)
    /\ UNCHANGED <<storeVars, watchVars, stopped, last, durable, stray, errorUpdate,
                   countVars>>

PersistFails(s) ==
    /\ pc[s] = "persist"
    /\ StopRunning(s)
    /\ pc' = [pc EXCEPT ![s] = "audit"]
    /\ UNCHANGED <<storeVars, known, starting, watching, clientVars, current, pos, late,
                   errorUpdate, countVars>>

\* The audit row is written or not; the status update is sent and not
\* awaited, and the client of the handler is stopped.
Halt(s) ==
    /\ pc[s] = "audit"
    /\ errorUpdate' = TRUE
    /\ \/ s \in late /\ Release({s}) /\ UNCHANGED <<stopped, current>>
       \/ s \notin late /\ Release({s} \cup Reading)
          /\ stopped' = TRUE /\ current' = NoStream
    /\ late' = late \ {s}
    /\ UNCHANGED <<storeVars, watchVars, confirmed, last, durable, stray, countVars>>

\* The status update lands, whatever the status is by then, or fails.
SetErrored ==
    /\ errorUpdate
    /\ errorUpdate' = FALSE
    /\ status' \in {"errored", status}
    /\ UNCHANGED <<flush, published, watchVars, clientVars, streamVars, countVars>>

-----------------------------------------------------------------------------
(* MongoCaptureConfigCache.load and ChangeStreamManager                    *)

\* 'added': a watcher is started unless there is one.  The start of an earlier
\* 'added' is over by then: polls are half a minute apart.
PollAdds ==
    /\ status = "active" /\ ~known /\ ~starting
    /\ known' = TRUE
    /\ starting' = ~watching
    /\ UNCHANGED <<storeVars, watching, running, clientVars, streamVars, errorUpdate,
                   countVars>>

\* _startWatcher after ensureSlot, whatever the polls have found meanwhile; when
\* ensureSlot fails the configuration stays without a watcher.
StartWatcher ==
    /\ starting
    /\ starting' = FALSE
    /\ \/ watching' = TRUE /\ running' = TRUE /\ NewClient(FALSE)
       \/ UNCHANGED <<watching, running, clientVars>>
    /\ UNCHANGED <<storeVars, known, streamVars, errorUpdate, countVars>>

\* 'removed': the watcher, if there is one already, is stopped and forgotten; its
\* handlers go on.
PollRemoves ==
    /\ status # "active" /\ known
    /\ known' = FALSE /\ watching' = FALSE /\ running' = FALSE
    /\ NewClient(TRUE)
    /\ current' = NoStream
    /\ late' = late \cup InFlight
    /\ Release(Reading)
    /\ UNCHANGED <<storeVars, starting, errorUpdate, countVars>>

\* The process dies and starts again: ChangeStreamManager.start, which polls
\* only when its watchers are started.
CrashRestart ==
    /\ crashes < MaxCrashes
    /\ crashes' = crashes + 1
    /\ LET active == status = "active"
       IN  known' = active /\ watching' = active /\ running' = active
    /\ starting' = FALSE
    /\ NewClient(status # "active")
    /\ current' = NoStream
    /\ Release(Streams)
    /\ late' = {}
    /\ errorUpdate' = FALSE
    /\ UNCHANGED <<storeVars, drops, requests>>

-----------------------------------------------------------------------------
(* The capture API: mongo-capture-enable and mongo-capture-disable         *)

Request(st) ==
    /\ requests < MaxRequests
    /\ requests' = requests + 1
    /\ status' = st
    /\ UNCHANGED <<flush, published, watchVars, clientVars, streamVars,
                   errorUpdate, drops, crashes>>

Enable == status # "active" /\ Request("active")
Disable == status # "disabled" /\ Request("disabled")

-----------------------------------------------------------------------------
Handle(s) ==
    \/ OnCommit(s) \/ OnOpaque(s) \/ OnChange(s)
    \/ OnOther(s) \/ OnMine(s) \/ ResolveFails(s)
    \/ Published(s) \/ PublishFails(s) \/ Persisted(s) \/ PersistFails(s)
    \/ Halt(s)

Next ==
    \/ \E s \in Streams : Connect(s) \/ Handle(s)
    \/ Drop \/ OnHeartbeat \/ SetErrored
    \/ PollAdds \/ StartWatcher \/ PollRemoves \/ CrashRestart
    \/ Enable \/ Disable

Spec == Init /\ [][Next]_vars

\* A promise settles, the server sends what it has and asks for replies, and
\* the client's loop subscribes again.
FairSpec ==
    /\ Spec
    /\ \A s \in Streams : WF_vars(Handle(s))
    /\ WF_vars(\E s \in Streams : Connect(s))
    /\ WF_vars(OnHeartbeat)

-----------------------------------------------------------------------------
(* Properties.                                                             *)

\* ChangeStreamWatcher.mjs:6-7 says that "the slot never advances past an
\* unpublished change (no gaps)".  False of the code (ChangeCapture_gap.cfg).
NoGap == \A i \in Mine : i <= flush => i \in published

\* A change before position i has a greater LSN than a change after it: their
\* transactions overlapped, and the one that wrote first committed last.
Overlap(i) ==
    \E k, m \in Changes : k < i /\ k < m /\ Wal[k].lsn >= Wal[m].lsn

\* What is true of the gaps, for every log: the slot passes an unpublished
\* change only when its watcher has halted and its client is not yet stopped,
\* and only if transactions overlapped or a handler that outlived its
\* connection has set _lastChangeLsn back (WalReplicationClient.mjs:147, 175).
\* Crashes, reconnections, lost acknowledgements and failed publishes alone
\* lose nothing.
GapsExplained ==
    [][\A i \in Mine : flush < i /\ i <= flush' /\ i \notin published =>
          ~running /\ (stray \/ Overlap(i))]_vars

\* Beyond the confirmed position changes are in Kafka in the order of their
\* commits, without a hole, whatever handlers of older connections and stopped
\* watchers still run.
InOrderAfterCursor ==
    \A i, j \in Mine : flush < i /\ i < j /\ j \in published => i \in published

\* A watcher that is not halted or stopped confirms the whole log, so that
\* the changes of other tenants and tables never pin the WAL.  The log ends
\* with a change that is acknowledged: a client that has seen only messages
\* without a record confirms nothing (WalReplicationClient.mjs:147).
CursorCatchesUp == running ~> (flush = Len(Wal) \/ ~running)

\* A watcher belongs to a known configuration.  False of the code: a 'removed'
\* while ensureSlot is awaited finds nothing to stop (ChangeCapture_orphan.cfg).
WatchedIsKnown == watching => known
=============================================================================
