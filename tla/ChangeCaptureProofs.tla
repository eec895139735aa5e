------------------------- MODULE ChangeCaptureProofs -------------------------
(***************************************************************************)
(* Proofs about ChangeCapture for any log, any number of connections,      *)
(* drops, restarts and requests: types, the order in Kafka beyond the      *)
(* confirmed position, and what alone can make a gap.                      *)
(***************************************************************************)
EXTENDS ChangeCapture, SequenceTheorems, TLAPS

\* The changes beyond the confirmed position that are not in Kafka.
Missing == {i \in Mine : flush < i /\ i \notin published}

\* Nothing is missing before position n.
DoneBefore(n) == \A i \in Missing : n <= i

\* The connection of the client is not one of a forgotten watcher; without a
\* watcher every handler belongs to a forgotten one; handlers are at changes,
\* and beyond the catalog at changes of their collection.
WatchInv ==
    /\ current \notin late
    /\ starting => ~watching
    /\ ~watching => \A s \in Streams : pc[s] # "free" => s \in late
    /\ \A s \in InFlight :
          pos[s] \in Changes /\ (pc[s] # "resolve" => pos[s] \in Mine)

\* A handler that has a change to publish leaves nothing missing behind it,
\* whether its connection or its watcher is still there or not; before that, and
\* while messages are read, this is so as long as the watcher runs.
HandlerInv ==
    \A s \in Streams :
        /\ pc[s] \in {"publish", "persist", "audit"} => DoneBefore(pos[s])
        /\ pc[s] = "persist" => pos[s] \in published
        /\ running /\ pc[s] \in {"read", "resolve"} /\ s \notin late => DoneBefore(pos[s])

\* A running watcher has confirmed nothing that is missing.
RunningInv == running => DoneBefore(durable + 1)

\* Nor has a halted one, unless transactions overlapped or a stray handler has
\* set the client back: a change from the missing one on is the last emitted,
\* and none from there on is acknowledged.
HeldInv ==
    \A i \in Missing : ~stray /\ ~Overlap(i) =>
        /\ \A m \in Changes : i <= m => confirmed < Wal[m].lsn
        /\ \A s \in Streams : s = current /\ i < pos[s] =>
              \E m \in Changes : i <= m /\ last = Wal[m].lsn
        /\ durable < i

IInv ==
    /\ TypeOK /\ WatchInv /\ HandlerInv /\ RunningInv /\ HeldInv
    /\ InOrderAfterCursor
-----------------------------------------------------------------------------
(* Types.                                                                  *)

\* The log as the proofs need it: no fact about sequences is used below.
LEMMA WalFacts ==
    /\ Len(Wal) \in Nat
    /\ \A i \in Positions : Wal[i].lsn \in Nat \ {0} /\ Wal[i].kind \in Kinds
    /\ Mine \subseteq Changes /\ Changes \subseteq Positions
    /\ Positions = 1 .. Len(Wal)
<1>1. Len(Wal) \in Nat
  BY WalAssumption
<1>2. \A i \in 1 .. Len(Wal) : Wal[i] \in [kind : Kinds, lsn : Nat \ {0}]
  BY WalAssumption, ElementOfSeq
<1> QED BY <1>1, <1>2 DEF Positions, Mine, Changes

\* What a release leaves.
LEMMA ReleaseFacts ==
  ASSUME TypeOK, NEW S, Release(S)
  PROVE  /\ pc' \in [Streams -> {"free", "read", "resolve", "publish", "persist", "audit"}]
         /\ pos' \in [Streams -> 1 .. Len(Wal) + 1]
         /\ \A t \in Streams : t \in S => pc'[t] = "free"
         /\ \A t \in Streams : t \notin S => pc'[t] = pc[t] /\ pos'[t] = pos[t]
         /\ InFlight' = InFlight \ S
  BY WalFacts DEF TypeOK, Release, InFlight

\* What the return of a handler leaves.
LEMMA ReturnFacts ==
  ASSUME TypeOK, NEW s \in Streams, pos[s] \in Positions, Return(s)
  PROVE  /\ pc' \in [Streams -> {"free", "read", "resolve", "publish", "persist", "audit"}]
         /\ pos' \in [Streams -> 1 .. Len(Wal) + 1]
         /\ s = current => pc'[s] = "read" /\ pos'[s] = pos[s] + 1
         /\ s # current => pc'[s] = "free"
         /\ \A t \in Streams : t # s => pc'[t] = pc[t] /\ pos'[t] = pos[t]
         /\ InFlight' = InFlight \ {s}
         /\ late' = late \ {s} /\ current' = current
<1>1. late' = late \ {s} /\ current' = current
  BY DEF Return
<1>2. CASE s = current
  <2>1. /\ pc' = [pc EXCEPT ![s] = "read"]
        /\ pos' = [pos EXCEPT ![s] = @ + 1]
    BY <1>2 DEF Return
  <2> QED BY <1>1, <1>2, <2>1, WalFacts DEF TypeOK, InFlight
<1>3. CASE s # current
  <2>1. Release({s})
    BY <1>3 DEF Return
  <2> QED BY <1>1, <1>3, <2>1, ReleaseFacts
<1> QED BY <1>2, <1>3

\* Types are kept by every step of the client, the watcher and the server.
LEMMA TypeStep ==
  ASSUME TypeOK, WatchInv, [Next]_vars
  PROVE  TypeOK'
<1> USE WalFacts, BoundsAssumption, StreamsAssumption
    DEF TypeOK, WatchInv, InFlight, storeVars, watchVars, clientVars, streamVars, countVars
<1>1. ASSUME NEW s \in Streams, Connect(s)
      PROVE  TypeOK'
  BY <1>1 DEF Connect
<1>2. CASE Drop
  BY <1>2 DEF Drop, Release, Reading
<1>3. CASE OnHeartbeat
  BY <1>3 DEF OnHeartbeat
<1>4. CASE SetErrored
  BY <1>4 DEF SetErrored
<1>5. CASE PollAdds
  BY <1>5 DEF PollAdds
<1>6. CASE StartWatcher
  <2>1. /\ UNCHANGED <<storeVars, known, streamVars, errorUpdate, countVars>>
        /\ starting' = FALSE /\ current = NoStream
    BY <1>6 DEF StartWatcher
  <2>2. CASE watching' = TRUE /\ running' = TRUE /\ NewClient(FALSE)
    <3>1. durable' \in 0 .. Len(Wal) /\ confirmed' \in Nat /\ last' \in Nat
      BY <2>2 DEF NewClient
    <3> QED BY <2>1, <2>2, <3>1 DEF NewClient
  <2>3. CASE UNCHANGED <<watching, running, clientVars>>
    BY <2>1, <2>3
  <2> QED BY <1>6, <2>2, <2>3 DEF StartWatcher
<1>7. CASE PollRemoves
  <2>1. /\ UNCHANGED <<storeVars, starting, errorUpdate, countVars>>
        /\ current' = NoStream /\ late' = late \cup InFlight
        /\ known' = FALSE /\ watching' = FALSE /\ running' = FALSE /\ stopped' = TRUE
        /\ confirmed' = 0 /\ last' = 0 /\ durable' = 0 /\ stray' = FALSE
        /\ Release(Reading)
    BY <1>7 DEF PollRemoves, NewClient
  <2> HIDE DEF TypeOK, WatchInv, InFlight
  <2>2. /\ pc' \in [Streams -> {"free", "read", "resolve", "publish", "persist", "audit"}]
        /\ pos' \in [Streams -> 1 .. Len(Wal) + 1]
        /\ \A t \in Streams : t \in Reading => pc'[t] = "free"
        /\ \A t \in Streams : t \notin Reading => pc'[t] = pc[t]
        /\ InFlight' = InFlight \ Reading
    BY <2>1, ReleaseFacts
  <2>3. \A t \in Streams : pc'[t] # "read"
    BY <2>2 DEF Reading
  <2>4. InFlight' = InFlight /\ InFlight \subseteq Streams
    BY <2>2 DEF Reading, InFlight
  <2>5. late' \in SUBSET Streams /\ late' \subseteq InFlight'
    BY <2>1, <2>4 DEF TypeOK
  <2>6. UNCHANGED <<status, flush, published, starting, errorUpdate, drops, crashes,
                    requests>>
    BY <2>1
  <2>7. durable' \in 0 .. Len(Wal) /\ confirmed' \in Nat /\ last' \in Nat
    BY <2>1
  <2> QED BY <2>1, <2>2, <2>3, <2>5, <2>6, <2>7 DEF TypeOK
<1>8. CASE CrashRestart
  <2>1. /\ UNCHANGED <<storeVars, drops, requests>> /\ current' = NoStream /\ late' = {}
        /\ crashes' \in 0 .. MaxCrashes /\ errorUpdate' = FALSE /\ starting' = FALSE
        /\ confirmed' = 0 /\ last' = 0 /\ durable' = 0 /\ stray' = FALSE
        /\ Release(Streams)
    BY <1>8 DEF CrashRestart, NewClient
  <2>2. known' \in BOOLEAN /\ watching' \in BOOLEAN /\ running' \in BOOLEAN
    BY <1>8, Zenon DEF CrashRestart
  <2>3. stopped' \in BOOLEAN
    BY <1>8, Zenon DEF CrashRestart, NewClient
  <2>4. /\ pc' \in [Streams -> {"free", "read", "resolve", "publish", "persist", "audit"}]
        /\ pos' \in [Streams -> 1 .. Len(Wal) + 1]
        /\ \A t \in Streams : pc'[t] = "free"
    BY <2>1, ReleaseFacts
  <2> HIDE DEF InFlight
  <2>5. UNCHANGED <<status, flush, published, drops, requests>>
    BY <2>1
  <2>6. durable' \in 0 .. Len(Wal) /\ confirmed' \in Nat /\ last' \in Nat
    BY <2>1
  <2> QED BY <2>1, <2>2, <2>3, <2>4, <2>5, <2>6
<1>9. CASE Enable
  BY <1>9 DEF Enable, Request
<1>10. CASE Disable
  BY <1>10 DEF Disable, Request
<1>11. ASSUME NEW s \in Streams, OnCommit(s)
      PROVE  TypeOK'
  BY <1>11 DEF OnCommit, NextIs, Advance, Highest
<1>12. ASSUME NEW s \in Streams, OnOpaque(s)
      PROVE  TypeOK'
  BY <1>12 DEF OnOpaque, NextIs, Advance
<1>13. ASSUME NEW s \in Streams, OnChange(s)
      PROVE  TypeOK'
  BY <1>13 DEF OnChange, NextIs
<1>14. ASSUME NEW s \in Streams, OnOther(s)
      PROVE  TypeOK'
  <2>1. pos[s] \in Positions /\ Return(s)
        /\ UNCHANGED <<storeVars, watchVars, stopped, durable, errorUpdate, countVars>>
    BY <1>14 DEF OnOther
  <2>2. confirmed' \in Nat /\ last' \in Nat /\ stray' \in BOOLEAN
    BY <1>14, <2>1 DEF OnOther, Emit, AcknowledgeOther, Highest
  <2> HIDE DEF TypeOK, WatchInv, InFlight
  <2>3. /\ pc' \in [Streams -> {"free", "read", "resolve", "publish", "persist", "audit"}]
        /\ pos' \in [Streams -> 1 .. Len(Wal) + 1]
        /\ pc'[s] = "read" => s = current
        /\ \A t \in Streams : t # s => pc'[t] = pc[t]
        /\ UNCHANGED current /\ late' = late \ {s}
        /\ InFlight' = InFlight \ {s}
    BY <2>1, ReturnFacts
  <2>4. late' \subseteq InFlight'
    BY <2>3 DEF TypeOK
  <2> QED BY <2>1, <2>2, <2>3, <2>4 DEF TypeOK, storeVars, watchVars, countVars
<1>15. ASSUME NEW s \in Streams, OnMine(s)
      PROVE  TypeOK'
  <2>1. /\ pos[s] \in Positions /\ s \in InFlight
        /\ UNCHANGED <<storeVars, watchVars, stopped, confirmed, durable, errorUpdate,
                       countVars>>
    BY <1>15 DEF OnMine
  <2>2. last' \in Nat /\ stray' \in BOOLEAN
    BY <1>15, <2>1 DEF OnMine, Emit
  <2>3. CASE pc' = [pc EXCEPT ![s] = "publish"] /\ UNCHANGED <<current, pos, late>>
    BY <2>1, <2>2, <2>3
  <2>4. CASE Return(s)
    <3> HIDE DEF TypeOK, WatchInv, InFlight
    <3>1. /\ pc' \in [Streams -> {"free", "read", "resolve", "publish", "persist", "audit"}]
          /\ pos' \in [Streams -> 1 .. Len(Wal) + 1]
          /\ pc'[s] = "read" => s = current
          /\ \A t \in Streams : t # s => pc'[t] = pc[t]
          /\ UNCHANGED current /\ late' = late \ {s}
          /\ InFlight' = InFlight \ {s}
      BY <2>1, <2>4, ReturnFacts
    <3>2. late' \subseteq InFlight'
      BY <3>1 DEF TypeOK
    <3> QED BY <2>1, <2>2, <3>1, <3>2 DEF TypeOK, storeVars, watchVars, countVars
  <2> QED BY <1>15, <2>3, <2>4 DEF OnMine
<1>16. ASSUME NEW s \in Streams, ResolveFails(s)
      PROVE  TypeOK'
  BY <1>16 DEF ResolveFails, Release
<1>17. ASSUME NEW s \in Streams, Published(s)
      PROVE  TypeOK'
  BY <1>17 DEF Published
<1>18. ASSUME NEW s \in Streams, PublishFails(s)
      PROVE  TypeOK'
  BY <1>18 DEF PublishFails, StopRunning
<1>19. ASSUME NEW s \in Streams, Persisted(s)
      PROVE  TypeOK'
  <2>1. pos[s] \in Positions /\ Return(s)
        /\ UNCHANGED <<storeVars, watchVars, stopped, durable, errorUpdate, countVars>>
    BY <1>19 DEF Persisted
  <2>2. confirmed' \in Nat /\ last' \in Nat /\ stray' \in BOOLEAN
    BY <1>19, <2>1 DEF Persisted, Highest
  <2> HIDE DEF TypeOK, WatchInv, InFlight
  <2>3. /\ pc' \in [Streams -> {"free", "read", "resolve", "publish", "persist", "audit"}]
        /\ pos' \in [Streams -> 1 .. Len(Wal) + 1]
        /\ pc'[s] = "read" => s = current
        /\ \A t \in Streams : t # s => pc'[t] = pc[t]
        /\ UNCHANGED current /\ late' = late \ {s}
        /\ InFlight' = InFlight \ {s}
    BY <2>1, ReturnFacts
  <2>4. late' \subseteq InFlight'
    BY <2>3 DEF TypeOK
  <2> QED BY <2>1, <2>2, <2>3, <2>4 DEF TypeOK, storeVars, watchVars, countVars
<1>20. ASSUME NEW s \in Streams, PersistFails(s)
      PROVE  TypeOK'
  BY <1>20 DEF PersistFails, StopRunning
<1>21. ASSUME NEW s \in Streams, Halt(s)
      PROVE  TypeOK'
  <2>1. /\ UNCHANGED <<storeVars, watchVars, confirmed, last, durable, stray, countVars>>
        /\ errorUpdate' = TRUE /\ late' = late \ {s} /\ stopped' \in BOOLEAN
    BY <1>21 DEF Halt
  <2>2. PICK S : /\ Release(S) /\ s \in S /\ S \subseteq {s} \cup Reading
                 /\ \/ UNCHANGED <<stopped, current>>
                    \/ current' = NoStream /\ Reading \subseteq S
    <3>1. CASE s \in late
      BY <1>21, <3>1 DEF Halt
    <3>2. CASE s \notin late
      BY <1>21, <3>2 DEF Halt
    <3> QED BY <3>1, <3>2
  <2>3. /\ pc' \in [Streams -> {"free", "read", "resolve", "publish", "persist", "audit"}]
        /\ pos' \in [Streams -> 1 .. Len(Wal) + 1]
        /\ \A t \in Streams : pc'[t] = "read" => pc[t] = "read" /\ t \notin S
        /\ InFlight' = InFlight \ S
    BY <2>2, ReleaseFacts
  <2>4. late' \subseteq InFlight'
    BY <2>1, <2>2, <2>3 DEF Reading
  <2>5. /\ current' \in Streams \cup {NoStream}
        /\ \A t \in Streams : pc'[t] = "read" => t = current'
        /\ current' # NoStream => watching' /\ ~stopped'
    BY <2>1, <2>2, <2>3 DEF Reading
  <2> QED BY <2>1, <2>3, <2>4, <2>5
<1>22. CASE UNCHANGED vars
  BY <1>22 DEF vars
<1> HIDE DEF TypeOK, WatchInv
<1> QED
  BY <1>1, <1>2, <1>3, <1>4, <1>5, <1>6, <1>7, <1>8, <1>9, <1>10, <1>11,
     <1>12, <1>13, <1>14, <1>15, <1>16, <1>17, <1>18, <1>19, <1>20, <1>21,
     <1>22 DEF Next, Handle

\* A forgotten watcher stays without a connection, and handlers keep to changes
\* of their collection.
LEMMA WatchStep ==
  ASSUME TypeOK, WatchInv, [Next]_vars
  PROVE  WatchInv'
<1> USE WalFacts, StreamsAssumption DEF TypeOK, WatchInv, InFlight, storeVars,
        watchVars, clientVars, streamVars, countVars
<1>1. ASSUME NEW s \in Streams, Connect(s)
      PROVE  WatchInv'
  BY <1>1 DEF Connect
<1>2. CASE Drop
  BY <1>2 DEF Drop, Release, Reading
<1>3. CASE OnHeartbeat
  BY <1>3 DEF OnHeartbeat
<1>4. CASE SetErrored
  BY <1>4 DEF SetErrored
<1>5. CASE PollAdds
  BY <1>5 DEF PollAdds
<1>6. CASE StartWatcher
  BY <1>6 DEF StartWatcher, NewClient
<1>7. CASE PollRemoves
  BY <1>7 DEF PollRemoves, NewClient, Release, Reading
<1>8. CASE CrashRestart
  BY <1>8 DEF CrashRestart, NewClient, Release
<1>9. CASE Enable
  BY <1>9 DEF Enable, Request
<1>10. CASE Disable
  BY <1>10 DEF Disable, Request
<1>11. ASSUME NEW s \in Streams, OnCommit(s)
      PROVE  WatchInv'
  BY <1>11 DEF OnCommit, NextIs, Advance, Highest
<1>12. ASSUME NEW s \in Streams, OnOpaque(s)
      PROVE  WatchInv'
  BY <1>12 DEF OnOpaque, NextIs, Advance
<1>13. ASSUME NEW s \in Streams, OnChange(s)
      PROVE  WatchInv'
  <2>1. /\ pos[s] \in Changes /\ pc[s] = "read" /\ pc' = [pc EXCEPT ![s] = "resolve"]
        /\ UNCHANGED <<watchVars, current, pos, late>>
    BY <1>13 DEF OnChange, NextIs, Changes, Positions
  <2>2. current \in Streams
    BY <2>1
  <2> QED BY <2>1, <2>2
<1>14. ASSUME NEW s \in Streams, OnOther(s)
      PROVE  WatchInv'
  BY <1>14 DEF OnOther, Emit, AcknowledgeOther, Highest, Return, Release
<1>15. ASSUME NEW s \in Streams, OnMine(s)
      PROVE  WatchInv'
  <2>1. /\ pc[s] = "resolve" /\ pos[s] \in Changes /\ Wal[pos[s]].kind = "mine"
        /\ UNCHANGED watchVars
    BY <1>15 DEF OnMine
  <2>2. pos[s] \in Mine
    BY <2>1 DEF Mine, Changes
  <2>3. CASE running /\ s \notin late
    <3>1. pc' = [pc EXCEPT ![s] = "publish"] /\ UNCHANGED <<current, pos, late>>
      BY <1>15, <2>3 DEF OnMine
    <3> QED BY <2>1, <2>2, <3>1
  <2>4. CASE ~(running /\ s \notin late)
    <3>1. Return(s)
      BY <1>15, <2>4 DEF OnMine
    <3>2. /\ s # current => pc'[s] = "free"
          /\ \A t \in Streams : t # s => pc'[t] = pc[t] /\ pos'[t] = pos[t]
          /\ InFlight' = InFlight \ {s}
          /\ late' = late \ {s} /\ current' = current
      BY <2>1, <3>1, ReturnFacts
    <3>3. ~watching => current = NoStream /\ s # current
      OBVIOUS
    <3> QED BY <2>1, <3>2, <3>3
  <2> QED BY <2>3, <2>4
<1>16. ASSUME NEW s \in Streams, ResolveFails(s)
      PROVE  WatchInv'
  BY <1>16 DEF ResolveFails, Release
<1>17. ASSUME NEW s \in Streams, Published(s)
      PROVE  WatchInv'
  BY <1>17 DEF Published
<1>18. ASSUME NEW s \in Streams, PublishFails(s)
      PROVE  WatchInv'
  BY <1>18 DEF PublishFails, StopRunning
<1>19. ASSUME NEW s \in Streams, Persisted(s)
      PROVE  WatchInv'
  BY <1>19 DEF Persisted, Return, Release, Highest
<1>20. ASSUME NEW s \in Streams, PersistFails(s)
      PROVE  WatchInv'
  BY <1>20 DEF PersistFails, StopRunning
<1>21. ASSUME NEW s \in Streams, Halt(s)
      PROVE  WatchInv'
  BY <1>21 DEF Halt, Release, Reading
<1>22. CASE UNCHANGED vars
  BY <1>22 DEF vars
<1> HIDE DEF TypeOK, WatchInv
<1> QED
  BY <1>1, <1>2, <1>3, <1>4, <1>5, <1>6, <1>7, <1>8, <1>9, <1>10, <1>11,
     <1>12, <1>13, <1>14, <1>15, <1>16, <1>17, <1>18, <1>19, <1>20, <1>21,
     <1>22 DEF Next, Handle
-----------------------------------------------------------------------------
(* What is missing.                                                        *)

\* Nothing leaves Kafka and the slot does not go back.
LEMMA Monotone ==
  ASSUME TypeOK, [Next]_vars
  PROVE  published \subseteq published' /\ flush' \in Nat /\ flush <= flush'
<1> USE WalFacts DEF TypeOK, storeVars, watchVars, clientVars, streamVars, countVars
<1>1. ASSUME NEW s \in Streams, Connect(s)
      PROVE  published \subseteq published' /\ flush' \in Nat /\ flush <= flush'
  BY <1>1 DEF Connect
<1>2. CASE Drop
  BY <1>2 DEF Drop, Release, Reading
<1>3. CASE OnHeartbeat
  BY <1>3 DEF OnHeartbeat
<1>4. CASE SetErrored
  BY <1>4 DEF SetErrored
<1>5. CASE PollAdds
  BY <1>5 DEF PollAdds
<1>6. CASE StartWatcher
  BY <1>6 DEF StartWatcher, NewClient
<1>7. CASE PollRemoves
  BY <1>7 DEF PollRemoves, NewClient, Release, Reading
<1>8. CASE CrashRestart
  BY <1>8 DEF CrashRestart, NewClient, Release
<1>9. CASE Enable
  BY <1>9 DEF Enable, Request
<1>10. CASE Disable
  BY <1>10 DEF Disable, Request
<1>11. ASSUME NEW s \in Streams, OnCommit(s)
      PROVE  published \subseteq published' /\ flush' \in Nat /\ flush <= flush'
  BY <1>11 DEF OnCommit, NextIs, Advance, Highest
<1>12. ASSUME NEW s \in Streams, OnOpaque(s)
      PROVE  published \subseteq published' /\ flush' \in Nat /\ flush <= flush'
  BY <1>12 DEF OnOpaque, NextIs, Advance
<1>13. ASSUME NEW s \in Streams, OnChange(s)
      PROVE  published \subseteq published' /\ flush' \in Nat /\ flush <= flush'
  BY <1>13 DEF OnChange, NextIs
<1>14. ASSUME NEW s \in Streams, OnOther(s)
      PROVE  published \subseteq published' /\ flush' \in Nat /\ flush <= flush'
  BY <1>14 DEF OnOther, Emit, AcknowledgeOther, Highest, Return, Release
<1>15. ASSUME NEW s \in Streams, OnMine(s)
      PROVE  published \subseteq published' /\ flush' \in Nat /\ flush <= flush'
  BY <1>15 DEF OnMine, Emit, Return, Release
<1>16. ASSUME NEW s \in Streams, ResolveFails(s)
      PROVE  published \subseteq published' /\ flush' \in Nat /\ flush <= flush'
  BY <1>16 DEF ResolveFails, Release
<1>17. ASSUME NEW s \in Streams, Published(s)
      PROVE  published \subseteq published' /\ flush' \in Nat /\ flush <= flush'
  BY <1>17 DEF Published
<1>18. ASSUME NEW s \in Streams, PublishFails(s)
      PROVE  published \subseteq published' /\ flush' \in Nat /\ flush <= flush'
  BY <1>18 DEF PublishFails, StopRunning
<1>19. ASSUME NEW s \in Streams, Persisted(s)
      PROVE  published \subseteq published' /\ flush' \in Nat /\ flush <= flush'
  BY <1>19 DEF Persisted, Return, Release, Highest
<1>20. ASSUME NEW s \in Streams, PersistFails(s)
      PROVE  published \subseteq published' /\ flush' \in Nat /\ flush <= flush'
  BY <1>20 DEF PersistFails, StopRunning
<1>21. ASSUME NEW s \in Streams, Halt(s)
      PROVE  published \subseteq published' /\ flush' \in Nat /\ flush <= flush'
  BY <1>21 DEF Halt, Release, Reading
<1>22. CASE UNCHANGED vars
  BY <1>22 DEF vars
<1> HIDE DEF TypeOK
<1> QED
  BY <1>1, <1>2, <1>3, <1>4, <1>5, <1>6, <1>7, <1>8, <1>9, <1>10, <1>11,
     <1>12, <1>13, <1>14, <1>15, <1>16, <1>17, <1>18, <1>19, <1>20, <1>21,
     <1>22 DEF Next, Handle

\* Hence what is not missing never is again.
LEMMA MissingShrinks ==
  ASSUME TypeOK, [Next]_vars
  PROVE  /\ Missing' \subseteq Missing
         /\ \A i \in Missing : i \in Mine /\ i \in Nat /\ flush < i /\ i \notin published
<1>1. \A i \in Mine : i \in Nat
  BY WalFacts
<1>2. flush \in Nat /\ flush' \in Nat /\ flush <= flush' /\ published \subseteq published'
  BY Monotone, WalFacts DEF TypeOK
<1>3. ASSUME NEW i \in Missing'
      PROVE  i \in Missing
  <2>1. i \in Mine /\ flush' < i /\ i \notin published'
    BY <1>3 DEF Missing
  <2> QED BY <1>1, <1>2, <2>1 DEF Missing
<1> QED BY <1>1, <1>3 DEF Missing

\* A handler begins only where nothing before it is missing.
LEMMA HandlerStep ==
  ASSUME TypeOK, WatchInv, HandlerInv, [Next]_vars
  PROVE  HandlerInv'
<1> USE WalFacts, MissingShrinks DEF TypeOK, WatchInv, HandlerInv, DoneBefore, InFlight,
        storeVars, watchVars, clientVars, streamVars, countVars
<1>1. ASSUME NEW s \in Streams, Connect(s)
      PROVE  HandlerInv'
  BY <1>1 DEF Connect
<1>2. CASE Drop
  BY <1>2 DEF Drop, Release, Reading
<1>3. CASE OnHeartbeat
  BY <1>3 DEF OnHeartbeat
<1>4. CASE SetErrored
  BY <1>4 DEF SetErrored
<1>5. CASE PollAdds
  BY <1>5 DEF PollAdds
<1>6. CASE StartWatcher
  BY <1>6 DEF StartWatcher, NewClient
<1>7. CASE PollRemoves
  BY <1>7 DEF PollRemoves, NewClient, Release, Reading
<1>8. CASE CrashRestart
  BY <1>8 DEF CrashRestart, NewClient, Release
<1>9. CASE Enable
  BY <1>9 DEF Enable, Request
<1>10. CASE Disable
  BY <1>10 DEF Disable, Request
<1>11. ASSUME NEW s \in Streams, OnCommit(s)
      PROVE  HandlerInv'
  <2>1. /\ pc[s] = "read" /\ s = current /\ pos[s] \in Positions /\ pos[s] \notin Missing
        /\ pc' = pc /\ pos' = [pos EXCEPT ![s] = pos[s] + 1] /\ UNCHANGED <<running, late, published>>
    BY <1>11 DEF OnCommit, NextIs, Advance, Positions, Mine
  <2>2. \A t \in Streams : t # s => pos'[t] = pos[t] /\ pc[t] # "read"
    BY <2>1
  <2>3. pos'[s] = pos[s] + 1
    BY <2>1
  <2>4. running /\ s \notin late => \A i \in Missing : pos[s] + 1 <= i
    BY <2>1
  <2> QED BY <2>1, <2>2, <2>3, <2>4
<1>12. ASSUME NEW s \in Streams, OnOpaque(s)
      PROVE  HandlerInv'
  <2>1. /\ pc[s] = "read" /\ s = current /\ pos[s] \in Positions /\ pos[s] \notin Missing
        /\ pc' = pc /\ pos' = [pos EXCEPT ![s] = pos[s] + 1] /\ UNCHANGED <<running, late, published>>
    BY <1>12 DEF OnOpaque, NextIs, Advance, Positions, Mine
  <2>2. \A t \in Streams : t # s => pos'[t] = pos[t] /\ pc[t] # "read"
    BY <2>1
  <2>3. pos'[s] = pos[s] + 1
    BY <2>1
  <2>4. running /\ s \notin late => \A i \in Missing : pos[s] + 1 <= i
    BY <2>1
  <2> QED BY <2>1, <2>2, <2>3, <2>4
<1>13. ASSUME NEW s \in Streams, OnChange(s)
      PROVE  HandlerInv'
  BY <1>13 DEF OnChange, NextIs
<1>14. ASSUME NEW s \in Streams, OnOther(s)
      PROVE  HandlerInv'
  <2>1. /\ pc[s] = "resolve" /\ pos[s] \in Changes /\ pos[s] \notin Missing /\ Return(s)
        /\ UNCHANGED <<running, published>>
    BY <1>14 DEF OnOther, Mine
  <2>2. /\ s = current => pc'[s] = "read" /\ pos'[s] = pos[s] + 1
        /\ s # current => pc'[s] = "free"
        /\ \A t \in Streams : t # s => pc'[t] = pc[t] /\ pos'[t] = pos[t]
        /\ late' = late \ {s} /\ current' = current
    BY <2>1, ReturnFacts
  <2>3. running /\ s \notin late => \A i \in Missing : pos[s] + 1 <= i
    BY <2>1
  <2> QED BY <2>1, <2>2, <2>3
<1>15. ASSUME NEW s \in Streams, OnMine(s)
      PROVE  HandlerInv'
  BY <1>15 DEF OnMine, Emit, Return, Release
<1>16. ASSUME NEW s \in Streams, ResolveFails(s)
      PROVE  HandlerInv'
  BY <1>16 DEF ResolveFails, Release
<1>17. ASSUME NEW s \in Streams, Published(s)
      PROVE  HandlerInv'
  BY <1>17 DEF Published
<1>18. ASSUME NEW s \in Streams, PublishFails(s)
      PROVE  HandlerInv'
  BY <1>18 DEF PublishFails, StopRunning
<1>19. ASSUME NEW s \in Streams, Persisted(s)
      PROVE  HandlerInv'
  BY <1>19 DEF Persisted, Return, Release, Highest
<1>20. ASSUME NEW s \in Streams, PersistFails(s)
      PROVE  HandlerInv'
  BY <1>20 DEF PersistFails, StopRunning
<1>21. ASSUME NEW s \in Streams, Halt(s)
      PROVE  HandlerInv'
  BY <1>21 DEF Halt, Release, Reading
<1>22. CASE UNCHANGED vars
  BY <1>22 DEF vars
<1> HIDE DEF TypeOK, WatchInv, HandlerInv
<1> QED
  BY <1>1, <1>2, <1>3, <1>4, <1>5, <1>6, <1>7, <1>8, <1>9, <1>10, <1>11,
     <1>12, <1>13, <1>14, <1>15, <1>16, <1>17, <1>18, <1>19, <1>20, <1>21,
     <1>22 DEF Next, Handle

\* A running watcher confirms a commit only when nothing before it is missing.
LEMMA RunningStep ==
  ASSUME TypeOK, WatchInv, HandlerInv, RunningInv, [Next]_vars
  PROVE  RunningInv'
<1> USE WalFacts, MissingShrinks DEF TypeOK, WatchInv, HandlerInv, RunningInv,
        DoneBefore, InFlight, storeVars, watchVars, clientVars, streamVars, countVars
<1>1. ASSUME NEW s \in Streams, Connect(s)
      PROVE  RunningInv'
  BY <1>1 DEF Connect
<1>2. CASE Drop
  BY <1>2 DEF Drop, Release, Reading
<1>3. CASE OnHeartbeat
  BY <1>3 DEF OnHeartbeat
<1>4. CASE SetErrored
  BY <1>4 DEF SetErrored
<1>5. CASE PollAdds
  BY <1>5 DEF PollAdds
<1>6. CASE StartWatcher
  <2>1. CASE NewClient(FALSE)
    BY <2>1 DEF NewClient
  <2>2. CASE UNCHANGED <<running, durable>>
    BY <2>2
  <2> QED BY <1>6, <2>1, <2>2 DEF StartWatcher
<1>7. CASE PollRemoves
  BY <1>7 DEF PollRemoves, NewClient, Release, Reading
<1>8. CASE CrashRestart
  BY <1>8 DEF CrashRestart, NewClient, Release
<1>9. CASE Enable
  BY <1>9 DEF Enable, Request
<1>10. CASE Disable
  BY <1>10 DEF Disable, Request
<1>11. ASSUME NEW s \in Streams, OnCommit(s)
      PROVE  RunningInv'
  <2>1. /\ pc[s] = "read" /\ s = current /\ pos[s] \in Positions /\ pos[s] \notin Missing
        /\ UNCHANGED running
    BY <1>11 DEF OnCommit, NextIs, Positions, Mine
  <2>2. durable' = durable \/ durable' = pos[s]
    BY <1>11 DEF OnCommit
  <2>3. running => \A i \in Missing : pos[s] + 1 <= i
    BY <2>1
  <2> QED BY <2>1, <2>2, <2>3
<1>12. ASSUME NEW s \in Streams, OnOpaque(s)
      PROVE  RunningInv'
  BY <1>12 DEF OnOpaque, NextIs, Advance
<1>13. ASSUME NEW s \in Streams, OnChange(s)
      PROVE  RunningInv'
  BY <1>13 DEF OnChange, NextIs
<1>14. ASSUME NEW s \in Streams, OnOther(s)
      PROVE  RunningInv'
  BY <1>14 DEF OnOther, Emit, AcknowledgeOther, Highest, Return, Release
<1>15. ASSUME NEW s \in Streams, OnMine(s)
      PROVE  RunningInv'
  BY <1>15 DEF OnMine, Emit, Return, Release
<1>16. ASSUME NEW s \in Streams, ResolveFails(s)
      PROVE  RunningInv'
  BY <1>16 DEF ResolveFails, Release
<1>17. ASSUME NEW s \in Streams, Published(s)
      PROVE  RunningInv'
  BY <1>17 DEF Published
<1>18. ASSUME NEW s \in Streams, PublishFails(s)
      PROVE  RunningInv'
  BY <1>18 DEF PublishFails, StopRunning
<1>19. ASSUME NEW s \in Streams, Persisted(s)
      PROVE  RunningInv'
  BY <1>19 DEF Persisted, Return, Release, Highest
<1>20. ASSUME NEW s \in Streams, PersistFails(s)
      PROVE  RunningInv'
  BY <1>20 DEF PersistFails, StopRunning
<1>21. ASSUME NEW s \in Streams, Halt(s)
      PROVE  RunningInv'
  BY <1>21 DEF Halt, Release, Reading
<1>22. CASE UNCHANGED vars
  BY <1>22 DEF vars
<1> HIDE DEF TypeOK, WatchInv, HandlerInv, RunningInv
<1> QED
  BY <1>1, <1>2, <1>3, <1>4, <1>5, <1>6, <1>7, <1>8, <1>9, <1>10, <1>11,
     <1>12, <1>13, <1>14, <1>15, <1>16, <1>17, <1>18, <1>19, <1>20, <1>21,
     <1>22 DEF Next, Handle

\* A publish comes after everything before it.
LEMMA OrderStep ==
  ASSUME TypeOK, WatchInv, HandlerInv, InOrderAfterCursor, [Next]_vars
  PROVE  InOrderAfterCursor'
<1> USE WalFacts, MissingShrinks DEF TypeOK, WatchInv, HandlerInv, DoneBefore,
        InFlight, InOrderAfterCursor, storeVars, watchVars, clientVars, streamVars, countVars
<1>1. ASSUME NEW s \in Streams, Connect(s)
      PROVE  InOrderAfterCursor'
  BY <1>1 DEF Connect
<1>2. CASE Drop
  BY <1>2 DEF Drop, Release, Reading
<1>3. CASE OnHeartbeat
  BY <1>3 DEF OnHeartbeat
<1>4. CASE SetErrored
  BY <1>4 DEF SetErrored
<1>5. CASE PollAdds
  BY <1>5 DEF PollAdds
<1>6. CASE StartWatcher
  BY <1>6 DEF StartWatcher, NewClient
<1>7. CASE PollRemoves
  BY <1>7 DEF PollRemoves, NewClient, Release, Reading
<1>8. CASE CrashRestart
  BY <1>8 DEF CrashRestart, NewClient, Release
<1>9. CASE Enable
  BY <1>9 DEF Enable, Request
<1>10. CASE Disable
  BY <1>10 DEF Disable, Request
<1>11. ASSUME NEW s \in Streams, OnCommit(s)
      PROVE  InOrderAfterCursor'
  BY <1>11 DEF OnCommit, NextIs, Advance, Highest
<1>12. ASSUME NEW s \in Streams, OnOpaque(s)
      PROVE  InOrderAfterCursor'
  BY <1>12 DEF OnOpaque, NextIs, Advance
<1>13. ASSUME NEW s \in Streams, OnChange(s)
      PROVE  InOrderAfterCursor'
  BY <1>13 DEF OnChange, NextIs
<1>14. ASSUME NEW s \in Streams, OnOther(s)
      PROVE  InOrderAfterCursor'
  BY <1>14 DEF OnOther, Emit, AcknowledgeOther, Highest, Return, Release
<1>15. ASSUME NEW s \in Streams, OnMine(s)
      PROVE  InOrderAfterCursor'
  BY <1>15 DEF OnMine, Emit, Return, Release
<1>16. ASSUME NEW s \in Streams, ResolveFails(s)
      PROVE  InOrderAfterCursor'
  BY <1>16 DEF ResolveFails, Release
<1>17. ASSUME NEW s \in Streams, Published(s)
      PROVE  InOrderAfterCursor'
  <2>1. /\ pc[s] = "publish" /\ UNCHANGED flush
        /\ published' \in {published, published \cup {pos[s]}}
    BY <1>17 DEF Published
  <2>2. \A i \in Missing : pos[s] <= i
    BY <2>1
  <2>3. \A i \in Mine, j \in Mine : flush < i /\ i < j /\ j = pos[s] => i \in published
    BY <2>2, <2>1 DEF Missing
  <2> QED BY <2>1, <2>3
<1>18. ASSUME NEW s \in Streams, PublishFails(s)
      PROVE  InOrderAfterCursor'
  <2>1. /\ pc[s] = "publish" /\ UNCHANGED flush
        /\ published' \in {published, published \cup {pos[s]}}
    BY <1>18 DEF PublishFails
  <2>2. \A i \in Missing : pos[s] <= i
    BY <2>1
  <2>3. \A i \in Mine, j \in Mine : flush < i /\ i < j /\ j = pos[s] => i \in published
    BY <2>2, <2>1 DEF Missing
  <2> QED BY <2>1, <2>3
<1>19. ASSUME NEW s \in Streams, Persisted(s)
      PROVE  InOrderAfterCursor'
  BY <1>19 DEF Persisted, Return, Release, Highest
<1>20. ASSUME NEW s \in Streams, PersistFails(s)
      PROVE  InOrderAfterCursor'
  BY <1>20 DEF PersistFails, StopRunning
<1>21. ASSUME NEW s \in Streams, Halt(s)
      PROVE  InOrderAfterCursor'
  BY <1>21 DEF Halt, Release, Reading
<1>22. CASE UNCHANGED vars
  BY <1>22 DEF vars
<1> HIDE DEF TypeOK, WatchInv, HandlerInv, InOrderAfterCursor
<1> QED
  BY <1>1, <1>2, <1>3, <1>4, <1>5, <1>6, <1>7, <1>8, <1>9, <1>10, <1>11,
     <1>12, <1>13, <1>14, <1>15, <1>16, <1>17, <1>18, <1>19, <1>20, <1>21,
     <1>22 DEF Next, Handle

\* A step that leaves the cursors of the client alone, and the place of its
\* connection if it keeps it, holds what was held.
LEMMA HeldKept ==
  ASSUME HeldInv, Missing' \subseteq Missing, UNCHANGED <<confirmed, last, durable>>,
         stray => stray',
         \A s \in Streams : s = current' => s = current /\ pos'[s] = pos[s]
  PROVE  HeldInv'
  BY DEF HeldInv

\* A new client without a connection holds everything.
LEMMA HeldFresh ==
  ASSUME TypeOK, Missing' \subseteq Missing, current' = NoStream,
         confirmed' = 0, durable' = 0
  PROVE  HeldInv'
<1>1. \A i \in Missing : 0 < i
  BY WalFacts DEF Missing
<1>2. \A m \in Changes : 0 < Wal[m].lsn
  BY WalFacts
<1> QED BY <1>1, <1>2, StreamsAssumption DEF HeldInv

\* What is missing is held when the connection moves past it or beyond it: a
\* change from there on is the last emitted, or was already.
LEMMA HeldMoves ==
  ASSUME TypeOK, HeldInv, Missing' \subseteq Missing, NEW s \in Streams,
         pos[s] \in Positions, UNCHANGED <<current, durable>>,
         s = current => pos'[s] \in {pos[s], pos[s] + 1},
         \A t \in Streams : t # s => pos'[t] = pos[t],
         \/ UNCHANGED <<last, stray>> /\ pos[s] \notin Missing'
         \/ UNCHANGED <<last, stray>> /\ s # current
         \/ /\ pos[s] \in Changes
            /\ last' = Wal[pos[s]].lsn /\ stray' = (stray \/ s # current),
         \A i \in Missing' : ~stray /\ ~Overlap(i) =>
            \A m \in Changes : i <= m => confirmed' < Wal[m].lsn
  PROVE  HeldInv'
<1> SUFFICES ASSUME NEW i \in Missing', ~stray', ~Overlap(i)
             PROVE  /\ \A m \in Changes : i <= m => confirmed' < Wal[m].lsn
                    /\ \A t \in Streams : t = current' /\ i < pos'[t] =>
                          \E m \in Changes : i <= m /\ last' = Wal[m].lsn
                    /\ durable' < i
  BY DEF HeldInv
<1>1. i \in Missing /\ i \in Nat /\ ~stray
  BY WalFacts DEF Missing, TypeOK
<1>2. durable' < i
  BY <1>1 DEF HeldInv
<1>3. \A m \in Changes : i <= m => confirmed' < Wal[m].lsn
  BY <1>1
<1>4. ASSUME NEW t \in Streams, t = current', i < pos'[t]
      PROVE  \E m \in Changes : i <= m /\ last' = Wal[m].lsn
  <2>1. t = current /\ pos[t] \in Nat
    BY <1>4, WalFacts DEF TypeOK
  <2>2. i < pos[t] => \E m \in Changes : i <= m /\ last = Wal[m].lsn
    BY <1>1, <2>1 DEF HeldInv
  <2>3. CASE t # s
    BY <1>1, <1>4, <2>1, <2>2, <2>3
  <2>4. CASE t = s
    <3>1. i <= pos[s]
      BY <1>1, <1>4, <2>1, <2>4
    <3>2. CASE pos[s] \in Changes /\ last' = Wal[pos[s]].lsn
      BY <3>1, <3>2
    <3>3. CASE last' = last /\ pos[s] \notin Missing'
      <4>1. i < pos[s]
        BY <1>1, <2>1, <2>4, <3>1, <3>3
      <4> QED BY <2>2, <2>4, <3>3, <4>1
    <3> QED BY <2>1, <2>4, <3>2, <3>3
  <2> QED BY <2>3, <2>4
<1> QED BY <1>2, <1>3, <1>4

\* The acknowledgement of a change with nothing missing up to it is below every
\* change from a missing one on, unless their transactions overlapped.
LEMMA HeldAcknowledged ==
  ASSUME TypeOK, HeldInv, Missing' \subseteq Missing, NEW n \in Changes,
         \A i \in Missing' : n < i,
         confirmed' \in {confirmed, Wal[n].lsn}
  PROVE  \A i \in Missing' : ~stray /\ ~Overlap(i) =>
            \A m \in Changes : i <= m => confirmed' < Wal[m].lsn
<1> SUFFICES ASSUME NEW i \in Missing', ~stray, ~Overlap(i), NEW m \in Changes, i <= m
             PROVE  confirmed' < Wal[m].lsn
  OBVIOUS
<1>1. i \in Missing /\ i \in Nat /\ n \in Nat /\ m \in Nat
  BY WalFacts DEF Missing
<1>2. confirmed < Wal[m].lsn
  BY <1>1 DEF HeldInv
<1>3. n < i /\ n < m
  BY <1>1
<1>4. Wal[n].lsn < Wal[m].lsn
  BY <1>3, WalFacts DEF Overlap
<1> QED BY <1>2, <1>4

\* What is missing stays beyond the client's confirmation.
LEMMA HeldStep ==
  ASSUME TypeOK, WatchInv, HandlerInv, HeldInv, [Next]_vars
  PROVE  HeldInv'
<1> USE WalFacts, MissingShrinks DEF TypeOK, WatchInv, HandlerInv, DoneBefore,
        InFlight, HeldInv, storeVars, watchVars, clientVars, streamVars, countVars
<1>1. ASSUME NEW s \in Streams, Connect(s)
      PROVE  HeldInv'
  BY <1>1 DEF Connect
<1>2. CASE Drop
  <2>1. current' = NoStream /\ UNCHANGED clientVars
    BY <1>2 DEF Drop
  <2> QED BY <2>1, StreamsAssumption, HeldKept
<1>3. CASE OnHeartbeat
  BY <1>3 DEF OnHeartbeat
<1>4. CASE SetErrored
  BY <1>4 DEF SetErrored
<1>5. CASE PollAdds
  BY <1>5 DEF PollAdds
<1>6. CASE StartWatcher
  <2>1. UNCHANGED streamVars /\ current' = NoStream
    BY <1>6 DEF StartWatcher
  <2>2. CASE NewClient(FALSE)
    BY <2>1, <2>2, HeldFresh DEF NewClient
  <2>3. CASE UNCHANGED clientVars
    BY <2>1, <2>3, HeldKept
  <2> QED BY <1>6, <2>2, <2>3 DEF StartWatcher
<1>7. CASE PollRemoves
  BY <1>7, HeldFresh DEF PollRemoves, NewClient
<1>8. CASE CrashRestart
  BY <1>8, HeldFresh DEF CrashRestart, NewClient
<1>9. CASE Enable
  BY <1>9 DEF Enable, Request
<1>10. CASE Disable
  BY <1>10 DEF Disable, Request
<1>11. ASSUME NEW s \in Streams, OnCommit(s)
      PROVE  HeldInv'
  <2>1. /\ pc[s] = "read" /\ s = current /\ pos[s] \in Positions /\ pos[s] \notin Missing
        /\ pos' = [pos EXCEPT ![s] = pos[s] + 1]
        /\ UNCHANGED <<current, confirmed, last, stray>>
    BY <1>11 DEF OnCommit, NextIs, Advance, Positions, Mine
  <2>2. \A i \in Missing' : ~stray /\ ~Overlap(i) =>
            \A m \in Changes : i <= m => confirmed' < Wal[m].lsn
    BY <2>1
  <2>3. pos'[s] = pos[s] + 1 /\ \A t \in Streams : t # s => pos'[t] = pos[t]
    BY <2>1
  <2>4. CASE UNCHANGED durable
    <3> HIDE DEF TypeOK, HeldInv
    <3> QED BY <2>1, <2>2, <2>3, <2>4, HeldMoves
  <2>5. CASE AllAcknowledged /\ durable' = pos[s]
    <3> SUFFICES ASSUME NEW i \in Missing', ~stray, ~Overlap(i)
                 PROVE  pos[s] < i
      <4>1. \A i \in Missing' : ~stray /\ ~Overlap(i) => ~(i < pos'[s]) /\ durable' < i
        BY <2>1, <2>3, <2>5
      <4> QED BY <2>1, <2>2, <2>3, <4>1
    <3>1. i \in Missing /\ i # pos[s] /\ pos[s] \in Nat
      BY <2>1
    <3>2. ASSUME i < pos[s]
          PROVE  FALSE
      <4>1. PICK m \in Changes : i <= m /\ last = Wal[m].lsn
        BY <2>1, <3>1, <3>2
      <4>2. confirmed < Wal[m].lsn /\ Wal[m].lsn # 0
        BY <3>1, <4>1
      <4> QED BY <2>5, <4>1, <4>2 DEF AllAcknowledged
    <3> QED BY <3>1, <3>2
  <2> QED BY <1>11, <2>4, <2>5 DEF OnCommit
<1>12. ASSUME NEW s \in Streams, OnOpaque(s)
      PROVE  HeldInv'
  <2>1. /\ pc[s] = "read" /\ s = current /\ pos[s] \in Positions /\ pos[s] \notin Missing
        /\ pos' = [pos EXCEPT ![s] = pos[s] + 1]
        /\ UNCHANGED <<current, confirmed, last, stray>>
    BY <1>12 DEF OnOpaque, NextIs, Advance, Positions, Mine
  <2>2. \A i \in Missing' : ~stray /\ ~Overlap(i) =>
            \A m \in Changes : i <= m => confirmed' < Wal[m].lsn
    BY <2>1
  <2>3. pos'[s] = pos[s] + 1 /\ \A t \in Streams : t # s => pos'[t] = pos[t]
    BY <2>1
  <2>4. UNCHANGED durable
    BY <1>12 DEF OnOpaque
  <2> HIDE DEF TypeOK, HeldInv
  <2> QED BY <2>1, <2>2, <2>3, <2>4, HeldMoves
<1>13. ASSUME NEW s \in Streams, OnChange(s)
      PROVE  HeldInv'
  BY <1>13 DEF OnChange, NextIs
<1>14. ASSUME NEW s \in Streams, OnOther(s)
      PROVE  HeldInv'
  <2>1. /\ pc[s] = "resolve" /\ pos[s] \in Changes /\ pos[s] \notin Missing
        /\ Return(s) /\ UNCHANGED <<durable, running>>
    BY <1>14 DEF OnOther, Mine
  <2>2. /\ s = current => pos'[s] = pos[s] + 1
        /\ \A t \in Streams : t # s => pos'[t] = pos[t]
        /\ current' = current
    BY <2>1, ReturnFacts
  <2>3. \/ UNCHANGED <<last, stray>> /\ s # current
        \/ /\ pos[s] \in Changes
           /\ last' = Wal[pos[s]].lsn /\ stray' = (stray \/ s # current)
    BY <1>14, <2>1 DEF OnOther, Emit
  <2>4. \A i \in Missing' : ~stray /\ ~Overlap(i) =>
            \A m \in Changes : i <= m => confirmed' < Wal[m].lsn
    <3>1. CASE running /\ s \notin late
      <4>1. \A i \in Missing' : pos[s] < i
        BY <2>1, <3>1
      <4>2. confirmed' \in {confirmed, Wal[pos[s]].lsn}
        BY <1>14 DEF OnOther, AcknowledgeOther, Highest
      <4> QED BY <2>1, <4>1, <4>2, HeldAcknowledged
    <3>2. CASE ~(running /\ s \notin late)
      BY <1>14, <3>2 DEF OnOther, AcknowledgeOther
    <3> QED BY <3>1, <3>2
  <2> HIDE DEF TypeOK, HeldInv
  <2> QED BY <2>1, <2>2, <2>3, <2>4, HeldMoves
<1>15. ASSUME NEW s \in Streams, OnMine(s)
      PROVE  HeldInv'
  <2>1. /\ pc[s] = "resolve" /\ pos[s] \in Changes /\ UNCHANGED <<durable, confirmed>>
    BY <1>15 DEF OnMine
  <2>2. /\ s = current => pos'[s] \in {pos[s], pos[s] + 1}
        /\ \A t \in Streams : t # s => pos'[t] = pos[t]
        /\ current' = current
    <3>1. CASE Return(s)
      BY <2>1, <3>1, ReturnFacts
    <3>2. CASE UNCHANGED <<current, pos>>
      BY <3>2
    <3> QED BY <1>15, <3>1, <3>2 DEF OnMine
  <2>3. \/ UNCHANGED <<last, stray>> /\ s # current
        \/ /\ pos[s] \in Changes
           /\ last' = Wal[pos[s]].lsn /\ stray' = (stray \/ s # current)
    BY <1>15, <2>1 DEF OnMine, Emit
  <2>4. \A i \in Missing' : ~stray /\ ~Overlap(i) =>
            \A m \in Changes : i <= m => confirmed' < Wal[m].lsn
    BY <2>1
  <2> HIDE DEF TypeOK, HeldInv
  <2> QED BY <2>1, <2>2, <2>3, <2>4, HeldMoves
<1>16. ASSUME NEW s \in Streams, ResolveFails(s)
      PROVE  HeldInv'
  <2>1. \A t \in Streams : t = current' => t = current /\ pos'[t] = pos[t]
    BY <1>16, StreamsAssumption DEF ResolveFails, Release
  <2>2. UNCHANGED clientVars
    BY <1>16 DEF ResolveFails
  <2> QED BY <2>1, <2>2, HeldKept
<1>17. ASSUME NEW s \in Streams, Published(s)
      PROVE  HeldInv'
  BY <1>17 DEF Published
<1>18. ASSUME NEW s \in Streams, PublishFails(s)
      PROVE  HeldInv'
  BY <1>18 DEF PublishFails, StopRunning
<1>19. ASSUME NEW s \in Streams, Persisted(s)
      PROVE  HeldInv'
  <2>1. /\ pc[s] = "persist" /\ pos[s] \in Changes /\ pos[s] \notin Missing
        /\ Return(s) /\ UNCHANGED <<durable, last, stray>>
    BY <1>19 DEF Persisted
  <2>2. /\ s = current => pos'[s] = pos[s] + 1
        /\ \A t \in Streams : t # s => pos'[t] = pos[t]
        /\ current' = current
    BY <2>1, ReturnFacts
  <2>3. \A i \in Missing' : ~stray /\ ~Overlap(i) =>
            \A m \in Changes : i <= m => confirmed' < Wal[m].lsn
    <3>1. \A i \in Missing' : pos[s] < i
      BY <2>1
    <3>2. confirmed' \in {confirmed, Wal[pos[s]].lsn}
      BY <1>19 DEF Persisted, Highest
    <3> QED BY <2>1, <3>1, <3>2, HeldAcknowledged
  <2> HIDE DEF TypeOK, HeldInv
  <2> QED BY <2>1, <2>2, <2>3, HeldMoves
<1>20. ASSUME NEW s \in Streams, PersistFails(s)
      PROVE  HeldInv'
  BY <1>20 DEF PersistFails, StopRunning
<1>21. ASSUME NEW s \in Streams, Halt(s)
      PROVE  HeldInv'
  <2>1. UNCHANGED <<confirmed, last, durable, stray>>
    BY <1>21 DEF Halt
  <2>2. \A t \in Streams : t = current' => t = current /\ pos'[t] = pos[t]
    BY <1>21, StreamsAssumption DEF Halt, Release, Reading
  <2> QED BY <2>1, <2>2, HeldKept
<1>22. CASE UNCHANGED vars
  BY <1>22 DEF vars
<1> HIDE DEF TypeOK, WatchInv, HandlerInv, HeldInv
<1> QED
  BY <1>1, <1>2, <1>3, <1>4, <1>5, <1>6, <1>7, <1>8, <1>9, <1>10, <1>11,
     <1>12, <1>13, <1>14, <1>15, <1>16, <1>17, <1>18, <1>19, <1>20, <1>21,
     <1>22 DEF Next, Handle

-----------------------------------------------------------------------------
(* The theorems.                                                           *)

\* The inductive invariant holds initially.
LEMMA InitInv == Init => IInv
<1> SUFFICES ASSUME Init PROVE IInv
  OBVIOUS
<1>1. TypeOK
  <2>1. 0 \in 0 .. Len(Wal) /\ 1 \in 1 .. Len(Wal) + 1
    BY WalFacts
  <2>2. 0 \in 0 .. MaxDrops /\ 0 \in 0 .. MaxCrashes /\ 0 \in 0 .. MaxRequests
    BY BoundsAssumption
  <2> QED BY <2>1, <2>2 DEF Init, TypeOK
<1>2. WatchInv /\ HandlerInv /\ InOrderAfterCursor
  BY StreamsAssumption DEF Init, WatchInv, HandlerInv, InFlight, InOrderAfterCursor
<1>3. RunningInv
  <2>1. \A i \in Missing : 0 + 1 <= i
    BY WalFacts DEF Missing
  <2> QED BY <2>1 DEF Init, RunningInv, DoneBefore
<1>4. HeldInv
  <2>1. \A i \in Missing : 0 < i
    BY WalFacts DEF Missing
  <2>2. \A m \in Changes : 0 < Wal[m].lsn
    BY WalFacts
  <2> QED BY <2>1, <2>2, StreamsAssumption DEF Init, HeldInv
<1> QED BY <1>1, <1>2, <1>3, <1>4 DEF IInv

\* The inductive invariant is kept by every step.
LEMMA InvStep == IInv /\ [Next]_vars => IInv'
  BY TypeStep, WatchStep, HandlerStep, RunningStep, HeldStep, OrderStep DEF IInv

\* The inductive invariant holds in every reachable state.
LEMMA InvAlways == Spec => []IInv
  BY InitInv, InvStep, PTL DEF Spec

\* A step that passes a missing change is a confirmation by a halted watcher,
\* after an overlap or a stray handler.
LEMMA GapStep ==
  ASSUME IInv, [Next]_vars, NEW i \in Mine, flush < i, i <= flush', i \notin published
  PROVE  ~running /\ (stray \/ Overlap(i))
<1> USE WalFacts DEF IInv, TypeOK, storeVars, watchVars, clientVars, streamVars, countVars
<1>1. i \in Missing /\ i \in Nat /\ flush # flush'
  BY DEF Missing
<1>2. CASE OnHeartbeat
  <2>1. flush' = durable
    BY <1>2 DEF OnHeartbeat
  <2>2. ~(durable < i) /\ ~(durable + 1 <= i)
    BY <1>1, <2>1
  <2> QED BY <1>1, <2>2 DEF RunningInv, DoneBefore, HeldInv
<1>3. ASSUME NEW s \in Streams, OnCommit(s)
      PROVE  ~running /\ (stray \/ Overlap(i))
  <2>1. /\ pc[s] = "read" /\ s = current /\ pos[s] \in Positions
        /\ Wal[pos[s]].kind = "commit"
    BY <1>3 DEF OnCommit, NextIs, Positions
  <2>2. AllAcknowledged /\ flush' = pos[s]
    BY <1>1, <1>3, <2>1 DEF OnCommit, Highest
  <2>3. i < pos[s]
    <3>1. pos[s] # i
      BY <2>1 DEF Mine
    <3> QED BY <1>1, <2>1, <2>2, <3>1
  <2>4. ~running
    <3>1. s \notin late
      BY <2>1 DEF WatchInv
    <3>2. running => pos[s] <= i
      BY <1>1, <2>1, <3>1 DEF HandlerInv, DoneBefore
    <3> QED BY <1>1, <2>1, <2>3, <3>2
  <2>5. ASSUME ~stray, ~Overlap(i)
        PROVE  FALSE
    <3>1. PICK m \in Changes : i <= m /\ last = Wal[m].lsn
      BY <1>1, <2>1, <2>3, <2>5 DEF HeldInv
    <3>2. confirmed < Wal[m].lsn
      BY <1>1, <2>5, <3>1 DEF HeldInv
    <3>3. Wal[m].lsn \in Nat \ {0}
      OBVIOUS
    <3> QED BY <2>2, <3>1, <3>2, <3>3 DEF AllAcknowledged
  <2> QED BY <2>4, <2>5
<1>4. ASSUME UNCHANGED flush
      PROVE  FALSE
  BY <1>1, <1>4
<1> HIDE DEF IInv, TypeOK
<1> QED
  BY <1>2, <1>3, <1>4
  DEF Next, Handle, vars, Connect, Drop, SetErrored, PollAdds, StartWatcher, PollRemoves,
      CrashRestart, Enable, Disable, Request, OnOpaque, OnChange, OnOther, OnMine,
      ResolveFails, Published, PublishFails, Persisted, PersistFails, Halt

\* Every reachable state has the declared type: among others, messages only
\* reach the handler of the connection that is current, and a stopped or
\* forgotten client has none.
THEOREM TypeCorrect == Spec => []TypeOK
<1>1. IInv => TypeOK
  BY DEF IInv
<1> QED BY <1>1, InvAlways, PTL

\* WalReplicationClient.mjs:147 and ChangeStreamWatcher.mjs, for every log: the
\* slot passes a change that is not in Kafka only when the watcher has halted,
\* and only if transactions overlapped or a handler that outlived its connection
\* has set _lastChangeLsn back.  Dropped connections, lost acknowledgements, failed
\* publishes and restarts alone lose nothing.
THEOREM OnlyOverlapOrStrayLoses == Spec => GapsExplained
<1>1. IInv /\ [Next]_vars =>
        [\A i \in Mine : flush < i /\ i <= flush' /\ i \notin published =>
            ~running /\ (stray \/ Overlap(i))]_vars
  BY GapStep
<1> QED BY <1>1, InvAlways, PTL DEF Spec, GapsExplained

\* For every log, beyond the confirmed position no change reaches Kafka before
\* an earlier one, although a handler of an old connection or of a forgotten
\* watcher may run beside that of the new one.
THEOREM NothingOvertaken == Spec => []InOrderAfterCursor
<1>1. IInv => InOrderAfterCursor
  BY DEF IInv
<1> QED BY <1>1, InvAlways, PTL
=============================================================================
