----------------------- MODULE IdempotentCreateProofs ----------------------
(***************************************************************************)
(* Proofs about IdempotentCreate for any number of calls, keys and types:  *)
(* the row lock and the frozen transaction clock make the protocol         *)
(* implement IdempotencyContract.                                          *)
(***************************************************************************)
EXTENDS IdempotentCreate, FiniteSetTheorems, TLAPS

ProtocolInv == RecordsLeadToOperations /\ LockProtects /\ ClockSound

\* Initially no record exists and no call has started.
LEMMA InitInv == Init => TypeOK /\ ProtocolInv
<1> SUFFICES ASSUME Init PROVE TypeOK /\ ProtocolInv
  OBVIOUS
<1>1. TypeOK
  BY DEF Init, TypeOK, PCs, Final
<1>2. RecordsLeadToOperations
  BY DEF Init, RecordsLeadToOperations
<1>3. LockProtects /\ ClockSound
  BY DEF Init, LockProtects, ClockSound
<1> QED BY <1>1, <1>2, <1>3 DEF ProtocolInv

\* The key of a call is one of the keys.
LEMMA KeyType == ASSUME TypeOK, NEW c \in Calls PROVE key(c) \in Keys
  BY DEF TypeOK, Args, key

\* A key that is live has a record, and the record an operation.
LEMMA LiveHasRecord ==
  ASSUME TypeOK, RecordsLeadToOperations, NEW k \in Keys, recGen[k] > 0 \/ ~recExpired[k]
  PROVE  recGen[k] \in Nat \ {0} /\ recOp[k] \in stored /\ recOp[k] \in Calls
                                /\ key(recOp[k]) = k
  BY DEF TypeOK, RecordsLeadToOperations

\* Every step keeps every type.
LEMMA NextTypeOK == TypeOK /\ RecordsLeadToOperations /\ [Next]_vars => TypeOK'
<1> SUFFICES ASSUME TypeOK, RecordsLeadToOperations, [Next]_vars PROVE TypeOK'
  OBVIOUS
<1> USE DEF PCs, Final
<1>1. ASSUME NEW c \in Calls, receive(c) PROVE TypeOK'
  BY <1>1 DEF TypeOK, receive, GoTo, recVars
<1>2. ASSUME NEW c \in Calls, findActive(c) PROVE TypeOK'
  BY <1>2, KeyType DEF TypeOK, findActive, GoTo, recVars
<1>3. ASSUME NEW c \in Calls, beginTx(c) PROVE TypeOK'
  <2>1. (IF recExpired[key(c)] THEN recGen[key(c)] ELSE recGen[key(c)] - 1) \in Nat
    BY KeyType, LiveHasRecord DEF TypeOK
  <2> QED BY <1>3, <2>1 DEF TypeOK, beginTx, GoTo, recVars
<1>4. ASSUME NEW c \in Calls, insertOrFind(c) PROVE TypeOK'
  BY <1>4, KeyType DEF TypeOK, insertOrFind, GoTo
<1>5. ASSUME NEW c \in Calls, commit(c) PROVE TypeOK'
  <2>1. /\ recOp' \in [Keys -> Calls \cup {NoCall}] /\ recGen' \in [Keys -> Nat]
        /\ holder' \in [Keys -> Calls \cup {NoCall}]
    BY <1>5, KeyType DEF TypeOK, commit
  <2>2. recExpired' \in [Keys -> BOOLEAN]
    BY <1>5 DEF TypeOK, commit
  <2> QED BY <1>5, <2>1, <2>2 DEF TypeOK, commit, GoTo
<1>6. ASSUME NEW c \in Calls, resolveExistingOperation(c) PROVE TypeOK'
  BY <1>6 DEF TypeOK, resolveExistingOperation, GoTo, recVars
<1>7. ASSUME NEW c \in Calls, crash(c) PROVE TypeOK'
  BY <1>7 DEF TypeOK, crash, GoTo
<1>8. ASSUME NEW k \in Keys, expire(k) PROVE TypeOK'
  BY <1>8 DEF TypeOK, expire
<1>9. CASE UNCHANGED vars
  BY <1>9 DEF TypeOK, vars, recVars
<1> QED BY <1>1, <1>2, <1>3, <1>4, <1>5, <1>6, <1>7, <1>8, <1>9 DEF Next, Step

\* Records keep leading to operations, and calls stay unbound until decided.
LEMMA NextRecords ==
  TypeOK /\ ProtocolInv /\ [Next]_vars => RecordsLeadToOperations'
<1> SUFFICES ASSUME TypeOK, ProtocolInv, [Next]_vars PROVE RecordsLeadToOperations'
  OBVIOUS
<1> USE DEF ProtocolInv
<1>1. ASSUME NEW c \in Calls, receive(c) PROVE RecordsLeadToOperations'
  BY <1>1 DEF TypeOK, RecordsLeadToOperations, receive, GoTo, recVars, key
<1>2. ASSUME NEW c \in Calls, findActive(c) PROVE RecordsLeadToOperations'
  <2>1. CASE ~recExpired[key(c)]
    BY <1>2, <2>1, KeyType, LiveHasRecord
    DEF TypeOK, RecordsLeadToOperations, findActive, GoTo, recVars, key
  <2>2. CASE recExpired[key(c)]
    BY <1>2, <2>2 DEF TypeOK, RecordsLeadToOperations, findActive, GoTo, recVars, key
  <2> QED BY <2>1, <2>2
<1>3. ASSUME NEW c \in Calls, beginTx(c) PROVE RecordsLeadToOperations'
  BY <1>3 DEF TypeOK, RecordsLeadToOperations, beginTx, GoTo, recVars, key
<1>4. ASSUME NEW c \in Calls, insertOrFind(c) PROVE RecordsLeadToOperations'
  <2>1. CASE recGen[key(c)] <= expiredGen[c]
    BY <1>4, <2>1 DEF TypeOK, RecordsLeadToOperations, insertOrFind, GoTo, key
  <2>2. CASE ~(recGen[key(c)] <= expiredGen[c])
    <3>1. recGen[key(c)] > 0
      BY <2>2, KeyType DEF TypeOK
    <3> QED BY <1>4, <2>2, <3>1, KeyType, LiveHasRecord
            DEF TypeOK, RecordsLeadToOperations, insertOrFind, GoTo, key
  <2> QED BY <2>1, <2>2
<1>5. ASSUME NEW c \in Calls, commit(c) PROVE RecordsLeadToOperations'
  <2> DEFINE k == key(c)
  <2>1. k \in Keys /\ recGen[k] \in Nat
    BY KeyType DEF TypeOK
  <2>2. /\ recOp'[k] = c /\ recGen'[k] = recGen[k] + 1 /\ c \in stored' /\ stored \subseteq stored'
        /\ \A j \in Keys \ {k} : recOp'[j] = recOp[j] /\ recGen'[j] = recGen[j]
                                 /\ recExpired'[j] = recExpired[j]
    BY <1>5, <2>1 DEF TypeOK, commit
  <2>3. /\ pc'[c] = "created" /\ \A d \in Calls \ {c} : pc'[d] = pc[d] /\ bound'[d] = bound[d]
    BY <1>5 DEF TypeOK, commit, GoTo
  <2>4. \A j \in Keys : recGen'[j] > 0 => recOp'[j] \in stored' /\ key(recOp'[j]) = j
    BY <2>1, <2>2 DEF RecordsLeadToOperations
  <2>5. \A j \in Keys : recGen'[j] = 0 => recExpired'[j]
    BY <2>1, <2>2 DEF RecordsLeadToOperations
  <2>6. \A d \in Calls : /\ pc'[d] # "notFound"
                         /\ pc'[d] \in {"resolve", "replayed"}
                              => bound'[d] \in stored' /\ key(bound'[d]) = key(d)
                         /\ pc'[d] \in {"idle", "find", "begin", "insert", "commit"}
                              => bound'[d] = NoCall
    BY <2>2, <2>3 DEF RecordsLeadToOperations
  <2>7. args' = args
    BY <1>5 DEF commit
  <2> QED BY <2>4, <2>5, <2>6, <2>7 DEF RecordsLeadToOperations, key
<1>6. ASSUME NEW c \in Calls, resolveExistingOperation(c) PROVE RecordsLeadToOperations'
  <2>1. bound[c] \in stored
    BY <1>6 DEF RecordsLeadToOperations, resolveExistingOperation
  <2> QED
    BY <1>6, <2>1 DEF TypeOK, RecordsLeadToOperations, resolveExistingOperation, GoTo, recVars, key
<1>7. ASSUME NEW c \in Calls, crash(c) PROVE RecordsLeadToOperations'
  BY <1>7 DEF TypeOK, RecordsLeadToOperations, crash, GoTo, key
<1>8. ASSUME NEW k \in Keys, expire(k) PROVE RecordsLeadToOperations'
  BY <1>8 DEF TypeOK, RecordsLeadToOperations, expire, key
<1>9. CASE UNCHANGED vars
  BY <1>9 DEF RecordsLeadToOperations, vars, recVars, key
<1> QED BY <1>1, <1>2, <1>3, <1>4, <1>5, <1>6, <1>7, <1>8, <1>9 DEF Next, Step

\* The row lock keeps excluding other writers.
LEMMA NextLock ==
  TypeOK /\ ProtocolInv /\ [Next]_vars => LockProtects'
<1> SUFFICES ASSUME TypeOK, ProtocolInv, [Next]_vars PROVE LockProtects'
  OBVIOUS
<1> USE NoCallAssumption DEF ProtocolInv
<1>1. ASSUME NEW c \in Calls, receive(c) \/ findActive(c) \/ beginTx(c) \/ resolveExistingOperation(c)
      PROVE LockProtects'
  <2>1. /\ UNCHANGED <<recExpired, holder>>
        /\ \A d \in Calls : key(d)' = key(d)
        /\ pc[c] # "commit" /\ pc'[c] # "commit"
        /\ \A d \in Calls \ {c} : pc'[d] = pc[d]
    BY <1>1 DEF receive, findActive, beginTx, resolveExistingOperation, GoTo, TypeOK, recVars, key
  <2> QED BY <2>1 DEF LockProtects, TypeOK
<1>2. ASSUME NEW c \in Calls, insertOrFind(c) PROVE LockProtects'
  <2> DEFINE k == key(c)
  <2>0. k \in Keys /\ recGen[k] \in Nat /\ expiredGen[c] \in Nat
    BY KeyType DEF TypeOK
  <2>1. /\ UNCHANGED recExpired /\ \A d \in Calls : key(d)' = key(d)
        /\ \A d \in Calls \ {c} : pc'[d] = pc[d]
        /\ pc[c] = "insert" /\ holder[k] = NoCall
    BY <1>2 DEF insertOrFind, GoTo, TypeOK, key
  <2>2. CASE recGen[k] <= expiredGen[c]
    <3>1. recExpired[k]
      BY <2>0, <2>1, <2>2 DEF ClockSound
    <3>2. /\ holder'[k] = c /\ pc'[c] = "commit"
          /\ \A j \in Keys \ {k} : holder'[j] = holder[j]
      BY <1>2, <2>0, <2>2 DEF insertOrFind, GoTo, TypeOK
    <3> QED BY <2>0, <2>1, <3>1, <3>2, KeyType DEF LockProtects, TypeOK
  <2>3. CASE ~(recGen[k] <= expiredGen[c])
    <3>1. UNCHANGED holder /\ pc'[c] = "resolve"
      BY <1>2, <2>3 DEF insertOrFind, GoTo, TypeOK
    <3> QED BY <2>1, <3>1 DEF LockProtects, TypeOK
  <2> QED BY <2>2, <2>3
<1>3. ASSUME NEW c \in Calls, commit(c) PROVE LockProtects'
  <2> DEFINE k == key(c)
  <2>1. /\ k \in Keys /\ pc[c] = "commit" /\ holder[k] = c
        /\ \A d \in Calls : key(d)' = key(d)
    BY <1>3, KeyType DEF commit, LockProtects, key
  <2>2. /\ pc'[c] = "created" /\ holder'[k] = NoCall
        /\ \A d \in Calls \ {c} : pc'[d] = pc[d]
        /\ \A j \in Keys \ {k} : holder'[j] = holder[j] /\ recExpired'[j] = recExpired[j]
    BY <1>3, <2>1 DEF commit, GoTo, TypeOK
  <2>3. \A d \in Calls \ {c} : pc[d] = "commit" => key(d) # k
    BY <2>1 DEF LockProtects
  <2> QED BY <2>1, <2>2, <2>3, KeyType DEF LockProtects, TypeOK
<1>4. ASSUME NEW c \in Calls, crash(c) PROVE LockProtects'
  <2>1. /\ UNCHANGED recExpired /\ \A d \in Calls : key(d)' = key(d)
        /\ pc'[c] = "crashed" /\ \A d \in Calls \ {c} : pc'[d] = pc[d]
        /\ \A j \in Keys : holder'[j] = IF holder[j] = c THEN NoCall ELSE holder[j]
    BY <1>4 DEF crash, GoTo, TypeOK, key
  <2> QED BY <2>1, KeyType DEF LockProtects, TypeOK
<1>5. ASSUME NEW k \in Keys, expire(k) PROVE LockProtects'
  BY <1>5 DEF expire, LockProtects, TypeOK, key
<1>6. CASE UNCHANGED vars
  BY <1>6 DEF LockProtects, vars, recVars, key
<1> QED BY <1>1, <1>2, <1>3, <1>4, <1>5, <1>6 DEF Next, Step

\* A transaction's clock stays sound.
LEMMA NextClock ==
  TypeOK /\ ProtocolInv /\ [Next]_vars => ClockSound'
<1> SUFFICES ASSUME TypeOK, ProtocolInv, [Next]_vars PROVE ClockSound'
  OBVIOUS
<1> USE DEF ProtocolInv
<1>1. ASSUME NEW c \in Calls,
             receive(c) \/ findActive(c) \/ insertOrFind(c) \/ resolveExistingOperation(c) \/ crash(c)
      PROVE ClockSound'
  <2>1. /\ UNCHANGED <<recExpired, recGen, expiredGen>>
        /\ \A d \in Calls : key(d)' = key(d)
        /\ pc'[c] # "insert" /\ \A d \in Calls \ {c} : pc'[d] = pc[d]
    BY <1>1 DEF receive, findActive, insertOrFind, resolveExistingOperation, crash, GoTo,
                TypeOK, recVars, key
  <2> QED BY <2>1 DEF ClockSound, TypeOK
<1>2. ASSUME NEW c \in Calls, beginTx(c) PROVE ClockSound'
  <2>1. /\ UNCHANGED <<recExpired, recGen>> /\ \A d \in Calls : key(d)' = key(d)
        /\ \A d \in Calls \ {c} : pc'[d] = pc[d] /\ expiredGen'[d] = expiredGen[d]
    BY <1>2 DEF beginTx, GoTo, TypeOK, recVars, key
  <2>2. expiredGen'[c] = IF recExpired[key(c)] THEN recGen[key(c)] ELSE recGen[key(c)] - 1
    BY <1>2 DEF beginTx, TypeOK
  <2>3. recGen[key(c)] \in Nat
    BY KeyType DEF TypeOK
  <2> QED BY <2>1, <2>2, <2>3 DEF ClockSound, TypeOK
<1>3. ASSUME NEW c \in Calls, commit(c) PROVE ClockSound'
  <2> DEFINE k == key(c)
  <2>1. /\ UNCHANGED expiredGen /\ \A d \in Calls : key(d)' = key(d)
        /\ pc'[c] # "insert" /\ \A d \in Calls \ {c} : pc'[d] = pc[d]
    BY <1>3 DEF commit, GoTo, TypeOK, key
  <2>2. /\ k \in Keys /\ recGen[k] \in Nat /\ recGen'[k] = recGen[k] + 1
        /\ \A j \in Keys \ {k} : recGen'[j] = recGen[j] /\ recExpired'[j] = recExpired[j]
    BY <1>3, KeyType DEF commit, TypeOK
  <2> SUFFICES ASSUME NEW d \in Calls, pc'[d] = "insert"
               PROVE  \/ expiredGen'[d] < recGen'[key(d)]
                      \/ expiredGen'[d] = recGen'[key(d)] /\ recExpired'[key(d)]
    BY <2>1 DEF ClockSound
  <2>3. \/ expiredGen[d] < recGen[key(d)]
        \/ expiredGen[d] = recGen[key(d)] /\ recExpired[key(d)]
    BY <2>1 DEF ClockSound
  <2>4. expiredGen[d] \in Nat /\ key(d) \in Keys
    BY KeyType DEF TypeOK
  <2>5. CASE key(d) = k
    BY <2>1, <2>2, <2>3, <2>4, <2>5
  <2>6. CASE key(d) # k
    BY <2>1, <2>2, <2>3, <2>4, <2>6
  <2> QED BY <2>5, <2>6
<1>4. ASSUME NEW k \in Keys, expire(k) PROVE ClockSound'
  BY <1>4, KeyType DEF expire, ClockSound, TypeOK, key
<1>5. CASE UNCHANGED vars
  BY <1>5 DEF ClockSound, vars, recVars, key
<1> QED BY <1>1, <1>2, <1>3, <1>4, <1>5 DEF Next, Step

\* Types and the protocol invariant hold together.
LEMMA ProtocolInvariant == Spec => [](TypeOK /\ ProtocolInv)
<1>1. TypeOK /\ ProtocolInv /\ [Next]_vars => (TypeOK /\ ProtocolInv)'
  BY NextTypeOK, NextRecords, NextLock, NextClock DEF ProtocolInv
<1> QED BY <1>1, InitInv, PTL DEF Spec

\* Types hold in every reachable state; in particular a transaction's clock
\* never points past the newest record of its key.
THEOREM TypeCorrect == Spec => []TypeOK
  BY ProtocolInvariant, PTL

\* NOW(), frozen at BEGIN, is never ahead: a record that a transaction takes
\* for expired has expired.
THEOREM ClockNeverAhead == Spec => []ClockSound
  BY ProtocolInvariant, PTL DEF ProtocolInv

\* A replayed call always finds a committed operation of its own key.
THEOREM ReplaysFaithful == Spec => []RecordsLeadToOperations
  BY ProtocolInvariant, PTL DEF ProtocolInv

\* Only the lock holder replaces a record, and only an expired one.
THEOREM LockSound == Spec => []LockProtects
  BY ProtocolInvariant, PTL DEF ProtocolInv

-----------------------------------------------------------------------------
(* One operation per window. *)

\* An operation is stored by the commit that answers its call, so no call
\* stores twice, and the operations of a key can be counted.
WindowInv ==
    /\ IsFiniteSet(stored)
    /\ \A c \in stored : pc[c] = "created"
    /\ OneOperationPerWindow

\* Steps that commit nothing and leave the answered calls alone.
LEMMA WindowFrame ==
  ASSUME WindowInv, stored' = stored, recGen' = recGen, args' = args,
         \A c \in stored : pc[c] = "created" => pc'[c] = "created"
  PROVE  WindowInv'
  BY DEF WindowInv, OneOperationPerWindow, key

\* A commit opens one window for its key and stores one operation under it.
LEMMA CommitWindow ==
  ASSUME TypeOK, WindowInv, NEW c \in Calls, commit(c)
  PROVE  WindowInv'
<1> DEFINE Under(k, S) == {d \in S : key(d) = k}
<1>1. /\ stored' = stored \cup {c} /\ args' = args /\ c \notin stored
      /\ pc'[c] = "created" /\ \A d \in Calls \ {c} : pc'[d] = pc[d]
  BY DEF commit, GoTo, TypeOK, WindowInv
<1>2. /\ key(c) \in Keys
      /\ recGen'[key(c)] = recGen[key(c)] + 1
      /\ \A k \in Keys \ {key(c)} : recGen'[k] = recGen[k]
  BY KeyType DEF commit, TypeOK
<1>3. IsFiniteSet(stored')
  BY <1>1, FS_AddElement DEF WindowInv
<1>4. \A d \in stored' : pc'[d] = "created"
  BY <1>1 DEF WindowInv, TypeOK
<1>5. ASSUME NEW k \in Keys PROVE Cardinality(Under(k, stored')) = recGen'[k]
  <2>1. IsFiniteSet(Under(k, stored)) /\ Cardinality(Under(k, stored)) = recGen[k]
    <3>1. IsFiniteSet(Under(k, stored))
      BY FS_Subset DEF WindowInv
    <3> QED BY <3>1 DEF WindowInv, OneOperationPerWindow
  <2>2. CASE k = key(c)
    <3>1. Under(k, stored') = Under(k, stored) \cup {c} /\ c \notin Under(k, stored)
      BY <1>1, <2>2
    <3>2. Cardinality(Under(k, stored) \cup {c}) = Cardinality(Under(k, stored)) + 1
      BY <2>1, <3>1, FS_AddElement
    <3> QED BY <1>2, <2>1, <2>2, <3>1, <3>2
  <2>3. CASE k # key(c)
    <3>1. Under(k, stored') = Under(k, stored)
      BY <1>1, <2>3
    <3> QED BY <1>2, <2>1, <2>3, <3>1
  <2> QED BY <2>2, <2>3
<1>6. \A d \in Calls : key(d)' = key(d)
  BY <1>1 DEF key
<1>7. stored' \subseteq Calls
  BY <1>1 DEF TypeOK
<1>8. OneOperationPerWindow'
  <2>1. ASSUME NEW k \in Keys
        PROVE  {d \in stored' : key(d)' = k} = Under(k, stored')
    BY <1>6, <1>7
  <2> QED BY <1>5, <2>1 DEF OneOperationPerWindow
<1> QED BY <1>3, <1>4, <1>8 DEF WindowInv

\* Every step keeps the count.
LEMMA NextWindow == TypeOK /\ WindowInv /\ [Next]_vars => WindowInv'
<1> SUFFICES ASSUME TypeOK, WindowInv, [Next]_vars PROVE WindowInv'
  OBVIOUS
<1>1. ASSUME NEW c \in Calls, commit(c) PROVE WindowInv'
  BY <1>1, CommitWindow
<1>2. ASSUME NEW c \in Calls,
             \/ receive(c) \/ findActive(c) \/ beginTx(c) \/ insertOrFind(c)
             \/ resolveExistingOperation(c) \/ crash(c)
      PROVE  WindowInv'
  <2>1. UNCHANGED <<stored, recGen, args>>
    BY <1>2 DEF receive, findActive, beginTx, insertOrFind, resolveExistingOperation,
                crash, recVars
  <2>2. pc[c] # "created" /\ \A d \in Calls \ {c} : pc'[d] = pc[d]
    BY <1>2 DEF receive, findActive, beginTx, insertOrFind, resolveExistingOperation,
                crash, GoTo, Final, TypeOK
  <2> QED BY <2>1, <2>2, WindowFrame DEF TypeOK
<1>3. ASSUME NEW k \in Keys, expire(k) PROVE WindowInv'
  BY <1>3, WindowFrame DEF expire
<1>4. CASE UNCHANGED vars
  BY <1>4, WindowFrame DEF vars, recVars
<1> QED BY <1>1, <1>2, <1>3, <1>4 DEF Next, Step

\* The operations stored under a key are exactly as many as the windows opened
\* for it, for any number of racing calls, crashes and expiries: whoever loses
\* the race for a window leaves no operation behind.
THEOREM OnePerWindow == Spec => []OneOperationPerWindow
<1>1. Init => WindowInv
  <2> SUFFICES ASSUME Init PROVE WindowInv
    OBVIOUS
  <2>1. stored = {} /\ \A k \in Keys : recGen[k] = 0
    BY DEF Init
  <2>2. \A k \in Keys : {c \in stored : key(c) = k} = {}
    BY <2>1
  <2>3. IsFiniteSet({}) /\ Cardinality({}) = 0
    BY FS_EmptySet
  <2> QED BY <2>1, <2>2, <2>3 DEF WindowInv, OneOperationPerWindow
<1>2. WindowInv => OneOperationPerWindow
  BY DEF WindowInv
<1> QED BY <1>1, <1>2, NextWindow, TypeCorrect, PTL DEF Spec

-----------------------------------------------------------------------------
(* The contract. *)

\* An empty table is an empty contract.
LEMMA InitRefines == Init => Contract!Init
  BY DEF Init, Contract!Init

\* Every step of the protocol is a step of the contract or leaves it unchanged.
LEMMA StepRefines ==
  TypeOK /\ ProtocolInv /\ [Next]_vars => [Contract!Next]_(Contract!vars)
<1> SUFFICES ASSUME TypeOK, ProtocolInv, [Next]_vars PROVE [Contract!Next]_(Contract!vars)
  OBVIOUS
<1> USE DEF ProtocolInv
<1>1. ASSUME NEW c \in Calls,
             receive(c) \/ beginTx(c) \/ resolveExistingOperation(c) \/ crash(c)
      PROVE UNCHANGED Contract!vars
  BY <1>1 DEF receive, beginTx, resolveExistingOperation, crash, recVars, Contract!vars
<1>2. ASSUME NEW c \in Calls, NEW k \in Keys, recOp[k] # NoCall, bound[c] = NoCall,
             bound' = [bound EXCEPT ![c] = recOp[k]], UNCHANGED <<recOp, recExpired>>
      PROVE Contract!Next
  <2>1. Contract!Replay(c, k)
    BY <1>2 DEF Contract!Replay
  <2> QED BY <2>1 DEF Contract!Next
<1>3. ASSUME NEW c \in Calls, findActive(c) PROVE [Contract!Next]_(Contract!vars)
  <2>1. CASE recExpired[key(c)]
    BY <1>3, <2>1 DEF findActive, recVars, Contract!vars
  <2>2. CASE ~recExpired[key(c)]
    <3>1. key(c) \in Keys /\ recOp[key(c)] # NoCall /\ bound[c] = NoCall
      BY <1>3, <2>2, KeyType, LiveHasRecord, NoCallAssumption
      DEF findActive, RecordsLeadToOperations
    <3> QED BY <1>2, <1>3, <2>2, <3>1 DEF findActive, recVars
  <2> QED BY <2>1, <2>2
<1>4. ASSUME NEW c \in Calls, insertOrFind(c) PROVE [Contract!Next]_(Contract!vars)
  <2>1. CASE recGen[key(c)] <= expiredGen[c]
    BY <1>4, <2>1 DEF insertOrFind, Contract!vars
  <2>2. CASE ~(recGen[key(c)] <= expiredGen[c])
    <3>1. key(c) \in Keys /\ recGen[key(c)] > 0
      BY <2>2, KeyType DEF TypeOK
    <3>2. recOp[key(c)] # NoCall /\ bound[c] = NoCall
      BY <1>4, <3>1, LiveHasRecord, NoCallAssumption DEF insertOrFind, RecordsLeadToOperations
    <3> QED BY <1>2, <1>4, <2>2, <3>1, <3>2 DEF insertOrFind
  <2> QED BY <2>1, <2>2
<1>5. ASSUME NEW c \in Calls, commit(c) PROVE Contract!Next
  <2>0. PICK k \in Keys : k = key(c)
    BY KeyType
  <2>1. recExpired[k] /\ bound[c] = NoCall
    BY <1>5, <2>0 DEF commit, LockProtects, RecordsLeadToOperations
  <2>2. recExpired' = [recExpired EXCEPT ![k] = FALSE] /\ recExpired \in [Keys -> BOOLEAN]
    BY <1>5, <2>0 DEF commit, TypeOK
  <2>3. [j \in Keys |-> ~recExpired'[j]] = [[j \in Keys |-> ~recExpired[j]] EXCEPT ![k] = TRUE]
    BY <2>2
  <2>4. Contract!Create(c, k)
    BY <1>5, <2>0, <2>1, <2>3 DEF commit, Contract!Create
  <2> QED BY <2>4 DEF Contract!Next
<1>6. ASSUME NEW k \in Keys, expire(k) PROVE Contract!Next
  <2>1. [j \in Keys |-> ~recExpired'[j]] = [[j \in Keys |-> ~recExpired[j]] EXCEPT ![k] = FALSE]
    BY <1>6 DEF expire, TypeOK
  <2>2. Contract!Expire(k)
    BY <1>6, <2>1 DEF expire, Contract!Expire
  <2> QED BY <2>2 DEF Contract!Next
<1>7. CASE UNCHANGED vars
  BY <1>7 DEF vars, recVars, Contract!vars
<1> QED BY <1>1, <1>3, <1>4, <1>5, <1>6, <1>7 DEF Next, Step

\* The create protocol implements the idempotency contract: the operations a
\* key is bound to, seen without locks and transactions, change only as the
\* contract allows.
THEOREM ImplementsContract == Spec => ContractSpec
<1>1. Init => Contract!Init
  BY InitRefines
<1>2. TypeOK /\ ProtocolInv /\ [Next]_vars => [Contract!Next]_(Contract!vars)
  BY StepRefines
<1> QED BY <1>1, <1>2, ProtocolInvariant, PTL DEF Spec, ContractSpec, Contract!Spec
=============================================================================
