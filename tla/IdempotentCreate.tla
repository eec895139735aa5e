------------------------- MODULE IdempotentCreate --------------------------
(***************************************************************************)
(* Creation of an asynchronous operation under an idempotency key          *)
(* (packages/provisioning-orchestrator/src/actions/async-operation-create  *)
(* .mjs and repositories/idempotency-key-repo.mjs): concurrent calls with  *)
(* the same key race from an unlocked lookup to an INSERT ... ON CONFLICT  *)
(* inside a transaction.  A call creates at most one operation, so calls   *)
(* also name the operations.  A key stands for a (tenant_id,               *)
(* idempotency_key) pair.  The record's operation_type is copied from the  *)
(* operation it was inserted with, so it is read from the arguments of the *)
(* call that created it; params_hash only sets a response header and is    *)
(* left out.                                                               *)
(***************************************************************************)
EXTENDS Naturals, FiniteSets

CONSTANTS
    Keys, Calls, NoCall,
    Types     \* operation_type values

ASSUME NoCallAssumption == NoCall \notin Calls

VARIABLES
    \* idempotency_key_records, one row per key
    recOp,        \* operation_id; NoCall when there is no row
    recGen,       \* which of the successive records of the key this is; 0: no row
    recExpired,   \* expires_at <= NOW(); TRUE when there is no row
    holder,       \* the uncommitted transaction that wrote the row, or NoCall
    \* async_operations: committed rows inserted with a key
    stored,
    \* memory of the calls
    pc, args,
    expiredGen,   \* the newest record already expired at the transaction's NOW()
    bound         \* operation_id of the record the call acts on

recVars == <<recOp, recGen, recExpired, holder>>
vars == <<recVars, stored, pc, args, expiredGen, bound>>

Args == [key : Keys, type : Types]

Final == {"created", "replayed", "keyConflict", "notFound", "crashed"}
PCs == {"idle", "find", "begin", "insert", "commit", "resolve"} \cup Final

key(c) == args[c].key

GoTo(c, to) == pc' = [pc EXCEPT ![c] = to]

-----------------------------------------------------------------------------
Init ==
    /\ recOp = [k \in Keys |-> NoCall]
    /\ recGen = [k \in Keys |-> 0]
    /\ recExpired = [k \in Keys |-> TRUE]
    /\ holder = [k \in Keys |-> NoCall]
    /\ stored = {}
    /\ pc = [c \in Calls |-> "idle"]
    /\ args \in [Calls -> Args]
    /\ expiredGen = [c \in Calls |-> 0]
    /\ bound = [c \in Calls |-> NoCall]

\* The request arrives with a well formed key.
receive(c) ==
    /\ pc[c] = "idle"
    /\ GoTo(c, "find")
    /\ UNCHANGED <<recVars, stored, args, expiredGen, bound>>

\* SELECT ... WHERE expires_at > NOW(), outside any transaction.
findActive(c) ==
    /\ pc[c] = "find"
    /\ IF ~recExpired[key(c)]
       THEN bound' = [bound EXCEPT ![c] = recOp[key(c)]] /\ GoTo(c, "resolve")
       ELSE UNCHANGED bound /\ GoTo(c, "begin")
    /\ UNCHANGED <<recVars, stored, args, expiredGen>>

\* BEGIN: NOW() stays fixed for the whole transaction.
beginTx(c) ==
    /\ pc[c] = "begin"
    /\ expiredGen' = [expiredGen EXCEPT ![c] =
                        IF recExpired[key(c)] THEN recGen[key(c)] ELSE recGen[key(c)] - 1]
    /\ GoTo(c, "insert")
    /\ UNCHANGED <<recVars, stored, args, bound>>

\* Mutants: the INSERT does not wait for the row; DO UPDATE without its WHERE;
\* a loser that commits its operation instead of rolling it back.
insertOrFindUnlocked(c) ==
    /\ pc[c] = "insert"
    /\ recGen[key(c)] <= expiredGen[c]
    /\ holder' = [holder EXCEPT ![key(c)] = c]
    /\ GoTo(c, "commit")
    /\ UNCHANGED <<recOp, recGen, recExpired, stored, args, expiredGen, bound>>
insertOrFindOverwrites(c) ==
    /\ pc[c] = "insert"
    /\ holder[key(c)] = NoCall
    /\ holder' = [holder EXCEPT ![key(c)] = c]
    /\ GoTo(c, "commit")
    /\ UNCHANGED <<recOp, recGen, recExpired, stored, args, expiredGen, bound>>
insertOrFindKeepsLoser(c) ==
    /\ pc[c] = "insert"
    /\ holder[key(c)] = NoCall
    /\ IF recGen[key(c)] <= expiredGen[c]
       THEN /\ holder' = [holder EXCEPT ![key(c)] = c]
            /\ GoTo(c, "commit")
            /\ UNCHANGED <<bound, stored>>
       ELSE /\ bound' = [bound EXCEPT ![c] = recOp[key(c)]]
            /\ stored' = stored \cup {c}
            /\ GoTo(c, "resolve")
            /\ UNCHANGED holder
    /\ UNCHANGED <<recOp, recGen, recExpired, args, expiredGen>>

\* INSERT ... ON CONFLICT DO UPDATE ... WHERE expires_at <= NOW(): waits for an
\* uncommitted writer of the row; then either writes the row, or finds it
\* active, reads it and rolls the transaction (with its operation) back.
insertOrFind(c) ==
    /\ pc[c] = "insert"
    /\ holder[key(c)] = NoCall
    /\ IF recGen[key(c)] <= expiredGen[c]
       THEN /\ holder' = [holder EXCEPT ![key(c)] = c]
            /\ GoTo(c, "commit")
            /\ UNCHANGED bound
       ELSE /\ bound' = [bound EXCEPT ![c] = recOp[key(c)]]
            /\ GoTo(c, "resolve")
            /\ UNCHANGED holder
    /\ UNCHANGED <<recOp, recGen, recExpired, stored, args, expiredGen>>

\* Mutant: the record is committed without its operation.
commitRecordOnly(c) ==
    /\ pc[c] = "commit"
    /\ recOp' = [recOp EXCEPT ![key(c)] = c]
    /\ recGen' = [recGen EXCEPT ![key(c)] = @ + 1]
    /\ recExpired' = [recExpired EXCEPT ![key(c)] = FALSE]
    /\ holder' = [holder EXCEPT ![key(c)] = NoCall]
    /\ bound' = [bound EXCEPT ![c] = c]
    /\ GoTo(c, "created")
    /\ UNCHANGED <<stored, args, expiredGen>>

\* COMMIT makes the operation and its record visible together.
commit(c) ==
    /\ pc[c] = "commit"
    /\ recOp' = [recOp EXCEPT ![key(c)] = c]
    /\ recGen' = [recGen EXCEPT ![key(c)] = @ + 1]
    /\ recExpired' = [recExpired EXCEPT ![key(c)] = FALSE]
    /\ holder' = [holder EXCEPT ![key(c)] = NoCall]
    /\ stored' = stored \cup {c}
    /\ bound' = [bound EXCEPT ![c] = c]
    /\ GoTo(c, "created")
    /\ UNCHANGED <<args, expiredGen>>

\* resolveExistingOperation: 409 for another operation type, else the stored
\* operation is answered again.
resolveExistingOperation(c) ==
    /\ pc[c] = "resolve"
    /\ GoTo(c, IF args[bound[c]].type # args[c].type THEN "keyConflict"
               ELSE IF bound[c] \notin stored THEN "notFound"
               ELSE "replayed")
    /\ UNCHANGED <<recVars, stored, args, expiredGen, bound>>

\* Mutant: the lock of a dead transaction is never released.
crashKeepsLock(c) ==
    /\ pc[c] \notin Final \cup {"idle"}
    /\ GoTo(c, "crashed")
    /\ UNCHANGED <<recVars, stored, args, expiredGen, bound>>

\* The caller's process dies; the database rolls its transaction back.
crash(c) ==
    /\ pc[c] \notin Final \cup {"idle"}
    /\ holder' = [k \in Keys |-> IF holder[k] = c THEN NoCall ELSE holder[k]]
    /\ GoTo(c, "crashed")
    /\ UNCHANGED <<recOp, recGen, recExpired, stored, args, expiredGen, bound>>

\* The record's 48 hours are over.
expire(k) ==
    /\ ~recExpired[k]
    /\ recExpired' = [recExpired EXCEPT ![k] = TRUE]
    /\ UNCHANGED <<recOp, recGen, holder, stored, pc, args, expiredGen, bound>>

Step(c) ==
    \/ findActive(c)
    \/ beginTx(c)
    \/ insertOrFind(c)
    \/ commit(c)
    \/ resolveExistingOperation(c)

Next ==
    \/ \E c \in Calls : receive(c) \/ Step(c) \/ crash(c)
    \/ \E k \in Keys : expire(k)

Spec == Init /\ [][Next]_vars

\* A call that has arrived is run to its answer unless its process dies.
FairSpec == Spec /\ \A c \in Calls : WF_vars(Step(c))

-----------------------------------------------------------------------------
(* Properties. *)

\* Every column and every call's memory has its type.
TypeOK ==
    /\ recOp \in [Keys -> Calls \cup {NoCall}]
    /\ recGen \in [Keys -> Nat]
    /\ recExpired \in [Keys -> BOOLEAN]
    /\ holder \in [Keys -> Calls \cup {NoCall}]
    /\ stored \subseteq Calls
    /\ pc \in [Calls -> PCs]
    /\ args \in [Calls -> Args]
    /\ expiredGen \in [Calls -> Nat]
    /\ bound \in [Calls -> Calls \cup {NoCall}]

\* A record always leads to a committed operation with the same key, so a
\* replay never answers 404 and never answers another key's operation; and a
\* call is bound to nothing until its lookup, conflict or commit decides.
RecordsLeadToOperations ==
    /\ \A k \in Keys : recGen[k] > 0 => recOp[k] \in stored /\ key(recOp[k]) = k
    /\ \A k \in Keys : recGen[k] = 0 => recExpired[k]
    /\ \A c \in Calls : pc[c] # "notFound"
    /\ \A c \in Calls : pc[c] \in {"resolve", "replayed"}
                          => bound[c] \in stored /\ key(bound[c]) = key(c)
    /\ \A c \in Calls : pc[c] \in {"idle", "find", "begin", "insert", "commit"}
                          => bound[c] = NoCall

\* Row lock and clock: a transaction that has written the row but not committed
\* holds it alone, and the record it replaces stays expired until it commits.
LockProtects ==
    /\ \A c \in Calls : pc[c] = "commit" =>
          holder[key(c)] = c /\ recExpired[key(c)]
    /\ \A k \in Keys : holder[k] # NoCall =>
          holder[k] \in Calls /\ pc[holder[k]] = "commit" /\ key(holder[k]) = k

\* A transaction's clock is never ahead: records it takes for expired are.
ClockSound ==
    \A c \in Calls : pc[c] = "insert" =>
        \/ expiredGen[c] < recGen[key(c)]
        \/ expiredGen[c] = recGen[key(c)] /\ recExpired[key(c)]

\* One operation per window: the operations stored under a key are exactly as
\* many as the windows opened for it; the losers of a race leave no row behind.
OneOperationPerWindow ==
    \A k \in Keys : Cardinality({c \in stored : key(c) = k}) = recGen[k]

\* Every call that arrives is answered, or its process died.
EveryCallAnswered == \A c \in Calls : pc[c] = "find" ~> pc[c] \in Final

\* The protocol implements the contract of an idempotency key.
Contract == INSTANCE IdempotencyContract
              WITH latest <- recOp,
                   live <- [k \in Keys |-> ~recExpired[k]]
ContractSpec == Contract!Spec
=============================================================================
