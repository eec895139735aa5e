------------------------- MODULE SecretRotationProofs -------------------------
(***************************************************************************)
(* Proofs about SecretRotation for any number of rotations and revocations *)
(* and any bounds: types, which version decides, the order of versions,    *)
(* what can be read from Vault, and the absence of deadlock.               *)
(***************************************************************************)
EXTENDS SecretRotation, FiniteSetTheorems, WellFoundedInduction, TLAPS

\* The newest committed row; rows are numbered in the order of their commits.
Newest == Cardinality(Committed)
PrefixInv == Newest \in 0 .. MaxRows /\ Committed = 1 .. Newest

\* Where a rotation holds the lock of its old grace row, and of its active row.
HoldsGrace == {"pick", "to_grace", "insert", "write", "commit"}
HoldsActive == {"insert", "write", "commit"}

\* Only the newest row is active, and no older state of a row is the newest's.
RowInv ==
    /\ \A v \in Rows : state[v] = "active" => v = Newest
    /\ \A v \in Rows : state[v] \in {"grace", "expired"} => v < Newest

\* A rotation expires a row that is older than the one it moves to grace, which
\* is the order in which it takes their locks.
RotationRows(r) ==
    /\ rpc[r] = "expire" => rexp[r] # None
    /\ rpc[r] = "to_grace" => rgrace[r] # None
    /\ rpc[r] \in {"idle", "read_grace"} => rexp[r] = None
    /\ rpc[r] \in {"idle", "read_grace", "expire", "pick"} => rgrace[r] = None
    /\ rexp[r] # None => rexp[r] < Newest
    /\ rgrace[r] # None => rgrace[r] <= Newest
    /\ rexp[r] # None /\ rgrace[r] # None => rexp[r] < rgrace[r]

\* The uncommitted active row belongs to the rotation that writes Vault, and
\* the only committed one is that which it moves to grace.
SlotInv ==
    /\ \A r \in Rotators : rpc[r] \in {"write", "commit"} <=> slot = r
    /\ \A r \in Rotators : slot = r =>
         /\ \A v \in Rows : state[v] = "active" => v = rgrace[r]
         /\ Newest < MaxRows

RotationInv == \A r \in Rotators : RotationRows(r)

RevocationInv ==
    \A k \in Revokers : kpc[k] # "idle" => ktarget[k] # None /\ ktarget[k] <= Newest

\* The sweep never has the newest row in hand.
SweepInv ==
    /\ \A v \in swept : v < Newest
    /\ sdel # None => sdel < Newest

\* Vault numbers its versions upwards, a committed row names one of them or the
\* default 1, and
\* only versions of committed rows are deleted.
VaultInv ==
    /\ \A v \in Rows : v <= Newest => vault[v] \in 1 .. written
    /\ \A v, w \in Rows : v < w /\ w <= Newest =>
         vault[v] < vault[w] \/ vault[w] = 1
    /\ \A r \in Rotators : rpc[r] = "commit" =>
         /\ rver[r] \in 1 .. written
         /\ \A v \in Rows : v <= Newest => vault[v] < rver[r] \/ rver[r] = 1
    /\ \A x \in gone : \E v \in Rows : v <= Newest /\ x = vault[v]

\* A lock is held by a transaction in progress, for one of its rows.
LockInv ==
    /\ \A v \in Rows, r \in Rotators : lock[v] = r =>
         \/ v = rexp[r] /\ rpc[r] \in HoldsGrace
         \/ v = rgrace[r] /\ rpc[r] \in HoldsActive
    /\ \A v \in Rows, k \in Revokers : lock[v] = k =>
         v = ktarget[k] /\ kpc[k] \in {"delete", "commit"}

IInv ==
    /\ TypeOK /\ PrefixInv /\ RowInv /\ RotationInv /\ SlotInv /\ RevocationInv
    /\ SweepInv /\ VaultInv /\ ActiveReadable /\ LockInv

\* How far a transaction is from going on: whoever it waits for is nearer.
Rank(t) ==
    IF t \in Rotators
    THEN CASE rpc[t] = "expire" -> MaxRows + 4
           [] rpc[t] = "to_grace" -> MaxRows + 3 - rgrace[t]
           [] rpc[t] = "insert" -> IF With("active") \subseteq {rgrace[t]} THEN 1 ELSE 2
           [] OTHER -> 0
    ELSE IF kpc[t] = "revoke" THEN MaxRows + 4 ELSE 0

-----------------------------------------------------------------------------
(* Rows and their number.                                                  *)

\* The number of rows depends on their states alone.
LEMMA SameRows ==
  ASSUME UNCHANGED state
  PROVE  Newest' = Newest /\ Committed' = Committed
  BY DEF Newest, Committed

\* Rows and the newest of them are numbers within the bound.
LEMMA NewestFacts ==
  ASSUME TypeOK, PrefixInv
  PROVE  /\ MaxRows \in Nat /\ Newest \in Nat /\ Newest <= MaxRows
         /\ Rows = 1 .. MaxRows /\ None \notin Rows
         /\ \A v \in Rows : state[v] # "none" <=> v <= Newest
<1>1. Newest \in Nat /\ Newest <= MaxRows /\ Committed = 1 .. Newest /\ MaxRows \in Nat
  BY BoundsAssumption DEF PrefixInv
<1>2. \A v \in Rows : v \in Committed <=> v <= Newest
  BY <1>1 DEF Rows
<1>3. None \notin Rows
  BY NoneAssumption, <1>1 DEF Rows
<1> QED BY <1>1, <1>2, <1>3 DEF Committed, Rows

\* A change that creates and removes no row.
LEMMA SameNumber ==
  ASSUME \A v \in Rows : state'[v] = "none" <=> state[v] = "none"
  PROVE  Newest' = Newest /\ Committed' = Committed
  BY DEF Newest, Committed

\* The rows a commit leaves.
LEMMA CommitRows ==
  ASSUME TypeOK, PrefixInv, RotationInv, SlotInv, NEW r \in Rotators, Commit(r)
  PROVE  /\ Newest + 1 \in Rows /\ NewRow = Newest + 1 /\ Newest' = Newest + 1
         /\ Committed' = 1 .. Newest + 1
         /\ state'[Newest + 1] = "active" /\ state[Newest + 1] = "none"
         /\ rexp[r] # None => rexp[r] \in Rows /\ state'[rexp[r]] = "expired"
         /\ rgrace[r] # None => rgrace[r] \in Rows /\ state'[rgrace[r]] = "grace"
         /\ \A v \in Rows : v \notin {Newest + 1, rexp[r], rgrace[r]} => state'[v] = state[v]
<1>1. /\ slot = r /\ Newest < MaxRows /\ Newest \in Nat /\ MaxRows \in Nat
      /\ NewRow = Newest + 1 /\ Newest + 1 \in Rows /\ RotationRows(r)
      /\ rexp[r] \in Rows \cup {None} /\ rgrace[r] \in Rows \cup {None} /\ None \notin Rows
  BY NewestFacts DEF Commit, SlotInv, NewRow, Newest, RotationInv, TypeOK, Rows
<1>2. /\ rexp[r] # Newest + 1 /\ rgrace[r] # Newest + 1
      /\ rexp[r] # None => rexp[r] # rgrace[r]
  BY <1>1 DEF RotationRows, Rows
<1>3. ASSUME NEW v \in Rows
      PROVE  /\ v = Newest + 1 => state'[v] = "active"
             /\ v = rexp[r] => state'[v] = "expired"
             /\ v = rgrace[r] => state'[v] = "grace"
             /\ v \notin {Newest + 1, rexp[r], rgrace[r]} => state'[v] = state[v]
  BY <1>1, <1>2 DEF Commit
<1>4. state[Newest + 1] = "none"
  BY <1>1, NewestFacts
<1>5. Committed' = 1 .. Newest + 1
  <2>1. \A v \in Rows : state'[v] # "none" <=> v <= Newest + 1
    BY <1>1, <1>2, <1>3, NewestFacts DEF RotationRows
  <2> QED BY <1>1, <2>1 DEF Committed, Rows
<1>6. Newest' = Newest + 1
  <2>1. Cardinality(1 .. Newest + 1) = IF 1 > Newest + 1 THEN 0 ELSE (Newest + 1) - 1 + 1
    BY <1>1, FS_Interval, 1 \in Int, Newest + 1 \in Int
  <2> HIDE DEF Newest
  <2>2. Cardinality(1 .. Newest + 1) = Newest + 1
    BY <1>1, <2>1
  <2> QED BY <1>5, <2>2 DEF Newest
<1> QED BY <1>1, <1>3, <1>4, <1>5, <1>6

(* Types.                                                                  *)

LEMMA UnlockedType ==
  ASSUME TypeOK, NEW t, lock' = Unlocked(t)
  PROVE  lock' \in [Rows -> Txs \cup {None}]
  BY DEF TypeOK, Unlocked

\* A rotation that ends leaves well typed memory.
LEMMA EndRotationType ==
  ASSUME TypeOK, NEW r \in Rotators, EndRotation(r)
  PROVE  /\ rpc' \in [Rotators -> RotatorPCs]
         /\ rprev' \in [Rotators -> Rows \cup {None}]
         /\ rexp' \in [Rotators -> Rows \cup {None}]
         /\ rgrace' \in [Rotators -> Rows \cup {None}]
         /\ rver' \in [Rotators -> 0 .. MaxWrites]
<1>1. rpc' \in [Rotators -> RotatorPCs]
  BY DEF TypeOK, EndRotation, RotatorPCs
<1>2. /\ rprev' \in [Rotators -> Rows \cup {None}]
      /\ rexp' \in [Rotators -> Rows \cup {None}]
      /\ rgrace' \in [Rotators -> Rows \cup {None}]
  BY DEF TypeOK, EndRotation
<1>3. rver' \in [Rotators -> 0 .. MaxWrites]
  BY BoundsAssumption DEF TypeOK, EndRotation
<1> QED BY <1>1, <1>2, <1>3

\* A revocation that ends leaves well typed memory.
LEMMA EndRevocationType ==
  ASSUME TypeOK, NEW k \in Revokers, EndRevocation(k)
  PROVE  /\ kpc' \in [Revokers -> RevokerPCs]
         /\ ktarget' \in [Revokers -> Rows \cup {None}]
         /\ kforce' \in [Revokers -> BOOLEAN]
         /\ kactive' \in [Revokers -> Rows \cup {None}]
  BY DEF TypeOK, EndRevocation, RevokerPCs

\* So does a rotation that rolls back.
LEMMA RollbackType ==
  ASSUME TypeOK, NEW r \in Rotators, RollbackTx(r),
         UNCHANGED <<dbVars, gone, cut, revVars, sweepVars>>, written' \in 0 .. MaxWrites
  PROVE  TypeOK'
<1>1. slot' \in Rotators \cup {None}
  BY DEF RollbackTx, TypeOK
<1>2. lock' \in [Rows -> Txs \cup {None}]
  BY UnlockedType DEF RollbackTx
<1>3. EndRotation(r)
  BY DEF RollbackTx
<1> QED BY <1>1, <1>2, <1>3, EndRotationType DEF TypeOK, dbVars, revVars, sweepVars

\* Types are kept by every step.
LEMMA TypeStep ==
  ASSUME TypeOK, PrefixInv, RotationInv, SlotInv, RevocationInv, SweepInv, VaultInv,
         [Next]_vars
  PROVE  TypeOK'
<1> USE NewestFacts, NoneAssumption, BoundsAssumption DEF TypeOK, RotationInv,
        RotationRows, RevocationInv, SweepInv, VaultInv, States, RotatorPCs,
        RevokerPCs, dbVars, lockVars, vaultVars, rotVars, revVars, sweepVars
<1>1. ASSUME NEW r \in Rotators, NEW v \in Rows \cup {None}, ReadActive(r, v)
      PROVE  TypeOK'
  BY <1>1 DEF ReadActive, FirstOf, With
<1>2. ASSUME NEW r \in Rotators, NEW v \in Rows \cup {None}, ReadGrace(r, v)
      PROVE  TypeOK'
  BY <1>2 DEF ReadGrace, FirstOf, With
<1>3. ASSUME NEW r \in Rotators, ExpireGrace(r)
      PROVE  TypeOK'
  BY <1>3 DEF ExpireGrace, Txs
<1>4. ASSUME NEW r \in Rotators, PickActive(r)
      PROVE  TypeOK'
  <2>1. rpc' \in [Rotators -> RotatorPCs]
    BY <1>4 DEF PickActive
  <2>2. rgrace' \in [Rotators -> Rows \cup {None}]
    <3>1. CASE UNCHANGED rgrace
      BY <3>1
    <3>2. CASE \E v \in With("active") : rgrace' = [rgrace EXCEPT ![r] = v]
      <4>1. PICK v \in Rows : rgrace' = [rgrace EXCEPT ![r] = v]
        BY <3>2 DEF With
      <4> QED BY <4>1
    <3> QED BY <1>4, <3>1, <3>2 DEF PickActive
  <2> QED BY <1>4, <2>1, <2>2 DEF PickActive
<1>5. ASSUME NEW r \in Rotators, TransitionToGrace(r)
      PROVE  TypeOK'
  BY <1>5 DEF TransitionToGrace, Txs
<1>6. ASSUME NEW r \in Rotators, InsertVersion(r)
      PROVE  TypeOK'
  BY <1>6 DEF InsertVersion, With
<1>7. ASSUME NEW r \in Rotators, InsertRefused(r)
      PROVE  TypeOK'
  BY <1>7, RollbackType DEF InsertRefused, vaultVars, TypeOK
<1>8. ASSUME NEW r \in Rotators, WriteSecret(r)
      PROVE  TypeOK'
  <2>1. written' \in 0 .. MaxWrites
    BY <1>8 DEF WriteSecret
  <2>2. rver' \in [Rotators -> 0 .. MaxWrites]
    <3>1. 1 \in 0 .. MaxWrites /\ written + 1 \in 0 .. MaxWrites
      BY <1>8 DEF WriteSecret
    <3> QED BY <1>8, <3>1 DEF WriteSecret, AnsweredVersions
  <2>3. rpc' \in [Rotators -> RotatorPCs]
    BY <1>8 DEF WriteSecret
  <2> QED BY <1>8, <2>1, <2>2, <2>3 DEF WriteSecret
<1>9. ASSUME NEW r \in Rotators, WriteRefused(r)
      PROVE  TypeOK'
  BY <1>9, RollbackType DEF WriteRefused, vaultVars, TypeOK
<1>10. ASSUME NEW r \in Rotators, Commit(r)
      PROVE  TypeOK'
  <2>1. state' \in [Rows -> States]
    <3>1. \A v \in Rows : state'[v] \in States
      <4> SUFFICES ASSUME NEW v \in Rows PROVE state'[v] \in States
        OBVIOUS
      <4> QED BY <1>10 DEF Commit
    <3> QED BY <1>10, <3>1 DEF Commit
  <2>2. vault' \in [Rows -> 0 .. MaxWrites]
    BY <1>10 DEF Commit
  <2>3. due' \in [Rows -> BOOLEAN]
    BY <1>10 DEF Commit
  <2>4. lock' \in [Rows -> Txs \cup {None}]
    BY <1>10, UnlockedType DEF Commit
  <2>5. EndRotation(r) /\ slot' = None /\ UNCHANGED <<vaultVars, revVars, sweepVars>>
    BY <1>10 DEF Commit
  <2> QED BY <2>1, <2>2, <2>3, <2>4, <2>5, EndRotationType
<1>11. ASSUME NEW r \in Rotators, Rollback(r)
      PROVE  TypeOK'
  BY <1>11, RollbackType DEF Rollback, vaultVars, TypeOK
<1>12. ASSUME NEW r \in Rotators, WriteUnanswered(r)
      PROVE  TypeOK'
  <2>1. written + 1 \in 0 .. MaxWrites
    BY <1>12 DEF WriteUnanswered
  <2> HIDE DEF TypeOK
  <2> QED BY <1>12, <2>1, RollbackType DEF WriteUnanswered
<1>13. ASSUME NEW k \in Revokers, NEW v \in Rows, ReadTarget(k, v)
      PROVE  TypeOK'
  BY <1>13 DEF ReadTarget
<1>14. ASSUME NEW k \in Revokers, NEW v \in Rows \cup {None}, RevokeReadActive(k, v)
      PROVE  TypeOK'
  BY <1>14 DEF RevokeReadActive, FirstOf, With
<1>15. ASSUME NEW k \in Revokers, NEW v \in Rows \cup {None}, RevokeReadGrace(k, v)
      PROVE  TypeOK'
  <2>1. CASE ~EndRevocation(k)
    BY <1>15, <2>1 DEF RevokeReadGrace
  <2>2. CASE EndRevocation(k)
    BY <1>15, <2>2, EndRevocationType DEF RevokeReadGrace
  <2> QED BY <2>1, <2>2
<1>16. ASSUME NEW k \in Revokers, RevokeVersion(k)
      PROVE  TypeOK'
  BY <1>16 DEF RevokeVersion, Txs
<1>17. ASSUME NEW k \in Revokers, DeleteVersion(k)
      PROVE  TypeOK'
  <2>1. ktarget[k] \in Rows /\ ktarget[k] <= Newest
    BY <1>17 DEF DeleteVersion
  <2>2. vault[ktarget[k]] \in 1 .. MaxWrites
    BY <2>1
  <2>3. kpc' \in [Revokers -> RevokerPCs]
    BY <1>17 DEF DeleteVersion
  <2>4. gone' \subseteq 1 .. MaxWrites /\ cut' \subseteq Rows
    BY <1>17, <2>1, <2>2 DEF DeleteVersion
  <2> QED BY <1>17, <2>3, <2>4 DEF DeleteVersion
<1>18. ASSUME NEW k \in Revokers, CommitRevoke(k)
      PROVE  TypeOK'
  <2>1. lock' \in [Rows -> Txs \cup {None}]
    BY <1>18, UnlockedType DEF CommitRevoke
  <2>2. state' \in [Rows -> States]
    BY <1>18 DEF CommitRevoke
  <2> QED BY <1>18, <2>1, <2>2, EndRevocationType DEF CommitRevoke
<1>19. ASSUME NEW k \in Revokers, RollbackRevoke(k)
      PROVE  TypeOK'
  <2>1. lock' \in [Rows -> Txs \cup {None}]
    BY <1>19, UnlockedType DEF RollbackRevoke
  <2> QED BY <1>19, <2>1, EndRevocationType DEF RollbackRevoke
<1>20. CASE ListExpired
  BY <1>20 DEF ListExpired, With
<1>21. ASSUME NEW v \in Rows, SweepExpire(v)
      PROVE  TypeOK'
  BY <1>21 DEF SweepExpire
<1>22. CASE SweepDelete
  <2>1. sdel \in Rows /\ sdel <= Newest
    BY <1>22 DEF SweepDelete
  <2>2. vault[sdel] \in 1 .. MaxWrites
    BY <2>1
  <2>4. gone' \subseteq 1 .. MaxWrites
    BY <1>22, <2>2 DEF SweepDelete
  <2> QED BY <1>22, <2>4 DEF SweepDelete
<1>23. CASE SweepDeleteFails
  BY <1>23 DEF SweepDeleteFails
<1>24. CASE SweepStops
  BY <1>24 DEF SweepStops
<1>25. ASSUME NEW v \in Rows, GraceElapses(v)
      PROVE  TypeOK'
  BY <1>25 DEF GraceElapses
<1>26. CASE UNCHANGED vars
  BY <1>26 DEF vars
<1> HIDE DEF TypeOK, PrefixInv, RotationInv, SlotInv, RevocationInv, SweepInv, VaultInv
<1> QED
  BY <1>1, <1>2, <1>3, <1>4, <1>5, <1>6, <1>7, <1>8, <1>9, <1>10, <1>11,
     <1>12, <1>13, <1>14, <1>15, <1>16, <1>17, <1>18, <1>19, <1>20, <1>21,
     <1>22, <1>23, <1>24, <1>25, <1>26 DEF Next, RotatorStep, RevokerStep,
     SweepStep, Failure

(* Rows.                                                                   *)

\* The rows the commit of a revocation leaves.
LEMMA RevokeRows ==
  ASSUME TypeOK, PrefixInv, RevocationInv, NEW k \in Revokers, CommitRevoke(k)
  PROVE  /\ Newest' = Newest /\ Committed' = Committed /\ ktarget[k] \in Rows
         /\ state'[ktarget[k]] = "revoked"
         /\ \A v \in Rows : v # ktarget[k] => state'[v] = state[v]
<1>1. ktarget[k] \in Rows /\ ktarget[k] <= Newest
  BY DEF CommitRevoke, RevocationInv, TypeOK
<1>2. /\ state'[ktarget[k]] = "revoked"
      /\ \A v \in Rows : v # ktarget[k] => state'[v] = state[v]
  BY <1>1 DEF CommitRevoke, TypeOK
<1>3. state[ktarget[k]] # "none"
  BY <1>1, NewestFacts
<1> QED BY <1>1, <1>2, <1>3, SameNumber

\* The rows the sweep leaves.
LEMMA SweepRows ==
  ASSUME TypeOK, PrefixInv, SweepInv, NEW u \in Rows, SweepExpire(u)
  PROVE  /\ Newest' = Newest /\ Committed' = Committed /\ u < Newest
         /\ state'[u] = "expired"
         /\ \A v \in Rows : v # u => state'[v] = state[v]
<1>1. u < Newest
  BY DEF SweepExpire, SweepInv
<1>2. state'[u] = "expired" /\ \A v \in Rows : v # u => state'[v] = state[v]
  BY DEF SweepExpire, TypeOK
<1>3. state[u] # "none"
  BY <1>1, NewestFacts DEF Rows
<1> QED BY <1>1, <1>2, <1>3, SameNumber

\* Rows are committed one after the other, without a gap.
LEMMA PrefixStep ==
  ASSUME TypeOK, PrefixInv, RotationInv, SlotInv, RevocationInv, SweepInv,
         [Next]_vars
  PROVE  PrefixInv'
<1> USE NewestFacts DEF PrefixInv, dbVars, lockVars, vaultVars, rotVars, revVars,
        sweepVars
<1>1. ASSUME NEW r \in Rotators, NEW v \in Rows \cup {None}, ReadActive(r, v)
      PROVE  PrefixInv'
  BY <1>1, SameRows DEF ReadActive, FirstOf, With
<1>2. ASSUME NEW r \in Rotators, NEW v \in Rows \cup {None}, ReadGrace(r, v)
      PROVE  PrefixInv'
  BY <1>2, SameRows DEF ReadGrace, FirstOf, With
<1>3. ASSUME NEW r \in Rotators, ExpireGrace(r)
      PROVE  PrefixInv'
  BY <1>3, SameRows DEF ExpireGrace
<1>4. ASSUME NEW r \in Rotators, PickActive(r)
      PROVE  PrefixInv'
  BY <1>4, SameRows DEF PickActive, With
<1>5. ASSUME NEW r \in Rotators, TransitionToGrace(r)
      PROVE  PrefixInv'
  BY <1>5, SameRows DEF TransitionToGrace
<1>6. ASSUME NEW r \in Rotators, InsertVersion(r)
      PROVE  PrefixInv'
  BY <1>6, SameRows DEF InsertVersion, With
<1>7. ASSUME NEW r \in Rotators, InsertRefused(r)
      PROVE  PrefixInv'
  BY <1>7, SameRows DEF InsertRefused, RollbackTx, EndRotation, Unlocked
<1>8. ASSUME NEW r \in Rotators, WriteSecret(r)
      PROVE  PrefixInv'
  BY <1>8, SameRows DEF WriteSecret
<1>9. ASSUME NEW r \in Rotators, WriteRefused(r)
      PROVE  PrefixInv'
  BY <1>9, SameRows DEF WriteRefused, RollbackTx, EndRotation, Unlocked
<1>10. ASSUME NEW r \in Rotators, Commit(r)
      PROVE  PrefixInv'
  BY <1>10, CommitRows
<1>11. ASSUME NEW r \in Rotators, Rollback(r)
      PROVE  PrefixInv'
  BY <1>11, SameRows DEF Rollback, RollbackTx, EndRotation, Unlocked
<1>12. ASSUME NEW r \in Rotators, WriteUnanswered(r)
      PROVE  PrefixInv'
  BY <1>12, SameRows DEF WriteUnanswered, RollbackTx, EndRotation, Unlocked
<1>13. ASSUME NEW k \in Revokers, NEW v \in Rows, ReadTarget(k, v)
      PROVE  PrefixInv'
  BY <1>13, SameRows DEF ReadTarget
<1>14. ASSUME NEW k \in Revokers, NEW v \in Rows \cup {None}, RevokeReadActive(k, v)
      PROVE  PrefixInv'
  BY <1>14, SameRows DEF RevokeReadActive, FirstOf, With
<1>15. ASSUME NEW k \in Revokers, NEW v \in Rows \cup {None}, RevokeReadGrace(k, v)
      PROVE  PrefixInv'
  BY <1>15, SameRows DEF RevokeReadGrace, EndRevocation
<1>16. ASSUME NEW k \in Revokers, RevokeVersion(k)
      PROVE  PrefixInv'
  BY <1>16, SameRows DEF RevokeVersion
<1>17. ASSUME NEW k \in Revokers, DeleteVersion(k)
      PROVE  PrefixInv'
  BY <1>17, SameRows DEF DeleteVersion
<1>18. ASSUME NEW k \in Revokers, CommitRevoke(k)
      PROVE  PrefixInv'
  BY <1>18, RevokeRows
<1>19. ASSUME NEW k \in Revokers, RollbackRevoke(k)
      PROVE  PrefixInv'
  BY <1>19, SameRows DEF RollbackRevoke, EndRevocation, Unlocked
<1>20. CASE ListExpired
  BY <1>20, SameRows DEF ListExpired, With
<1>21. ASSUME NEW v \in Rows, SweepExpire(v)
      PROVE  PrefixInv'
  BY <1>21, SweepRows
<1>22. CASE SweepDelete
  BY <1>22, SameRows DEF SweepDelete
<1>23. CASE SweepDeleteFails
  BY <1>23, SameRows DEF SweepDeleteFails
<1>24. CASE SweepStops
  BY <1>24, SameRows DEF SweepStops
<1>25. ASSUME NEW v \in Rows, GraceElapses(v)
      PROVE  PrefixInv'
  BY <1>25, SameRows DEF GraceElapses
<1>26. CASE UNCHANGED vars
  BY <1>26, SameRows DEF vars
<1> HIDE DEF TypeOK, PrefixInv, RotationInv, SlotInv, RevocationInv, SweepInv
<1> QED
  BY <1>1, <1>2, <1>3, <1>4, <1>5, <1>6, <1>7, <1>8, <1>9, <1>10, <1>11,
     <1>12, <1>13, <1>14, <1>15, <1>16, <1>17, <1>18, <1>19, <1>20, <1>21,
     <1>22, <1>23, <1>24, <1>25, <1>26 DEF Next, RotatorStep, RevokerStep,
     SweepStep, Failure

\* Only a commit makes a row active, and it is then the newest.
LEMMA RowStep ==
  ASSUME TypeOK, PrefixInv, RowInv, RotationInv, SlotInv, RevocationInv, SweepInv,
         [Next]_vars
  PROVE  RowInv'
<1> USE NewestFacts DEF RowInv, Rows, dbVars, lockVars, vaultVars, rotVars, revVars,
        sweepVars
<1>1. ASSUME NEW r \in Rotators, NEW v \in Rows \cup {None}, ReadActive(r, v)
      PROVE  RowInv'
  BY <1>1, SameRows DEF ReadActive, FirstOf, With
<1>2. ASSUME NEW r \in Rotators, NEW v \in Rows \cup {None}, ReadGrace(r, v)
      PROVE  RowInv'
  BY <1>2, SameRows DEF ReadGrace, FirstOf, With
<1>3. ASSUME NEW r \in Rotators, ExpireGrace(r)
      PROVE  RowInv'
  BY <1>3, SameRows DEF ExpireGrace
<1>4. ASSUME NEW r \in Rotators, PickActive(r)
      PROVE  RowInv'
  BY <1>4, SameRows DEF PickActive, With
<1>5. ASSUME NEW r \in Rotators, TransitionToGrace(r)
      PROVE  RowInv'
  BY <1>5, SameRows DEF TransitionToGrace
<1>6. ASSUME NEW r \in Rotators, InsertVersion(r)
      PROVE  RowInv'
  BY <1>6, SameRows DEF InsertVersion, With
<1>7. ASSUME NEW r \in Rotators, InsertRefused(r)
      PROVE  RowInv'
  BY <1>7, SameRows DEF InsertRefused, RollbackTx, EndRotation, Unlocked
<1>8. ASSUME NEW r \in Rotators, WriteSecret(r)
      PROVE  RowInv'
  BY <1>8, SameRows DEF WriteSecret
<1>9. ASSUME NEW r \in Rotators, WriteRefused(r)
      PROVE  RowInv'
  BY <1>9, SameRows DEF WriteRefused, RollbackTx, EndRotation, Unlocked
<1>10. ASSUME NEW r \in Rotators, Commit(r)
      PROVE  RowInv'
  <2> HIDE DEF RowInv
  <2>1. /\ Newest' = Newest + 1 /\ Newest \in Nat
        /\ rexp[r] # None => rexp[r] \in Rows /\ state'[rexp[r]] = "expired"
        /\ rgrace[r] # None => rgrace[r] \in Rows /\ state'[rgrace[r]] = "grace"
        /\ \A v \in Rows : v \notin {Newest + 1, rexp[r], rgrace[r]} => state'[v] = state[v]
        /\ state'[Newest + 1] = "active"
    BY <1>10, CommitRows
  <2>2. slot = r /\ RotationRows(r)
    BY <1>10 DEF SlotInv, RotationInv, Commit
  <2>3. \A v \in Rows : state[v] = "active" => v = rgrace[r]
    BY <2>2 DEF SlotInv
  <2>4. ASSUME NEW v \in Rows PROVE state'[v] = "active" => v = Newest'
    BY <2>1, <2>3
  <2>5. ASSUME NEW v \in Rows PROVE state'[v] \in {"grace", "expired"} => v < Newest'
    <3>1. CASE v = Newest + 1
      BY <3>1, <2>1
    <3>2. CASE v = rexp[r] \/ v = rgrace[r]
      BY <3>2, <2>1, <2>2, NewestFacts DEF RotationRows
    <3>3. CASE v \notin {Newest + 1, rexp[r], rgrace[r]}
      BY <3>3, <2>1 DEF RowInv
    <3> QED BY <3>1, <3>2, <3>3
  <2> QED BY <2>4, <2>5 DEF RowInv
<1>11. ASSUME NEW r \in Rotators, Rollback(r)
      PROVE  RowInv'
  BY <1>11, SameRows DEF Rollback, RollbackTx, EndRotation, Unlocked
<1>12. ASSUME NEW r \in Rotators, WriteUnanswered(r)
      PROVE  RowInv'
  BY <1>12, SameRows DEF WriteUnanswered, RollbackTx, EndRotation, Unlocked
<1>13. ASSUME NEW k \in Revokers, NEW v \in Rows, ReadTarget(k, v)
      PROVE  RowInv'
  BY <1>13, SameRows DEF ReadTarget
<1>14. ASSUME NEW k \in Revokers, NEW v \in Rows \cup {None}, RevokeReadActive(k, v)
      PROVE  RowInv'
  BY <1>14, SameRows DEF RevokeReadActive, FirstOf, With
<1>15. ASSUME NEW k \in Revokers, NEW v \in Rows \cup {None}, RevokeReadGrace(k, v)
      PROVE  RowInv'
  BY <1>15, SameRows DEF RevokeReadGrace, EndRevocation
<1>16. ASSUME NEW k \in Revokers, RevokeVersion(k)
      PROVE  RowInv'
  BY <1>16, SameRows DEF RevokeVersion
<1>17. ASSUME NEW k \in Revokers, DeleteVersion(k)
      PROVE  RowInv'
  BY <1>17, SameRows DEF DeleteVersion
<1>18. ASSUME NEW k \in Revokers, CommitRevoke(k)
      PROVE  RowInv'
  BY <1>18, RevokeRows
<1>19. ASSUME NEW k \in Revokers, RollbackRevoke(k)
      PROVE  RowInv'
  BY <1>19, SameRows DEF RollbackRevoke, EndRevocation, Unlocked
<1>20. CASE ListExpired
  BY <1>20, SameRows DEF ListExpired, With
<1>21. ASSUME NEW v \in Rows, SweepExpire(v)
      PROVE  RowInv'
  BY <1>21, SweepRows
<1>22. CASE SweepDelete
  BY <1>22, SameRows DEF SweepDelete
<1>23. CASE SweepDeleteFails
  BY <1>23, SameRows DEF SweepDeleteFails
<1>24. CASE SweepStops
  BY <1>24, SameRows DEF SweepStops
<1>25. ASSUME NEW v \in Rows, GraceElapses(v)
      PROVE  RowInv'
  BY <1>25, SameRows DEF GraceElapses
<1>26. CASE UNCHANGED vars
  BY <1>26, SameRows DEF vars
<1> HIDE DEF TypeOK, PrefixInv, RowInv, RotationInv, SlotInv, RevocationInv, SweepInv
<1> QED
  BY <1>1, <1>2, <1>3, <1>4, <1>5, <1>6, <1>7, <1>8, <1>9, <1>10, <1>11,
     <1>12, <1>13, <1>14, <1>15, <1>16, <1>17, <1>18, <1>19, <1>20, <1>21,
     <1>22, <1>23, <1>24, <1>25, <1>26 DEF Next, RotatorStep, RevokerStep,
     SweepStep, Failure

\* A rotation keeps hold of rows in the order of their age.
LEMMA RotationStep ==
  ASSUME TypeOK, PrefixInv, RowInv, RotationInv, SlotInv, RevocationInv, SweepInv,
         [Next]_vars
  PROVE  RotationInv'
<1> USE NewestFacts DEF TypeOK, RowInv, RotationInv, RotationRows, Rows, dbVars,
        lockVars, vaultVars, rotVars, revVars, sweepVars
<1>1. ASSUME NEW r \in Rotators, NEW v \in Rows \cup {None}, ReadActive(r, v)
      PROVE  RotationInv'
  BY <1>1, SameRows DEF ReadActive, FirstOf, With
<1>2. ASSUME NEW r \in Rotators, NEW v \in Rows \cup {None}, ReadGrace(r, v)
      PROVE  RotationInv'
  BY <1>2, SameRows DEF ReadGrace, FirstOf, With
<1>3. ASSUME NEW r \in Rotators, ExpireGrace(r)
      PROVE  RotationInv'
  BY <1>3, SameRows DEF ExpireGrace
<1>4. ASSUME NEW r \in Rotators, PickActive(r)
      PROVE  RotationInv'
  <2>0. Newest' = Newest /\ UNCHANGED <<state, rexp>>
    BY <1>4, SameRows DEF PickActive
  <2>1. \A q \in Rotators : q # r => RotationRows(q)'
    BY <1>4, <2>0 DEF PickActive
  <2>2. RotationRows(r)'
    <3>1. CASE rpc' = [rpc EXCEPT ![r] = "insert"] /\ UNCHANGED rgrace
      BY <1>4, <2>0, <3>1 DEF PickActive
    <3>2. CASE /\ \E v \in With("active") : rgrace' = [rgrace EXCEPT ![r] = v]
               /\ rpc' = [rpc EXCEPT ![r] = "to_grace"]
      <4>1. PICK v \in Rows : state[v] = "active" /\ rgrace' = [rgrace EXCEPT ![r] = v]
        BY <3>2 DEF With
      <4>2. rgrace'[r] = Newest /\ rpc'[r] = "to_grace" /\ rexp'[r] = rexp[r]
        BY <2>0, <4>1, <3>2
      <4> QED BY <1>4, <2>0, <4>1, <4>2 DEF PickActive
    <3> QED BY <1>4, <3>1, <3>2 DEF PickActive
  <2> QED BY <2>1, <2>2
<1>5. ASSUME NEW r \in Rotators, TransitionToGrace(r)
      PROVE  RotationInv'
  BY <1>5, SameRows DEF TransitionToGrace
<1>6. ASSUME NEW r \in Rotators, InsertVersion(r)
      PROVE  RotationInv'
  BY <1>6, SameRows DEF InsertVersion, With
<1>7. ASSUME NEW r \in Rotators, InsertRefused(r)
      PROVE  RotationInv'
  BY <1>7, SameRows DEF InsertRefused, RollbackTx, EndRotation, Unlocked
<1>8. ASSUME NEW r \in Rotators, WriteSecret(r)
      PROVE  RotationInv'
  BY <1>8, SameRows DEF WriteSecret
<1>9. ASSUME NEW r \in Rotators, WriteRefused(r)
      PROVE  RotationInv'
  BY <1>9, SameRows DEF WriteRefused, RollbackTx, EndRotation, Unlocked
<1>10. ASSUME NEW r \in Rotators, Commit(r)
      PROVE  RotationInv'
  <2> HIDE DEF TypeOK, RowInv, RotationInv, RotationRows, Rows
  <2>1. Newest' = Newest + 1 /\ Newest \in Nat
    BY <1>10, CommitRows
  <2> QED BY <1>10, <2>1 DEF Commit, EndRotation, TypeOK, RowInv, RotationInv, RotationRows, Rows
<1>11. ASSUME NEW r \in Rotators, Rollback(r)
      PROVE  RotationInv'
  BY <1>11, SameRows DEF Rollback, RollbackTx, EndRotation, Unlocked
<1>12. ASSUME NEW r \in Rotators, WriteUnanswered(r)
      PROVE  RotationInv'
  BY <1>12, SameRows DEF WriteUnanswered, RollbackTx, EndRotation, Unlocked
<1>13. ASSUME NEW k \in Revokers, NEW v \in Rows, ReadTarget(k, v)
      PROVE  RotationInv'
  BY <1>13, SameRows DEF ReadTarget
<1>14. ASSUME NEW k \in Revokers, NEW v \in Rows \cup {None}, RevokeReadActive(k, v)
      PROVE  RotationInv'
  BY <1>14, SameRows DEF RevokeReadActive, FirstOf, With
<1>15. ASSUME NEW k \in Revokers, NEW v \in Rows \cup {None}, RevokeReadGrace(k, v)
      PROVE  RotationInv'
  BY <1>15, SameRows DEF RevokeReadGrace, EndRevocation
<1>16. ASSUME NEW k \in Revokers, RevokeVersion(k)
      PROVE  RotationInv'
  BY <1>16, SameRows DEF RevokeVersion
<1>17. ASSUME NEW k \in Revokers, DeleteVersion(k)
      PROVE  RotationInv'
  BY <1>17, SameRows DEF DeleteVersion
<1>18. ASSUME NEW k \in Revokers, CommitRevoke(k)
      PROVE  RotationInv'
  <2> HIDE DEF TypeOK, RowInv, RotationInv, RotationRows, Rows
  <2>1. Newest' = Newest
    BY <1>18, RevokeRows
  <2> QED BY <1>18, <2>1 DEF CommitRevoke, TypeOK, RowInv, RotationInv, RotationRows, Rows
<1>19. ASSUME NEW k \in Revokers, RollbackRevoke(k)
      PROVE  RotationInv'
  BY <1>19, SameRows DEF RollbackRevoke, EndRevocation, Unlocked
<1>20. CASE ListExpired
  BY <1>20, SameRows DEF ListExpired, With
<1>21. ASSUME NEW v \in Rows, SweepExpire(v)
      PROVE  RotationInv'
  <2> HIDE DEF TypeOK, RowInv, RotationInv, RotationRows, Rows
  <2>1. Newest' = Newest
    BY <1>21, SweepRows
  <2> QED BY <1>21, <2>1 DEF SweepExpire, TypeOK, RowInv, RotationInv, RotationRows, Rows
<1>22. CASE SweepDelete
  BY <1>22, SameRows DEF SweepDelete
<1>23. CASE SweepDeleteFails
  BY <1>23, SameRows DEF SweepDeleteFails
<1>24. CASE SweepStops
  BY <1>24, SameRows DEF SweepStops
<1>25. ASSUME NEW v \in Rows, GraceElapses(v)
      PROVE  RotationInv'
  BY <1>25, SameRows DEF GraceElapses
<1>26. CASE UNCHANGED vars
  BY <1>26, SameRows DEF vars
<1> HIDE DEF TypeOK, PrefixInv, RowInv, RotationInv, SlotInv, RevocationInv, SweepInv
<1> QED
  BY <1>1, <1>2, <1>3, <1>4, <1>5, <1>6, <1>7, <1>8, <1>9, <1>10, <1>11,
     <1>12, <1>13, <1>14, <1>15, <1>16, <1>17, <1>18, <1>19, <1>20, <1>21,
     <1>22, <1>23, <1>24, <1>25, <1>26 DEF Next, RotatorStep, RevokerStep,
     SweepStep, Failure

\* The unique index admits one uncommitted active row.
LEMMA SlotStep ==
  ASSUME TypeOK, PrefixInv, RowInv, RotationInv, SlotInv, RevocationInv, SweepInv,
         [Next]_vars
  PROVE  SlotInv'
<1> USE NewestFacts, NoneAssumption DEF TypeOK, SlotInv, dbVars, lockVars,
        vaultVars, rotVars, revVars, sweepVars
<1>1. ASSUME NEW r \in Rotators, NEW v \in Rows \cup {None}, ReadActive(r, v)
      PROVE  SlotInv'
  BY <1>1, SameRows DEF ReadActive, FirstOf, With
<1>2. ASSUME NEW r \in Rotators, NEW v \in Rows \cup {None}, ReadGrace(r, v)
      PROVE  SlotInv'
  BY <1>2, SameRows DEF ReadGrace, FirstOf, With
<1>3. ASSUME NEW r \in Rotators, ExpireGrace(r)
      PROVE  SlotInv'
  BY <1>3, SameRows DEF ExpireGrace
<1>4. ASSUME NEW r \in Rotators, PickActive(r)
      PROVE  SlotInv'
  BY <1>4, SameRows DEF PickActive, With
<1>5. ASSUME NEW r \in Rotators, TransitionToGrace(r)
      PROVE  SlotInv'
  BY <1>5, SameRows DEF TransitionToGrace
<1>6. ASSUME NEW r \in Rotators, InsertVersion(r)
      PROVE  SlotInv'
  <2>1. Newest' = Newest /\ Newest < MaxRows
    BY <1>6, SameRows DEF InsertVersion, Newest
  <2>2. \A v \in Rows : state[v] = "active" => v = rgrace[r]
    BY <1>6 DEF InsertVersion, With
  <2> QED BY <1>6, <2>1, <2>2 DEF InsertVersion
<1>7. ASSUME NEW r \in Rotators, InsertRefused(r)
      PROVE  SlotInv'
  BY <1>7, SameRows DEF InsertRefused, RollbackTx, EndRotation, Unlocked
<1>8. ASSUME NEW r \in Rotators, WriteSecret(r)
      PROVE  SlotInv'
  BY <1>8, SameRows DEF WriteSecret
<1>9. ASSUME NEW r \in Rotators, WriteRefused(r)
      PROVE  SlotInv'
  BY <1>9, SameRows DEF WriteRefused, RollbackTx, EndRotation, Unlocked
<1>10. ASSUME NEW r \in Rotators, Commit(r)
      PROVE  SlotInv'
  <2> HIDE DEF TypeOK, SlotInv
  <2>1. Newest' = Newest + 1 /\ Newest \in Nat
    BY <1>10, CommitRows
  <2> QED BY <1>10, <2>1 DEF Commit, EndRotation, TypeOK, SlotInv
<1>11. ASSUME NEW r \in Rotators, Rollback(r)
      PROVE  SlotInv'
  BY <1>11, SameRows DEF Rollback, RollbackTx, EndRotation, Unlocked
<1>12. ASSUME NEW r \in Rotators, WriteUnanswered(r)
      PROVE  SlotInv'
  BY <1>12, SameRows DEF WriteUnanswered, RollbackTx, EndRotation, Unlocked
<1>13. ASSUME NEW k \in Revokers, NEW v \in Rows, ReadTarget(k, v)
      PROVE  SlotInv'
  BY <1>13, SameRows DEF ReadTarget
<1>14. ASSUME NEW k \in Revokers, NEW v \in Rows \cup {None}, RevokeReadActive(k, v)
      PROVE  SlotInv'
  BY <1>14, SameRows DEF RevokeReadActive, FirstOf, With
<1>15. ASSUME NEW k \in Revokers, NEW v \in Rows \cup {None}, RevokeReadGrace(k, v)
      PROVE  SlotInv'
  BY <1>15, SameRows DEF RevokeReadGrace, EndRevocation
<1>16. ASSUME NEW k \in Revokers, RevokeVersion(k)
      PROVE  SlotInv'
  BY <1>16, SameRows DEF RevokeVersion
<1>17. ASSUME NEW k \in Revokers, DeleteVersion(k)
      PROVE  SlotInv'
  BY <1>17, SameRows DEF DeleteVersion
<1>18. ASSUME NEW k \in Revokers, CommitRevoke(k)
      PROVE  SlotInv'
  <2> HIDE DEF TypeOK, SlotInv
  <2>1. /\ Newest' = Newest
        /\ \A v \in Rows : state'[v] = "active" => state[v] = "active"
    BY <1>18, RevokeRows
  <2> QED BY <1>18, <2>1 DEF CommitRevoke, TypeOK, SlotInv
<1>19. ASSUME NEW k \in Revokers, RollbackRevoke(k)
      PROVE  SlotInv'
  BY <1>19, SameRows DEF RollbackRevoke, EndRevocation, Unlocked
<1>20. CASE ListExpired
  BY <1>20, SameRows DEF ListExpired, With
<1>21. ASSUME NEW v \in Rows, SweepExpire(v)
      PROVE  SlotInv'
  <2> HIDE DEF TypeOK, SlotInv
  <2>1. /\ Newest' = Newest
        /\ \A w \in Rows : state'[w] = "active" => state[w] = "active"
    BY <1>21, SweepRows
  <2> QED BY <1>21, <2>1 DEF SweepExpire, TypeOK, SlotInv
<1>22. CASE SweepDelete
  BY <1>22, SameRows DEF SweepDelete
<1>23. CASE SweepDeleteFails
  BY <1>23, SameRows DEF SweepDeleteFails
<1>24. CASE SweepStops
  BY <1>24, SameRows DEF SweepStops
<1>25. ASSUME NEW v \in Rows, GraceElapses(v)
      PROVE  SlotInv'
  BY <1>25, SameRows DEF GraceElapses
<1>26. CASE UNCHANGED vars
  BY <1>26, SameRows DEF vars
<1> HIDE DEF TypeOK, PrefixInv, RowInv, RotationInv, SlotInv, RevocationInv, SweepInv
<1> QED
  BY <1>1, <1>2, <1>3, <1>4, <1>5, <1>6, <1>7, <1>8, <1>9, <1>10, <1>11,
     <1>12, <1>13, <1>14, <1>15, <1>16, <1>17, <1>18, <1>19, <1>20, <1>21,
     <1>22, <1>23, <1>24, <1>25, <1>26 DEF Next, RotatorStep, RevokerStep,
     SweepStep, Failure

\* A revocation in progress has a committed row.
LEMMA RevocationStep ==
  ASSUME TypeOK, PrefixInv, RowInv, RotationInv, SlotInv, RevocationInv, SweepInv,
         [Next]_vars
  PROVE  RevocationInv'
<1> USE NewestFacts, NoneAssumption DEF TypeOK, RevocationInv, Rows, dbVars,
        lockVars, vaultVars, rotVars, revVars, sweepVars
<1>1. ASSUME NEW r \in Rotators, NEW v \in Rows \cup {None}, ReadActive(r, v)
      PROVE  RevocationInv'
  BY <1>1, SameRows DEF ReadActive, FirstOf, With
<1>2. ASSUME NEW r \in Rotators, NEW v \in Rows \cup {None}, ReadGrace(r, v)
      PROVE  RevocationInv'
  BY <1>2, SameRows DEF ReadGrace, FirstOf, With
<1>3. ASSUME NEW r \in Rotators, ExpireGrace(r)
      PROVE  RevocationInv'
  BY <1>3, SameRows DEF ExpireGrace
<1>4. ASSUME NEW r \in Rotators, PickActive(r)
      PROVE  RevocationInv'
  BY <1>4, SameRows DEF PickActive, With
<1>5. ASSUME NEW r \in Rotators, TransitionToGrace(r)
      PROVE  RevocationInv'
  BY <1>5, SameRows DEF TransitionToGrace
<1>6. ASSUME NEW r \in Rotators, InsertVersion(r)
      PROVE  RevocationInv'
  BY <1>6, SameRows DEF InsertVersion, With
<1>7. ASSUME NEW r \in Rotators, InsertRefused(r)
      PROVE  RevocationInv'
  BY <1>7, SameRows DEF InsertRefused, RollbackTx, EndRotation, Unlocked
<1>8. ASSUME NEW r \in Rotators, WriteSecret(r)
      PROVE  RevocationInv'
  BY <1>8, SameRows DEF WriteSecret
<1>9. ASSUME NEW r \in Rotators, WriteRefused(r)
      PROVE  RevocationInv'
  BY <1>9, SameRows DEF WriteRefused, RollbackTx, EndRotation, Unlocked
<1>10. ASSUME NEW r \in Rotators, Commit(r)
      PROVE  RevocationInv'
  <2> HIDE DEF TypeOK, RevocationInv, Rows
  <2>1. Newest' = Newest + 1 /\ Newest \in Nat
    BY <1>10, CommitRows
  <2> QED BY <1>10, <2>1 DEF Commit, TypeOK, RevocationInv, Rows
<1>11. ASSUME NEW r \in Rotators, Rollback(r)
      PROVE  RevocationInv'
  BY <1>11, SameRows DEF Rollback, RollbackTx, EndRotation, Unlocked
<1>12. ASSUME NEW r \in Rotators, WriteUnanswered(r)
      PROVE  RevocationInv'
  BY <1>12, SameRows DEF WriteUnanswered, RollbackTx, EndRotation, Unlocked
<1>13. ASSUME NEW k \in Revokers, NEW v \in Rows, ReadTarget(k, v)
      PROVE  RevocationInv'
  <2>1. Newest' = Newest /\ v <= Newest
    BY <1>13, SameRows DEF ReadTarget, Committed
  <2> QED BY <1>13, <2>1 DEF ReadTarget
<1>14. ASSUME NEW k \in Revokers, NEW v \in Rows \cup {None}, RevokeReadActive(k, v)
      PROVE  RevocationInv'
  BY <1>14, SameRows DEF RevokeReadActive, FirstOf, With
<1>15. ASSUME NEW k \in Revokers, NEW v \in Rows \cup {None}, RevokeReadGrace(k, v)
      PROVE  RevocationInv'
  <2>1. Newest' = Newest
    BY <1>15, SameRows DEF RevokeReadGrace
  <2>2. CASE ~EndRevocation(k)
    BY <1>15, <2>1, <2>2 DEF RevokeReadGrace
  <2>3. CASE EndRevocation(k)
    BY <1>15, <2>1, <2>3 DEF RevokeReadGrace, EndRevocation
  <2> QED BY <2>2, <2>3
<1>16. ASSUME NEW k \in Revokers, RevokeVersion(k)
      PROVE  RevocationInv'
  BY <1>16, SameRows DEF RevokeVersion
<1>17. ASSUME NEW k \in Revokers, DeleteVersion(k)
      PROVE  RevocationInv'
  BY <1>17, SameRows DEF DeleteVersion
<1>18. ASSUME NEW k \in Revokers, CommitRevoke(k)
      PROVE  RevocationInv'
  <2> HIDE DEF TypeOK, RevocationInv, Rows
  <2>1. Newest' = Newest
    BY <1>18, RevokeRows
  <2> QED BY <1>18, <2>1 DEF CommitRevoke, EndRevocation, TypeOK, RevocationInv, Rows
<1>19. ASSUME NEW k \in Revokers, RollbackRevoke(k)
      PROVE  RevocationInv'
  BY <1>19, SameRows DEF RollbackRevoke, EndRevocation, Unlocked
<1>20. CASE ListExpired
  BY <1>20, SameRows DEF ListExpired, With
<1>21. ASSUME NEW v \in Rows, SweepExpire(v)
      PROVE  RevocationInv'
  <2> HIDE DEF TypeOK, RevocationInv, Rows
  <2>1. Newest' = Newest
    BY <1>21, SweepRows
  <2> QED BY <1>21, <2>1 DEF SweepExpire, TypeOK, RevocationInv, Rows
<1>22. CASE SweepDelete
  BY <1>22, SameRows DEF SweepDelete
<1>23. CASE SweepDeleteFails
  BY <1>23, SameRows DEF SweepDeleteFails
<1>24. CASE SweepStops
  BY <1>24, SameRows DEF SweepStops
<1>25. ASSUME NEW v \in Rows, GraceElapses(v)
      PROVE  RevocationInv'
  BY <1>25, SameRows DEF GraceElapses
<1>26. CASE UNCHANGED vars
  BY <1>26, SameRows DEF vars
<1> HIDE DEF TypeOK, PrefixInv, RowInv, RotationInv, SlotInv, RevocationInv, SweepInv
<1> QED
  BY <1>1, <1>2, <1>3, <1>4, <1>5, <1>6, <1>7, <1>8, <1>9, <1>10, <1>11,
     <1>12, <1>13, <1>14, <1>15, <1>16, <1>17, <1>18, <1>19, <1>20, <1>21,
     <1>22, <1>23, <1>24, <1>25, <1>26 DEF Next, RotatorStep, RevokerStep,
     SweepStep, Failure

\* The list of the sweep grows stale, but the newest row never enters it.
LEMMA SweepInvStep ==
  ASSUME TypeOK, PrefixInv, RowInv, RotationInv, SlotInv, RevocationInv, SweepInv,
         [Next]_vars
  PROVE  SweepInv'
<1> USE NewestFacts, NoneAssumption DEF TypeOK, RowInv, SweepInv, Rows, dbVars,
        lockVars, vaultVars, rotVars, revVars, sweepVars
<1>1. ASSUME NEW r \in Rotators, NEW v \in Rows \cup {None}, ReadActive(r, v)
      PROVE  SweepInv'
  BY <1>1, SameRows DEF ReadActive, FirstOf, With
<1>2. ASSUME NEW r \in Rotators, NEW v \in Rows \cup {None}, ReadGrace(r, v)
      PROVE  SweepInv'
  BY <1>2, SameRows DEF ReadGrace, FirstOf, With
<1>3. ASSUME NEW r \in Rotators, ExpireGrace(r)
      PROVE  SweepInv'
  BY <1>3, SameRows DEF ExpireGrace
<1>4. ASSUME NEW r \in Rotators, PickActive(r)
      PROVE  SweepInv'
  BY <1>4, SameRows DEF PickActive, With
<1>5. ASSUME NEW r \in Rotators, TransitionToGrace(r)
      PROVE  SweepInv'
  BY <1>5, SameRows DEF TransitionToGrace
<1>6. ASSUME NEW r \in Rotators, InsertVersion(r)
      PROVE  SweepInv'
  BY <1>6, SameRows DEF InsertVersion, With
<1>7. ASSUME NEW r \in Rotators, InsertRefused(r)
      PROVE  SweepInv'
  BY <1>7, SameRows DEF InsertRefused, RollbackTx, EndRotation, Unlocked
<1>8. ASSUME NEW r \in Rotators, WriteSecret(r)
      PROVE  SweepInv'
  BY <1>8, SameRows DEF WriteSecret
<1>9. ASSUME NEW r \in Rotators, WriteRefused(r)
      PROVE  SweepInv'
  BY <1>9, SameRows DEF WriteRefused, RollbackTx, EndRotation, Unlocked
<1>10. ASSUME NEW r \in Rotators, Commit(r)
      PROVE  SweepInv'
  <2> HIDE DEF TypeOK, RowInv, SweepInv, Rows
  <2>1. Newest' = Newest + 1 /\ Newest \in Nat
    BY <1>10, CommitRows
  <2> QED BY <1>10, <2>1 DEF Commit, TypeOK, RowInv, SweepInv, Rows
<1>11. ASSUME NEW r \in Rotators, Rollback(r)
      PROVE  SweepInv'
  BY <1>11, SameRows DEF Rollback, RollbackTx, EndRotation, Unlocked
<1>12. ASSUME NEW r \in Rotators, WriteUnanswered(r)
      PROVE  SweepInv'
  BY <1>12, SameRows DEF WriteUnanswered, RollbackTx, EndRotation, Unlocked
<1>13. ASSUME NEW k \in Revokers, NEW v \in Rows, ReadTarget(k, v)
      PROVE  SweepInv'
  BY <1>13, SameRows DEF ReadTarget
<1>14. ASSUME NEW k \in Revokers, NEW v \in Rows \cup {None}, RevokeReadActive(k, v)
      PROVE  SweepInv'
  BY <1>14, SameRows DEF RevokeReadActive, FirstOf, With
<1>15. ASSUME NEW k \in Revokers, NEW v \in Rows \cup {None}, RevokeReadGrace(k, v)
      PROVE  SweepInv'
  BY <1>15, SameRows DEF RevokeReadGrace, EndRevocation
<1>16. ASSUME NEW k \in Revokers, RevokeVersion(k)
      PROVE  SweepInv'
  BY <1>16, SameRows DEF RevokeVersion
<1>17. ASSUME NEW k \in Revokers, DeleteVersion(k)
      PROVE  SweepInv'
  BY <1>17, SameRows DEF DeleteVersion
<1>18. ASSUME NEW k \in Revokers, CommitRevoke(k)
      PROVE  SweepInv'
  <2> HIDE DEF TypeOK, RowInv, SweepInv, Rows
  <2>1. Newest' = Newest
    BY <1>18, RevokeRows
  <2> QED BY <1>18, <2>1 DEF CommitRevoke, TypeOK, RowInv, SweepInv, Rows
<1>19. ASSUME NEW k \in Revokers, RollbackRevoke(k)
      PROVE  SweepInv'
  BY <1>19, SameRows DEF RollbackRevoke, EndRevocation, Unlocked
<1>20. CASE ListExpired
  BY <1>20, SameRows DEF ListExpired, With
<1>21. ASSUME NEW v \in Rows, SweepExpire(v)
      PROVE  SweepInv'
  <2> HIDE DEF TypeOK, RowInv, SweepInv, Rows
  <2>1. Newest' = Newest /\ v < Newest
    BY <1>21, SweepRows
  <2> QED BY <1>21, <2>1 DEF SweepExpire, TypeOK, RowInv, SweepInv, Rows
<1>22. CASE SweepDelete
  BY <1>22, SameRows DEF SweepDelete
<1>23. CASE SweepDeleteFails
  BY <1>23, SameRows DEF SweepDeleteFails
<1>24. CASE SweepStops
  BY <1>24, SameRows DEF SweepStops
<1>25. ASSUME NEW v \in Rows, GraceElapses(v)
      PROVE  SweepInv'
  BY <1>25, SameRows DEF GraceElapses
<1>26. CASE UNCHANGED vars
  BY <1>26, SameRows DEF vars
<1> HIDE DEF TypeOK, PrefixInv, RowInv, RotationInv, SlotInv, RevocationInv, SweepInv
<1> QED
  BY <1>1, <1>2, <1>3, <1>4, <1>5, <1>6, <1>7, <1>8, <1>9, <1>10, <1>11,
     <1>12, <1>13, <1>14, <1>15, <1>16, <1>17, <1>18, <1>19, <1>20, <1>21,
     <1>22, <1>23, <1>24, <1>25, <1>26 DEF Next, RotatorStep, RevokerStep,
     SweepStep, Failure

(* Vault.                                                                  *)

LEMMA VaultStep ==
  ASSUME TypeOK, PrefixInv, RowInv, RotationInv, SlotInv, RevocationInv, SweepInv,
         VaultInv, [Next]_vars
  PROVE  VaultInv'
<1> USE NewestFacts, NoneAssumption, BoundsAssumption DEF TypeOK, VaultInv, Rows,
        dbVars, lockVars, vaultVars, rotVars, revVars, sweepVars
<1>1. ASSUME NEW r \in Rotators, NEW v \in Rows \cup {None}, ReadActive(r, v)
      PROVE  VaultInv'
  BY <1>1, SameRows DEF ReadActive, FirstOf, With
<1>2. ASSUME NEW r \in Rotators, NEW v \in Rows \cup {None}, ReadGrace(r, v)
      PROVE  VaultInv'
  BY <1>2, SameRows DEF ReadGrace, FirstOf, With
<1>3. ASSUME NEW r \in Rotators, ExpireGrace(r)
      PROVE  VaultInv'
  BY <1>3, SameRows DEF ExpireGrace
<1>4. ASSUME NEW r \in Rotators, PickActive(r)
      PROVE  VaultInv'
  <2>1. Newest' = Newest /\ UNCHANGED <<vault, written, gone, rver>>
    BY <1>4, SameRows DEF PickActive
  <2>2. \A q \in Rotators : rpc'[q] = "commit" => rpc[q] = "commit"
    BY <1>4 DEF PickActive
  <2> QED BY <2>1, <2>2
<1>5. ASSUME NEW r \in Rotators, TransitionToGrace(r)
      PROVE  VaultInv'
  BY <1>5, SameRows DEF TransitionToGrace
<1>6. ASSUME NEW r \in Rotators, InsertVersion(r)
      PROVE  VaultInv'
  BY <1>6, SameRows DEF InsertVersion, With
<1>7. ASSUME NEW r \in Rotators, InsertRefused(r)
      PROVE  VaultInv'
  BY <1>7, SameRows DEF InsertRefused, RollbackTx, EndRotation, Unlocked
<1>8. ASSUME NEW r \in Rotators, WriteSecret(r)
      PROVE  VaultInv'
  <2>1. Newest' = Newest
    BY <1>8, SameRows DEF WriteSecret
  <2>2. written' = written + 1 /\ rver'[r] \in {written + 1, 1}
    BY <1>8 DEF WriteSecret, AnsweredVersions
  <2>3. \A q \in Rotators : q # r => rver'[q] = rver[q] /\ rpc'[q] = rpc[q]
    BY <1>8 DEF WriteSecret
  <2> QED BY <1>8, <2>1, <2>2, <2>3 DEF WriteSecret
<1>9. ASSUME NEW r \in Rotators, WriteRefused(r)
      PROVE  VaultInv'
  BY <1>9, SameRows DEF WriteRefused, RollbackTx, EndRotation, Unlocked
<1>10. ASSUME NEW r \in Rotators, Commit(r)
      PROVE  VaultInv'
  <2> HIDE DEF TypeOK, VaultInv, Rows
  <2>1. Newest' = Newest + 1 /\ Newest \in Nat /\ NewRow = Newest + 1 /\ Newest + 1 \in Rows
    BY <1>10, CommitRows
  <2>2. /\ vault'[Newest + 1] = rver[r]
        /\ \A v \in Rows : v # Newest + 1 => vault'[v] = vault[v]
    BY <1>10, <2>1 DEF Commit, TypeOK
  <2>3. /\ rver[r] \in 1 .. written /\ written' = written /\ gone' = gone
        /\ \A v \in Rows : v <= Newest => vault[v] < rver[r] \/ rver[r] = 1
    BY <1>10 DEF Commit, VaultInv
  <2>4. \A q \in Rotators : rpc'[q] # "commit"
    BY <1>10 DEF Commit, SlotInv, EndRotation, TypeOK
  <2>5. \A v \in Rows : v <= Newest' => vault'[v] \in 1 .. written'
    BY <2>1, <2>2, <2>3 DEF VaultInv, Rows
  <2>6. \A v, w \in Rows : v < w /\ w <= Newest' =>
         vault'[v] < vault'[w] \/ vault'[w] = 1
    BY <2>1, <2>2, <2>3 DEF VaultInv, Rows
  <2>7. \A x \in gone' : \E v \in Rows : v <= Newest' /\ x = vault'[v]
    BY <2>1, <2>2, <2>3 DEF VaultInv, Rows
  <2> QED BY <2>4, <2>5, <2>6, <2>7 DEF VaultInv
<1>11. ASSUME NEW r \in Rotators, Rollback(r)
      PROVE  VaultInv'
  BY <1>11, SameRows DEF Rollback, RollbackTx, EndRotation, Unlocked
<1>12. ASSUME NEW r \in Rotators, WriteUnanswered(r)
      PROVE  VaultInv'
  BY <1>12, SameRows DEF WriteUnanswered, RollbackTx, EndRotation, Unlocked
<1>13. ASSUME NEW k \in Revokers, NEW v \in Rows, ReadTarget(k, v)
      PROVE  VaultInv'
  BY <1>13, SameRows DEF ReadTarget
<1>14. ASSUME NEW k \in Revokers, NEW v \in Rows \cup {None}, RevokeReadActive(k, v)
      PROVE  VaultInv'
  BY <1>14, SameRows DEF RevokeReadActive, FirstOf, With
<1>15. ASSUME NEW k \in Revokers, NEW v \in Rows \cup {None}, RevokeReadGrace(k, v)
      PROVE  VaultInv'
  BY <1>15, SameRows DEF RevokeReadGrace, EndRevocation
<1>16. ASSUME NEW k \in Revokers, RevokeVersion(k)
      PROVE  VaultInv'
  BY <1>16, SameRows DEF RevokeVersion
<1>17. ASSUME NEW k \in Revokers, DeleteVersion(k)
      PROVE  VaultInv'
  <2>1. Newest' = Newest
    BY <1>17, SameRows DEF DeleteVersion
  <2>2. ktarget[k] \in Rows /\ ktarget[k] <= Newest
    BY <1>17 DEF DeleteVersion, RevocationInv
  <2> QED BY <1>17, <2>1, <2>2 DEF DeleteVersion
<1>18. ASSUME NEW k \in Revokers, CommitRevoke(k)
      PROVE  VaultInv'
  <2> HIDE DEF TypeOK, VaultInv, Rows
  <2>1. Newest' = Newest
    BY <1>18, RevokeRows
  <2> QED BY <1>18, <2>1 DEF CommitRevoke, TypeOK, VaultInv, Rows
<1>19. ASSUME NEW k \in Revokers, RollbackRevoke(k)
      PROVE  VaultInv'
  BY <1>19, SameRows DEF RollbackRevoke, EndRevocation, Unlocked
<1>20. CASE ListExpired
  BY <1>20, SameRows DEF ListExpired, With
<1>21. ASSUME NEW v \in Rows, SweepExpire(v)
      PROVE  VaultInv'
  <2> HIDE DEF TypeOK, VaultInv, Rows
  <2>1. Newest' = Newest
    BY <1>21, SweepRows
  <2> QED BY <1>21, <2>1 DEF SweepExpire, TypeOK, VaultInv, Rows
<1>22. CASE SweepDelete
  <2>1. Newest' = Newest
    BY <1>22, SameRows DEF SweepDelete
  <2>2. sdel \in Rows /\ sdel < Newest
    BY <1>22 DEF SweepDelete, SweepInv
  <2>3. sdel <= Newest
    <3> HIDE DEF TypeOK, VaultInv
    <3> QED BY <2>2
  <2> QED BY <1>22, <2>1, <2>2, <2>3 DEF SweepDelete
<1>23. CASE SweepDeleteFails
  BY <1>23, SameRows DEF SweepDeleteFails
<1>24. CASE SweepStops
  BY <1>24, SameRows DEF SweepStops
<1>25. ASSUME NEW v \in Rows, GraceElapses(v)
      PROVE  VaultInv'
  <2>1. Newest' = Newest /\ UNCHANGED <<vault, written, gone, rver, rpc>>
    BY <1>25, SameRows DEF GraceElapses
  <2> QED BY <2>1
<1>26. CASE UNCHANGED vars
  BY <1>26, SameRows DEF vars
<1> HIDE DEF TypeOK, PrefixInv, RowInv, RotationInv, SlotInv, RevocationInv, SweepInv, VaultInv
<1> QED
  BY <1>1, <1>2, <1>3, <1>4, <1>5, <1>6, <1>7, <1>8, <1>9, <1>10, <1>11,
     <1>12, <1>13, <1>14, <1>15, <1>16, <1>17, <1>18, <1>19, <1>20, <1>21,
     <1>22, <1>23, <1>24, <1>25, <1>26 DEF Next, RotatorStep, RevokerStep,
     SweepStep, Failure

\* Only a revocation deletes the version of the active row.
LEMMA ReadableStep ==
  ASSUME TypeOK, PrefixInv, RowInv, RotationInv, SlotInv, RevocationInv, SweepInv,
         VaultInv, ActiveReadable, [Next]_vars
  PROVE  ActiveReadable'
<1> USE DEF ActiveReadable, With, Defaulted, Committed, dbVars, lockVars, vaultVars,
        rotVars, revVars, sweepVars
<1>1. ASSUME NEW r \in Rotators, NEW v \in Rows \cup {None}, ReadActive(r, v)
      PROVE  ActiveReadable'
  BY <1>1 DEF ReadActive, FirstOf, With
<1>2. ASSUME NEW r \in Rotators, NEW v \in Rows \cup {None}, ReadGrace(r, v)
      PROVE  ActiveReadable'
  BY <1>2 DEF ReadGrace, FirstOf, With
<1>3. ASSUME NEW r \in Rotators, ExpireGrace(r)
      PROVE  ActiveReadable'
  BY <1>3 DEF ExpireGrace
<1>4. ASSUME NEW r \in Rotators, PickActive(r)
      PROVE  ActiveReadable'
  BY <1>4 DEF PickActive, With
<1>5. ASSUME NEW r \in Rotators, TransitionToGrace(r)
      PROVE  ActiveReadable'
  BY <1>5 DEF TransitionToGrace
<1>6. ASSUME NEW r \in Rotators, InsertVersion(r)
      PROVE  ActiveReadable'
  BY <1>6 DEF InsertVersion, With
<1>7. ASSUME NEW r \in Rotators, InsertRefused(r)
      PROVE  ActiveReadable'
  BY <1>7 DEF InsertRefused, RollbackTx, EndRotation, Unlocked
<1>8. ASSUME NEW r \in Rotators, WriteSecret(r)
      PROVE  ActiveReadable'
  BY <1>8 DEF WriteSecret
<1>9. ASSUME NEW r \in Rotators, WriteRefused(r)
      PROVE  ActiveReadable'
  BY <1>9 DEF WriteRefused, RollbackTx, EndRotation, Unlocked
<1>10. ASSUME NEW r \in Rotators, Commit(r)
      PROVE  ActiveReadable'
  <2> HIDE DEF ActiveReadable, With
  <2>1. /\ NewRow = Newest + 1 /\ Newest + 1 \in Rows
        /\ rexp[r] # None => rexp[r] \in Rows /\ state'[rexp[r]] = "expired"
        /\ rgrace[r] # None => rgrace[r] \in Rows /\ state'[rgrace[r]] = "grace"
        /\ \A v \in Rows : v \notin {Newest + 1, rexp[r], rgrace[r]} => state'[v] = state[v]
        /\ None \notin Rows
    BY <1>10, CommitRows, NewestFacts
  <2>2. /\ vault'[Newest + 1] = rver[r] /\ UNCHANGED <<gone, cut>>
        /\ \A v \in Rows : v # Newest + 1 => vault'[v] = vault[v]
    BY <1>10, <2>1 DEF Commit, TypeOK
  <2>3. rver[r] \notin gone \/ (Newest + 1 > 1 /\ rver[r] = 1)
    <3> SUFFICES ASSUME rver[r] \in gone
                 PROVE  Newest + 1 > 1 /\ rver[r] = 1
      OBVIOUS
    <3>1. PICK v \in Rows : v <= Newest /\ rver[r] = vault[v]
      BY DEF VaultInv
    <3>2. vault[v] \in Nat
      BY BoundsAssumption DEF TypeOK
    <3>4. v \in Nat /\ v >= 1 /\ Newest \in Nat
      BY NewestFacts DEF Rows
    <3>3. vault[v] < rver[r] \/ rver[r] = 1
      BY <1>10, <3>1 DEF Commit, VaultInv
    <3> QED BY <3>1, <3>2, <3>3, <3>4
  <2>4. ASSUME NEW v \in Rows, state'[v] = "active"
        PROVE  vault'[v] \notin gone' \/ v \in cut' \/ (v > 1 /\ vault'[v] = 1)
    <3>1. CASE v = Newest + 1
      BY <3>1, <2>2, <2>3
    <3>2. CASE v # Newest + 1
      BY <3>2, <2>1, <2>2, <2>4 DEF ActiveReadable, With, Defaulted
    <3> QED BY <3>1, <3>2
  <2> QED BY <2>4 DEF ActiveReadable, With, Defaulted, Committed
<1>11. ASSUME NEW r \in Rotators, Rollback(r)
      PROVE  ActiveReadable'
  BY <1>11 DEF Rollback, RollbackTx, EndRotation, Unlocked
<1>12. ASSUME NEW r \in Rotators, WriteUnanswered(r)
      PROVE  ActiveReadable'
  BY <1>12 DEF WriteUnanswered, RollbackTx, EndRotation, Unlocked
<1>13. ASSUME NEW k \in Revokers, NEW v \in Rows, ReadTarget(k, v)
      PROVE  ActiveReadable'
  BY <1>13 DEF ReadTarget
<1>14. ASSUME NEW k \in Revokers, NEW v \in Rows \cup {None}, RevokeReadActive(k, v)
      PROVE  ActiveReadable'
  BY <1>14 DEF RevokeReadActive, FirstOf, With
<1>15. ASSUME NEW k \in Revokers, NEW v \in Rows \cup {None}, RevokeReadGrace(k, v)
      PROVE  ActiveReadable'
  BY <1>15 DEF RevokeReadGrace, EndRevocation
<1>16. ASSUME NEW k \in Revokers, RevokeVersion(k)
      PROVE  ActiveReadable'
  BY <1>16 DEF RevokeVersion
<1>17. ASSUME NEW k \in Revokers, DeleteVersion(k)
      PROVE  ActiveReadable'
  <2>1. ktarget[k] \in Rows /\ ktarget[k] <= Newest
    BY <1>17 DEF DeleteVersion, RevocationInv, TypeOK
  <2>2. ASSUME NEW v \in Rows, v = Newest, vault[v] = vault[ktarget[k]]
        PROVE  v = ktarget[k] \/ (v > 1 /\ vault[v] = 1)
    <3>1. vault[v] \in Nat /\ v \in Nat /\ ktarget[k] \in Nat
      BY <2>1, NewestFacts, BoundsAssumption DEF Rows, TypeOK
    <3>2. ktarget[k] < v => vault[v] = 1
      BY <2>1, <2>2, <3>1 DEF VaultInv
    <3>3. ktarget[k] >= 1 /\ ktarget[k] <= v
      BY <2>1, <2>2, NewestFacts DEF Rows
    <3> QED BY <3>1, <3>2, <3>3
  <2>3. \A v \in Rows : state[v] = "active" => v = Newest
    BY DEF RowInv
  <2> QED BY <1>17, <2>1, <2>2, <2>3 DEF DeleteVersion
<1>18. ASSUME NEW k \in Revokers, CommitRevoke(k)
      PROVE  ActiveReadable'
  <2> HIDE DEF ActiveReadable, With
  <2>1. /\ Newest' = Newest
        /\ \A v \in Rows : state'[v] = "active" => state[v] = "active"
    BY <1>18, RevokeRows
  <2> QED BY <1>18, <2>1 DEF CommitRevoke, ActiveReadable, With
<1>19. ASSUME NEW k \in Revokers, RollbackRevoke(k)
      PROVE  ActiveReadable'
  BY <1>19 DEF RollbackRevoke, EndRevocation, Unlocked
<1>20. CASE ListExpired
  BY <1>20 DEF ListExpired, With
<1>21. ASSUME NEW v \in Rows, SweepExpire(v)
      PROVE  ActiveReadable'
  <2> HIDE DEF ActiveReadable, With
  <2>1. /\ Newest' = Newest
        /\ \A w \in Rows : state'[w] = "active" => state[w] = "active"
    BY <1>21, SweepRows
  <2> QED BY <1>21, <2>1 DEF SweepExpire, ActiveReadable, With
<1>22. CASE SweepDelete
  <2>1. sdel \in Rows /\ sdel < Newest
    BY <1>22 DEF SweepDelete, SweepInv, TypeOK
  <2>2. Newest \in Rows => vault[sdel] # vault[Newest] \/ (Newest > 1 /\ vault[Newest] = 1)
    BY <2>1, NewestFacts, BoundsAssumption DEF VaultInv, Rows, TypeOK
  <2>3. \A v \in Rows : state[v] = "active" => v = Newest
    BY DEF RowInv
  <2> QED BY <1>22, <2>1, <2>2, <2>3 DEF SweepDelete
<1>23. CASE SweepDeleteFails
  BY <1>23 DEF SweepDeleteFails
<1>24. CASE SweepStops
  BY <1>24 DEF SweepStops
<1>25. ASSUME NEW v \in Rows, GraceElapses(v)
      PROVE  ActiveReadable'
  BY <1>25 DEF GraceElapses
<1>26. CASE UNCHANGED vars
  BY <1>26 DEF vars
<1> HIDE DEF TypeOK, PrefixInv, RowInv, RotationInv, SlotInv, RevocationInv,
             SweepInv, VaultInv, ActiveReadable
<1> QED
  BY <1>1, <1>2, <1>3, <1>4, <1>5, <1>6, <1>7, <1>8, <1>9, <1>10, <1>11,
     <1>12, <1>13, <1>14, <1>15, <1>16, <1>17, <1>18, <1>19, <1>20, <1>21,
     <1>22, <1>23, <1>24, <1>25, <1>26 DEF Next, RotatorStep, RevokerStep,
     SweepStep, Failure

(* Locks.                                                                  *)

LEMMA LockStep ==
  ASSUME TypeOK, PrefixInv, RowInv, RotationInv, SlotInv, RevocationInv, SweepInv,
         LockInv, [Next]_vars
  PROVE  LockInv'
<1> USE NoneAssumption, ProcsAssumption DEF TypeOK, LockInv, HoldsGrace,
        HoldsActive, dbVars, lockVars, vaultVars, rotVars, revVars, sweepVars
<1>1. ASSUME NEW r \in Rotators, NEW v \in Rows \cup {None}, ReadActive(r, v)
      PROVE  LockInv'
  BY <1>1 DEF ReadActive, FirstOf, With
<1>2. ASSUME NEW r \in Rotators, NEW v \in Rows \cup {None}, ReadGrace(r, v)
      PROVE  LockInv'
  BY <1>2 DEF ReadGrace, FirstOf, With
<1>3. ASSUME NEW r \in Rotators, ExpireGrace(r)
      PROVE  LockInv'
  BY <1>3 DEF ExpireGrace
<1>4. ASSUME NEW r \in Rotators, PickActive(r)
      PROVE  LockInv'
  BY <1>4 DEF PickActive, With
<1>5. ASSUME NEW r \in Rotators, TransitionToGrace(r)
      PROVE  LockInv'
  BY <1>5 DEF TransitionToGrace
<1>6. ASSUME NEW r \in Rotators, InsertVersion(r)
      PROVE  LockInv'
  BY <1>6 DEF InsertVersion, With
<1>7. ASSUME NEW r \in Rotators, InsertRefused(r)
      PROVE  LockInv'
  BY <1>7 DEF InsertRefused, RollbackTx, EndRotation, Unlocked
<1>8. ASSUME NEW r \in Rotators, WriteSecret(r)
      PROVE  LockInv'
  BY <1>8 DEF WriteSecret
<1>9. ASSUME NEW r \in Rotators, WriteRefused(r)
      PROVE  LockInv'
  BY <1>9 DEF WriteRefused, RollbackTx, EndRotation, Unlocked
<1>10. ASSUME NEW r \in Rotators, Commit(r)
      PROVE  LockInv'
  BY <1>10 DEF Commit, EndRotation, Unlocked
<1>11. ASSUME NEW r \in Rotators, Rollback(r)
      PROVE  LockInv'
  BY <1>11 DEF Rollback, RollbackTx, EndRotation, Unlocked
<1>12. ASSUME NEW r \in Rotators, WriteUnanswered(r)
      PROVE  LockInv'
  BY <1>12 DEF WriteUnanswered, RollbackTx, EndRotation, Unlocked
<1>13. ASSUME NEW k \in Revokers, NEW v \in Rows, ReadTarget(k, v)
      PROVE  LockInv'
  BY <1>13 DEF ReadTarget
<1>14. ASSUME NEW k \in Revokers, NEW v \in Rows \cup {None}, RevokeReadActive(k, v)
      PROVE  LockInv'
  BY <1>14 DEF RevokeReadActive, FirstOf, With
<1>15. ASSUME NEW k \in Revokers, NEW v \in Rows \cup {None}, RevokeReadGrace(k, v)
      PROVE  LockInv'
  BY <1>15 DEF RevokeReadGrace, EndRevocation
<1>16. ASSUME NEW k \in Revokers, RevokeVersion(k)
      PROVE  LockInv'
  BY <1>16 DEF RevokeVersion
<1>17. ASSUME NEW k \in Revokers, DeleteVersion(k)
      PROVE  LockInv'
  BY <1>17 DEF DeleteVersion
<1>18. ASSUME NEW k \in Revokers, CommitRevoke(k)
      PROVE  LockInv'
  BY <1>18 DEF CommitRevoke, EndRevocation, Unlocked
<1>19. ASSUME NEW k \in Revokers, RollbackRevoke(k)
      PROVE  LockInv'
  BY <1>19 DEF RollbackRevoke, EndRevocation, Unlocked
<1>20. CASE ListExpired
  BY <1>20 DEF ListExpired, With
<1>21. ASSUME NEW v \in Rows, SweepExpire(v)
      PROVE  LockInv'
  BY <1>21 DEF SweepExpire
<1>22. CASE SweepDelete
  BY <1>22 DEF SweepDelete
<1>23. CASE SweepDeleteFails
  BY <1>23 DEF SweepDeleteFails
<1>24. CASE SweepStops
  BY <1>24 DEF SweepStops
<1>25. ASSUME NEW v \in Rows, GraceElapses(v)
      PROVE  LockInv'
  BY <1>25 DEF GraceElapses
<1>26. CASE UNCHANGED vars
  BY <1>26 DEF vars
<1> HIDE DEF TypeOK, PrefixInv, RowInv, RotationInv, SlotInv, RevocationInv, SweepInv, LockInv
<1> QED
  BY <1>1, <1>2, <1>3, <1>4, <1>5, <1>6, <1>7, <1>8, <1>9, <1>10, <1>11,
     <1>12, <1>13, <1>14, <1>15, <1>16, <1>17, <1>18, <1>19, <1>20, <1>21,
     <1>22, <1>23, <1>24, <1>25, <1>26 DEF Next, RotatorStep, RevokerStep,
     SweepStep, Failure

\* The invariant holds initially.
LEMMA Initially == Init => IInv
<1> SUFFICES ASSUME Init PROVE IInv
  OBVIOUS
<1> USE NoneAssumption, BoundsAssumption
<1>1. Committed = {} /\ Newest = 0
  <2>1. Committed = {}
    BY DEF Init, Committed
  <2> QED BY <2>1, FS_EmptySet DEF Newest
<1>2. TypeOK
  BY DEF Init, TypeOK, States, RotatorPCs, RevokerPCs
<1>3. PrefixInv
  BY <1>1 DEF PrefixInv
<1>4. RowInv /\ ActiveReadable
  BY DEF Init, RowInv, ActiveReadable, With
<1>5. RotationInv /\ SlotInv /\ RevocationInv /\ SweepInv
  BY DEF Init, RotationInv, RotationRows, SlotInv, RevocationInv, SweepInv
<1>6. VaultInv
  BY <1>1 DEF Init, VaultInv, Rows
<1>7. LockInv
  BY DEF Init, LockInv
<1> QED BY <1>2, <1>3, <1>4, <1>5, <1>6, <1>7 DEF IInv

\* Every step keeps the invariant.
LEMMA Preserved == IInv /\ [Next]_vars => IInv'
  BY TypeStep, PrefixStep, RowStep, RotationStep, SlotStep, RevocationStep, SweepInvStep,
     VaultStep, ReadableStep, LockStep DEF IInv

\* The invariant holds in every reachable state.
LEMMA Invariance == Spec => []IInv
  BY Initially, Preserved, PTL DEF Spec

-----------------------------------------------------------------------------
(* Deadlock.                                                               *)

LEMMA LeastNatural ==
  ASSUME NEW S, S \subseteq Nat, S # {}
  PROVE  \E n \in S : \A m \in S : ~(m < n)
<1>1. PICK n \in S : \A m \in S : <<m, n>> \notin OpToRel(<, Nat)
  BY NatLessThanWellFounded, WFMin
<1>2. \A m \in S : <<m, n>> \notin {ss \in Nat \X Nat : ss[1] < ss[2]}
  BY <1>1 DEF OpToRel
<1> QED BY <1>2

\* Whoever is waited for holds a lock or the uncommitted active row.
LEMMA WaitedFor ==
  ASSUME IInv, NEW t \in Txs, NEW u \in Txs, u \in BlockedBy(t)
  PROVE  \/ /\ t \in Rotators /\ rpc[t] = "expire"
            /\ rexp[t] \in Rows /\ lock[rexp[t]] = u
         \/ /\ t \in Rotators /\ rpc[t] = "to_grace"
            /\ rgrace[t] \in Rows /\ lock[rgrace[t]] = u
         \/ t \in Rotators /\ rpc[t] = "insert" /\ slot = u
         \/ /\ t \in Rotators /\ rpc[t] = "insert"
            /\ \E v \in Rows : state[v] = "active" /\ v # rgrace[t] /\ lock[v] = u
         \/ /\ t \in Revokers /\ kpc[t] = "revoke"
            /\ ktarget[t] \in Rows /\ lock[ktarget[t]] = u
<1> USE DEF IInv, TypeOK
<1>1. CASE t \in Rotators /\ rpc[t] = "expire"
  <2>1. u = lock[rexp[t]]
    BY <1>1 DEF BlockedBy
  <2>2. rexp[t] \in Rows
    BY <1>1 DEF RotationInv, RotationRows
  <2> QED BY <1>1, <2>1, <2>2
<1>2. CASE t \in Rotators /\ rpc[t] = "to_grace"
  <2>1. u = lock[rgrace[t]]
    BY <1>2 DEF BlockedBy
  <2>2. rgrace[t] \in Rows
    BY <1>2 DEF RotationInv, RotationRows
  <2> QED BY <1>2, <2>1, <2>2
<1>3. CASE t \in Rotators /\ rpc[t] = "insert"
  <2>1. u \in {slot} \cup {lock[v] : v \in With("active") \ {rgrace[t]}}
    BY <1>3 DEF BlockedBy
  <2> QED BY <1>3, <2>1 DEF With
<1>4. CASE t \in Revokers /\ t \notin Rotators /\ kpc[t] = "revoke"
  <2>1. u = lock[ktarget[t]]
    BY <1>4 DEF BlockedBy
  <2>2. ktarget[t] \in Rows
    BY <1>4 DEF RevocationInv
  <2> QED BY <1>4, <2>1, <2>2
<1>5. CASE /\ ~(t \in Rotators /\ rpc[t] \in {"expire", "to_grace", "insert"})
           /\ ~(t \notin Rotators /\ kpc[t] = "revoke")
  BY <1>5 DEF BlockedBy
<1> QED BY <1>1, <1>2, <1>3, <1>4, <1>5 DEF Txs

\* Ranks are bounded naturals.
LEMMA RankFacts ==
  ASSUME IInv, NEW t \in Txs
  PROVE  /\ Rank(t) \in Nat /\ Rank(t) <= MaxRows + 4
         /\ t \in Rotators => rpc[t] \in RotatorPCs
         /\ t \in Rotators /\ rpc[t] = "expire" => Rank(t) = MaxRows + 4
         /\ t \in Rotators /\ rpc[t] = "to_grace" =>
              rgrace[t] \in Rows /\ Rank(t) = MaxRows + 3 - rgrace[t]
         /\ t \in Rotators /\ rpc[t] = "insert" =>
              Rank(t) = IF With("active") \subseteq {rgrace[t]} THEN 1 ELSE 2
         /\ t \in Rotators /\ rpc[t] \notin {"expire", "to_grace", "insert"} => Rank(t) = 0
         /\ t \notin Rotators /\ kpc[t] = "revoke" => Rank(t) = MaxRows + 4
         /\ t \notin Rotators /\ kpc[t] # "revoke" => Rank(t) = 0
<1> USE BoundsAssumption
<1>0. t \in Rotators => rpc[t] \in RotatorPCs
  BY DEF IInv, TypeOK
<1>1. CASE t \in Rotators /\ rpc[t] = "expire"
  BY <1>0, <1>1 DEF Rank
<1>2. CASE t \in Rotators /\ rpc[t] = "to_grace"
  <2>1. rgrace[t] \in Rows
    BY <1>2 DEF IInv, TypeOK, RotationInv, RotationRows
  <2>2. Rank(t) = MaxRows + 3 - rgrace[t]
    BY <1>2 DEF Rank
  <2> QED BY <1>0, <1>2, <2>1, <2>2 DEF Rows
<1>3. CASE t \in Rotators /\ rpc[t] = "insert"
  BY <1>0, <1>3 DEF Rank
<1>4. CASE t \in Rotators /\ rpc[t] \notin {"expire", "to_grace", "insert"}
  BY <1>0, <1>4 DEF Rank
<1>5. CASE t \notin Rotators
  BY <1>5 DEF Rank
<1> QED BY <1>1, <1>2, <1>3, <1>4, <1>5

\* A holder of a lock is nearer to its end than whoever has yet to lock.
LEMMA HolderRank ==
  ASSUME IInv, NEW u \in Txs, NEW v \in Rows, lock[v] = u
  PROVE  /\ Rank(u) <= 2 \/ (v = rexp[u] /\ rgrace[u] \in Rows /\ Rank(u) = MaxRows + 3 - rgrace[u])
         /\ InProgress(u)
<1>1. CASE u \in Rotators
  <2>1. \/ v = rexp[u] /\ rpc[u] \in HoldsGrace
        \/ v = rgrace[u] /\ rpc[u] \in HoldsActive
    BY <1>1 DEF IInv, LockInv
  <2>2. InProgress(u)
    BY <1>1, <2>1 DEF InProgress, HoldsGrace, HoldsActive
  <2>3. CASE rpc[u] = "to_grace"
    BY <1>1, <2>1, <2>2, <2>3, RankFacts DEF HoldsActive
  <2>4. CASE rpc[u] = "insert"
    BY <1>1, <2>2, <2>4, RankFacts
  <2>5. CASE rpc[u] \in {"pick", "write", "commit"}
    BY <1>1, <2>2, <2>5, RankFacts
  <2> QED BY <2>1, <2>3, <2>4, <2>5 DEF HoldsGrace, HoldsActive
<1>2. CASE u \notin Rotators
  <2>1. u \in Revokers /\ kpc[u] \in {"delete", "commit"}
    BY <1>2 DEF IInv, LockInv, Txs
  <2> QED BY <1>2, <2>1, RankFacts DEF InProgress
<1> QED BY <1>1, <1>2

\* Whoever waits has a larger rank than whoever it waits for, who is in
\* progress.
LEMMA WaitingIsRanked ==
  ASSUME IInv, NEW t \in Txs, NEW u \in Txs, u \in BlockedBy(t)
  PROVE  Rank(u) < Rank(t) /\ InProgress(u)
<1>0. /\ MaxRows \in Nat /\ Rows = 1 .. MaxRows
      /\ Rank(t) \in Nat /\ Rank(u) \in Nat
  BY BoundsAssumption, RankFacts DEF Rows
<1>1. CASE /\ t \in Rotators /\ rpc[t] = "expire"
           /\ rexp[t] \in Rows /\ lock[rexp[t]] = u
  <2>1. Rank(t) = MaxRows + 4
    BY <1>1, RankFacts
  <2> QED BY <1>0, <1>1, <2>1, HolderRank
<1>2. CASE /\ t \in Rotators /\ rpc[t] = "to_grace"
           /\ rgrace[t] \in Rows /\ lock[rgrace[t]] = u
  <2>1. Rank(t) = MaxRows + 3 - rgrace[t]
    BY <1>2, RankFacts
  <2>2. CASE Rank(u) <= 2
    BY <1>0, <1>2, <2>1, <2>2, HolderRank
  <2>3. CASE /\ rgrace[t] = rexp[u] /\ rgrace[u] \in Rows
             /\ Rank(u) = MaxRows + 3 - rgrace[u]
    <3>1. u \in Rotators
      BY <1>0, <2>3, RankFacts DEF Txs
    <3>2. rexp[u] < rgrace[u]
      BY <1>2, <2>3, <3>1, NoneAssumption, NewestFacts DEF IInv, RotationInv, RotationRows
    <3> QED BY <1>0, <1>2, <2>1, <2>3, <3>2, HolderRank
  <2> QED BY <1>2, <2>2, <2>3, HolderRank
<1>3. CASE t \in Rotators /\ rpc[t] = "insert" /\ slot = u
  <2>1. u \in Rotators /\ rpc[u] \in {"write", "commit"}
    BY <1>3, NoneAssumption DEF IInv, TypeOK, SlotInv, Txs
  <2> QED BY <1>3, <2>1, RankFacts DEF InProgress
<1>4. CASE /\ t \in Rotators /\ rpc[t] = "insert"
           /\ \E v \in Rows : state[v] = "active" /\ v # rgrace[t] /\ lock[v] = u
  <2>1. PICK v \in Rows : state[v] = "active" /\ v # rgrace[t] /\ lock[v] = u
    BY <1>4
  <2>2. Rank(t) = 2
    BY <1>4, <2>1, RankFacts DEF With
  <2>3. InProgress(u)
    BY <2>1, HolderRank
  <2>4. CASE u \in Rotators
    <3>1. v = Newest /\ \A w \in Rows : state[w] = "active" => w = v
      BY <2>1 DEF IInv, RowInv
    <3>2. v # rexp[u]
      BY <2>1, <2>4, <3>1, NewestFacts DEF IInv, RotationInv, RotationRows
    <3>3. v = rgrace[u] /\ rpc[u] \in HoldsActive
      BY <2>1, <2>4, <3>2 DEF IInv, LockInv
    <3>4. With("active") \subseteq {rgrace[u]}
      BY <3>1, <3>3 DEF With
    <3>5. Rank(u) \in {0, 1}
      BY <2>4, <3>3, <3>4, RankFacts DEF HoldsActive
    <3> QED BY <2>2, <2>3, <3>5
  <2>5. CASE u \notin Rotators
    <3>1. u \in Revokers /\ kpc[u] \in {"delete", "commit"}
      BY <2>1, <2>5 DEF IInv, LockInv, Txs
    <3> QED BY <2>2, <2>3, <2>5, <3>1, RankFacts
  <2> QED BY <2>4, <2>5
<1>5. CASE /\ t \in Revokers /\ kpc[t] = "revoke"
           /\ ktarget[t] \in Rows /\ lock[ktarget[t]] = u
  <2>1. Rank(t) = MaxRows + 4
    BY <1>5, ProcsAssumption, RankFacts
  <2> QED BY <1>0, <1>5, <2>1, HolderRank
<1> QED BY <1>1, <1>2, <1>3, <1>4, <1>5, WaitedFor

\* Of any transactions, one of least rank waits for none of the others.
LEMMA LeastRankGoesOn ==
  ASSUME IInv, NEW S \in (SUBSET Txs) \ {{}}
  PROVE  \E t \in S : BlockedBy(t) \cap S = {}
<1> DEFINE ranks == {Rank(t) : t \in S}
<1>1. ranks \subseteq Nat /\ ranks # {}
  BY RankFacts
<1>2. PICK n \in ranks : \A m \in ranks : ~(m < n)
  <2> HIDE DEF ranks
  <2> QED BY <1>1, LeastNatural
<1>3. PICK t \in S : Rank(t) = n
  BY <1>2
<1>4. \A u \in S : ~(Rank(u) < Rank(t))
  BY <1>2, <1>3
<1> QED BY <1>4, WaitingIsRanked

-----------------------------------------------------------------------------
(* The theorems.                                                           *)

\* Type correctness of the rows, the locks, Vault and every request in progress.
THEOREM TypeCorrect == Spec => []TypeOK
  BY Invariance, PTL DEF IInv

\* However rotations, revocations and the expiry sweep interleave and fail, the
\* newest committed version is active or was revoked on request.
THEOREM NewestStaysInUse == Spec => []NewestDecides
<1>1. IInv => NewestDecides
  <2> SUFFICES ASSUME IInv, Committed # {} PROVE state[Newest] \in {"active", "revoked"}
    BY DEF NewestDecides, Newest
  <2>1. Newest \in Rows /\ Newest \in Nat /\ state[Newest] # "none"
    BY NewestFacts DEF IInv, PrefixInv, Rows
  <2>2. state[Newest] \notin {"grace", "expired"}
    BY <2>1 DEF IInv, RowInv
  <2> QED BY <2>1, <2>2 DEF IInv, TypeOK, States
<1> QED BY <1>1, Invariance, PTL

\* The rows of a secret are committed in the order of their versions in Vault,
\* each with a version of its own, whatever rotations ran side by side; only a
\* row whose answer could not be read is out of order, with the default 1.
THEOREM RowsFollowVault == Spec => []VersionsOrdered
<1>1. IInv => VersionsOrdered
  BY NewestFacts DEF IInv, VersionsOrdered, VaultInv, Defaulted, Committed, Rows
<1> QED BY <1>1, Invariance, PTL

\* No sweep and no other rotation deletes the version of the active row in
\* Vault: it is readable unless a revocation deleted it or the row carries the
\* default version of an answer that could not be read.
THEOREM ActiveStaysReadable == Spec => []ActiveReadable
  BY Invariance, PTL DEF IInv

\* Whoever is waited for is in progress, and of any transactions one waits for
\* none of the others: rotations and revocations never deadlock.
THEOREM NoDeadlock == Spec => []NobodyStuck
<1>1. IInv => NobodyStuck
  <2> SUFFICES ASSUME IInv PROVE NobodyStuck
    OBVIOUS
  <2> DEFINE blockedBy == [t \in Txs |-> BlockedBy(t)]
  <2>1. \A t \in Txs : blockedBy[t] = BlockedBy(t)
    OBVIOUS
  <2> HIDE DEF blockedBy
  <2>2. \A t, u \in Txs : u \in blockedBy[t] => InProgress(u)
    BY <2>1, WaitingIsRanked
  <2>3. \A S \in (SUBSET Txs) \ {{}} : \E t \in S : blockedBy[t] \cap S = {}
    BY <2>1, LeastRankGoesOn
  <2> QED BY <2>2, <2>3 DEF NobodyStuck, blockedBy
<1> QED BY <1>1, Invariance, PTL
=============================================================================
