---------------------------- MODULE SecretRotation ----------------------------
(***************************************************************************)
(* Rotation, revocation and expiry of one platform secret:                 *)
(* secret-rotation-initiate, -revoke and -expiry-sweep over                *)
(* secret-rotation-repo in packages/provisioning-orchestrator/src.         *)
(*                                                                         *)
(* A secret has one row per version in PostgreSQL and one version per      *)
(* write in Vault.  A rotation reads the active and the grace row, opens a *)
(* transaction, expires the old grace row, moves the active row to grace,  *)
(* inserts the new active row, writes Vault and commits; a revocation      *)
(* deletes in Vault before it commits; the sweep runs without a            *)
(* transaction.  Vault cannot be rolled back, and every call can fail.     *)
(*                                                                         *)
(* PostgreSQL is READ COMMITTED: a statement sees the committed rows, a    *)
(* write waits for the row's lock, and an UPDATE whose row changed while   *)
(* it waited goes on with the id its subquery returned.  An insert waits   *)
(* for an uncommitted active row and fails on a committed one.             *)
(***************************************************************************)
EXTENDS Naturals, FiniteSets

CONSTANTS
    Rotators,     \* concurrent requests of secret-rotation-initiate
    Revokers,     \* concurrent requests of secret-rotation-revoke
    None,         \* no row, no holder
    MaxRows,      \* bound on the versions committed
    MaxWrites     \* bound on the writes of Vault, failed rotations included

ASSUME NoneAssumption == None \notin Nat \cup Rotators \cup Revokers
ASSUME BoundsAssumption == MaxRows \in Nat /\ MaxWrites \in Nat
ASSUME ProcsAssumption == Rotators \cap Revokers = {}

Rows == 1 .. MaxRows
Txs == Rotators \cup Revokers
States == {"none", "active", "grace", "expired", "revoked"}
RotatorPCs == {"idle", "read_grace", "expire", "pick", "to_grace",
               "insert", "write", "commit"}
RevokerPCs == {"idle", "read_active", "read_grace", "revoke", "delete", "commit"}

VARIABLES
    state,      \* secret_version_states.state, committed; rows in commit order
    vault,      \* secret_version_states.vault_version, committed
    due,        \* grace_expires_at <= NOW()
    lock,       \* the transaction that holds the lock of a row
    slot,       \* the transaction with an uncommitted active row
    written,    \* versions Vault has given out
    gone,       \* versions deleted in Vault
    rpc,        \* where each rotation is
    rprev,      \* previousActive it read
    rexp,       \* existingGrace it read, and expires
    rgrace,     \* the row it moves to grace
    rver,       \* the Vault version it wrote
    kpc,        \* where each revocation is
    ktarget,    \* the row it revokes
    kforce,     \* no other version was valid: it goes on by forceRevoke
    kactive,    \* the active row it read
    swept,      \* the rows the expiry sweep listed and has not handled
    sdel,       \* the row the expiry sweep has expired and not yet deleted
    cut         \* ghost: rows a revocation has deleted in Vault

dbVars == <<state, vault, due>>
lockVars == <<lock, slot>>
vaultVars == <<written, gone, cut>>
rotVars == <<rpc, rprev, rexp, rgrace, rver>>
revVars == <<kpc, ktarget, kforce, kactive>>
sweepVars == <<swept, sdel>>
vars == <<dbVars, lockVars, vaultVars, rotVars, revVars, sweepVars>>

TypeOK ==
    /\ state \in [Rows -> States]
    /\ vault \in [Rows -> 0 .. MaxWrites]
    /\ due \in [Rows -> BOOLEAN]
    /\ lock \in [Rows -> Txs \cup {None}]
    /\ slot \in Rotators \cup {None}
    /\ written \in 0 .. MaxWrites
    /\ gone \subseteq 1 .. MaxWrites
    /\ rpc \in [Rotators -> RotatorPCs]
    /\ rprev \in [Rotators -> Rows \cup {None}]
    /\ rexp \in [Rotators -> Rows \cup {None}]
    /\ rgrace \in [Rotators -> Rows \cup {None}]
    /\ rver \in [Rotators -> 0 .. MaxWrites]
    /\ kpc \in [Revokers -> RevokerPCs]
    /\ ktarget \in [Revokers -> Rows \cup {None}]
    /\ kforce \in [Revokers -> BOOLEAN]
    /\ kactive \in [Revokers -> Rows \cup {None}]
    /\ swept \subseteq Rows
    /\ sdel \in Rows \cup {None}
    /\ cut \subseteq Rows

Init ==
    /\ state = [v \in Rows |-> "none"]
    /\ vault = [v \in Rows |-> 0]
    /\ due = [v \in Rows |-> FALSE]
    /\ lock = [v \in Rows |-> None]
    /\ slot = None
    /\ written = 0
    /\ gone = {}
    /\ cut = {}
    /\ rpc = [r \in Rotators |-> "idle"]
    /\ rprev = [r \in Rotators |-> None]
    /\ rexp = [r \in Rotators |-> None]
    /\ rgrace = [r \in Rotators |-> None]
    /\ rver = [r \in Rotators |-> 0]
    /\ kpc = [k \in Revokers |-> "idle"]
    /\ ktarget = [k \in Revokers |-> None]
    /\ kforce = [k \in Revokers |-> FALSE]
    /\ kactive = [k \in Revokers |-> None]
    /\ swept = {}
    /\ sdel = None

-----------------------------------------------------------------------------
Committed == {v \in Rows : state[v] # "none"}

With(st) == {v \in Rows : state[v] = st}

\* What a query that returns the first row of a set returns: the order is
\* that of activated_at, the start of the inserting transaction, and need not
\* be the order of the commits.
FirstOf(S, row) == IF S = {} THEN row = None ELSE row \in S

NewRow == Cardinality(Committed) + 1

Unlocked(t) == [v \in Rows |-> IF lock[v] = t THEN None ELSE lock[v]]

-----------------------------------------------------------------------------
(* Rotation.                                                               *)

\* The request is checked and getActiveVersion runs.
ReadActive(r, v) ==
    /\ rpc[r] = "idle"
    /\ Cardinality(Committed) < MaxRows
    /\ FirstOf(With("active"), v)
    /\ rprev' = [rprev EXCEPT ![r] = v]
    /\ rpc' = [rpc EXCEPT ![r] = "read_grace"]
    /\ UNCHANGED <<dbVars, lockVars, vaultVars, rexp, rgrace, rver, revVars,
                   sweepVars>>

\* getGraceVersion and BEGIN.
ReadGrace(r, v) ==
    /\ rpc[r] = "read_grace"
    /\ FirstOf(With("grace"), v)
    /\ rexp' = [rexp EXCEPT ![r] = v]
    /\ rpc' = [rpc EXCEPT ![r] = IF v = None THEN "pick" ELSE "expire"]
    /\ UNCHANGED <<dbVars, lockVars, vaultVars, rprev, rgrace, rver, revVars,
                   sweepVars>>

\* expireGraceVersion of the row read before, whatever its state is by now.
ExpireGrace(r) ==
    /\ rpc[r] = "expire"
    /\ lock[rexp[r]] = None
    /\ lock' = [lock EXCEPT ![rexp[r]] = r]
    /\ rpc' = [rpc EXCEPT ![r] = "pick"]
    /\ UNCHANGED <<dbVars, slot, vaultVars, rprev, rexp, rgrace, rver, revVars,
                   sweepVars>>

\* The subquery of transitionToGrace, when there was a previous version.
PickActive(r) ==
    /\ rpc[r] = "pick"
    /\ IF rprev[r] = None \/ With("active") = {}
       THEN rpc' = [rpc EXCEPT ![r] = "insert"] /\ UNCHANGED rgrace
       ELSE /\ \E v \in With("active") : rgrace' = [rgrace EXCEPT ![r] = v]
            /\ rpc' = [rpc EXCEPT ![r] = "to_grace"]
    /\ UNCHANGED <<dbVars, lockVars, vaultVars, rprev, rexp, rver, revVars,
                   sweepVars>>

\* Its UPDATE, once the row is free.
TransitionToGrace(r) ==
    /\ rpc[r] = "to_grace"
    /\ lock[rgrace[r]] = None
    /\ lock' = [lock EXCEPT ![rgrace[r]] = r]
    /\ rpc' = [rpc EXCEPT ![r] = "insert"]
    /\ UNCHANGED <<dbVars, slot, vaultVars, rprev, rexp, rgrace, rver, revVars,
                   sweepVars>>

\* Mutant: no unique index on the active row of a path.
InsertUnchecked(r) ==
    /\ rpc[r] = "insert"
    /\ slot' = r
    /\ rpc' = [rpc EXCEPT ![r] = "write"]
    /\ UNCHANGED <<dbVars, lock, vaultVars, rprev, rexp, rgrace, rver, revVars,
                   sweepVars>>

\* insertSecretVersion and the two events: uq_secret_active_version lets one
\* transaction at a time have an active row for the path.
InsertVersion(r) ==
    /\ rpc[r] = "insert"
    /\ slot = None
    /\ With("active") \subseteq {rgrace[r]}
    /\ Cardinality(Committed) < MaxRows
    /\ slot' = r
    /\ rpc' = [rpc EXCEPT ![r] = "write"]
    /\ UNCHANGED <<dbVars, lock, vaultVars, rprev, rexp, rgrace, rver, revVars,
                   sweepVars>>

\* What the answer to the n-th write of Vault is read as: its version, or 1 when
\* the body of a successful answer cannot be read.
AnsweredVersions(n) == {n, 1}

\* writeSecret is answered, and the version goes to the row.
WriteSecret(r) ==
    /\ rpc[r] = "write"
    /\ written < MaxWrites
    /\ written' = written + 1
    /\ \E n \in AnsweredVersions(written + 1) : rver' = [rver EXCEPT ![r] = n]
    /\ rpc' = [rpc EXCEPT ![r] = "commit"]
    /\ UNCHANGED <<dbVars, lockVars, gone, cut, rprev, rexp, rgrace, revVars,
                   sweepVars>>

\* The end of a rotation.
EndRotation(r) ==
    /\ rpc' = [rpc EXCEPT ![r] = "idle"]
    /\ rprev' = [rprev EXCEPT ![r] = None]
    /\ rexp' = [rexp EXCEPT ![r] = None]
    /\ rgrace' = [rgrace EXCEPT ![r] = None]
    /\ rver' = [rver EXCEPT ![r] = 0]

\* The transaction ends without effect: its locks are free again.
RollbackTx(r) ==
    /\ lock' = Unlocked(r)
    /\ slot' = IF slot = r THEN None ELSE slot
    /\ EndRotation(r)

\* The insert meets the committed active row of another rotation (or the bound
\* of the model): the unique index refuses it.
InsertRefused(r) ==
    /\ rpc[r] = "insert"
    /\ \/ \E v \in With("active") \ {rgrace[r]} : lock[v] = None
       \/ Cardinality(Committed) = MaxRows
    /\ RollbackTx(r)
    /\ UNCHANGED <<dbVars, vaultVars, revVars, sweepVars>>

\* Mutant: the early return of a refused write leaves the transaction open.
WriteRefusedOpen(r) ==
    /\ rpc[r] = "write"
    /\ EndRotation(r)
    /\ UNCHANGED <<dbVars, lockVars, vaultVars, revVars, sweepVars>>

\* writeSecret fails: ROLLBACK and 502.
WriteRefused(r) ==
    /\ rpc[r] = "write"
    /\ RollbackTx(r)
    /\ UNCHANGED <<dbVars, vaultVars, revVars, sweepVars>>

\* A query fails or the process ends before the commit.
Rollback(r) ==
    /\ rpc[r] # "idle"
    /\ RollbackTx(r)
    /\ UNCHANGED <<dbVars, vaultVars, revVars, sweepVars>>

\* Vault has written, but the request times out before its answer, or the UPDATE
\* of the row's version fails: ROLLBACK, and Vault has a version no row names.
WriteUnanswered(r) ==
    /\ rpc[r] = "write"
    /\ written < MaxWrites
    /\ written' = written + 1
    /\ RollbackTx(r)
    /\ UNCHANGED <<dbVars, gone, cut, revVars, sweepVars>>

\* COMMIT: the writes of the transaction become visible together.
Commit(r) ==
    /\ rpc[r] = "commit"
    /\ state' = [v \in Rows |-> CASE v = NewRow -> "active"
                                  [] v = rexp[r] -> "expired"
                                  [] v = rgrace[r] -> "grace"
                                  [] OTHER -> state[v]]
    /\ vault' = [vault EXCEPT ![NewRow] = rver[r]]
    /\ due' = [v \in Rows |-> due[v] /\ v # rgrace[r]]
    /\ lock' = Unlocked(r)
    /\ slot' = None
    /\ EndRotation(r)
    /\ UNCHANGED <<vaultVars, revVars, sweepVars>>

-----------------------------------------------------------------------------
(* Revocation.                                                             *)

\* getVersionByVaultVersion finds the target.
ReadTarget(k, v) ==
    /\ kpc[k] = "idle"
    /\ v \in Committed
    /\ ktarget' = [ktarget EXCEPT ![k] = v]
    /\ kpc' = [kpc EXCEPT ![k] = "read_active"]
    /\ UNCHANGED <<dbVars, lockVars, vaultVars, rotVars, kforce, kactive, sweepVars>>

RevokeReadActive(k, v) ==
    /\ kpc[k] = "read_active"
    /\ FirstOf(With("active"), v)
    /\ kactive' = [kactive EXCEPT ![k] = v]
    /\ kpc' = [kpc EXCEPT ![k] = "read_grace"]
    /\ UNCHANGED <<dbVars, lockVars, vaultVars, rotVars, ktarget, kforce,
                   sweepVars>>

EndRevocation(k) ==
    /\ kpc' = [kpc EXCEPT ![k] = "idle"]
    /\ ktarget' = [ktarget EXCEPT ![k] = None]
    /\ kforce' = [kforce EXCEPT ![k] = FALSE]
    /\ kactive' = [kactive EXCEPT ![k] = None]

\* Is another version valid, by the two rows read?
OtherValid(k, g) == {kactive[k], g} \ {None, ktarget[k]} # {}

\* getGraceVersion; when no other version is valid the request is refused, or goes
\* on because it has forceRevoke.
RevokeReadGrace(k, g) ==
    /\ kpc[k] = "read_grace"
    /\ FirstOf(With("grace"), g)
    /\ \/ /\ kpc' = [kpc EXCEPT ![k] = "revoke"]
          /\ kactive' = [kactive EXCEPT ![k] = None]
          /\ kforce' = [kforce EXCEPT ![k] = ~OtherValid(k, g)]
          /\ UNCHANGED ktarget
       \/ ~OtherValid(k, g) /\ EndRevocation(k)
    /\ UNCHANGED <<dbVars, lockVars, vaultVars, rotVars, sweepVars>>

\* BEGIN, revokeVersion once the row is free, and the events.
RevokeVersion(k) ==
    /\ kpc[k] = "revoke"
    /\ lock[ktarget[k]] = None
    /\ lock' = [lock EXCEPT ![ktarget[k]] = k]
    /\ kpc' = [kpc EXCEPT ![k] = "delete"]
    /\ UNCHANGED <<dbVars, slot, vaultVars, rotVars, ktarget, kforce, kactive,
                   sweepVars>>

\* deleteSecretVersion, answered or not.
DeleteVersion(k) ==
    /\ kpc[k] = "delete"
    /\ gone' = gone \cup {vault[ktarget[k]]}
    /\ cut' = cut \cup {ktarget[k]}
    /\ kpc' = [kpc EXCEPT ![k] = "commit"]
    /\ UNCHANGED <<dbVars, lockVars, written, rotVars, ktarget, kforce, kactive,
                   sweepVars>>

CommitRevoke(k) ==
    /\ kpc[k] = "commit"
    /\ state' = [state EXCEPT ![ktarget[k]] = "revoked"]
    /\ lock' = Unlocked(k)
    /\ EndRevocation(k)
    /\ UNCHANGED <<vault, due, slot, vaultVars, rotVars, sweepVars>>

\* A call fails or the process ends: rolled back, the deletion in Vault is not.
RollbackRevoke(k) ==
    /\ kpc[k] # "idle"
    /\ lock' = Unlocked(k)
    /\ EndRevocation(k)
    /\ UNCHANGED <<dbVars, slot, vaultVars, rotVars, sweepVars>>

-----------------------------------------------------------------------------
(* The expiry sweep, whose statements commit one by one.                   *)

\* Time passes: a grace period ends.
GraceElapses(v) ==
    /\ state[v] = "grace"
    /\ ~due[v]
    /\ due' = [due EXCEPT ![v] = TRUE]
    /\ UNCHANGED <<state, vault, lockVars, vaultVars, rotVars, revVars, sweepVars>>

\* Mutant: the sweep lists every version whose period is over.
ListExpiredAnyState ==
    /\ swept = {} /\ sdel = None
    /\ swept' = {v \in Committed : lock[v] = None}
    /\ swept' # {}
    /\ UNCHANGED <<dbVars, lockVars, vaultVars, rotVars, revVars, sdel>>

\* listExpiredGraceVersions: the locks end with the statement.
ListExpired ==
    /\ swept = {} /\ sdel = None
    /\ swept' = {v \in With("grace") : due[v] /\ lock[v] = None}
    /\ swept' # {}
    /\ UNCHANGED <<dbVars, lockVars, vaultVars, rotVars, revVars, sdel>>

\* expireGraceVersion of a listed row, whatever its state is by now.
SweepExpire(v) ==
    /\ sdel = None
    /\ v \in swept
    /\ lock[v] = None
    /\ state' = [state EXCEPT ![v] = "expired"]
    /\ swept' = swept \ {v}
    /\ sdel' = v
    /\ UNCHANGED <<vault, due, lockVars, vaultVars, rotVars, revVars>>

\* Mutant: the request names no version, which deletes the latest one.
SweepDeleteLatest ==
    /\ sdel # None
    /\ gone' = gone \cup {written}
    /\ sdel' = None
    /\ UNCHANGED <<dbVars, lockVars, written, cut, rotVars, revVars, swept>>

SweepDelete ==
    /\ sdel # None
    /\ gone' = gone \cup {vault[sdel]}
    /\ sdel' = None
    /\ UNCHANGED <<dbVars, lockVars, written, cut, rotVars, revVars, swept>>

\* The deletion fails: the error is reported and the row is not listed again.
SweepDeleteFails ==
    /\ sdel # None
    /\ sdel' = None
    /\ UNCHANGED <<dbVars, lockVars, vaultVars, rotVars, revVars, swept>>

\* The sweep ends early; its next run lists anew.
SweepStops ==
    /\ swept # {}
    /\ swept' = {}
    /\ sdel' = None
    /\ UNCHANGED <<dbVars, lockVars, vaultVars, rotVars, revVars>>

-----------------------------------------------------------------------------
RotatorStep(r) ==
    \/ \E v \in Rows \cup {None} : ReadActive(r, v) \/ ReadGrace(r, v)
    \/ ExpireGrace(r) \/ PickActive(r) \/ TransitionToGrace(r)
    \/ InsertVersion(r) \/ InsertRefused(r) \/ WriteSecret(r) \/ WriteRefused(r)
    \/ Commit(r)

RevokerStep(k) ==
    \/ \E v \in Rows : ReadTarget(k, v)
    \/ \E v \in Rows \cup {None} : RevokeReadActive(k, v) \/ RevokeReadGrace(k, v)
    \/ RevokeVersion(k) \/ DeleteVersion(k) \/ CommitRevoke(k)

SweepStep == ListExpired \/ SweepDelete \/ \E v \in Rows : SweepExpire(v)

Failure ==
    \/ \E r \in Rotators : Rollback(r) \/ WriteUnanswered(r)
    \/ \E k \in Revokers : RollbackRevoke(k)
    \/ SweepDeleteFails \/ SweepStops

Next ==
    \/ \E r \in Rotators : RotatorStep(r)
    \/ \E k \in Revokers : RevokerStep(k)
    \/ SweepStep \/ Failure
    \/ \E v \in Rows : GraceElapses(v)

Spec == Init /\ [][Next]_vars

-----------------------------------------------------------------------------
(* Properties.                                                             *)

\* The newest committed version is in use unless somebody revoked it: neither
\* a rotation that fails or loses a race, nor a sweep with a stale list,
\* takes it away.
NewestDecides ==
    Committed # {} =>
        state[Cardinality(Committed)] \in {"active", "revoked"}

\* The later rows that carry version 1 because the answer of their write could
\* not be read.
Defaulted == {v \in Committed : v > 1 /\ vault[v] = 1}

\* Rows are committed in the order in which Vault numbered their versions and
\* no two name the same one, whatever rotations race, fail or lose their
\* answer: the write of Vault happens while the transaction holds the only
\* active row.  The one exception is a row whose answer could not be read
\* (secret-rotation-initiate.mjs:99, vault-secrets.mjs:276-277).
VersionsOrdered ==
    \A v, w \in Committed : v < w => vault[v] < vault[w] \/ w \in Defaulted

\* The version of the active row can be read from Vault: the sweep and the
\* other rotations delete only what nobody uses.  The exceptions are a version
\* that a revocation deleted and a row that carries the default version.
ActiveReadable ==
    \A v \in With("active") : vault[v] \notin gone \/ v \in cut \/ v \in Defaulted

\* What the default costs: the active row may name a version that the sweep has
\* deleted with an older row.  False of the code (SecretRotation_default.cfg).
ActiveReadableAlways ==
    \A v \in With("active") : vault[v] \notin gone \/ v \in cut

\* The transactions a transaction is waiting for.
BlockedBy(t) ==
    LET rotating == t \in Rotators
        holders ==
            CASE rotating /\ rpc[t] = "expire" -> {lock[rexp[t]]}
              [] rotating /\ rpc[t] = "to_grace" -> {lock[rgrace[t]]}
              [] rotating /\ rpc[t] = "insert" ->
                     {slot} \cup {lock[v] : v \in With("active") \ {rgrace[t]}}
              [] ~rotating /\ kpc[t] = "revoke" -> {lock[ktarget[t]]}
              [] OTHER -> {}
    IN holders \ {None}

InProgress(t) == IF t \in Rotators THEN rpc[t] # "idle" ELSE kpc[t] # "idle"

\* Nobody waits for ever: whoever is waited for is a transaction in progress
\* (no early return leaves one open), and of any transactions one can go on
\* without the others (rotations and revocations do not deadlock on the rows
\* of a path and its only active row).
NobodyStuck ==
    LET blockedBy == [t \in Txs |-> BlockedBy(t)] IN
    /\ \A t, u \in Txs : u \in blockedBy[t] => InProgress(u)
    /\ \A S \in (SUBSET Txs) \ {{}} : \E t \in S : blockedBy[t] \cap S = {}

\* The commit of a revocation that was not forced leaves a valid version.
UnforcedLeavesValid ==
    [][\A k \in Revokers :
          (kpc[k] = "commit" /\ ~kforce[k] /\ state' # state /\ kpc'[k] = "idle")
              => \E v \in Rows : state'[v] \in {"active", "grace"}]_vars

=============================================================================
