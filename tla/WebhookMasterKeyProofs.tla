------------------------ MODULE WebhookMasterKeyProofs ------------------------
(***************************************************************************)
(* Proofs about WebhookMasterKey for any keys, rows, replicas, jobs and    *)
(* requests: types, that every secret can be opened with the serving key,  *)
(* that the latest request can be replayed, that a request transforms the  *)
(* rows once, and that the recovery key is kept until its deadline.        *)
(***************************************************************************)
EXTENDS WebhookMasterKey, TLAPS

\* The state row, a known request, a run and a process, where there is one.
StateRow ==
    [life : {"serving", "recovery_required"}, current : Keys, recovery : Keys \cup {NoKey},
     deadline : Nat, request : Requests \cup {NoRequest}, rotation : Rotations \cup {NoRotation}]
LedgerRow ==
    [status : {"completed", "failed", "recovery_required"}, call : Calls,
     sourceMode : Modes \cup {NoMode}, targetMode : Modes \cup {NoMode}]
Run ==
    [pc : PCs \ {"idle"}, call : Calls, currentMode : Modes \cup {NoMode},
     recoveryMode : Modes \cup {NoMode}, clock : 0..MaxNow, restore : BOOLEAN,
     ambiguous : BOOLEAN]

\* The keys that an operator may adopt as legacy keys.
Adopted == {c.target : c \in {d \in Calls : d.action = "adopt"}}

\* No rotation makes a canonical key of a Secret that was adopted as a legacy
\* key: its material does not parse, or nobody asks for it.
OneModePerKey ==
    \A c \in Calls : c.action = "rotate" /\ c.target \in Adopted =>
        MaterialOf[c.target] \notin Canonical

\* The clock of a call was read before.
ClockInv == \A j \in Jobs : job[j].clock <= now

\* A ledger entry is filed under its own request.
LedgerInv ==
    \A q \in Requests : ledger[q].status # "none" => ledger[q].call.request = q

\* One mode for every key id, with which all its uses agree.
Modings == {m \in [KeyIds -> Modes] : \A id \in KeyIds : m[id] = "legacy" => id \in Adopted}
Agrees(k, m) == k = KeyOf(k.id, m[k.id])

\* Until the first rotation every process has the one key there ever was, which
\* may be of any material; from then on the serving key, the recovery key and
\* the keys of processes, however old, are those of their Secrets and of one
\* mode for each id.
FirstKey ==
    /\ state.recovery = NoKey
    /\ state.current.mode = "legacy" => state.current.id \in Adopted
    /\ \A r \in Replicas : replica[r].key \in {NoKey, state.current}
AgreedKeys(m) ==
    /\ Agrees(state.current, m)
    /\ state.recovery # NoKey => Agrees(state.recovery, m)
    /\ \A r \in Replicas : replica[r].key # NoKey => Agrees(replica[r].key, m)
KeyInv ==
    /\ state.life = "none" => \A r \in Replicas : replica[r] = Down
    /\ state.life # "none" => FirstKey \/ \E m \in Modings : AgreedKeys(m)

\* A process inside a write has the serving key, which cannot change meanwhile.
HoldInv ==
    \A r \in Replicas : Holds(r) => state.life = "serving" /\ state.current = replica[r].key

\* What the fences compare: the label of rows and of a writer's key.
FenceInv ==
    \A r \in Replicas : Holds(r) =>
        state.life = "serving" /\ state.current.id = replica[r].key.id
LabelInv ==
    state.life # "none" => \A s \in Live : rows[s].id = state.current.id

IInv ==
    /\ TypeOK /\ ClockInv /\ LedgerInv /\ FenceInv /\ LabelInv
    /\ LatestRequestReplayable
KInv == KeyInv /\ HoldInv /\ RowsReadable

-----------------------------------------------------------------------------
(* Types.                                                                  *)

\* A job is idle or has a call with all that the CLI has read.
LEMMA RunFacts ==
  ASSUME TypeOK, NEW j \in Jobs
  PROVE  /\ job[j] = Idle \/ job[j] \in Run
         /\ job[j].pc # "idle" => job[j] \in Run
  BY DEF TypeOK, JobType, Run, Idle

\* The state row does not exist or is complete.
LEMMA StateFacts ==
  ASSUME TypeOK
  PROVE  /\ state = NoState \/ state \in StateRow
         /\ state.life # "none" => state \in StateRow
         /\ state.life = "none" => state = NoState
  BY DEF TypeOK, StateType, StateRow, NoState

\* A ledger entry does not exist or is complete.
LEMMA EntryFacts ==
  ASSUME TypeOK, NEW q \in Requests
  PROVE  /\ ledger[q] = NoEntry \/ ledger[q] \in LedgerRow
         /\ ledger[q].status # "none" => ledger[q] \in LedgerRow
  BY DEF TypeOK, EntryType, LedgerRow, NoEntry

\* What the schema of the requests guarantees of a call.
LEMMA CallFacts ==
  ASSUME NEW c \in Calls
  PROVE  /\ c.action \in {"adopt", "rotate", "recover", "finalize"}
         /\ c.request \in Requests /\ c.rotation \in Rotations \cup {NoRotation}
         /\ c.target \in KeyIds /\ c.window \in Nat
         /\ c.action # "adopt" => c.source \in KeyIds
         /\ c.source # c.target
         /\ c.action \in {"adopt", "finalize"} => c.rotation = NoRotation
  BY CallAssumption DEF CallType

\* The modes a run resolves.
LEMMA ModeFacts ==
  ASSUME TypeOK, NEW j \in Jobs, job[j] \in Run
  PROVE  /\ SourceMode(j) \in Modes \cup {NoMode} /\ TargetMode(j) \in Modes \cup {NoMode}
         /\ job[j].call.action \in {"adopt", "finalize"} => SourceMode(j) = NoMode
         /\ job[j].call.action = "adopt" => TargetMode(j) = "legacy"
         /\ job[j].call.action = "rotate" => TargetMode(j) = "canonical-v1"
<1>1. /\ job[j].currentMode \in Modes \cup {NoMode}
      /\ job[j].recoveryMode \in Modes \cup {NoMode} /\ job[j].call \in Calls
  BY DEF Run
<1>2. Entry(j) = NoEntry \/ Entry(j) \in LedgerRow
  BY <1>1, CallFacts, EntryFacts DEF Entry
<1>3. Entry(j).sourceMode \in Modes \cup {NoMode} /\ Entry(j).targetMode \in Modes \cup {NoMode}
  BY <1>2 DEF NoEntry, LedgerRow
<1>4. SourceMode(j) \in Modes \cup {NoMode}
  BY <1>1, <1>3 DEF SourceMode
<1>5. TargetMode(j) \in Modes \cup {NoMode}
  BY <1>1, <1>3 DEF TargetMode, Modes
<1> QED BY <1>4, <1>5 DEF SourceMode, TargetMode

\* The keys of a call whose material parses.
LEMMA KeyFacts ==
  ASSUME TypeOK, NEW j \in Jobs, job[j] \in Run, ContextsParse(j)
  PROVE  /\ Target(j) \in Keys /\ Target(j) = KeyOf(job[j].call.target, TargetMode(j))
         /\ Target(j).id = job[j].call.target /\ Target(j).mode = TargetMode(j)
         /\ Swaps(job[j].call) =>
              /\ Source(j) \in Keys /\ Source(j) = KeyOf(job[j].call.source, SourceMode(j))
              /\ Source(j).id = job[j].call.source /\ Source(j).mode = SourceMode(j)
<1>1. job[j].call \in Calls
  BY DEF Run
<1>2. TargetMode(j) \in Modes
  BY DEF ContextsParse, Parses, Target, KeyOf, Modes
<1>3. Swaps(job[j].call) => SourceMode(j) \in Modes
  BY DEF ContextsParse, Parses, Source, KeyOf, Modes
<1>4. job[j].call.target \in KeyIds /\ MaterialOf[job[j].call.target] \in Materials
  BY <1>1, CallFacts, KeyAssumption
<1>5. Swaps(job[j].call) =>
        job[j].call.source \in KeyIds /\ MaterialOf[job[j].call.source] \in Materials
  BY <1>1, CallFacts, KeyAssumption DEF Swaps
<1> QED BY <1>2, <1>3, <1>4, <1>5 DEF Target, Source, KeyOf, Keys

\* A run goes on, or ends.
LEMMA RunMoves ==
  ASSUME TypeOK, NEW j \in Jobs, NEW x \in Run \cup {Idle}, job' = [job EXCEPT ![j]
         = x]
  PROVE  job' \in [Jobs -> JobType]
  BY DEF TypeOK, JobType, Run

\* A job that goes on keeps its type.
LEMMA NextPC ==
  ASSUME TypeOK, NEW j \in Jobs, job[j] \in Run, NEW p \in PCs \ {"idle"},
         job' = [job EXCEPT ![j].pc = p]
  PROVE  job' \in [Jobs -> JobType]
<1>1. [job[j] EXCEPT !.pc = p] \in Run
  BY DEF Run
<1>2. job' = [job EXCEPT ![j] = [job[j] EXCEPT !.pc = p]]
  OBVIOUS
<1> QED BY <1>1, <1>2, RunMoves

\* So does one whose COMMIT was answered or not.
LEMMA AfterCommitType ==
  ASSUME TypeOK, NEW j \in Jobs, job[j] \in Run, NEW a, AfterCommit(j, a)
  PROVE  job' \in [Jobs -> JobType]
<1> DEFINE p == IF a THEN "apply" ELSE IF Swaps(job[j].call) THEN "mark" ELSE "fail"
<1>1. p \in PCs \ {"idle"}
  BY DEF PCs
<1>2. job' = [job EXCEPT ![j].pc = p]
  BY DEF AfterCommit
<1> HIDE DEF p
<1> QED BY <1>1, <1>2, NextPC

\* The ledger after a completed request is well typed.
LEMMA CompletedType ==
  ASSUME TypeOK, NEW j \in Jobs, job[j] \in Run
  PROVE  Completed(j) \in [Requests -> EntryType]
<1>1. job[j].call \in Calls /\ job[j].call.request \in Requests
  BY CallFacts DEF Run
<1> QED BY <1>1, ModeFacts DEF Completed, EntryType, TypeOK

\* So are the rows after their re-encryption.
LEMMA ResealedType ==
  ASSUME NEW k \in Keys
  PROVE  Resealed(k) \in [Secrets -> Keys \cup Unlabelled \cup {NoKey}]
  BY DEF Resealed

\* And the ledger after a failure was recorded, or was not.
LEMMA FailureType ==
  ASSUME TypeOK, NEW j \in Jobs, job[j] \in Run, NEW recorded,
         RecordFailure(j, recorded)
  PROVE  ledger' \in [Requests -> EntryType]
<1> DEFINE sm == IF Swaps(job[j].call) THEN job[j].currentMode ELSE NoMode
           tm == IF job[j].call.action = "recover" THEN job[j].recoveryMode
                 ELSE TargetMode(j)
           e == [status |-> "failed", call |-> job[j].call, sourceMode |-> sm,
                 targetMode |-> tm]
<1>1. job[j].call \in Calls /\ job[j].call.request \in Requests
  BY CallFacts DEF Run
<1>2. sm \in Modes \cup {NoMode} /\ tm \in Modes \cup {NoMode}
  BY ModeFacts DEF Run
<1>3. e \in EntryType
  <2> HIDE DEF sm, tm
  <2> QED BY <1>1, <1>2 DEF EntryType
<1>4. ledger' = ledger \/ ledger' = [ledger EXCEPT ![job[j].call.request] = e]
  BY DEF RecordFailure
<1> HIDE DEF e
<1> QED BY <1>1, <1>3, <1>4 DEF TypeOK

\* Types are kept by every step.
LEMMA TypeStep ==
  ASSUME TypeOK, [Next]_vars
  PROVE  TypeOK'
<1>1. ASSUME NEW r \in Replicas, NEW k \in Keys, NEW acknowledged \in BOOLEAN,
             Boot(r, k, acknowledged)
      PROVE  TypeOK'
  <2>1. state' \in StateType
    BY <1>1, StateFacts DEF Boot, Established, NoState, StateType, Verified, TypeOK
  <2>2. replica' \in [Replicas -> ReplicaType]
    BY <1>1 DEF Boot, Down, ReplicaType, TypeOK
  <2> QED BY <1>1, <2>1, <2>2 DEF Boot, TypeOK
<1>2. ASSUME NEW r \in Replicas, WriteFence(r)
      PROVE  TypeOK'
  <2>1. replica[r] \in [key : Keys, phase : {"serving", "fenced"}, row : {NoSecret}]
    BY <1>2 DEF WriteFence, TypeOK, ReplicaType, Down
  <2>2. [replica[r] EXCEPT !.phase = "fenced"] \in ReplicaType
    BY <2>1 DEF ReplicaType
  <2> QED BY <1>2, <2>2 DEF WriteFence, TypeOK
<1>3. ASSUME NEW r \in Replicas, NEW s \in Secrets, WriteInsert(r, s)
      PROVE  TypeOK'
  <2>1. replica[r] \in [key : Keys, phase : {"serving", "fenced"}, row : {NoSecret}]
    BY <1>3 DEF WriteInsert, TypeOK, ReplicaType, Down
  <2>2. [[replica[r] EXCEPT !.phase = "inserted"] EXCEPT !.row = s] \in ReplicaType
    BY <2>1 DEF ReplicaType
  <2>3. replica' \in [Replicas -> ReplicaType]
    BY <1>3, <2>1, <2>2 DEF WriteInsert, TypeOK, ReplicaType
  <2> QED BY <1>3, <2>3 DEF WriteInsert, TypeOK
<1>4. ASSUME NEW r \in Replicas, WriteCommit(r)
      PROVE  TypeOK'
  <2>1. replica[r] \in [key : Keys, phase : {"inserted"}, row : Secrets]
    BY <1>4 DEF WriteCommit, TypeOK, ReplicaType, Down
  <2>2. replica' \in [Replicas -> ReplicaType]
    BY <1>4, <2>1 DEF WriteCommit, TypeOK, ReplicaType
  <2>3. rows' \in [Secrets -> Keys \cup Unlabelled \cup {NoKey}]
    BY <1>4, <2>1 DEF WriteCommit, TypeOK
  <2> QED BY <1>4, <2>2, <2>3 DEF WriteCommit, TypeOK
<1>5. ASSUME NEW r \in Replicas, WriteAbort(r)
      PROVE  TypeOK'
  <2>1. replica[r] \in [key : Keys, phase : {"fenced", "inserted"},
                        row : Secrets \cup {NoSecret}]
    BY <1>5 DEF WriteAbort, Holds, TypeOK, ReplicaType, Down
  <2>2. [[replica[r] EXCEPT !.phase = "serving"] EXCEPT !.row = NoSecret] \in
        ReplicaType
    BY <2>1 DEF ReplicaType
  <2>3. replica' \in [Replicas -> ReplicaType]
    BY <1>5, <2>2 DEF WriteAbort, TypeOK
  <2> QED BY <1>5, <2>3 DEF WriteAbort, TypeOK
<1>6. ASSUME NEW r \in Replicas, Stop(r)
      PROVE  TypeOK'
  BY <1>6 DEF Stop, TypeOK, ReplicaType
<1>7. ASSUME NEW j \in Jobs, NEW c \in Asks[j], Start(j, c)
      PROVE  TypeOK'
  <2>1. c \in Calls
    BY CallAssumption
  <2>2. Idle \in [pc : PCs, call : Calls \cup {NoCall}, currentMode : Modes \cup
        {NoMode},
                  recoveryMode : Modes \cup {NoMode}, clock : 0..MaxNow,
                  restore : BOOLEAN, ambiguous : BOOLEAN]
    BY NullAssumption DEF Idle, PCs
  <2>4. [Idle EXCEPT !.pc = "quiesce", !.call = c] \in Run
    BY <2>1, <2>2 DEF Run, PCs
  <2>3. job' \in [Jobs -> JobType]
    BY <1>7, <2>4, RunMoves DEF Start
  <2> QED BY <1>7, <2>3 DEF Start, TypeOK
<1>8. ASSUME NEW j \in Jobs, Quiesce(j)
      PROVE  TypeOK'
  <2>1. job[j] \in Run
    BY <1>8, RunFacts DEF Quiesce
  <2>2. job' \in [Jobs -> JobType]
    <3>1. CASE scaled
      BY <1>8, <2>1, <3>1, NextPC DEF Quiesce, PCs
    <3>2. CASE ~scaled /\ AuthorizedReplay(job[j].call)
      BY <1>8, <2>1, <3>2, NextPC DEF Quiesce, PCs
    <3>3. CASE ~scaled /\ ~AuthorizedReplay(job[j].call)
      BY <1>8, <3>3, RunMoves DEF Quiesce
    <3> QED BY <3>1, <3>2, <3>3
  <2> QED BY <1>8, <2>2 DEF Quiesce, TypeOK
<1>9. ASSUME NEW j \in Jobs, Scale(j)
      PROVE  TypeOK'
  <2>1. job[j] \in Run
    BY <1>9, RunFacts DEF Scale
  <2>2. job' \in [Jobs -> JobType]
    BY <1>9, <2>1, NextPC DEF Scale, PCs
  <2> QED BY <1>9, <2>2 DEF Scale, TypeOK
<1>10. ASSUME NEW j \in Jobs, Drain(j)
      PROVE  TypeOK'
  <2>1. job[j] \in Run
    BY <1>10, RunFacts DEF Drain
  <2>2. [[job[j] EXCEPT !.pc = "call"] EXCEPT !.restore = TRUE] \in Run
    BY <2>1 DEF Run, PCs
  <2>3. job' \in [Jobs -> JobType]
    BY <1>10, <2>1, <2>2 DEF Drain, TypeOK, JobType, Run
  <2> QED BY <1>10, <2>3 DEF Drain, TypeOK
<1>11. ASSUME NEW j \in Jobs, DrainTimeout(j)
      PROVE  TypeOK'
  <2>1. job' \in [Jobs -> JobType]
    BY <1>11, RunMoves DEF DrainTimeout
  <2> QED BY <1>11, <2>1 DEF DrainTimeout, TypeOK
<1>12. ASSUME NEW j \in Jobs, ReadResolution(j)
      PROVE  TypeOK'
  <2>1. job[j] \in Run
    BY <1>12, RunFacts DEF ReadResolution
  <2> DEFINE cm == IF state.life = "none" THEN NoMode ELSE state.current.mode
             rm == IF state.recovery = NoKey THEN NoMode ELSE state.recovery.mode
             x == [job[j] EXCEPT !.pc = "tx", !.clock = now, !.currentMode = cm,
                                 !.recoveryMode = rm]
  <2>2. cm \in Modes \cup {NoMode} /\ rm \in Modes \cup {NoMode}
    BY StateFacts DEF StateRow, NoState, Keys
  <2> HIDE DEF cm, rm
  <2>3. x \in Run
    BY <2>1, <2>2 DEF Run, PCs, TypeOK
  <2>4. job' = [job EXCEPT ![j] = x]
    BY <1>12 DEF ReadResolution, TypeOK, cm, rm
  <2> HIDE DEF x
  <2>5. job' \in [Jobs -> JobType]
    BY <2>3, <2>4, RunMoves
  <2> QED BY <1>12, <2>5 DEF ReadResolution, TypeOK
<1>13. ASSUME NEW j \in Jobs, NEW acknowledged \in BOOLEAN, Replay(j, acknowledged)
      PROVE  TypeOK'
  <2>1. job[j] \in Run
    BY <1>13, RunFacts DEF Replay, Transacts
  <2>2. job' \in [Jobs -> JobType]
    BY <1>13, <2>1, AfterCommitType DEF Replay
  <2> QED BY <1>13, <2>2 DEF Replay, TypeOK
<1>14. ASSUME NEW j \in Jobs, NEW acknowledged \in BOOLEAN, Resume(j, acknowledged)
      PROVE  TypeOK'
  <2>1. job[j] \in Run
    BY <1>14, RunFacts DEF Resume, Transacts
  <2>2. job' \in [Jobs -> JobType]
    BY <1>14, <2>1, AfterCommitType DEF Resume
  <2>3. state.life # "none" /\ Entry(j).status # "none" /\ job[j].call.request \in Requests
    BY <1>14, <2>1, CallFacts DEF Resume, CanResume, Replays, DurableReplay, Run
  <2>4. state' \in StateType
    BY <1>14, <2>3, StateFacts DEF Resume, StateType, StateRow
  <2>5. ledger' \in [Requests -> EntryType]
    BY <1>14, <2>3, EntryFacts DEF Resume, Entry, EntryType, LedgerRow, TypeOK
  <2> QED BY <1>14, <2>2, <2>4, <2>5 DEF Resume, TypeOK
<1>15. ASSUME NEW j \in Jobs, NEW acknowledged \in BOOLEAN, Adopt(j, acknowledged)
      PROVE  TypeOK'
  <2>1. job[j] \in Run
    BY <1>15, RunFacts DEF Adopt, Transacts
  <2>2. job' \in [Jobs -> JobType]
    BY <1>15, <2>1, AfterCommitType DEF Adopt
  <2>3. /\ ContextsParse(j) /\ Entry(j).status \in {"none", "failed"}
        /\ job[j].call \in Calls /\ job[j].call.action = "adopt"
    BY <1>15, <2>1 DEF Adopt, CanAdopt, Fresh, Run
  <2>4. ledger' \in [Requests -> EntryType]
    BY <1>15, <2>1, <2>3, CompletedType DEF Adopt
  <2>5. rows' \in [Secrets -> Keys \cup Unlabelled \cup {NoKey}]
    BY <1>15, <2>1, <2>3, KeyFacts, ResealedType DEF Adopt
  <2>6. state' \in StateType
    BY <1>15, <2>1, <2>3, KeyFacts, CallFacts DEF Adopt, StateType, NoState
  <2> QED BY <1>15, <2>2, <2>4, <2>5, <2>6 DEF Adopt, TypeOK
<1>16. ASSUME NEW j \in Jobs, NEW acknowledged \in BOOLEAN, Rotate(j, acknowledged)
      PROVE  TypeOK'
  <2>1. job[j] \in Run
    BY <1>16, RunFacts DEF Rotate, Transacts
  <2>2. job' \in [Jobs -> JobType]
    BY <1>16, <2>1, AfterCommitType DEF Rotate
  <2>3. /\ ContextsParse(j) /\ Entry(j).status \in {"none", "failed"}
        /\ job[j].call \in Calls /\ job[j].call.action = "rotate"
    BY <1>16, <2>1 DEF Rotate, CanRotate, Fresh, Run
  <2>4. ledger' \in [Requests -> EntryType]
    BY <1>16, <2>1, <2>3, CompletedType DEF Rotate
  <2>5. rows' \in [Secrets -> Keys \cup Unlabelled \cup {NoKey}]
    BY <1>16, <2>1, <2>3, KeyFacts, ResealedType DEF Rotate
  <2>6. state.current \in Keys /\ now + job[j].call.window \in Nat
    BY <1>16, <2>3, StateFacts, CallFacts, NullAssumption DEF Rotate, CanRotate,
       StateRow, TypeOK
  <2>7. state' \in StateType
    BY <1>16, <2>1, <2>3, <2>6, KeyFacts, CallFacts DEF Rotate, StateType
  <2> QED BY <1>16, <2>2, <2>4, <2>5, <2>7 DEF Rotate, TypeOK
<1>17. ASSUME NEW j \in Jobs, NEW acknowledged \in BOOLEAN, Recover(j, acknowledged)
      PROVE  TypeOK'
  <2>1. job[j] \in Run
    BY <1>17, RunFacts DEF Recover, Transacts
  <2>2. job' \in [Jobs -> JobType]
    BY <1>17, <2>1, AfterCommitType DEF Recover
  <2>3. /\ ContextsParse(j) /\ Entry(j).status \in {"none", "failed"}
        /\ job[j].call \in Calls /\ job[j].call.action = "recover"
    BY <1>17, <2>1 DEF Recover, CanRecover, Fresh, Run
  <2>4. ledger' \in [Requests -> EntryType]
    BY <1>17, <2>1, <2>3, CompletedType DEF Recover
  <2>5. rows' \in [Secrets -> Keys \cup Unlabelled \cup {NoKey}]
    BY <1>17, <2>1, <2>3, KeyFacts, ResealedType DEF Recover
  <2>6. /\ state.current \in Keys /\ state.recovery = Target(j)
        /\ job[j].clock + job[j].call.window \in Nat
    BY <1>17, <2>1, <2>3, StateFacts, CallFacts, NullAssumption DEF Recover,
       CanRecover, StateRow, Run
  <2>7. state' \in StateType
    BY <1>17, <2>1, <2>3, <2>6, KeyFacts, CallFacts DEF Recover, StateType
  <2> QED BY <1>17, <2>2, <2>4, <2>5, <2>7 DEF Recover, TypeOK
<1>18. ASSUME NEW j \in Jobs, NEW acknowledged \in BOOLEAN, Finalize(j, acknowledged)
      PROVE  TypeOK'
  <2>1. job[j] \in Run
    BY <1>18, RunFacts DEF Finalize, Transacts
  <2>2. job' \in [Jobs -> JobType]
    BY <1>18, <2>1, AfterCommitType DEF Finalize
  <2>3. /\ ContextsParse(j) /\ Entry(j).status \in {"none", "failed"}
        /\ job[j].call \in Calls /\ job[j].call.action = "finalize"
    BY <1>18, <2>1 DEF Finalize, CanFinalize, Fresh, Run
  <2>4. ledger' \in [Requests -> EntryType]
    BY <1>18, <2>1, <2>3, CompletedType DEF Finalize
  <2>6. state \in StateRow
    BY <1>18, StateFacts DEF Finalize, CanFinalize
  <2>7. state' \in StateType
    BY <1>18, <2>3, <2>6, CallFacts DEF Finalize, StateType, StateRow
  <2> QED BY <1>18, <2>2, <2>4, <2>7 DEF Finalize, TypeOK
<1>19. ASSUME NEW j \in Jobs, CommitLost(j)
      PROVE  TypeOK'
  <2>1. job[j] \in Run
    BY <1>19, RunFacts DEF CommitLost, Transacts
  <2>2. job' \in [Jobs -> JobType]
    BY <1>19, <2>1, AfterCommitType DEF CommitLost
  <2> QED BY <1>19, <2>2 DEF CommitLost, TypeOK
<1>20. ASSUME NEW j \in Jobs, Refuse(j)
      PROVE  TypeOK'
  <2>1. job[j] \in Run
    BY <1>20, RunFacts DEF Refuse, Transacts
  <2> DEFINE a == RefusedAsAmbiguous(j)
  <2>2. a \in BOOLEAN
    BY DEF RefusedAsAmbiguous
  <2>3. job' = [job EXCEPT ![j].pc = "fail", ![j].ambiguous = a]
    BY <1>20 DEF Refuse
  <2> HIDE DEF a
  <2>4. [[job[j] EXCEPT !.pc = "fail"] EXCEPT !.ambiguous = a] \in Run
    BY <2>1, <2>2 DEF Run, PCs
  <2>5. job' \in [Jobs -> JobType]
    BY <2>1, <2>3, <2>4 DEF TypeOK, JobType, Run
  <2> QED BY <1>20, <2>5 DEF Refuse, TypeOK
<1>21. ASSUME NEW j \in Jobs, TransactionFails(j)
      PROVE  TypeOK'
  <2>1. job[j] \in Run
    BY <1>21, RunFacts DEF TransactionFails
  <2>2. job' \in [Jobs -> JobType]
    BY <1>21, <2>1, NextPC DEF TransactionFails, PCs
  <2> QED BY <1>21, <2>2 DEF TransactionFails, TypeOK
<1>22. ASSUME NEW j \in Jobs, NEW committed \in BOOLEAN, MarkAmbiguous(j, committed)
      PROVE  TypeOK'
  <2>1. job[j] \in Run
    BY <1>22, RunFacts DEF MarkAmbiguous
  <2>2. job' \in [Jobs -> JobType]
    BY <1>22, <2>1, NextPC DEF MarkAmbiguous, PCs
  <2>3. CASE committed /\ Entry(j).status = "completed" /\ Bound(j) /\ Replays(j)
    <3>1. state.life # "none" /\ Entry(j) \in LedgerRow /\ job[j].call.request \in Requests
      BY <2>1, <2>3, CallFacts, EntryFacts DEF Replays, DurableReplay, Run, Entry
    <3>2. Entry(j).call.request = job[j].call.request
      BY <2>3 DEF Bound
    <3>3. state' \in StateType
      BY <1>22, <2>3, <3>1, StateFacts DEF MarkAmbiguous, StateType, StateRow
    <3>4. ledger' \in [Requests -> EntryType]
      <4>1. ledger' = [ledger EXCEPT ![job[j].call.request].status =
            "recovery_required"]
        BY <1>22, <2>3, <3>2 DEF MarkAmbiguous, MarkedLedger
      <4> QED BY <3>1, <4>1 DEF Entry, EntryType, LedgerRow, TypeOK
    <3> QED BY <1>22, <2>2, <3>3, <3>4 DEF MarkAmbiguous, TypeOK
  <2>4. CASE ~(committed /\ Entry(j).status = "completed" /\ Bound(j) /\ Replays(j))
    BY <1>22, <2>2, <2>4 DEF MarkAmbiguous, TypeOK
  <2> QED BY <2>3, <2>4
<1>23. ASSUME NEW j \in Jobs, NEW recorded \in BOOLEAN, NEW restored \in BOOLEAN,
              Fail(j, recorded, restored)
      PROVE  TypeOK'
  <2>1. job[j] \in Run
    BY <1>23, RunFacts DEF Fail
  <2>2. job' \in [Jobs -> JobType]
    BY <1>23, RunMoves DEF Fail
  <2>3. scaled' \in BOOLEAN
    BY <1>23 DEF Fail
  <2>4. ledger' \in [Requests -> EntryType]
    BY <1>23, <2>1, FailureType DEF Fail
  <2> QED BY <1>23, <2>2, <2>3, <2>4 DEF Fail, TypeOK
<1>24. ASSUME NEW j \in Jobs, Apply(j)
      PROVE  TypeOK'
  <2>1. job' \in [Jobs -> JobType]
    BY <1>24, RunMoves DEF Apply
  <2> QED BY <1>24, <2>1 DEF Apply, TypeOK
<1>25. ASSUME NEW j \in Jobs, CrashJob(j)
      PROVE  TypeOK'
  <2>1. job' \in [Jobs -> JobType]
    BY <1>25, RunMoves DEF CrashJob
  <2> QED BY <1>25, <2>1 DEF CrashJob, TypeOK
<1>26. CASE Tick
  BY <1>26, NullAssumption DEF Tick, TypeOK
<1>27. CASE UNCHANGED vars
  BY <1>27 DEF vars, TypeOK
<1> HIDE DEF TypeOK
<1> QED
  BY <1>1, <1>2, <1>3, <1>4, <1>5, <1>6, <1>7, <1>8, <1>9, <1>10, <1>11,
     <1>12, <1>13, <1>14, <1>15, <1>16, <1>17, <1>18, <1>19, <1>20, <1>21,
     <1>22, <1>23, <1>24, <1>25, <1>26, <1>27 DEF Next, ReplicaStep,
     JobStep, Transaction

(* The ledger and the clock.                                               *)

\* The clock of a run that moves or ends.
LEMMA ClockFrame ==
  ASSUME TypeOK, ClockInv, UNCHANGED now, NEW j \in Jobs,
         \A q \in Jobs : q # j => job'[q] = job[q], job'[j].clock \in {job[j].clock,
         0, now}
  PROVE  ClockInv'
  BY NullAssumption DEF ClockInv, TypeOK

\* A clock that was read stays in the past.
LEMMA ClockStep ==
  ASSUME TypeOK, ClockInv, [Next]_vars
  PROVE  ClockInv'
<1>1. ASSUME NEW r \in Replicas, NEW k \in Keys, NEW acknowledged \in BOOLEAN,
             Boot(r, k, acknowledged)
      PROVE  ClockInv'
  BY <1>1 DEF Boot, ClockInv
<1>2. ASSUME NEW r \in Replicas, WriteFence(r)
      PROVE  ClockInv'
  BY <1>2 DEF WriteFence, ClockInv
<1>3. ASSUME NEW r \in Replicas, NEW s \in Secrets, WriteInsert(r, s)
      PROVE  ClockInv'
  BY <1>3 DEF WriteInsert, ClockInv
<1>4. ASSUME NEW r \in Replicas, WriteCommit(r)
      PROVE  ClockInv'
  BY <1>4 DEF WriteCommit, ClockInv
<1>5. ASSUME NEW r \in Replicas, WriteAbort(r)
      PROVE  ClockInv'
  BY <1>5 DEF WriteAbort, Holds, ClockInv
<1>6. ASSUME NEW r \in Replicas, Stop(r)
      PROVE  ClockInv'
  BY <1>6 DEF Stop, ClockInv
<1>7. ASSUME NEW j \in Jobs, NEW c \in Asks[j], Start(j, c)
      PROVE  ClockInv'
  <2>1. job'[j].clock = 0 /\ \A q \in Jobs : q # j => job'[q] = job[q]
    BY <1>7 DEF Start, Idle, TypeOK
  <2> QED BY <1>7, <2>1, ClockFrame DEF Start
<1>8. ASSUME NEW j \in Jobs, Quiesce(j)
      PROVE  ClockInv'
  <2>1. job[j] \in Run
    BY <1>8, RunFacts DEF Quiesce
  <2>2. job'[j].clock \in {job[j].clock, 0, now} /\ \A q \in Jobs : q # j => job'[q] = job[q]
    BY <1>8, <2>1 DEF Quiesce, AfterCommit, Run, Idle, TypeOK
  <2> QED BY <1>8, <2>2, ClockFrame DEF Quiesce
<1>9. ASSUME NEW j \in Jobs, Scale(j)
      PROVE  ClockInv'
  <2>1. job[j] \in Run
    BY <1>9, RunFacts DEF Scale
  <2>2. job'[j].clock \in {job[j].clock, 0, now} /\ \A q \in Jobs : q # j => job'[q] = job[q]
    BY <1>9, <2>1 DEF Scale, AfterCommit, Run, Idle, TypeOK
  <2> QED BY <1>9, <2>2, ClockFrame DEF Scale
<1>10. ASSUME NEW j \in Jobs, Drain(j)
      PROVE  ClockInv'
  <2>1. job[j] \in Run
    BY <1>10, RunFacts DEF Drain
  <2>2. job'[j].clock \in {job[j].clock, 0, now} /\ \A q \in Jobs : q # j => job'[q] = job[q]
    BY <1>10, <2>1 DEF Drain, AfterCommit, Run, Idle, TypeOK
  <2> QED BY <1>10, <2>2, ClockFrame DEF Drain
<1>11. ASSUME NEW j \in Jobs, DrainTimeout(j)
      PROVE  ClockInv'
  <2>1. job[j] \in Run
    BY <1>11, RunFacts DEF DrainTimeout
  <2>2. job'[j].clock \in {job[j].clock, 0, now} /\ \A q \in Jobs : q # j => job'[q] = job[q]
    BY <1>11, <2>1 DEF DrainTimeout, AfterCommit, Run, Idle, TypeOK
  <2> QED BY <1>11, <2>2, ClockFrame DEF DrainTimeout
<1>12. ASSUME NEW j \in Jobs, ReadResolution(j)
      PROVE  ClockInv'
  <2>1. job[j] \in Run
    BY <1>12, RunFacts DEF ReadResolution
  <2>2. job'[j].clock \in {job[j].clock, 0, now} /\ \A q \in Jobs : q # j => job'[q] = job[q]
    BY <1>12, <2>1 DEF ReadResolution, AfterCommit, Run, Idle, TypeOK
  <2> QED BY <1>12, <2>2, ClockFrame DEF ReadResolution
<1>13. ASSUME NEW j \in Jobs, NEW acknowledged \in BOOLEAN, Replay(j, acknowledged)
      PROVE  ClockInv'
  <2>1. job[j] \in Run
    BY <1>13, RunFacts DEF Replay, Transacts
  <2>2. job'[j].clock \in {job[j].clock, 0, now} /\ \A q \in Jobs : q # j => job'[q] = job[q]
    BY <1>13, <2>1 DEF Replay, AfterCommit, Run, Idle, TypeOK
  <2> QED BY <1>13, <2>2, ClockFrame DEF Replay
<1>14. ASSUME NEW j \in Jobs, NEW acknowledged \in BOOLEAN, Resume(j, acknowledged)
      PROVE  ClockInv'
  <2>1. job[j] \in Run
    BY <1>14, RunFacts DEF Resume, Transacts
  <2>2. job'[j].clock \in {job[j].clock, 0, now} /\ \A q \in Jobs : q # j => job'[q] = job[q]
    BY <1>14, <2>1 DEF Resume, AfterCommit, Run, Idle, TypeOK
  <2> QED BY <1>14, <2>2, ClockFrame DEF Resume
<1>15. ASSUME NEW j \in Jobs, NEW acknowledged \in BOOLEAN, Adopt(j, acknowledged)
      PROVE  ClockInv'
  <2>1. job[j] \in Run
    BY <1>15, RunFacts DEF Adopt, Transacts
  <2>2. job'[j].clock \in {job[j].clock, 0, now} /\ \A q \in Jobs : q # j => job'[q] = job[q]
    BY <1>15, <2>1 DEF Adopt, AfterCommit, Run, Idle, TypeOK
  <2> QED BY <1>15, <2>2, ClockFrame DEF Adopt
<1>16. ASSUME NEW j \in Jobs, NEW acknowledged \in BOOLEAN, Rotate(j, acknowledged)
      PROVE  ClockInv'
  <2>1. job[j] \in Run
    BY <1>16, RunFacts DEF Rotate, Transacts
  <2>2. job'[j].clock \in {job[j].clock, 0, now} /\ \A q \in Jobs : q # j => job'[q] = job[q]
    BY <1>16, <2>1 DEF Rotate, AfterCommit, Run, Idle, TypeOK
  <2> QED BY <1>16, <2>2, ClockFrame DEF Rotate
<1>17. ASSUME NEW j \in Jobs, NEW acknowledged \in BOOLEAN, Recover(j, acknowledged)
      PROVE  ClockInv'
  <2>1. job[j] \in Run
    BY <1>17, RunFacts DEF Recover, Transacts
  <2>2. job'[j].clock \in {job[j].clock, 0, now} /\ \A q \in Jobs : q # j => job'[q] = job[q]
    BY <1>17, <2>1 DEF Recover, AfterCommit, Run, Idle, TypeOK
  <2> QED BY <1>17, <2>2, ClockFrame DEF Recover
<1>18. ASSUME NEW j \in Jobs, NEW acknowledged \in BOOLEAN, Finalize(j, acknowledged)
      PROVE  ClockInv'
  <2>1. job[j] \in Run
    BY <1>18, RunFacts DEF Finalize, Transacts
  <2>2. job'[j].clock \in {job[j].clock, 0, now} /\ \A q \in Jobs : q # j => job'[q] = job[q]
    BY <1>18, <2>1 DEF Finalize, AfterCommit, Run, Idle, TypeOK
  <2> QED BY <1>18, <2>2, ClockFrame DEF Finalize
<1>19. ASSUME NEW j \in Jobs, CommitLost(j)
      PROVE  ClockInv'
  <2>1. job[j] \in Run
    BY <1>19, RunFacts DEF CommitLost, Transacts
  <2>2. job'[j].clock \in {job[j].clock, 0, now} /\ \A q \in Jobs : q # j => job'[q] = job[q]
    BY <1>19, <2>1 DEF CommitLost, AfterCommit, Run, Idle, TypeOK
  <2> QED BY <1>19, <2>2, ClockFrame DEF CommitLost
<1>20. ASSUME NEW j \in Jobs, Refuse(j)
      PROVE  ClockInv'
  <2>1. job[j] \in Run
    BY <1>20, RunFacts DEF Refuse, Transacts
  <2>2. job'[j].clock \in {job[j].clock, 0, now} /\ \A q \in Jobs : q # j => job'[q] = job[q]
    BY <1>20, <2>1 DEF Refuse, AfterCommit, Run, Idle, TypeOK
  <2> QED BY <1>20, <2>2, ClockFrame DEF Refuse
<1>21. ASSUME NEW j \in Jobs, TransactionFails(j)
      PROVE  ClockInv'
  <2>1. job[j] \in Run
    BY <1>21, RunFacts DEF TransactionFails
  <2>2. job'[j].clock \in {job[j].clock, 0, now} /\ \A q \in Jobs : q # j => job'[q] = job[q]
    BY <1>21, <2>1 DEF TransactionFails, AfterCommit, Run, Idle, TypeOK
  <2> QED BY <1>21, <2>2, ClockFrame DEF TransactionFails
<1>22. ASSUME NEW j \in Jobs, NEW committed \in BOOLEAN, MarkAmbiguous(j, committed)
      PROVE  ClockInv'
  <2>1. job[j] \in Run
    BY <1>22, RunFacts DEF MarkAmbiguous
  <2>2. job'[j].clock \in {job[j].clock, 0, now} /\ \A q \in Jobs : q # j => job'[q] = job[q]
    BY <1>22, <2>1 DEF MarkAmbiguous, AfterCommit, Run, Idle, TypeOK
  <2> QED BY <1>22, <2>2, ClockFrame DEF MarkAmbiguous
<1>23. ASSUME NEW j \in Jobs, NEW recorded \in BOOLEAN, NEW restored \in BOOLEAN,
              Fail(j, recorded, restored)
      PROVE  ClockInv'
  <2>1. job[j] \in Run
    BY <1>23, RunFacts DEF Fail
  <2>2. job'[j].clock \in {job[j].clock, 0, now} /\ \A q \in Jobs : q # j => job'[q] = job[q]
    BY <1>23, <2>1 DEF Fail, AfterCommit, Run, Idle, TypeOK
  <2> QED BY <1>23, <2>2, ClockFrame DEF Fail
<1>24. ASSUME NEW j \in Jobs, Apply(j)
      PROVE  ClockInv'
  <2>1. job[j] \in Run
    BY <1>24, RunFacts DEF Apply
  <2>2. job'[j].clock \in {job[j].clock, 0, now} /\ \A q \in Jobs : q # j => job'[q] = job[q]
    BY <1>24, <2>1 DEF Apply, AfterCommit, Run, Idle, TypeOK
  <2> QED BY <1>24, <2>2, ClockFrame DEF Apply
<1>25. ASSUME NEW j \in Jobs, CrashJob(j)
      PROVE  ClockInv'
  <2>1. job[j] \in Run
    BY <1>25, RunFacts DEF CrashJob
  <2>2. job'[j].clock \in {job[j].clock, 0, now} /\ \A q \in Jobs : q # j => job'[q] = job[q]
    BY <1>25, <2>1 DEF CrashJob, AfterCommit, Run, Idle, TypeOK
  <2> QED BY <1>25, <2>2, ClockFrame DEF CrashJob
<1>26. CASE Tick
  <2>1. \A q \in Jobs : job[q].clock \in 0..MaxNow
    BY RunFacts, NullAssumption DEF Run, Idle
  <2> QED BY <1>26, <2>1, NullAssumption DEF Tick, ClockInv, TypeOK
<1>27. CASE UNCHANGED vars
  BY <1>27 DEF vars, ClockInv
<1> QED
  BY <1>1, <1>2, <1>3, <1>4, <1>5, <1>6, <1>7, <1>8, <1>9, <1>10, <1>11,
     <1>12, <1>13, <1>14, <1>15, <1>16, <1>17, <1>18, <1>19, <1>20, <1>21,
     <1>22, <1>23, <1>24, <1>25, <1>26, <1>27 DEF Next, ReplicaStep,
     JobStep, Transaction

\* A completed request is filed under its own identifier.
LEMMA CompletedLedger ==
  ASSUME TypeOK, LedgerInv, NEW j \in Jobs, job[j] \in Run, ledger' = Completed(j)
  PROVE  /\ LedgerInv' /\ job[j].call \in Calls /\ job[j].call.request \in Requests
         /\ ledger'[job[j].call.request] =
              [status |-> "completed", call |-> job[j].call,
               sourceMode |-> SourceMode(j), targetMode |-> TargetMode(j)]
<1>1. job[j].call \in Calls /\ job[j].call.request \in Requests
  BY CallFacts DEF Run
<1> QED BY <1>1 DEF Completed, LedgerInv, TypeOK

\* Every step files its entries under their requests.
LEMMA LedgerStep ==
  ASSUME TypeOK, LedgerInv, [Next]_vars
  PROVE  LedgerInv'
<1>1. ASSUME NEW r \in Replicas, NEW k \in Keys, NEW acknowledged \in BOOLEAN,
             Boot(r, k, acknowledged)
      PROVE  LedgerInv'
  BY <1>1 DEF Boot, LedgerInv
<1>2. ASSUME NEW r \in Replicas, WriteFence(r)
      PROVE  LedgerInv'
  BY <1>2 DEF WriteFence, LedgerInv
<1>3. ASSUME NEW r \in Replicas, NEW s \in Secrets, WriteInsert(r, s)
      PROVE  LedgerInv'
  BY <1>3 DEF WriteInsert, LedgerInv
<1>4. ASSUME NEW r \in Replicas, WriteCommit(r)
      PROVE  LedgerInv'
  BY <1>4 DEF WriteCommit, LedgerInv
<1>5. ASSUME NEW r \in Replicas, WriteAbort(r)
      PROVE  LedgerInv'
  BY <1>5 DEF WriteAbort, Holds, LedgerInv
<1>6. ASSUME NEW r \in Replicas, Stop(r)
      PROVE  LedgerInv'
  BY <1>6 DEF Stop, LedgerInv
<1>7. ASSUME NEW j \in Jobs, NEW c \in Asks[j], Start(j, c)
      PROVE  LedgerInv'
  BY <1>7 DEF Start, LedgerInv
<1>8. ASSUME NEW j \in Jobs, Quiesce(j)
      PROVE  LedgerInv'
  BY <1>8 DEF Quiesce, LedgerInv
<1>9. ASSUME NEW j \in Jobs, Scale(j)
      PROVE  LedgerInv'
  BY <1>9 DEF Scale, LedgerInv
<1>10. ASSUME NEW j \in Jobs, Drain(j)
      PROVE  LedgerInv'
  BY <1>10 DEF Drain, LedgerInv
<1>11. ASSUME NEW j \in Jobs, DrainTimeout(j)
      PROVE  LedgerInv'
  BY <1>11 DEF DrainTimeout, LedgerInv
<1>12. ASSUME NEW j \in Jobs, ReadResolution(j)
      PROVE  LedgerInv'
  BY <1>12 DEF ReadResolution, LedgerInv
<1>13. ASSUME NEW j \in Jobs, NEW acknowledged \in BOOLEAN, Replay(j, acknowledged)
      PROVE  LedgerInv'
  BY <1>13 DEF Replay, AfterCommit, Transacts, LedgerInv
<1>14. ASSUME NEW j \in Jobs, NEW acknowledged \in BOOLEAN, Resume(j, acknowledged)
      PROVE  LedgerInv'
  <2>1. job[j] \in Run
    BY <1>14, RunFacts DEF Resume, Transacts
  <2>2. job[j].call.request \in Requests /\ Entry(j).status # "none"
    BY <1>14, <2>1, CallFacts DEF Run, Resume, CanResume
  <2>3. Entry(j) \in LedgerRow
    BY <2>2, EntryFacts DEF Entry
  <2> QED BY <1>14, <2>2, <2>3 DEF Resume, LedgerInv, LedgerRow, Entry, TypeOK
<1>15. ASSUME NEW j \in Jobs, NEW acknowledged \in BOOLEAN, Adopt(j, acknowledged)
      PROVE  LedgerInv'
  <2>1. job[j] \in Run
    BY <1>15, RunFacts DEF Adopt, Transacts
  <2> QED BY <1>15, <2>1, CompletedLedger DEF Adopt
<1>16. ASSUME NEW j \in Jobs, NEW acknowledged \in BOOLEAN, Rotate(j, acknowledged)
      PROVE  LedgerInv'
  <2>1. job[j] \in Run
    BY <1>16, RunFacts DEF Rotate, Transacts
  <2> QED BY <1>16, <2>1, CompletedLedger DEF Rotate
<1>17. ASSUME NEW j \in Jobs, NEW acknowledged \in BOOLEAN, Recover(j, acknowledged)
      PROVE  LedgerInv'
  <2>1. job[j] \in Run
    BY <1>17, RunFacts DEF Recover, Transacts
  <2> QED BY <1>17, <2>1, CompletedLedger DEF Recover
<1>18. ASSUME NEW j \in Jobs, NEW acknowledged \in BOOLEAN, Finalize(j, acknowledged)
      PROVE  LedgerInv'
  <2>1. job[j] \in Run
    BY <1>18, RunFacts DEF Finalize, Transacts
  <2> QED BY <1>18, <2>1, CompletedLedger DEF Finalize
<1>19. ASSUME NEW j \in Jobs, CommitLost(j)
      PROVE  LedgerInv'
  BY <1>19 DEF CommitLost, AfterCommit, Transacts, LedgerInv
<1>20. ASSUME NEW j \in Jobs, Refuse(j)
      PROVE  LedgerInv'
  BY <1>20 DEF Refuse, Transacts, LedgerInv
<1>21. ASSUME NEW j \in Jobs, TransactionFails(j)
      PROVE  LedgerInv'
  BY <1>21 DEF TransactionFails, LedgerInv
<1>22. ASSUME NEW j \in Jobs, NEW committed \in BOOLEAN, MarkAmbiguous(j, committed)
      PROVE  LedgerInv'
  <2>1. CASE committed /\ Entry(j).status = "completed" /\ Bound(j) /\ Replays(j)
    <3>1. job[j] \in Run
      BY <1>22, RunFacts DEF MarkAmbiguous
    <3>2. job[j].call.request \in Requests /\ Entry(j).call.request = job[j].call.request
      BY <2>1, <3>1, CallFacts DEF Bound, Run
    <3>3. Entry(j) \in LedgerRow
      BY <2>1, <3>2, EntryFacts DEF Entry
    <3>4. ledger' = [ledger EXCEPT ![job[j].call.request].status =
          "recovery_required"]
      BY <1>22, <2>1, <3>2 DEF MarkAmbiguous, MarkedLedger
    <3> QED BY <3>2, <3>3, <3>4 DEF LedgerInv, LedgerRow, Entry, TypeOK
  <2>2. CASE UNCHANGED ledger
    BY <2>2 DEF LedgerInv
  <2> QED BY <1>22, <2>1, <2>2 DEF MarkAmbiguous
<1>23. ASSUME NEW j \in Jobs, NEW recorded \in BOOLEAN, NEW restored \in BOOLEAN,
              Fail(j, recorded, restored)
      PROVE  LedgerInv'
  <2>1. job[j] \in Run
    BY <1>23, RunFacts DEF Fail
  <2>2. job[j].call.request \in Requests
    BY <2>1, CallFacts DEF Run
  <2> QED BY <1>23, <2>2 DEF Fail, RecordFailure, LedgerInv, TypeOK
<1>24. ASSUME NEW j \in Jobs, Apply(j)
      PROVE  LedgerInv'
  BY <1>24 DEF Apply, LedgerInv
<1>25. ASSUME NEW j \in Jobs, CrashJob(j)
      PROVE  LedgerInv'
  BY <1>25 DEF CrashJob, LedgerInv
<1>26. CASE Tick
  BY <1>26 DEF Tick, LedgerInv
<1>27. CASE UNCHANGED vars
  BY <1>27 DEF vars, LedgerInv
<1> QED
  BY <1>1, <1>2, <1>3, <1>4, <1>5, <1>6, <1>7, <1>8, <1>9, <1>10, <1>11,
     <1>12, <1>13, <1>14, <1>15, <1>16, <1>17, <1>18, <1>19, <1>20, <1>21,
     <1>22, <1>23, <1>24, <1>25, <1>26, <1>27 DEF Next, ReplicaStep,
     JobStep, Transaction

(* Labels and replays.                                                     *)

LEMMA FenceFrame ==
  ASSUME LockFree, UNCHANGED replica
  PROVE  FenceInv'
  BY DEF LockFree, FenceInv, Holds

\* A writer inside its fence keeps out every change of the serving key.
LEMMA FenceStep ==
  ASSUME TypeOK, FenceInv, [Next]_vars
  PROVE  FenceInv'
<1>1. ASSUME NEW r \in Replicas, NEW k \in Keys, NEW acknowledged \in BOOLEAN,
             Boot(r, k, acknowledged)
      PROVE  FenceInv'
  <2>1. \A q \in Replicas : ~Holds(q)'
    BY <1>1 DEF Boot, LockFree, Holds, Down, TypeOK
  <2> QED BY <2>1 DEF FenceInv
<1>2. ASSUME NEW r \in Replicas, WriteFence(r)
      PROVE  FenceInv'
  <2>1. replica'[r].key = replica[r].key
    BY <1>2 DEF WriteFence, TypeOK, ReplicaType, Down
  <2>2. \A q \in Replicas : q # r => replica'[q] = replica[q]
    BY <1>2 DEF WriteFence, TypeOK
  <2> QED BY <1>2, <2>1, <2>2 DEF WriteFence, WriteAuthorized, FenceInv, Holds
<1>3. ASSUME NEW r \in Replicas, NEW s \in Secrets, WriteInsert(r, s)
      PROVE  FenceInv'
  <2>1. Holds(r) /\ replica'[r].key = replica[r].key
    BY <1>3 DEF WriteInsert, Holds, TypeOK, ReplicaType, Down
  <2>2. \A q \in Replicas : q # r => replica'[q] = replica[q]
    BY <1>3 DEF WriteInsert, TypeOK
  <2> QED BY <1>3, <2>1, <2>2 DEF WriteInsert, FenceInv, Holds
<1>4. ASSUME NEW r \in Replicas, WriteCommit(r)
      PROVE  FenceInv'
  <2>1. ~Holds(r)'
    BY <1>4 DEF WriteCommit, Holds, TypeOK, ReplicaType, Down
  <2>2. \A q \in Replicas : q # r => replica'[q] = replica[q]
    BY <1>4 DEF WriteCommit, TypeOK
  <2> QED BY <1>4, <2>1, <2>2 DEF WriteCommit, FenceInv, Holds
<1>5. ASSUME NEW r \in Replicas, WriteAbort(r)
      PROVE  FenceInv'
  <2>1. ~Holds(r)'
    BY <1>5 DEF WriteAbort, Holds, TypeOK, ReplicaType, Down
  <2>2. \A q \in Replicas : q # r => replica'[q] = replica[q]
    BY <1>5 DEF WriteAbort, TypeOK
  <2> QED BY <1>5, <2>1, <2>2 DEF WriteAbort, FenceInv, Holds
<1>6. ASSUME NEW r \in Replicas, Stop(r)
      PROVE  FenceInv'
  <2>1. ~Holds(r)'
    BY <1>6 DEF Stop, Holds, TypeOK, ReplicaType, Down
  <2>2. \A q \in Replicas : q # r => replica'[q] = replica[q]
    BY <1>6 DEF Stop, TypeOK
  <2> QED BY <1>6, <2>1, <2>2 DEF Stop, FenceInv, Holds
<1>7. ASSUME NEW j \in Jobs, NEW c \in Asks[j], Start(j, c)
      PROVE  FenceInv'
  BY <1>7 DEF Start, FenceInv, Holds
<1>8. ASSUME NEW j \in Jobs, Quiesce(j)
      PROVE  FenceInv'
  BY <1>8 DEF Quiesce, FenceInv, Holds
<1>9. ASSUME NEW j \in Jobs, Scale(j)
      PROVE  FenceInv'
  BY <1>9 DEF Scale, FenceInv, Holds
<1>10. ASSUME NEW j \in Jobs, Drain(j)
      PROVE  FenceInv'
  BY <1>10 DEF Drain, FenceInv, Holds
<1>11. ASSUME NEW j \in Jobs, DrainTimeout(j)
      PROVE  FenceInv'
  BY <1>11 DEF DrainTimeout, FenceInv, Holds
<1>12. ASSUME NEW j \in Jobs, ReadResolution(j)
      PROVE  FenceInv'
  BY <1>12 DEF ReadResolution, FenceInv, Holds
<1>13. ASSUME NEW j \in Jobs, NEW acknowledged \in BOOLEAN, Replay(j, acknowledged)
      PROVE  FenceInv'
  BY <1>13 DEF Replay, AfterCommit, Transacts, FenceInv, Holds
<1>14. ASSUME NEW j \in Jobs, NEW acknowledged \in BOOLEAN, Resume(j, acknowledged)
      PROVE  FenceInv'
  BY <1>14, FenceFrame DEF Resume, Transacts
<1>15. ASSUME NEW j \in Jobs, NEW acknowledged \in BOOLEAN, Adopt(j, acknowledged)
      PROVE  FenceInv'
  BY <1>15, FenceFrame DEF Adopt, Transacts
<1>16. ASSUME NEW j \in Jobs, NEW acknowledged \in BOOLEAN, Rotate(j, acknowledged)
      PROVE  FenceInv'
  BY <1>16, FenceFrame DEF Rotate, Transacts
<1>17. ASSUME NEW j \in Jobs, NEW acknowledged \in BOOLEAN, Recover(j, acknowledged)
      PROVE  FenceInv'
  BY <1>17, FenceFrame DEF Recover, Transacts
<1>18. ASSUME NEW j \in Jobs, NEW acknowledged \in BOOLEAN, Finalize(j, acknowledged)
      PROVE  FenceInv'
  BY <1>18, FenceFrame DEF Finalize, Transacts
<1>19. ASSUME NEW j \in Jobs, CommitLost(j)
      PROVE  FenceInv'
  BY <1>19 DEF CommitLost, AfterCommit, Transacts, FenceInv, Holds
<1>20. ASSUME NEW j \in Jobs, Refuse(j)
      PROVE  FenceInv'
  BY <1>20 DEF Refuse, Transacts, FenceInv, Holds
<1>21. ASSUME NEW j \in Jobs, TransactionFails(j)
      PROVE  FenceInv'
  BY <1>21 DEF TransactionFails, FenceInv, Holds
<1>22. ASSUME NEW j \in Jobs, NEW committed \in BOOLEAN, MarkAmbiguous(j, committed)
      PROVE  FenceInv'
  <2>1. CASE LockFree
    BY <1>22, <2>1, FenceFrame DEF MarkAmbiguous
  <2>2. CASE UNCHANGED state
    BY <1>22, <2>2 DEF MarkAmbiguous, FenceInv, Holds
  <2> QED BY <1>22, <2>1, <2>2 DEF MarkAmbiguous
<1>23. ASSUME NEW j \in Jobs, NEW recorded \in BOOLEAN, NEW restored \in BOOLEAN,
              Fail(j, recorded, restored)
      PROVE  FenceInv'
  BY <1>23 DEF Fail, FenceInv, Holds
<1>24. ASSUME NEW j \in Jobs, Apply(j)
      PROVE  FenceInv'
  BY <1>24 DEF Apply, FenceInv, Holds
<1>25. ASSUME NEW j \in Jobs, CrashJob(j)
      PROVE  FenceInv'
  BY <1>25 DEF CrashJob, FenceInv, Holds
<1>26. CASE Tick
  BY <1>26 DEF Tick, FenceInv, Holds
<1>27. CASE UNCHANGED vars
  BY <1>27 DEF vars, FenceInv, Holds
<1> QED
  BY <1>1, <1>2, <1>3, <1>4, <1>5, <1>6, <1>7, <1>8, <1>9, <1>10, <1>11,
     <1>12, <1>13, <1>14, <1>15, <1>16, <1>17, <1>18, <1>19, <1>20, <1>21,
     <1>22, <1>23, <1>24, <1>25, <1>26, <1>27 DEF Next, ReplicaStep,
     JobStep, Transaction

\* Rows carry the label of the serving key.
LEMMA LabelStep ==
  ASSUME TypeOK, FenceInv, LabelInv, [Next]_vars
  PROVE  LabelInv'
<1>1. ASSUME NEW r \in Replicas, NEW k \in Keys, NEW acknowledged \in BOOLEAN,
             Boot(r, k, acknowledged)
      PROVE  LabelInv'
  <2>1. CASE state.life = "none"
    BY <1>1, <2>1 DEF Boot, Verified, Established, Live, LabelInv
  <2>2. CASE state.life # "none"
    BY <1>1, <2>2 DEF Boot, Established, Live, LabelInv
  <2> QED BY <2>1, <2>2
<1>2. ASSUME NEW r \in Replicas, WriteFence(r)
      PROVE  LabelInv'
  BY <1>2 DEF WriteFence, LabelInv, Live
<1>3. ASSUME NEW r \in Replicas, NEW s \in Secrets, WriteInsert(r, s)
      PROVE  LabelInv'
  BY <1>3 DEF WriteInsert, LabelInv, Live
<1>4. ASSUME NEW r \in Replicas, WriteCommit(r)
      PROVE  LabelInv'
  <2>1. replica[r].row \in Secrets /\ replica[r].key \in Keys
    BY <1>4 DEF WriteCommit, TypeOK, ReplicaType, Down
  <2>2. state.current.id = replica[r].key.id
    BY <1>4 DEF WriteCommit, Holds, FenceInv
  <2>3. /\ rows'[replica[r].row] = replica[r].key
        /\ \A s \in Secrets : s # replica[r].row => rows'[s] = rows[s]
    BY <1>4, <2>1 DEF WriteCommit, TypeOK
  <2> QED BY <1>4, <2>2, <2>3 DEF WriteCommit, Live, LabelInv
<1>5. ASSUME NEW r \in Replicas, WriteAbort(r)
      PROVE  LabelInv'
  BY <1>5 DEF WriteAbort, Holds, LabelInv, Live
<1>6. ASSUME NEW r \in Replicas, Stop(r)
      PROVE  LabelInv'
  BY <1>6 DEF Stop, LabelInv, Live
<1>7. ASSUME NEW j \in Jobs, NEW c \in Asks[j], Start(j, c)
      PROVE  LabelInv'
  BY <1>7 DEF Start, LabelInv, Live
<1>8. ASSUME NEW j \in Jobs, Quiesce(j)
      PROVE  LabelInv'
  BY <1>8 DEF Quiesce, LabelInv, Live
<1>9. ASSUME NEW j \in Jobs, Scale(j)
      PROVE  LabelInv'
  BY <1>9 DEF Scale, LabelInv, Live
<1>10. ASSUME NEW j \in Jobs, Drain(j)
      PROVE  LabelInv'
  BY <1>10 DEF Drain, LabelInv, Live
<1>11. ASSUME NEW j \in Jobs, DrainTimeout(j)
      PROVE  LabelInv'
  BY <1>11 DEF DrainTimeout, LabelInv, Live
<1>12. ASSUME NEW j \in Jobs, ReadResolution(j)
      PROVE  LabelInv'
  BY <1>12 DEF ReadResolution, LabelInv, Live
<1>13. ASSUME NEW j \in Jobs, NEW acknowledged \in BOOLEAN, Replay(j, acknowledged)
      PROVE  LabelInv'
  BY <1>13 DEF Replay, AfterCommit, Transacts, LabelInv, Live
<1>14. ASSUME NEW j \in Jobs, NEW acknowledged \in BOOLEAN, Resume(j, acknowledged)
      PROVE  LabelInv'
  <2>1. state \in StateRow /\ state.life # "none"
    BY <1>14, StateFacts DEF Resume, CanResume, Replays, DurableReplay
  <2>2. state'.current = state.current
    BY <1>14, <2>1 DEF Resume, StateRow
  <2> QED BY <1>14, <2>1, <2>2 DEF Resume, Live, LabelInv
<1>15. ASSUME NEW j \in Jobs, NEW acknowledged \in BOOLEAN, Adopt(j, acknowledged)
      PROVE  LabelInv'
  <2>1. rows' = Resealed(Target(j)) /\ state'.current = Target(j)
    BY <1>15 DEF Adopt, NoState, CanRecover
  <2> QED BY <2>1 DEF Resealed, Live, LabelInv
<1>16. ASSUME NEW j \in Jobs, NEW acknowledged \in BOOLEAN, Rotate(j, acknowledged)
      PROVE  LabelInv'
  <2>1. rows' = Resealed(Target(j)) /\ state'.current = Target(j)
    BY <1>16 DEF Rotate, NoState, CanRecover
  <2> QED BY <2>1 DEF Resealed, Live, LabelInv
<1>17. ASSUME NEW j \in Jobs, NEW acknowledged \in BOOLEAN, Recover(j, acknowledged)
      PROVE  LabelInv'
  <2>1. rows' = Resealed(Target(j)) /\ state'.current = Target(j)
    BY <1>17 DEF Recover, NoState, CanRecover
  <2> QED BY <2>1 DEF Resealed, Live, LabelInv
<1>18. ASSUME NEW j \in Jobs, NEW acknowledged \in BOOLEAN, Finalize(j, acknowledged)
      PROVE  LabelInv'
  <2>1. state \in StateRow /\ state.life # "none"
    BY <1>18, StateFacts DEF Finalize, CanFinalize
  <2>2. state'.current = state.current
    BY <1>18, <2>1 DEF Finalize, StateRow
  <2> QED BY <1>18, <2>1, <2>2 DEF Finalize, Live, LabelInv
<1>19. ASSUME NEW j \in Jobs, CommitLost(j)
      PROVE  LabelInv'
  BY <1>19 DEF CommitLost, AfterCommit, Transacts, LabelInv, Live
<1>20. ASSUME NEW j \in Jobs, Refuse(j)
      PROVE  LabelInv'
  BY <1>20 DEF Refuse, Transacts, LabelInv, Live
<1>21. ASSUME NEW j \in Jobs, TransactionFails(j)
      PROVE  LabelInv'
  BY <1>21 DEF TransactionFails, LabelInv, Live
<1>22. ASSUME NEW j \in Jobs, NEW committed \in BOOLEAN, MarkAmbiguous(j, committed)
      PROVE  LabelInv'
  <2>1. CASE committed /\ Entry(j).status = "completed" /\ Bound(j) /\ Replays(j)
    <3>1. state \in StateRow /\ state.life # "none"
      BY <2>1, StateFacts DEF Replays, DurableReplay
    <3>2. state'.current = state.current
      BY <1>22, <2>1, <3>1 DEF MarkAmbiguous, StateRow
    <3> QED BY <1>22, <3>1, <3>2 DEF MarkAmbiguous, Live, LabelInv
  <2>2. CASE UNCHANGED state
    BY <1>22, <2>2 DEF MarkAmbiguous, Live, LabelInv
  <2> QED BY <1>22, <2>1, <2>2 DEF MarkAmbiguous
<1>23. ASSUME NEW j \in Jobs, NEW recorded \in BOOLEAN, NEW restored \in BOOLEAN,
              Fail(j, recorded, restored)
      PROVE  LabelInv'
  BY <1>23 DEF Fail, LabelInv, Live
<1>24. ASSUME NEW j \in Jobs, Apply(j)
      PROVE  LabelInv'
  BY <1>24 DEF Apply, LabelInv, Live
<1>25. ASSUME NEW j \in Jobs, CrashJob(j)
      PROVE  LabelInv'
  BY <1>25 DEF CrashJob, LabelInv, Live
<1>26. CASE Tick
  BY <1>26 DEF Tick, LabelInv, Live
<1>27. CASE UNCHANGED vars
  BY <1>27 DEF vars, LabelInv, Live
<1> QED
  BY <1>1, <1>2, <1>3, <1>4, <1>5, <1>6, <1>7, <1>8, <1>9, <1>10, <1>11,
     <1>12, <1>13, <1>14, <1>15, <1>16, <1>17, <1>18, <1>19, <1>20, <1>21,
     <1>22, <1>23, <1>24, <1>25, <1>26, <1>27 DEF Next, ReplicaStep,
     JobStep, Transaction

\* A request that completes is the one to replay.
LEMMA CompletesReplayable ==
  ASSUME TypeOK, LedgerInv, LabelInv', NEW j \in Jobs, job[j] \in Run,
         ContextsParse(j),
         ledger' = Completed(j), state'.life = "serving",
         state'.request = job[j].call.request, state'.rotation = job[j].call.rotation,
         state'.current = Target(j),
         IF Swaps(job[j].call) THEN state'.recovery = Source(j) ELSE state'.recovery
         = NoKey
  PROVE  LatestRequestReplayable'
<1> DEFINE e == [status |-> "completed", call |-> job[j].call,
                 sourceMode |-> SourceMode(j), targetMode |-> TargetMode(j)]
<1>1. ledger'[state'.request] = e /\ state'.request \in Requests
  BY CompletedLedger
<1>2. e.status = "completed" /\ e.call = job[j].call
      /\ e.sourceMode = SourceMode(j) /\ e.targetMode = TargetMode(j)
  OBVIOUS
<1> HIDE DEF e
<1>3. state'.current.id = e.call.target /\ state'.current.mode = e.targetMode
  BY <1>2, KeyFacts
<1>4. IF Swaps(e.call)
      THEN /\ state'.recovery # NoKey
           /\ state'.recovery.id = e.call.source /\ state'.recovery.mode = e.sourceMode
      ELSE state'.recovery = NoKey
  BY <1>2, KeyFacts, KeyAssumption
<1>5. \A s \in Live' : rows'[s].id = e.call.target
  BY <1>3 DEF LabelInv
<1> QED BY <1>1, <1>2, <1>3, <1>4, <1>5 DEF LatestRequestReplayable, DurableReplay

\* A step that leaves the state and its entry, and whose rows keep their labels.
LEMMA ReplayableFrame ==
  ASSUME TypeOK, LatestRequestReplayable, LabelInv', UNCHANGED state,
         state.request # NoRequest => ledger'[state.request] = ledger[state.request]
  PROVE  LatestRequestReplayable'
<1> SUFFICES ASSUME state.request # NoRequest
             PROVE  /\ ledger'[state.request].status \in {"completed", "recovery_required"}
                    /\ DurableReplay(ledger[state.request])'
  BY DEF LatestRequestReplayable
<1>1. state.life # "none"
  BY StateFacts DEF NoState
<1>2. state.current.id = ledger[state.request].call.target
  BY DEF LatestRequestReplayable, DurableReplay
<1>3. \A s \in Live' : rows'[s].id = ledger[state.request].call.target
  BY <1>1, <1>2 DEF LabelInv
<1> QED BY <1>3 DEF LatestRequestReplayable, DurableReplay

\* The state and the entry of its request change their standing together.
LEMMA StandingChanges ==
  ASSUME TypeOK, NEW j \in Jobs, job[j].call.request \in Requests,
         Entry(j).status # "none", Entry(j).call = job[j].call,
         DurableReplay(Entry(j)),
         NEW life, NEW status,
         \/ life = "serving" /\ status = "completed"
         \/ life = "recovery_required" /\ status = "recovery_required",
         state' = [state EXCEPT !.life = life], UNCHANGED rows,
         ledger' = [ledger EXCEPT ![job[j].call.request].status = status]
  PROVE  LatestRequestReplayable'
<1> DEFINE q == job[j].call.request
<1>1. state \in StateRow /\ state.request = q
  BY StateFacts DEF DurableReplay
<1>2. ledger[q] \in LedgerRow
  BY EntryFacts DEF Entry
<1>3. /\ state'.life = life /\ state'.request = q /\ state'.rotation = state.rotation
      /\ state'.current = state.current /\ state'.recovery = state.recovery
  BY <1>1 DEF StateRow
<1>4. /\ ledger'[q].status = status /\ ledger'[q].call = ledger[q].call
      /\ ledger'[q].sourceMode = ledger[q].sourceMode
      /\ ledger'[q].targetMode = ledger[q].targetMode
  BY <1>2 DEF LedgerRow, TypeOK
<1>5. ledger'[state'.request] = ledger'[q]
  BY <1>3
<1>6. Live' = Live
  BY DEF Live
<1>7. DurableReplay(ledger[q])
  BY DEF Entry
<1> HIDE DEF q
<1>8. DurableReplay(ledger[state.request])'
  BY <1>3, <1>4, <1>5, <1>6, <1>7 DEF DurableReplay
<1> QED BY <1>4, <1>5, <1>8 DEF LatestRequestReplayable

\* The ledger entry of the latest request stays in agreement with the state.
LEMMA LatestStep ==
  ASSUME TypeOK, LedgerInv, FenceInv, LabelInv, LatestRequestReplayable, [Next]_vars
  PROVE  LatestRequestReplayable'
<1>0. LabelInv'
  BY LabelStep
<1> USE <1>0
<1>1. ASSUME NEW r \in Replicas, NEW k \in Keys, NEW acknowledged \in BOOLEAN,
             Boot(r, k, acknowledged)
      PROVE  LatestRequestReplayable'
  <2>1. CASE state.life = "none"
    <3>1. state'.request = NoRequest
      BY <1>1, <2>1, StateFacts DEF Boot, Established, NoState
    <3> QED BY <3>1 DEF LatestRequestReplayable
  <2>2. CASE state.life # "none"
    BY <1>1, <2>2, ReplayableFrame DEF Boot, Established
  <2> QED BY <2>1, <2>2
<1>2. ASSUME NEW r \in Replicas, WriteFence(r)
      PROVE  LatestRequestReplayable'
  BY <1>2, ReplayableFrame DEF WriteFence
<1>3. ASSUME NEW r \in Replicas, NEW s \in Secrets, WriteInsert(r, s)
      PROVE  LatestRequestReplayable'
  BY <1>3, ReplayableFrame DEF WriteInsert
<1>4. ASSUME NEW r \in Replicas, WriteCommit(r)
      PROVE  LatestRequestReplayable'
  BY <1>4, ReplayableFrame DEF WriteCommit
<1>5. ASSUME NEW r \in Replicas, WriteAbort(r)
      PROVE  LatestRequestReplayable'
  BY <1>5, ReplayableFrame DEF WriteAbort
<1>6. ASSUME NEW r \in Replicas, Stop(r)
      PROVE  LatestRequestReplayable'
  BY <1>6, ReplayableFrame DEF Stop
<1>7. ASSUME NEW j \in Jobs, NEW c \in Asks[j], Start(j, c)
      PROVE  LatestRequestReplayable'
  BY <1>7, ReplayableFrame DEF Start
<1>8. ASSUME NEW j \in Jobs, Quiesce(j)
      PROVE  LatestRequestReplayable'
  BY <1>8, ReplayableFrame DEF Quiesce
<1>9. ASSUME NEW j \in Jobs, Scale(j)
      PROVE  LatestRequestReplayable'
  BY <1>9, ReplayableFrame DEF Scale
<1>10. ASSUME NEW j \in Jobs, Drain(j)
      PROVE  LatestRequestReplayable'
  BY <1>10, ReplayableFrame DEF Drain
<1>11. ASSUME NEW j \in Jobs, DrainTimeout(j)
      PROVE  LatestRequestReplayable'
  BY <1>11, ReplayableFrame DEF DrainTimeout
<1>12. ASSUME NEW j \in Jobs, ReadResolution(j)
      PROVE  LatestRequestReplayable'
  BY <1>12, ReplayableFrame DEF ReadResolution
<1>13. ASSUME NEW j \in Jobs, NEW acknowledged \in BOOLEAN, Replay(j, acknowledged)
      PROVE  LatestRequestReplayable'
  BY <1>13, ReplayableFrame DEF Replay
<1>14. ASSUME NEW j \in Jobs, NEW acknowledged \in BOOLEAN, Resume(j, acknowledged)
      PROVE  LatestRequestReplayable'
  <2>1. job[j] \in Run
    BY <1>14, RunFacts DEF Resume, Transacts
  <2>2. /\ Entry(j).status = "recovery_required" /\ Entry(j).call = job[j].call
        /\ DurableReplay(Entry(j)) /\ job[j].call.request \in Requests
    BY <1>14, <2>1, CallFacts DEF Resume, CanResume, Bound, Replays, Run
  <2>3. state' = [state EXCEPT !.life = "serving"] /\ UNCHANGED rows
        /\ ledger' = [ledger EXCEPT ![job[j].call.request].status = "completed"]
    BY <1>14 DEF Resume
  <2> QED BY <2>2, <2>3, StandingChanges
<1>15. ASSUME NEW j \in Jobs, NEW acknowledged \in BOOLEAN, Adopt(j, acknowledged)
      PROVE  LatestRequestReplayable'
  <2>1. job[j] \in Run
    BY <1>15, RunFacts DEF Adopt, Transacts
  <2>2. ContextsParse(j) /\ job[j].call.action = "adopt" /\ job[j].call \in Calls
    BY <1>15, <2>1 DEF Adopt, CanAdopt, Fresh, Run
  <2>3. /\ state'.life = "serving" /\ state'.request = job[j].call.request
        /\ state'.rotation = NoRotation /\ state'.current = Target(j)
        /\ state'.recovery = NoKey /\ ledger' = Completed(j)
    BY <1>15 DEF Adopt, NoState
  <2>4. job[j].call.rotation = NoRotation
    BY <2>2, CallFacts
  <2> QED BY <2>1, <2>2, <2>3, <2>4, CompletesReplayable DEF Swaps
<1>16. ASSUME NEW j \in Jobs, NEW acknowledged \in BOOLEAN, Rotate(j, acknowledged)
      PROVE  LatestRequestReplayable'
  <2>1. job[j] \in Run
    BY <1>16, RunFacts DEF Rotate, Transacts
  <2>2. ContextsParse(j) /\ job[j].call.action = "rotate" /\ job[j].call \in Calls
    BY <1>16, <2>1 DEF Rotate, CanRotate, Fresh, Run
  <2>3. /\ state'.life = "serving" /\ state'.request = job[j].call.request
        /\ state'.rotation = job[j].call.rotation /\ state'.current = Target(j)
        /\ state'.recovery = Source(j) /\ ledger' = Completed(j)
    BY <1>16 DEF Rotate, CanRotate
  <2> QED BY <2>1, <2>2, <2>3, CompletesReplayable DEF Swaps
<1>17. ASSUME NEW j \in Jobs, NEW acknowledged \in BOOLEAN, Recover(j, acknowledged)
      PROVE  LatestRequestReplayable'
  <2>1. job[j] \in Run
    BY <1>17, RunFacts DEF Recover, Transacts
  <2>2. ContextsParse(j) /\ job[j].call.action = "recover" /\ job[j].call \in Calls
    BY <1>17, <2>1 DEF Recover, CanRecover, Fresh, Run
  <2>3. /\ state'.life = "serving" /\ state'.request = job[j].call.request
        /\ state'.rotation = job[j].call.rotation /\ state'.current = Target(j)
        /\ state'.recovery = Source(j) /\ ledger' = Completed(j)
    BY <1>17 DEF Recover, CanRecover
  <2> QED BY <2>1, <2>2, <2>3, CompletesReplayable DEF Swaps
<1>18. ASSUME NEW j \in Jobs, NEW acknowledged \in BOOLEAN, Finalize(j, acknowledged)
      PROVE  LatestRequestReplayable'
  <2>1. job[j] \in Run
    BY <1>18, RunFacts DEF Finalize, Transacts
  <2>2. ContextsParse(j) /\ job[j].call.action = "finalize" /\ job[j].call \in Calls
    BY <1>18, <2>1 DEF Finalize, CanFinalize, Fresh, Run
  <2>3. state \in StateRow /\ state.life = "serving" /\ state.current = Target(j)
    BY <1>18, StateFacts DEF Finalize, CanFinalize
  <2>4. /\ state'.life = "serving" /\ state'.request = job[j].call.request
        /\ state'.rotation = NoRotation /\ state'.current = Target(j)
        /\ state'.recovery = NoKey /\ ledger' = Completed(j)
    BY <1>18, <2>3 DEF Finalize, StateRow
  <2>5. job[j].call.rotation = NoRotation
    BY <2>2, CallFacts
  <2> QED BY <2>1, <2>2, <2>4, <2>5, CompletesReplayable DEF Swaps
<1>19. ASSUME NEW j \in Jobs, CommitLost(j)
      PROVE  LatestRequestReplayable'
  BY <1>19, ReplayableFrame DEF CommitLost
<1>20. ASSUME NEW j \in Jobs, Refuse(j)
      PROVE  LatestRequestReplayable'
  BY <1>20, ReplayableFrame DEF Refuse
<1>21. ASSUME NEW j \in Jobs, TransactionFails(j)
      PROVE  LatestRequestReplayable'
  BY <1>21, ReplayableFrame DEF TransactionFails
<1>22. ASSUME NEW j \in Jobs, NEW committed \in BOOLEAN, MarkAmbiguous(j, committed)
      PROVE  LatestRequestReplayable'
  <2>1. CASE committed /\ Entry(j).status = "completed" /\ Bound(j) /\ Replays(j)
    <3>1. job[j] \in Run
      BY <1>22, RunFacts DEF MarkAmbiguous
    <3>2. /\ Entry(j).call = job[j].call /\ DurableReplay(Entry(j))
          /\ job[j].call.request \in Requests
      BY <2>1, <3>1, CallFacts DEF Bound, Replays, Run
    <3>3. state' = [state EXCEPT !.life = "recovery_required"] /\ UNCHANGED rows
          /\ ledger' = [ledger EXCEPT ![job[j].call.request].status = "recovery_required"]
      BY <1>22, <2>1, <3>2 DEF MarkAmbiguous, MarkedLedger
    <3> QED BY <2>1, <3>2, <3>3, StandingChanges
  <2>2. CASE UNCHANGED <<state, ledger>>
    BY <1>22, <2>2, ReplayableFrame DEF MarkAmbiguous
  <2> QED BY <1>22, <2>1, <2>2 DEF MarkAmbiguous
<1>23. ASSUME NEW j \in Jobs, NEW recorded \in BOOLEAN, NEW restored \in BOOLEAN,
              Fail(j, recorded, restored)
      PROVE  LatestRequestReplayable'
  <2>1. job[j] \in Run
    BY <1>23, RunFacts DEF Fail
  <2>2. job[j].call.request \in Requests
    BY <2>1, CallFacts DEF Run
  <2>3. state.request # NoRequest => ledger'[state.request] = ledger[state.request]
    <3>1. CASE UNCHANGED ledger
      BY <3>1
    <3>2. CASE Entry(j).status = "none"
      <4>1. ASSUME state.request # NoRequest PROVE state.request # job[j].call.request
        BY <3>2, <4>1 DEF Entry, LatestRequestReplayable
      <4>2. state.request # NoRequest => state.request \in Requests
        BY StateFacts DEF StateRow, NoState
      <4> QED BY <1>23, <2>2, <4>1, <4>2 DEF Fail, RecordFailure, TypeOK
    <3> QED BY <1>23, <3>1, <3>2 DEF Fail, RecordFailure
  <2> QED BY <1>23, <2>3, ReplayableFrame DEF Fail
<1>24. ASSUME NEW j \in Jobs, Apply(j)
      PROVE  LatestRequestReplayable'
  BY <1>24, ReplayableFrame DEF Apply
<1>25. ASSUME NEW j \in Jobs, CrashJob(j)
      PROVE  LatestRequestReplayable'
  BY <1>25, ReplayableFrame DEF CrashJob
<1>26. CASE Tick
  BY <1>26, ReplayableFrame DEF Tick
<1>27. CASE UNCHANGED vars
  BY <1>27, ReplayableFrame DEF vars
<1> QED
  BY <1>1, <1>2, <1>3, <1>4, <1>5, <1>6, <1>7, <1>8, <1>9, <1>10, <1>11,
     <1>12, <1>13, <1>14, <1>15, <1>16, <1>17, <1>18, <1>19, <1>20, <1>21,
     <1>22, <1>23, <1>24, <1>25, <1>26, <1>27 DEF Next, ReplicaStep,
     JobStep, Transaction

(* Keys.                                                                   *)

\* Steps that leave the serving key: a process keeps its key or ends, and the
\* recovery key stays or goes.
LEMMA KeyFrame ==
  ASSUME TypeOK, KeyInv, state'.life = "none" <=> state.life = "none",
         state'.current = state.current, state'.recovery \in {state.recovery, NoKey},
         \A r \in Replicas : \/ replica'[r] = Down
                             \/ replica[r] # Down /\ replica'[r].key = replica[r].key
  PROVE  KeyInv'
<1>1. Down.key = NoKey
  BY DEF Down
<1>2. CASE state.life = "none"
  BY <1>2 DEF KeyInv
<1>3. CASE state.life # "none" /\ FirstKey
  BY <1>1, <1>3 DEF KeyInv, FirstKey
<1>4. ASSUME state.life # "none", NEW m \in Modings, AgreedKeys(m)
      PROVE  KeyInv'
  <2>1. AgreedKeys(m)'
    BY <1>1, <1>4 DEF AgreedKeys, Agrees
  <2> QED BY <1>4, <2>1 DEF KeyInv
<1> QED BY <1>2, <1>3, <1>4 DEF KeyInv

\* A rotation goes from one key id to another, in the mode of each.
LEMMA RotateKeys ==
  ASSUME OneModePerKey, TypeOK, KeyInv, NEW j \in Jobs, NEW acknowledged,
         Rotate(j, acknowledged)
  PROVE  KeyInv'
<1>1. job[j] \in Run
  BY RunFacts DEF Rotate, Transacts
<1>2. /\ ContextsParse(j) /\ job[j].call \in Calls /\ job[j].call.action = "rotate"
      /\ state.life = "serving" /\ state.current = Source(j) /\ Swaps(job[j].call)
  BY <1>1 DEF Rotate, CanRotate, Fresh, Run, Swaps
<1>3. /\ Source(j) \in Keys /\ Source(j) = KeyOf(job[j].call.source, SourceMode(j))
      /\ Source(j).id = job[j].call.source /\ Source(j).mode = SourceMode(j)
      /\ Target(j) = KeyOf(job[j].call.target, "canonical-v1")
      /\ Target(j).id = job[j].call.target
      /\ job[j].call.target \in KeyIds /\ job[j].call.source \in KeyIds
      /\ job[j].call.source # job[j].call.target
  BY <1>1, <1>2, KeyFacts, ModeFacts, CallFacts
<1>4. job[j].call.target \notin Adopted
  <2>1. MaterialOf[job[j].call.target] \in Canonical
    BY <1>2, <1>3 DEF ContextsParse, Parses, KeyOf
  <2> QED BY <1>2, <2>1 DEF OneModePerKey
<1>5. /\ state'.life = "serving" /\ state'.current = Target(j)
      /\ state'.recovery = Source(j) /\ replica' = replica
  BY <1>2 DEF Rotate
<1>6. CASE FirstKey
  <2>1. SourceMode(j) \in Modes /\ (SourceMode(j) = "legacy" => job[j].call.source \in Adopted)
    BY <1>2, <1>3, <1>6 DEF FirstKey, Keys
  <2>2. [id \in KeyIds |-> IF id = job[j].call.source THEN SourceMode(j)
                           ELSE "canonical-v1"]
          \in Modings
    BY <2>1 DEF Modings, Modes
  <2>3. PICK m \in Modings : /\ m[job[j].call.source] = SourceMode(j)
                             /\ m[job[j].call.target] = "canonical-v1"
    BY <1>3, <2>2
  <2>4. Agrees(Target(j), m) /\ Agrees(Source(j), m)
    BY <1>3, <2>3 DEF Agrees
  <2>5. \A r \in Replicas : replica[r].key # NoKey => replica[r].key = Source(j)
    BY <1>2, <1>6 DEF FirstKey
  <2>6. AgreedKeys(m)'
    BY <1>5, <2>4, <2>5 DEF AgreedKeys, Agrees
  <2> QED BY <1>5, <2>6 DEF KeyInv
<1>7. ASSUME NEW m \in Modings, AgreedKeys(m)
      PROVE  KeyInv'
  <2>1. m[job[j].call.target] = "canonical-v1"
    BY <1>3, <1>4 DEF Modings, Modes
  <2>2. Agrees(Target(j), m) /\ Agrees(Source(j), m)
    BY <1>2, <1>3, <1>7, <2>1 DEF Agrees, AgreedKeys
  <2>3. AgreedKeys(m)'
    BY <1>5, <1>7, <2>2 DEF AgreedKeys, Agrees
  <2> QED BY <1>5, <2>3 DEF KeyInv
<1> QED BY <1>2, <1>6, <1>7 DEF KeyInv

\* A recovery swaps two keys whose modes are known.
LEMMA RecoverKeys ==
  ASSUME TypeOK, KeyInv, NEW j \in Jobs, NEW acknowledged, Recover(j, acknowledged)
  PROVE  KeyInv'
<1>1. job[j] \in Run
  BY RunFacts DEF Recover, Transacts
<1>2. /\ ContextsParse(j) /\ state.life # "none" /\ state.recovery = Target(j)
      /\ state' = [life |-> "serving", current |-> state.recovery, recovery |-> state.current,
                   deadline |-> job[j].clock + job[j].call.window,
                   request |-> job[j].call.request, rotation |-> job[j].call.rotation]
      /\ replica' = replica
  BY DEF Recover, CanRecover, Fresh
<1>3. state.recovery # NoKey
  BY <1>1, <1>2, KeyFacts, KeyAssumption
<1>4. PICK m \in Modings : AgreedKeys(m)
  BY <1>2, <1>3 DEF KeyInv, FirstKey
<1>5. AgreedKeys(m)'
  BY <1>2, <1>3, <1>4 DEF AgreedKeys, Agrees
<1> QED BY <1>2, <1>5 DEF KeyInv

\* An adoption meets no process that has booted with another key.
LEMMA AdoptKeys ==
  ASSUME TypeOK, KeyInv, NEW j \in Jobs, NEW acknowledged, Adopt(j, acknowledged)
  PROVE  KeyInv'
<1>1. job[j] \in Run
  BY RunFacts DEF Adopt, Transacts
<1>2. /\ ContextsParse(j) /\ state.life = "none" /\ job[j].call.action = "adopt"
      /\ job[j].call \in Calls
  BY <1>1 DEF Adopt, CanAdopt, Fresh, Run
<1>3. Target(j).id = job[j].call.target
  BY <1>1, <1>2, KeyFacts
<1>4. /\ state'.life = "serving" /\ state'.current = Target(j) /\ state'.recovery = NoKey
      /\ replica' = replica
  BY DEF Adopt, NoState
<1>5. \A r \in Replicas : replica[r].key = NoKey
  BY <1>2 DEF KeyInv, Down
<1>6. job[j].call.target \in Adopted
  BY <1>2 DEF Adopted
<1>7. FirstKey'
  BY <1>3, <1>4, <1>5, <1>6 DEF FirstKey
<1> QED BY <1>4, <1>7 DEF KeyInv

\* A process boots with the serving key.
LEMMA BootKeys ==
  ASSUME TypeOK, KeyInv, NEW r \in Replicas, NEW k \in Keys, NEW acknowledged,
         Boot(r, k, acknowledged)
  PROVE  KeyInv'
<1>1. state'.life = "serving" /\ state'.current = k
  BY DEF Boot, Verified
<1>2. \A q \in Replicas : \/ replica'[q] = replica[q]
                          \/ replica'[q].key = k
  BY DEF Boot, Down, TypeOK
<1>3. CASE state.life = "none"
  <2>1. k.mode = "canonical-v1" /\ state'.recovery = NoKey
    BY <1>1, <1>3 DEF Boot, Established, NoState
  <2>2. \A q \in Replicas : replica[q].key = NoKey
    BY <1>3 DEF KeyInv, Down
  <2>3. FirstKey'
    BY <1>1, <1>2, <2>1, <2>2 DEF FirstKey
  <2> QED BY <1>1, <2>3 DEF KeyInv
<1>4. CASE state.life # "none"
  <2>1. state' = state
    BY <1>4 DEF Boot, Established
  <2>2. CASE FirstKey
    <3>1. FirstKey'
      BY <1>1, <1>2, <2>1, <2>2 DEF FirstKey
    <3> QED BY <1>1, <3>1 DEF KeyInv
  <2>3. ASSUME NEW m \in Modings, AgreedKeys(m)
        PROVE  KeyInv'
    <3>1. AgreedKeys(m)'
      BY <1>1, <1>2, <2>1, <2>3 DEF AgreedKeys, Agrees
    <3> QED BY <1>1, <3>1 DEF KeyInv
  <2> QED BY <1>4, <2>2, <2>3 DEF KeyInv
<1> QED BY <1>3, <1>4

\* Every step keeps one mode for every key id.
LEMMA KeyStep ==
  ASSUME OneModePerKey, TypeOK, KeyInv, [Next]_vars
  PROVE  KeyInv'
<1>1. ASSUME NEW r \in Replicas, NEW k \in Keys, NEW acknowledged \in BOOLEAN,
             Boot(r, k, acknowledged)
      PROVE  KeyInv'
  BY <1>1, BootKeys
<1>2. ASSUME NEW r \in Replicas, WriteFence(r)
      PROVE  KeyInv'
  <2>1. replica[r] # Down /\ replica'[r].key = replica[r].key
    BY <1>2 DEF WriteFence, Holds, TypeOK, ReplicaType, Down
  <2>2. \A q \in Replicas : q # r => replica'[q] = replica[q]
    BY <1>2 DEF WriteFence, TypeOK
  <2> QED BY <1>2, <2>1, <2>2, KeyFrame DEF WriteFence
<1>3. ASSUME NEW r \in Replicas, NEW s \in Secrets, WriteInsert(r, s)
      PROVE  KeyInv'
  <2>1. replica[r] # Down /\ replica'[r].key = replica[r].key
    BY <1>3 DEF WriteInsert, Holds, TypeOK, ReplicaType, Down
  <2>2. \A q \in Replicas : q # r => replica'[q] = replica[q]
    BY <1>3 DEF WriteInsert, TypeOK
  <2> QED BY <1>3, <2>1, <2>2, KeyFrame DEF WriteInsert
<1>4. ASSUME NEW r \in Replicas, WriteCommit(r)
      PROVE  KeyInv'
  <2>1. replica[r] # Down /\ replica'[r].key = replica[r].key
    BY <1>4 DEF WriteCommit, Holds, TypeOK, ReplicaType, Down
  <2>2. \A q \in Replicas : q # r => replica'[q] = replica[q]
    BY <1>4 DEF WriteCommit, TypeOK
  <2> QED BY <1>4, <2>1, <2>2, KeyFrame DEF WriteCommit
<1>5. ASSUME NEW r \in Replicas, WriteAbort(r)
      PROVE  KeyInv'
  <2>1. replica[r] # Down /\ replica'[r].key = replica[r].key
    BY <1>5 DEF WriteAbort, Holds, TypeOK, ReplicaType, Down
  <2>2. \A q \in Replicas : q # r => replica'[q] = replica[q]
    BY <1>5 DEF WriteAbort, TypeOK
  <2> QED BY <1>5, <2>1, <2>2, KeyFrame DEF WriteAbort
<1>6. ASSUME NEW r \in Replicas, Stop(r)
      PROVE  KeyInv'
  <2>1. \A q \in Replicas : replica'[q] = Down \/ replica'[q] = replica[q]
    BY <1>6 DEF Stop, TypeOK
  <2> QED BY <1>6, <2>1, KeyFrame DEF Stop
<1>7. ASSUME NEW j \in Jobs, NEW c \in Asks[j], Start(j, c)
      PROVE  KeyInv'
  BY <1>7 DEF Start, KeyInv, FirstKey, AgreedKeys
<1>8. ASSUME NEW j \in Jobs, Quiesce(j)
      PROVE  KeyInv'
  BY <1>8 DEF Quiesce, KeyInv, FirstKey, AgreedKeys
<1>9. ASSUME NEW j \in Jobs, Scale(j)
      PROVE  KeyInv'
  BY <1>9 DEF Scale, KeyInv, FirstKey, AgreedKeys
<1>10. ASSUME NEW j \in Jobs, Drain(j)
      PROVE  KeyInv'
  BY <1>10 DEF Drain, KeyInv, FirstKey, AgreedKeys
<1>11. ASSUME NEW j \in Jobs, DrainTimeout(j)
      PROVE  KeyInv'
  BY <1>11 DEF DrainTimeout, KeyInv, FirstKey, AgreedKeys
<1>12. ASSUME NEW j \in Jobs, ReadResolution(j)
      PROVE  KeyInv'
  BY <1>12 DEF ReadResolution, KeyInv, FirstKey, AgreedKeys
<1>13. ASSUME NEW j \in Jobs, NEW acknowledged \in BOOLEAN, Replay(j, acknowledged)
      PROVE  KeyInv'
  BY <1>13 DEF Replay, AfterCommit, Transacts, KeyInv, FirstKey, AgreedKeys
<1>14. ASSUME NEW j \in Jobs, NEW acknowledged \in BOOLEAN, Resume(j, acknowledged)
      PROVE  KeyInv'
  <2>1. state \in StateRow
    BY <1>14, StateFacts DEF Resume, CanResume, Replays, DurableReplay
  <2>2. state'.life # "none" /\ state.life # "none" /\ UNCHANGED replica
        /\ state'.current = state.current /\ state'.recovery = state.recovery
    BY <1>14, <2>1 DEF Resume, StateRow
  <2> QED BY <2>2, KeyFrame
<1>15. ASSUME NEW j \in Jobs, NEW acknowledged \in BOOLEAN, Adopt(j, acknowledged)
      PROVE  KeyInv'
  BY <1>15, AdoptKeys
<1>16. ASSUME NEW j \in Jobs, NEW acknowledged \in BOOLEAN, Rotate(j, acknowledged)
      PROVE  KeyInv'
  BY <1>16, RotateKeys
<1>17. ASSUME NEW j \in Jobs, NEW acknowledged \in BOOLEAN, Recover(j, acknowledged)
      PROVE  KeyInv'
  BY <1>17, RecoverKeys
<1>18. ASSUME NEW j \in Jobs, NEW acknowledged \in BOOLEAN, Finalize(j, acknowledged)
      PROVE  KeyInv'
  <2>1. state \in StateRow
    BY <1>18, StateFacts DEF Finalize, CanFinalize
  <2>2. state'.life = state.life /\ UNCHANGED replica
        /\ state'.current = state.current /\ state'.recovery = NoKey
    BY <1>18, <2>1 DEF Finalize, StateRow
  <2> QED BY <2>2, KeyFrame
<1>19. ASSUME NEW j \in Jobs, CommitLost(j)
      PROVE  KeyInv'
  BY <1>19 DEF CommitLost, AfterCommit, Transacts, KeyInv, FirstKey, AgreedKeys
<1>20. ASSUME NEW j \in Jobs, Refuse(j)
      PROVE  KeyInv'
  BY <1>20 DEF Refuse, Transacts, KeyInv, FirstKey, AgreedKeys
<1>21. ASSUME NEW j \in Jobs, TransactionFails(j)
      PROVE  KeyInv'
  BY <1>21 DEF TransactionFails, KeyInv, FirstKey, AgreedKeys
<1>22. ASSUME NEW j \in Jobs, NEW committed \in BOOLEAN, MarkAmbiguous(j, committed)
      PROVE  KeyInv'
  <2>1. CASE committed /\ Entry(j).status = "completed" /\ Bound(j) /\ Replays(j)
    <3>1. state \in StateRow
      BY <2>1, StateFacts DEF Replays, DurableReplay
    <3>2. state'.life # "none" /\ state.life # "none" /\ UNCHANGED replica
          /\ state'.current = state.current /\ state'.recovery = state.recovery
      BY <1>22, <2>1, <3>1 DEF MarkAmbiguous, StateRow
    <3> QED BY <3>2, KeyFrame
  <2>2. CASE UNCHANGED state
    BY <1>22, <2>2, KeyFrame DEF MarkAmbiguous
  <2> QED BY <1>22, <2>1, <2>2 DEF MarkAmbiguous
<1>23. ASSUME NEW j \in Jobs, NEW recorded \in BOOLEAN, NEW restored \in BOOLEAN,
              Fail(j, recorded, restored)
      PROVE  KeyInv'
  BY <1>23 DEF Fail, KeyInv, FirstKey, AgreedKeys
<1>24. ASSUME NEW j \in Jobs, Apply(j)
      PROVE  KeyInv'
  BY <1>24 DEF Apply, KeyInv, FirstKey, AgreedKeys
<1>25. ASSUME NEW j \in Jobs, CrashJob(j)
      PROVE  KeyInv'
  BY <1>25 DEF CrashJob, KeyInv, FirstKey, AgreedKeys
<1>26. CASE Tick
  BY <1>26 DEF Tick, KeyInv, FirstKey, AgreedKeys
<1>27. CASE UNCHANGED vars
  BY <1>27 DEF vars, KeyInv, FirstKey, AgreedKeys
<1> QED
  BY <1>1, <1>2, <1>3, <1>4, <1>5, <1>6, <1>7, <1>8, <1>9, <1>10, <1>11,
     <1>12, <1>13, <1>14, <1>15, <1>16, <1>17, <1>18, <1>19, <1>20, <1>21,
     <1>22, <1>23, <1>24, <1>25, <1>26, <1>27 DEF Next, ReplicaStep,
     JobStep, Transaction

\* The lock keeps every transaction that changes the state from the writers.
LEMMA HoldFrame ==
  ASSUME LockFree, UNCHANGED replica
  PROVE  HoldInv'
  BY DEF LockFree, HoldInv, Holds

\* The key id that the write fence compares decides which key it is.
LEMMA SameIdSameKey ==
  ASSUME TypeOK, KeyInv, NEW r \in Replicas, replica[r].key # NoKey,
         state.life # "none", state.current.id = replica[r].key.id
  PROVE  state.current = replica[r].key
<1>1. CASE FirstKey
  BY <1>1 DEF FirstKey
<1>2. ASSUME NEW m \in Modings, AgreedKeys(m)
      PROVE  state.current = replica[r].key
  BY <1>2 DEF AgreedKeys, Agrees
<1> QED BY <1>1, <1>2 DEF KeyInv

\* A process inside a write keeps the serving key.
LEMMA HoldStep ==
  ASSUME TypeOK, KeyInv, HoldInv, [Next]_vars
  PROVE  HoldInv'
<1>1. ASSUME NEW r \in Replicas, NEW k \in Keys, NEW acknowledged \in BOOLEAN,
             Boot(r, k, acknowledged)
      PROVE  HoldInv'
  <2>1. \A q \in Replicas : ~Holds(q)'
    BY <1>1 DEF Boot, LockFree, Holds, Down, TypeOK
  <2> QED BY <2>1 DEF HoldInv
<1>2. ASSUME NEW r \in Replicas, WriteFence(r)
      PROVE  HoldInv'
  <2>1. replica[r].key # NoKey /\ replica'[r].key = replica[r].key
    BY <1>2, KeyAssumption DEF WriteFence, TypeOK, ReplicaType, Down
  <2>2. state.life = "serving" /\ state.current = replica[r].key
    BY <1>2, <2>1, SameIdSameKey DEF WriteFence, WriteAuthorized
  <2>3. \A q \in Replicas : q # r => replica'[q] = replica[q]
    BY <1>2 DEF WriteFence, TypeOK
  <2> QED BY <1>2, <2>1, <2>2, <2>3 DEF WriteFence, HoldInv, Holds
<1>3. ASSUME NEW r \in Replicas, NEW s \in Secrets, WriteInsert(r, s)
      PROVE  HoldInv'
  <2>1. Holds(r) /\ replica'[r].key = replica[r].key
    BY <1>3 DEF WriteInsert, Holds, TypeOK, ReplicaType, Down
  <2>2. \A q \in Replicas : q # r => replica'[q] = replica[q]
    BY <1>3 DEF WriteInsert, TypeOK
  <2> QED BY <1>3, <2>1, <2>2 DEF WriteInsert, HoldInv, Holds
<1>4. ASSUME NEW r \in Replicas, WriteCommit(r)
      PROVE  HoldInv'
  <2>1. ~Holds(r)'
    BY <1>4 DEF WriteCommit, Holds, TypeOK, ReplicaType, Down
  <2>2. \A q \in Replicas : q # r => replica'[q] = replica[q]
    BY <1>4 DEF WriteCommit, TypeOK
  <2> QED BY <1>4, <2>1, <2>2 DEF WriteCommit, HoldInv, Holds
<1>5. ASSUME NEW r \in Replicas, WriteAbort(r)
      PROVE  HoldInv'
  <2>1. ~Holds(r)'
    BY <1>5 DEF WriteAbort, Holds, TypeOK, ReplicaType, Down
  <2>2. \A q \in Replicas : q # r => replica'[q] = replica[q]
    BY <1>5 DEF WriteAbort, TypeOK
  <2> QED BY <1>5, <2>1, <2>2 DEF WriteAbort, HoldInv, Holds
<1>6. ASSUME NEW r \in Replicas, Stop(r)
      PROVE  HoldInv'
  <2>1. ~Holds(r)'
    BY <1>6 DEF Stop, Holds, TypeOK, ReplicaType, Down
  <2>2. \A q \in Replicas : q # r => replica'[q] = replica[q]
    BY <1>6 DEF Stop, TypeOK
  <2> QED BY <1>6, <2>1, <2>2 DEF Stop, HoldInv, Holds
<1>7. ASSUME NEW j \in Jobs, NEW c \in Asks[j], Start(j, c)
      PROVE  HoldInv'
  BY <1>7 DEF Start, HoldInv, Holds
<1>8. ASSUME NEW j \in Jobs, Quiesce(j)
      PROVE  HoldInv'
  BY <1>8 DEF Quiesce, HoldInv, Holds
<1>9. ASSUME NEW j \in Jobs, Scale(j)
      PROVE  HoldInv'
  BY <1>9 DEF Scale, HoldInv, Holds
<1>10. ASSUME NEW j \in Jobs, Drain(j)
      PROVE  HoldInv'
  BY <1>10 DEF Drain, HoldInv, Holds
<1>11. ASSUME NEW j \in Jobs, DrainTimeout(j)
      PROVE  HoldInv'
  BY <1>11 DEF DrainTimeout, HoldInv, Holds
<1>12. ASSUME NEW j \in Jobs, ReadResolution(j)
      PROVE  HoldInv'
  BY <1>12 DEF ReadResolution, HoldInv, Holds
<1>13. ASSUME NEW j \in Jobs, NEW acknowledged \in BOOLEAN, Replay(j, acknowledged)
      PROVE  HoldInv'
  BY <1>13 DEF Replay, AfterCommit, Transacts, HoldInv, Holds
<1>14. ASSUME NEW j \in Jobs, NEW acknowledged \in BOOLEAN, Resume(j, acknowledged)
      PROVE  HoldInv'
  BY <1>14, HoldFrame DEF Resume, Transacts
<1>15. ASSUME NEW j \in Jobs, NEW acknowledged \in BOOLEAN, Adopt(j, acknowledged)
      PROVE  HoldInv'
  BY <1>15, HoldFrame DEF Adopt, Transacts
<1>16. ASSUME NEW j \in Jobs, NEW acknowledged \in BOOLEAN, Rotate(j, acknowledged)
      PROVE  HoldInv'
  BY <1>16, HoldFrame DEF Rotate, Transacts
<1>17. ASSUME NEW j \in Jobs, NEW acknowledged \in BOOLEAN, Recover(j, acknowledged)
      PROVE  HoldInv'
  BY <1>17, HoldFrame DEF Recover, Transacts
<1>18. ASSUME NEW j \in Jobs, NEW acknowledged \in BOOLEAN, Finalize(j, acknowledged)
      PROVE  HoldInv'
  BY <1>18, HoldFrame DEF Finalize, Transacts
<1>19. ASSUME NEW j \in Jobs, CommitLost(j)
      PROVE  HoldInv'
  BY <1>19 DEF CommitLost, AfterCommit, Transacts, HoldInv, Holds
<1>20. ASSUME NEW j \in Jobs, Refuse(j)
      PROVE  HoldInv'
  BY <1>20 DEF Refuse, Transacts, HoldInv, Holds
<1>21. ASSUME NEW j \in Jobs, TransactionFails(j)
      PROVE  HoldInv'
  BY <1>21 DEF TransactionFails, HoldInv, Holds
<1>22. ASSUME NEW j \in Jobs, NEW committed \in BOOLEAN, MarkAmbiguous(j, committed)
      PROVE  HoldInv'
  <2>1. CASE LockFree
    BY <1>22, <2>1, HoldFrame DEF MarkAmbiguous
  <2>2. CASE UNCHANGED state
    BY <1>22, <2>2 DEF MarkAmbiguous, HoldInv, Holds
  <2> QED BY <1>22, <2>1, <2>2 DEF MarkAmbiguous
<1>23. ASSUME NEW j \in Jobs, NEW recorded \in BOOLEAN, NEW restored \in BOOLEAN,
              Fail(j, recorded, restored)
      PROVE  HoldInv'
  BY <1>23 DEF Fail, HoldInv, Holds
<1>24. ASSUME NEW j \in Jobs, Apply(j)
      PROVE  HoldInv'
  BY <1>24 DEF Apply, HoldInv, Holds
<1>25. ASSUME NEW j \in Jobs, CrashJob(j)
      PROVE  HoldInv'
  BY <1>25 DEF CrashJob, HoldInv, Holds
<1>26. CASE Tick
  BY <1>26 DEF Tick, HoldInv, Holds
<1>27. CASE UNCHANGED vars
  BY <1>27 DEF vars, HoldInv, Holds
<1> QED
  BY <1>1, <1>2, <1>3, <1>4, <1>5, <1>6, <1>7, <1>8, <1>9, <1>10, <1>11,
     <1>12, <1>13, <1>14, <1>15, <1>16, <1>17, <1>18, <1>19, <1>20, <1>21,
     <1>22, <1>23, <1>24, <1>25, <1>26, <1>27 DEF Next, ReplicaStep,
     JobStep, Transaction

\* Rows are sealed by a writer that holds the serving key, or all at once.
LEMMA ReadableStep ==
  ASSUME TypeOK, HoldInv, RowsReadable, [Next]_vars
  PROVE  RowsReadable'
<1>1. ASSUME NEW r \in Replicas, NEW k \in Keys, NEW acknowledged \in BOOLEAN,
             Boot(r, k, acknowledged)
      PROVE  RowsReadable'
  <2>1. CASE state.life = "none"
    BY <1>1, <2>1 DEF Boot, Verified, Established, Live, RowsReadable
  <2>2. CASE state.life # "none"
    BY <1>1, <2>2 DEF Boot, Established, Live, RowsReadable
  <2> QED BY <2>1, <2>2
<1>2. ASSUME NEW r \in Replicas, WriteFence(r)
      PROVE  RowsReadable'
  BY <1>2 DEF WriteFence, RowsReadable, Live
<1>3. ASSUME NEW r \in Replicas, NEW s \in Secrets, WriteInsert(r, s)
      PROVE  RowsReadable'
  BY <1>3 DEF WriteInsert, RowsReadable, Live
<1>4. ASSUME NEW r \in Replicas, WriteCommit(r)
      PROVE  RowsReadable'
  <2>1. replica[r].row \in Secrets /\ replica[r].key \in Keys
    BY <1>4 DEF WriteCommit, TypeOK, ReplicaType, Down
  <2>2. state.current = replica[r].key
    BY <1>4 DEF WriteCommit, Holds, HoldInv
  <2>3. /\ rows'[replica[r].row] = replica[r].key
        /\ \A s \in Secrets : s # replica[r].row => rows'[s] = rows[s]
    BY <1>4, <2>1 DEF WriteCommit, TypeOK
  <2> QED BY <1>4, <2>2, <2>3 DEF WriteCommit, Live, RowsReadable
<1>5. ASSUME NEW r \in Replicas, WriteAbort(r)
      PROVE  RowsReadable'
  BY <1>5 DEF WriteAbort, Holds, RowsReadable, Live
<1>6. ASSUME NEW r \in Replicas, Stop(r)
      PROVE  RowsReadable'
  BY <1>6 DEF Stop, RowsReadable, Live
<1>7. ASSUME NEW j \in Jobs, NEW c \in Asks[j], Start(j, c)
      PROVE  RowsReadable'
  BY <1>7 DEF Start, RowsReadable, Live
<1>8. ASSUME NEW j \in Jobs, Quiesce(j)
      PROVE  RowsReadable'
  BY <1>8 DEF Quiesce, RowsReadable, Live
<1>9. ASSUME NEW j \in Jobs, Scale(j)
      PROVE  RowsReadable'
  BY <1>9 DEF Scale, RowsReadable, Live
<1>10. ASSUME NEW j \in Jobs, Drain(j)
      PROVE  RowsReadable'
  BY <1>10 DEF Drain, RowsReadable, Live
<1>11. ASSUME NEW j \in Jobs, DrainTimeout(j)
      PROVE  RowsReadable'
  BY <1>11 DEF DrainTimeout, RowsReadable, Live
<1>12. ASSUME NEW j \in Jobs, ReadResolution(j)
      PROVE  RowsReadable'
  BY <1>12 DEF ReadResolution, RowsReadable, Live
<1>13. ASSUME NEW j \in Jobs, NEW acknowledged \in BOOLEAN, Replay(j, acknowledged)
      PROVE  RowsReadable'
  BY <1>13 DEF Replay, AfterCommit, Transacts, RowsReadable, Live
<1>14. ASSUME NEW j \in Jobs, NEW acknowledged \in BOOLEAN, Resume(j, acknowledged)
      PROVE  RowsReadable'
  <2>1. state \in StateRow /\ state.life # "none"
    BY <1>14, StateFacts DEF Resume, CanResume, Replays, DurableReplay
  <2>2. state'.current = state.current
    BY <1>14, <2>1 DEF Resume, StateRow
  <2> QED BY <1>14, <2>1, <2>2 DEF Resume, Live, RowsReadable
<1>15. ASSUME NEW j \in Jobs, NEW acknowledged \in BOOLEAN, Adopt(j, acknowledged)
      PROVE  RowsReadable'
  <2>1. rows' = Resealed(Target(j)) /\ state'.current = Target(j)
    BY <1>15 DEF Adopt, NoState, CanRecover
  <2> QED BY <2>1 DEF Resealed, Live, RowsReadable
<1>16. ASSUME NEW j \in Jobs, NEW acknowledged \in BOOLEAN, Rotate(j, acknowledged)
      PROVE  RowsReadable'
  <2>1. rows' = Resealed(Target(j)) /\ state'.current = Target(j)
    BY <1>16 DEF Rotate, NoState, CanRecover
  <2> QED BY <2>1 DEF Resealed, Live, RowsReadable
<1>17. ASSUME NEW j \in Jobs, NEW acknowledged \in BOOLEAN, Recover(j, acknowledged)
      PROVE  RowsReadable'
  <2>1. rows' = Resealed(Target(j)) /\ state'.current = Target(j)
    BY <1>17 DEF Recover, NoState, CanRecover
  <2> QED BY <2>1 DEF Resealed, Live, RowsReadable
<1>18. ASSUME NEW j \in Jobs, NEW acknowledged \in BOOLEAN, Finalize(j, acknowledged)
      PROVE  RowsReadable'
  <2>1. state \in StateRow /\ state.life # "none"
    BY <1>18, StateFacts DEF Finalize, CanFinalize
  <2>2. state'.current = state.current
    BY <1>18, <2>1 DEF Finalize, StateRow
  <2> QED BY <1>18, <2>1, <2>2 DEF Finalize, Live, RowsReadable
<1>19. ASSUME NEW j \in Jobs, CommitLost(j)
      PROVE  RowsReadable'
  BY <1>19 DEF CommitLost, AfterCommit, Transacts, RowsReadable, Live
<1>20. ASSUME NEW j \in Jobs, Refuse(j)
      PROVE  RowsReadable'
  BY <1>20 DEF Refuse, Transacts, RowsReadable, Live
<1>21. ASSUME NEW j \in Jobs, TransactionFails(j)
      PROVE  RowsReadable'
  BY <1>21 DEF TransactionFails, RowsReadable, Live
<1>22. ASSUME NEW j \in Jobs, NEW committed \in BOOLEAN, MarkAmbiguous(j, committed)
      PROVE  RowsReadable'
  <2>1. CASE committed /\ Entry(j).status = "completed" /\ Bound(j) /\ Replays(j)
    <3>1. state \in StateRow /\ state.life # "none"
      BY <2>1, StateFacts DEF Replays, DurableReplay
    <3>2. state'.current = state.current
      BY <1>22, <2>1, <3>1 DEF MarkAmbiguous, StateRow
    <3> QED BY <1>22, <3>1, <3>2 DEF MarkAmbiguous, Live, RowsReadable
  <2>2. CASE UNCHANGED state
    BY <1>22, <2>2 DEF MarkAmbiguous, Live, RowsReadable
  <2> QED BY <1>22, <2>1, <2>2 DEF MarkAmbiguous
<1>23. ASSUME NEW j \in Jobs, NEW recorded \in BOOLEAN, NEW restored \in BOOLEAN,
              Fail(j, recorded, restored)
      PROVE  RowsReadable'
  BY <1>23 DEF Fail, RowsReadable, Live
<1>24. ASSUME NEW j \in Jobs, Apply(j)
      PROVE  RowsReadable'
  BY <1>24 DEF Apply, RowsReadable, Live
<1>25. ASSUME NEW j \in Jobs, CrashJob(j)
      PROVE  RowsReadable'
  BY <1>25 DEF CrashJob, RowsReadable, Live
<1>26. CASE Tick
  BY <1>26 DEF Tick, RowsReadable, Live
<1>27. CASE UNCHANGED vars
  BY <1>27 DEF vars, RowsReadable, Live
<1> QED
  BY <1>1, <1>2, <1>3, <1>4, <1>5, <1>6, <1>7, <1>8, <1>9, <1>10, <1>11,
     <1>12, <1>13, <1>14, <1>15, <1>16, <1>17, <1>18, <1>19, <1>20, <1>21,
     <1>22, <1>23, <1>24, <1>25, <1>26, <1>27 DEF Next, ReplicaStep,
     JobStep, Transaction

(* Steps.                                                                  *)

\* The steps that change the serving key once there is one.
LEMMA TransformStep ==
  ASSUME TypeOK, LedgerInv, [Next]_vars, state.life # "none", state'.current #
         state.current
  PROVE  /\ state'.request \in Requests
         /\ ledger[state'.request].status \in {"none", "failed"}
         /\ ledger'[state'.request].status = "completed"
<1> DEFINE goal == /\ state'.request \in Requests
                   /\ ledger[state'.request].status \in {"none", "failed"}
                   /\ ledger'[state'.request].status = "completed"
<1>1. ASSUME NEW r \in Replicas, NEW k \in Keys, NEW acknowledged \in BOOLEAN,
             Boot(r, k, acknowledged)
      PROVE  goal
  BY <1>1 DEF Boot, Established
<1>2. ASSUME NEW r \in Replicas, WriteFence(r)
      PROVE  goal
  BY <1>2 DEF WriteFence
<1>3. ASSUME NEW r \in Replicas, NEW s \in Secrets, WriteInsert(r, s)
      PROVE  goal
  BY <1>3 DEF WriteInsert
<1>4. ASSUME NEW r \in Replicas, WriteCommit(r)
      PROVE  goal
  BY <1>4 DEF WriteCommit
<1>5. ASSUME NEW r \in Replicas, WriteAbort(r)
      PROVE  goal
  BY <1>5 DEF WriteAbort, Holds
<1>6. ASSUME NEW r \in Replicas, Stop(r)
      PROVE  goal
  BY <1>6 DEF Stop
<1>7. ASSUME NEW j \in Jobs, NEW c \in Asks[j], Start(j, c)
      PROVE  goal
  BY <1>7 DEF Start
<1>8. ASSUME NEW j \in Jobs, Quiesce(j)
      PROVE  goal
  BY <1>8 DEF Quiesce
<1>9. ASSUME NEW j \in Jobs, Scale(j)
      PROVE  goal
  BY <1>9 DEF Scale
<1>10. ASSUME NEW j \in Jobs, Drain(j)
      PROVE  goal
  BY <1>10 DEF Drain
<1>11. ASSUME NEW j \in Jobs, DrainTimeout(j)
      PROVE  goal
  BY <1>11 DEF DrainTimeout
<1>12. ASSUME NEW j \in Jobs, ReadResolution(j)
      PROVE  goal
  BY <1>12 DEF ReadResolution
<1>13. ASSUME NEW j \in Jobs, NEW acknowledged \in BOOLEAN, Replay(j, acknowledged)
      PROVE  goal
  BY <1>13 DEF Replay, AfterCommit, Transacts
<1>14. ASSUME NEW j \in Jobs, NEW acknowledged \in BOOLEAN, Resume(j, acknowledged)
      PROVE  goal
  <2>1. state \in StateRow
    BY StateFacts
  <2> QED BY <1>14, <2>1 DEF Resume, StateRow
<1>15. ASSUME NEW j \in Jobs, NEW acknowledged \in BOOLEAN, Adopt(j, acknowledged)
      PROVE  goal
  BY <1>15 DEF Adopt, CanAdopt
<1>16. ASSUME NEW j \in Jobs, NEW acknowledged \in BOOLEAN, Rotate(j, acknowledged)
      PROVE  goal
  <2>1. job[j] \in Run
    BY <1>16, RunFacts DEF Rotate, Transacts
  <2>2. /\ ledger' = Completed(j) /\ state'.request = job[j].call.request
        /\ Entry(j).status \in {"none", "failed"}
    BY <1>16 DEF Rotate, CanRotate, Fresh
  <2>3. /\ job[j].call.request \in Requests
        /\ ledger'[job[j].call.request] =
             [status |-> "completed", call |-> job[j].call,
              sourceMode |-> SourceMode(j), targetMode |-> TargetMode(j)]
    BY <2>1, <2>2, CompletedLedger
  <2>4. ledger'[job[j].call.request].status = "completed"
    BY <2>3
  <2> QED BY <2>2, <2>3, <2>4 DEF Entry
<1>17. ASSUME NEW j \in Jobs, NEW acknowledged \in BOOLEAN, Recover(j, acknowledged)
      PROVE  goal
  <2>1. job[j] \in Run
    BY <1>17, RunFacts DEF Recover, Transacts
  <2>2. /\ ledger' = Completed(j) /\ state'.request = job[j].call.request
        /\ Entry(j).status \in {"none", "failed"}
    BY <1>17 DEF Recover, CanRecover, Fresh
  <2>3. /\ job[j].call.request \in Requests
        /\ ledger'[job[j].call.request] =
             [status |-> "completed", call |-> job[j].call,
              sourceMode |-> SourceMode(j), targetMode |-> TargetMode(j)]
    BY <2>1, <2>2, CompletedLedger
  <2>4. ledger'[job[j].call.request].status = "completed"
    BY <2>3
  <2> QED BY <2>2, <2>3, <2>4 DEF Entry
<1>18. ASSUME NEW j \in Jobs, NEW acknowledged \in BOOLEAN, Finalize(j, acknowledged)
      PROVE  goal
  <2>1. state \in StateRow
    BY StateFacts
  <2> QED BY <1>18, <2>1 DEF Finalize, StateRow
<1>19. ASSUME NEW j \in Jobs, CommitLost(j)
      PROVE  goal
  BY <1>19 DEF CommitLost, AfterCommit, Transacts
<1>20. ASSUME NEW j \in Jobs, Refuse(j)
      PROVE  goal
  BY <1>20 DEF Refuse, Transacts
<1>21. ASSUME NEW j \in Jobs, TransactionFails(j)
      PROVE  goal
  BY <1>21 DEF TransactionFails
<1>22. ASSUME NEW j \in Jobs, NEW committed \in BOOLEAN, MarkAmbiguous(j, committed)
      PROVE  goal
  <2>1. state \in StateRow
    BY StateFacts
  <2> QED BY <1>22, <2>1 DEF MarkAmbiguous, StateRow
<1>23. ASSUME NEW j \in Jobs, NEW recorded \in BOOLEAN, NEW restored \in BOOLEAN,
              Fail(j, recorded, restored)
      PROVE  goal
  BY <1>23 DEF Fail
<1>24. ASSUME NEW j \in Jobs, Apply(j)
      PROVE  goal
  BY <1>24 DEF Apply
<1>25. ASSUME NEW j \in Jobs, CrashJob(j)
      PROVE  goal
  BY <1>25 DEF CrashJob
<1>26. CASE Tick
  BY <1>26 DEF Tick
<1>27. CASE UNCHANGED vars
  BY <1>27 DEF vars
<1> QED
  BY <1>1, <1>2, <1>3, <1>4, <1>5, <1>6, <1>7, <1>8, <1>9, <1>10, <1>11,
     <1>12, <1>13, <1>14, <1>15, <1>16, <1>17, <1>18, <1>19, <1>20, <1>21,
     <1>22, <1>23, <1>24, <1>25, <1>26, <1>27 DEF Next, ReplicaStep,
     JobStep, Transaction

\* The steps that give up a recovery key.
LEMMA RetainStep ==
  ASSUME TypeOK, ClockInv, [Next]_vars, state.recovery # NoKey, state'.recovery =
         NoKey
  PROVE  state.deadline <= now
<1>0. state \in StateRow
  BY StateFacts DEF NoState
<1>1. ASSUME NEW r \in Replicas, NEW k \in Keys, NEW acknowledged \in BOOLEAN,
             Boot(r, k, acknowledged)
      PROVE  state.deadline <= now
  BY <1>1, <1>0 DEF Boot, Established, StateRow
<1>2. ASSUME NEW r \in Replicas, WriteFence(r)
      PROVE  state.deadline <= now
  BY <1>2 DEF WriteFence
<1>3. ASSUME NEW r \in Replicas, NEW s \in Secrets, WriteInsert(r, s)
      PROVE  state.deadline <= now
  BY <1>3 DEF WriteInsert
<1>4. ASSUME NEW r \in Replicas, WriteCommit(r)
      PROVE  state.deadline <= now
  BY <1>4 DEF WriteCommit
<1>5. ASSUME NEW r \in Replicas, WriteAbort(r)
      PROVE  state.deadline <= now
  BY <1>5 DEF WriteAbort, Holds
<1>6. ASSUME NEW r \in Replicas, Stop(r)
      PROVE  state.deadline <= now
  BY <1>6 DEF Stop
<1>7. ASSUME NEW j \in Jobs, NEW c \in Asks[j], Start(j, c)
      PROVE  state.deadline <= now
  BY <1>7 DEF Start
<1>8. ASSUME NEW j \in Jobs, Quiesce(j)
      PROVE  state.deadline <= now
  BY <1>8 DEF Quiesce
<1>9. ASSUME NEW j \in Jobs, Scale(j)
      PROVE  state.deadline <= now
  BY <1>9 DEF Scale
<1>10. ASSUME NEW j \in Jobs, Drain(j)
      PROVE  state.deadline <= now
  BY <1>10 DEF Drain
<1>11. ASSUME NEW j \in Jobs, DrainTimeout(j)
      PROVE  state.deadline <= now
  BY <1>11 DEF DrainTimeout
<1>12. ASSUME NEW j \in Jobs, ReadResolution(j)
      PROVE  state.deadline <= now
  BY <1>12 DEF ReadResolution
<1>13. ASSUME NEW j \in Jobs, NEW acknowledged \in BOOLEAN, Replay(j, acknowledged)
      PROVE  state.deadline <= now
  BY <1>13 DEF Replay, AfterCommit, Transacts
<1>14. ASSUME NEW j \in Jobs, NEW acknowledged \in BOOLEAN, Resume(j, acknowledged)
      PROVE  state.deadline <= now
  BY <1>14, <1>0 DEF Resume, StateRow
<1>15. ASSUME NEW j \in Jobs, NEW acknowledged \in BOOLEAN, Adopt(j, acknowledged)
      PROVE  state.deadline <= now
  BY <1>15, <1>0 DEF Adopt, CanAdopt, StateRow
<1>16. ASSUME NEW j \in Jobs, NEW acknowledged \in BOOLEAN, Rotate(j, acknowledged)
      PROVE  state.deadline <= now
  <2>1. state'.recovery = state.current
    BY <1>16 DEF Rotate
  <2> QED BY <1>0, <2>1, KeyAssumption DEF StateRow
<1>17. ASSUME NEW j \in Jobs, NEW acknowledged \in BOOLEAN, Recover(j, acknowledged)
      PROVE  state.deadline <= now
  <2>1. state'.recovery = state.current
    BY <1>17 DEF Recover
  <2> QED BY <1>0, <2>1, KeyAssumption DEF StateRow
<1>18. ASSUME NEW j \in Jobs, NEW acknowledged \in BOOLEAN, Finalize(j, acknowledged)
      PROVE  state.deadline <= now
  <2>1. state.deadline <= job[j].clock /\ job[j].clock <= now
    BY <1>18 DEF Finalize, CanFinalize, ClockInv
  <2>2. job[j] \in Run
    BY <1>18, RunFacts DEF Finalize, Transacts
  <2> QED BY <1>0, <2>1, <2>2, NullAssumption DEF StateRow, Run, TypeOK
<1>19. ASSUME NEW j \in Jobs, CommitLost(j)
      PROVE  state.deadline <= now
  BY <1>19 DEF CommitLost, AfterCommit, Transacts
<1>20. ASSUME NEW j \in Jobs, Refuse(j)
      PROVE  state.deadline <= now
  BY <1>20 DEF Refuse, Transacts
<1>21. ASSUME NEW j \in Jobs, TransactionFails(j)
      PROVE  state.deadline <= now
  BY <1>21 DEF TransactionFails
<1>22. ASSUME NEW j \in Jobs, NEW committed \in BOOLEAN, MarkAmbiguous(j, committed)
      PROVE  state.deadline <= now
  BY <1>22, <1>0 DEF MarkAmbiguous, StateRow
<1>23. ASSUME NEW j \in Jobs, NEW recorded \in BOOLEAN, NEW restored \in BOOLEAN,
              Fail(j, recorded, restored)
      PROVE  state.deadline <= now
  BY <1>23 DEF Fail
<1>24. ASSUME NEW j \in Jobs, Apply(j)
      PROVE  state.deadline <= now
  BY <1>24 DEF Apply
<1>25. ASSUME NEW j \in Jobs, CrashJob(j)
      PROVE  state.deadline <= now
  BY <1>25 DEF CrashJob
<1>26. CASE Tick
  BY <1>26 DEF Tick
<1>27. CASE UNCHANGED vars
  BY <1>27 DEF vars
<1> QED
  BY <1>1, <1>2, <1>3, <1>4, <1>5, <1>6, <1>7, <1>8, <1>9, <1>10, <1>11,
     <1>12, <1>13, <1>14, <1>15, <1>16, <1>17, <1>18, <1>19, <1>20, <1>21,
     <1>22, <1>23, <1>24, <1>25, <1>26, <1>27 DEF Next, ReplicaStep,
     JobStep, Transaction

(* The invariants.                                                         *)

LEMMA Initially == Init => IInv /\ KInv
<1> SUFFICES ASSUME Init PROVE IInv /\ KInv
  OBVIOUS
<1>1. TypeOK
  BY NullAssumption DEF Init, TypeOK, StateType, EntryType, ReplicaType, JobType
<1>2. ClockInv /\ LedgerInv
  BY DEF Init, ClockInv, LedgerInv, Idle, NoEntry
<1>3. FenceInv /\ HoldInv
  BY DEF Init, FenceInv, HoldInv, Holds, Down
<1>4. LabelInv /\ RowsReadable /\ LatestRequestReplayable
  BY DEF Init, LabelInv, RowsReadable, LatestRequestReplayable, NoState
<1>5. KeyInv
  BY DEF Init, KeyInv, NoState
<1> QED BY <1>1, <1>2, <1>3, <1>4, <1>5 DEF IInv, KInv

\* Every step keeps the invariant.
LEMMA Preserved == IInv /\ [Next]_vars => IInv'
  BY TypeStep, ClockStep, LedgerStep, FenceStep, LabelStep, LatestStep DEF IInv

\* And, with one mode per key, what it says of keys and of rows.
LEMMA KeysPreserved ==
  ASSUME OneModePerKey
  PROVE  IInv /\ KInv /\ [Next]_vars => KInv'
  BY KeyStep, HoldStep, ReadableStep DEF IInv, KInv

\* The invariant holds in every reachable state.
LEMMA Invariance == Spec => []IInv
  BY Initially, Preserved, PTL DEF Spec

-----------------------------------------------------------------------------
(* The theorems.                                                           *)

\* Type correctness of the state row, the ledger, the rows, the processes and
\* the runs of the lifecycle CLI.
THEOREM TypeCorrect == Spec => []TypeOK
  BY Invariance, PTL DEF IInv

\* When no Secret is used both as a legacy and as a canonical key, every signing
\* secret is sealed with the serving key, although the fence of the writers
\* compares nothing but key ids and processes may outlive any number of rotations.
THEOREM SecretsStayReadable ==
  ASSUME OneModePerKey
  PROVE  Spec => []RowsReadable
<1>1. Init => KInv
  BY Initially
<1>2. IInv /\ KInv /\ [Next]_vars => KInv'
  BY KeysPreserved
<1>3. KInv => RowsReadable
  BY DEF KInv
<1> QED BY <1>1, <1>2, <1>3, Invariance, PTL DEF Spec

\* An exact retry of the request that produced the state is always a replay or a
\* resumption, also after an unknown outcome of COMMIT and its mark.
THEOREM LatestStaysReplayable == Spec => []LatestRequestReplayable
  BY Invariance, PTL DEF IInv

\* The serving key changes only in the step that completes a request that was
\* not completed before: retries never transform the rows again.
THEOREM TransformsOnce == Spec => OneTransformPerRequest
<1>1. IInv /\ [Next]_vars =>
        [state.life # "none" /\ state'.current # state.current =>
            /\ state'.request \in Requests
            /\ ledger[state'.request].status \in {"none", "failed"}
            /\ ledger'[state'.request].status = "completed"]_vars
  BY TransformStep DEF IInv
<1> QED BY <1>1, Invariance, PTL DEF Spec, OneTransformPerRequest

\* The recovery key is given up only after its deadline, whatever the time
\* between the clock a finalization read and its transaction.
THEOREM RecoveryKeyKept == Spec => RecoveryRetained
<1>1. IInv /\ [Next]_vars =>
        [state.recovery # NoKey /\ state'.recovery = NoKey => state.deadline <= now]_vars
  BY RetainStep DEF IInv
<1> QED BY <1>1, Invariance, PTL DEF Spec, RecoveryRetained
=============================================================================
