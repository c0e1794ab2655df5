-------------------------- MODULE ScopeOutcomeProofs --------------------------
(* Theorems about what a transaction leaves on disk and in its journal, for  *)
(* every set of targets, plans and processes and every number of edits,      *)
(* faults and kills.                                                          *)
EXTENDS ScopeTransactionProofs

-------------------------------------------------------------------------------
(* What happens to a process in its critical section: its own steps, and     *)
(* steps that leave alone what it works on.                                  *)

EngineInv == LockInv /\ JournalInv

LEMMA EngineInvariant == Spec => []EngineInv
<1>1. Init => EngineInv BY InitLockInv, InitJournalInv DEF EngineInv
<1>2. EngineInv /\ [Next]_vars => EngineInv'
  BY LockInvKept, JournalInvKept DEF EngineInv
<1> QED BY <1>1, <1>2, PTL DEF Spec

\* The plan of a transaction and the versions it captured.
Frozen(x) == plan'[x] = plan[x] /\ before'[x] = before[x]

LEMMA LateFrozen ==
  ASSUME EngineInv, [Next]_vars, NEW x \in Appliers, pc[x] \notin {"start", "planned"}
  PROVE  Frozen(x)
<1> USE DEF EngineInv, LockInv, Frozen
<1>1. ASSUME NEW p \in Procs, ProcStep(p) PROVE Frozen(x)
  BY <1>1, ProcFrame DEF PlanFixed
<1>2. CASE Environment BY <1>2, EnvironmentFrame DEF Typed, local
<1>3. CASE UNCHANGED vars BY <1>3 DEF vars, local
<1> QED BY <1>1, <1>2, <1>3 DEF Next

\* A transaction that is worked on under the lock is an applier's.
LEMMA TxOK ==
  ASSUME EngineInv, NEW p \in Procs, pc[p] \in Locked
  PROVE  Tx(p) \in Appliers /\ pc[Tx(p)] \notin {"start", "planned"}
<1> USE DEF EngineInv, LockInv, Typed
<1>1. CASE p \in Appliers BY <1>1 DEF Tx, Locked
<1>2. CASE p \in Rollbackers /\ p \notin Appliers
  <2>1. chosen[p] \in Appliers BY <1>2 DEF ChosenOK
  <2>2. status[chosen[p]] \notin Early BY <1>2, <2>1 DEF JournalInv, ChosenLate
  <2> QED BY <1>2, <2>1, <2>2 DEF Tx, JournalInv, PreparingEarly, Preparing
<1> QED BY <1>1, <1>2 DEF Procs

\* Who steps outside the critical section changes nothing on disk but the lock.
LEMMA OutsideStep ==
  ASSUME Typed, NEW p \in Procs, ProcStep(p), pc[p] \notin Locked
  PROVE  UNCHANGED <<files, saved, claim, damaged, status>>
<1> USE DEF Typed, TypeOK, disk, Locked
<1>1. CASE LockStep(p) BY <1>1 DEF LockStep, AcquireLock, Busy, AcquireFails, Release
<1>2. CASE RestoreStep(p)
  BY <1>2 DEF RestoreStep, StageRestore, StageRestoreFails, CheckRestore, SkipTarget,
    RevertTarget, FinishRestore
<1>3. CASE RollbackStep(p)
  BY <1>3 DEF RollbackStep, ReadJournal, RefuseJournal, Preflight, PreflightFails,
    BeginRollback, BeginRollbackFails
<1>4. CASE ApplyStep(p)
  BY <1>4 DEF ApplyStep, MakePlan, Resolve, RefusePlan, Claim, ClaimFails, Backup, Stage,
    PrepareFails, OpenJournal, PublishJournal, Recheck, RecheckFails, BeginCommit,
    BeginCommitFails, CheckTarget, CheckTargetFails, ReplaceTarget, ReplaceTargetFails,
    Commit, CommitFails, BeginUndo
<1> QED BY <1>1, <1>2, <1>3, <1>4 DEF ProcStep

\* Faults are only added to.
LEMMA FaultsGrow ==
  ASSUME Typed, [Next]_vars
  PROVE  faults' \in Nat /\ faults \in Nat /\ faults' >= faults
<1> USE Kinds DEF Typed, TypeOK, Fault, NoFault
<1>1. ASSUME NEW p \in Procs, ProcStep(p) PROVE faults' \in Nat /\ faults' >= faults
  <2>1. CASE LockStep(p) BY <2>1 DEF LockStep, AcquireLock, Busy, AcquireFails, Release
  <2>2. CASE RestoreStep(p)
    BY <2>2 DEF RestoreStep, StageRestore, StageRestoreFails, CheckRestore, SkipTarget,
      RevertTarget, FinishRestore
  <2>3. CASE RollbackStep(p)
    BY <2>3 DEF RollbackStep, ReadJournal, RefuseJournal, Preflight, PreflightFails,
      BeginRollback, BeginRollbackFails
  <2>4. CASE PrepareFails(p) BY <2>4 DEF PrepareFails
  <2>5. CASE \/ MakePlan(p) \/ Resolve(p) \/ RefusePlan(p) \/ Claim(p) \/ ClaimFails(p)
             \/ Backup(p) \/ Stage(p)
    BY <2>5 DEF MakePlan, Resolve, RefusePlan, Claim, ClaimFails, Backup, Stage
  <2>6. CASE \/ OpenJournal(p) \/ PublishJournal(p) \/ Recheck(p) \/ RecheckFails(p)
             \/ BeginCommit(p) \/ BeginCommitFails(p)
    BY <2>6 DEF OpenJournal, PublishJournal, Recheck, RecheckFails, BeginCommit,
      BeginCommitFails
  <2>7. CASE CheckTarget(p) \/ ReplaceTarget(p)
    BY <2>7 DEF CheckTarget, ReplaceTarget
  <2>8. CASE CheckTargetFails(p) BY <2>8 DEF CheckTargetFails
  <2>9. CASE ReplaceTargetFails(p) \/ Commit(p) \/ CommitFails(p) \/ BeginUndo(p)
    BY <2>9 DEF ReplaceTargetFails, Commit, CommitFails, BeginUndo
  <2> QED BY <1>1, <2>1, <2>2, <2>3, <2>4, <2>5, <2>6, <2>7, <2>8, <2>9 DEF ProcStep, ApplyStep
<1>2. CASE Environment
  BY <1>2 DEF Environment, EditFile, DamageBackup, Interrupt, Kill, RemoveStaleLock
<1>3. CASE UNCHANGED vars BY <1>3 DEF vars
<1> QED BY <1>1, <1>2, <1>3 DEF Next

\* What the next state owes to others, when q stays in its critical section.
Quiet(q) ==
  /\ pc'[q] = pc[q] /\ todo'[q] = todo[q] /\ failed'[q] = failed[q] /\ Tx(q)' = Tx(q)
  /\ Frozen(Tx(q))
  /\ UNCHANGED <<saved, claim, status>>
  /\ files' # files => \E t \in Targets : EditFile(t)

LEMMA FailedFrame ==
  ASSUME Typed, NEW p \in Procs, ProcStep(p), NEW q \in Procs, q # p
  PROVE  failed'[q] = failed[q]
<1> USE DEF Typed, TypeOK, disk, local
<1>1. CASE LockStep(p) BY <1>1 DEF LockStep, AcquireLock, Busy, AcquireFails, Release
<1>2. CASE RestoreStep(p)
  BY <1>2 DEF RestoreStep, StageRestore, StageRestoreFails, CheckRestore, SkipTarget,
    RevertTarget, FinishRestore
<1>3. CASE RollbackStep(p)
  BY <1>3 DEF RollbackStep, ReadJournal, RefuseJournal, Preflight, PreflightFails,
    BeginRollback, BeginRollbackFails
<1>4. CASE ApplyStep(p)
  BY <1>4 DEF ApplyStep, MakePlan, Resolve, RefusePlan, Claim, ClaimFails, Backup, Stage,
    PrepareFails, OpenJournal, PublishJournal, Recheck, RecheckFails, BeginCommit,
    BeginCommitFails, CheckTarget, CheckTargetFails, ReplaceTarget, ReplaceTargetFails,
    Commit, CommitFails, BeginUndo
<1> QED BY <1>1, <1>2, <1>3, <1>4 DEF ProcStep

LEMMA HolderSteps ==
  ASSUME EngineInv, [Next]_vars, NEW q \in Procs, pc'[q] \in Locked
  PROVE  ProcStep(q) \/ Quiet(q)
<1> USE DEF EngineInv, LockInv
<1>1. ASSUME NEW p \in Procs, ProcStep(p), p # q PROVE Quiet(q)
  <2>1. pc'[q] = pc[q] /\ todo'[q] = todo[q] BY <1>1, ProcFrame DEF SameElsewhere
  <2>2. Tx(q) \in Appliers /\ Frozen(Tx(q)) BY <2>1, TxOK, LateFrozen
  <2>3. Tx(q)' = Tx(q) BY <1>1, ProcFrame DEF SameElsewhere, Tx, Procs
  <2>4. pc[p] \notin Locked BY <1>1, <2>1 DEF LockHeld
  <2>5. UNCHANGED <<files, saved, claim, status>> BY <1>1, <2>4, OutsideStep
  <2> QED BY <1>1, <2>1, <2>2, <2>3, <2>5, FailedFrame DEF Quiet
<1>2. CASE Environment
  <2>1. UNCHANGED local /\ pc'[q] = pc[q]
    BY <1>2, EnvironmentFrame DEF Typed, Locked
  <2>2. Tx(q) \in Appliers /\ Frozen(Tx(q)) /\ Tx(q)' = Tx(q)
    BY <2>1, TxOK, LateFrozen DEF Tx, local
  <2>3. UNCHANGED <<saved, claim, status>> /\ (files' # files => \E t \in Targets : EditFile(t))
    BY <1>2 DEF Environment, EditFile, DamageBackup, Interrupt, Kill, RemoveStaleLock, disk
  <2> QED BY <2>1, <2>2, <2>3 DEF Quiet, local
<1>3. CASE UNCHANGED vars
  <2>1. pc[q] \in Locked /\ UNCHANGED local BY <1>3 DEF vars
  <2> QED BY <1>3, <2>1, TxOK, LateFrozen DEF Quiet, vars, local, disk, Tx
<1> QED BY <1>1, <1>2, <1>3 DEF Next

-------------------------------------------------------------------------------
(* Where versions come from.                                                 *)

LEMMA OneAt ==
  ASSUME NEW p \in Procs, NEW t \in Targets, NEW u \in Targets, At(p, t), At(p, u)
  PROVE  t = u
BY ConstantsAssumption DEF At

\* A target changes by a replace of the commit loop, by the restore, or by an edit.
Replaces(a, t) ==
  /\ ReplaceTarget(a) /\ At(a, t) /\ files'[t] = [data |-> plan[a][t], by |-> a]

Reverts(p, t) ==
  /\ RevertTarget(p) /\ At(p, t) /\ files'[t] = before[Tx(p)][t]

LEMMA FilesStep ==
  ASSUME EngineInv, [Next]_vars, NEW t \in Targets, files'[t] # files[t]
  PROVE  \/ \E a \in Appliers : Replaces(a, t)
         \/ \E p \in Procs : Reverts(p, t)
         \/ EditFile(t) /\ files'[t].by = edits + 1 /\ files'[t].data \in EditData
<1> USE DEF EngineInv, LockInv, Typed, TypeOK
<1>1. ASSUME NEW p \in Procs, ProcStep(p)
      PROVE  (p \in Appliers /\ Replaces(p, t)) \/ Reverts(p, t)
  <2>1. CASE pc[p] = "replacing" /\ p \in Appliers
    <3>1. ReplaceTarget(p) BY <1>1, <2>1, OnlyReplace
    <3> QED BY <2>1, <3>1 DEF ReplaceTarget, Replaces
  <2>2. CASE RevertTarget(p)
    <3>1. PICK u \in Targets :
            /\ At(p, u)
            /\ files' = IF files[u].data = Absent /\ ~Existed(Tx(p), u) THEN files
                        ELSE [files EXCEPT ![u] = before[Tx(p)][u]]
      BY <2>2 DEF RevertTarget
    <3>2. files' = [files EXCEPT ![u] = before[Tx(p)][u]] BY <3>1
    <3>3. u = t /\ files'[t] = before[Tx(p)][t] BY <3>2
    <3> QED BY <2>2, <3>1, <3>3 DEF Reverts
  <2>3. \/ pc[p] = "replacing" /\ p \in Appliers
        \/ RevertTarget(p)
    BY <1>1 DEF ProcStep, LockStep, AcquireLock, Busy, AcquireFails, Release, RestoreStep,
      StageRestore, StageRestoreFails, CheckRestore, SkipTarget, FinishRestore, RollbackStep,
      ReadJournal, RefuseJournal, Preflight, PreflightFails, BeginRollback,
      BeginRollbackFails, ApplyStep, MakePlan, Resolve, RefusePlan, Claim, ClaimFails, Backup,
      Stage, PrepareFails, OpenJournal, PublishJournal, Recheck, RecheckFails, BeginCommit,
      BeginCommitFails, CheckTarget, CheckTargetFails, ReplaceTarget, ReplaceTargetFails,
      Commit, CommitFails, BeginUndo, disk
  <2> QED BY <2>1, <2>2, <2>3
<1>2. CASE Environment
  <2>1. PICK u \in Targets : EditFile(u)
    BY <1>2 DEF Environment, DamageBackup, Interrupt, Kill, RemoveStaleLock, disk
  <2>2. PICK d \in EditData : files' = [files EXCEPT ![u] = [data |-> d, by |-> edits']]
    BY <2>1 DEF EditFile
  <2>3. u = t BY <2>2
  <2> QED BY <2>1, <2>2, <2>3 DEF EditFile
<1>3. CASE UNCHANGED vars BY <1>3 DEF vars, disk
<1> QED BY <1>1, <1>2, <1>3 DEF Next

\* A transaction captures the versions that are on disk.
LEMMA CaptureStep ==
  ASSUME EngineInv, [Next]_vars, NEW y \in Appliers, before'[y] # before[y]
  PROVE  /\ pc[y] = "planned" /\ before'[y] = files
         /\ UNCHANGED <<files, saved, claim, status, plan, edits>>
<1> USE DEF EngineInv, LockInv
<1>1. PICK p \in Procs : ProcStep(p)
  BY EnvironmentFrame DEF Next, vars, local, Typed
<1>2. p = y BY <1>1, ProcFrame DEF SameElsewhere
<1>3. y \notin Rollbackers BY ConstantsAssumption
<1>4. Resolve(y)
  BY <1>1, <1>2, <1>3 DEF ProcStep, LockStep, AcquireLock, Busy, AcquireFails,
    Release, AtLock, RestoreStep, StageRestore, StageRestoreFails, CheckRestore, SkipTarget,
    RevertTarget, FinishRestore, ApplyStep, MakePlan, RefusePlan, Claim, ClaimFails, Backup,
    Stage, PrepareFails, OpenJournal, PublishJournal, Recheck, RecheckFails, BeginCommit,
    BeginCommitFails, CheckTarget, CheckTargetFails, ReplaceTarget, ReplaceTargetFails,
    Commit, CommitFails, BeginUndo, local
<1> QED BY <1>4 DEF Resolve, Typed, TypeOK, disk

\* The steps that lead to the loops.
Commits == {"committing", "replacing"}
Restores == {"restaging", "restoring", "reverting"}

LEMMA IntoCommit ==
  ASSUME Typed, NEW a \in Appliers, ProcStep(a), pc'[a] \in Commits
  PROVE  BeginCommit(a) \/ CheckTarget(a) \/ ReplaceTarget(a)
<1>1. a \notin Rollbackers BY ConstantsAssumption
<1>2. ApplyStep(a) BY <1>1, RestOutsideCommit, Kinds DEF ProcStep, Commits
<1> QED
  BY <1>2, Kinds DEF Typed, TypeOK, Goto, Commits, ApplyStep, MakePlan, Resolve, RefusePlan,
    Claim, ClaimFails, Backup, Stage, PrepareFails, OpenJournal, PublishJournal, Recheck,
    RecheckFails, BeginCommitFails, CheckTargetFails, ReplaceTargetFails, Commit,
    CommitFails, BeginUndo

LEMMA IntoUndo ==
  ASSUME Typed, NEW p \in Procs, ProcStep(p), pc'[p] = "undo"
  PROVE  /\ p \in Appliers
         /\ \/ BeginCommitFails(p) \/ CheckTargetFails(p)
            \/ ReplaceTargetFails(p) \/ CommitFails(p)
BY DEF Typed, TypeOK, Goto, ProcStep, LockStep, AcquireLock, Busy, AcquireFails, Release,
  RestoreStep, StageRestore, StageRestoreFails, CheckRestore, SkipTarget, RevertTarget,
  FinishRestore, RollbackStep, ReadJournal, RefuseJournal, Preflight, PreflightFails,
  BeginRollback, BeginRollbackFails, ApplyStep, MakePlan, Resolve, RefusePlan, Claim,
  ClaimFails, Backup, Stage, PrepareFails, OpenJournal, PublishJournal, Recheck,
  RecheckFails, BeginCommit, CheckTarget, ReplaceTarget, Commit, BeginUndo

LEMMA IntoRestore ==
  ASSUME Typed, NEW p \in Procs, ProcStep(p), pc'[p] \in Restores
  PROVE  \/ p \in Appliers /\ BeginUndo(p)
         \/ p \in Rollbackers /\ BeginRollback(p)
         \/ StageRestore(p) \/ StageRestoreFails(p)
         \/ CheckRestore(p) \/ SkipTarget(p) \/ RevertTarget(p)
BY DEF Typed, TypeOK, Goto, Restores, ProcStep, LockStep, AcquireLock, Busy, AcquireFails,
  Release, RestoreStep, FinishRestore, RollbackStep, ReadJournal, RefuseJournal, Preflight,
  PreflightFails, BeginRollbackFails, ApplyStep, MakePlan, Resolve, RefusePlan, Claim,
  ClaimFails, Backup, Stage, PrepareFails, OpenJournal, PublishJournal, Recheck,
  RecheckFails, BeginCommit, BeginCommitFails, CheckTarget, CheckTargetFails, ReplaceTarget,
  ReplaceTargetFails, Commit, CommitFails

-------------------------------------------------------------------------------
(* What the journal says while a transaction is worked on.                   *)

CommitStatus == \A a \in Appliers : pc[a] \in Commits => status[a] = "committing"

\* The commit fails after its journal was written, or on writing it.
UndoCause ==
  \A a \in Appliers : pc[a] = "undo" => status[a] = "committing" \/ faults > 0

\* A restore runs under an interrupted journal, unless that journal could not be
\* written after an earlier error.
RestoreOpen ==
  \A p \in Procs : pc[p] \in Restores => status[Tx(p)] \in Interrupted \/ faults > 1

StatusInv == CommitStatus /\ UndoCause /\ RestoreOpen

LEMMA CommitStatusKept == EngineInv /\ StatusInv /\ [Next]_vars => CommitStatus'
<1> SUFFICES ASSUME EngineInv, StatusInv, [Next]_vars,
                    NEW a \in Appliers, pc'[a] \in Commits
             PROVE  status'[a] = "committing"
  BY DEF CommitStatus
<1> USE DEF EngineInv, LockInv, StatusInv, CommitStatus, Commits
<1>0. a \in Procs /\ Tx(a) = a /\ pc'[a] \in Locked BY Kinds DEF Tx, Locked
<1>1. CASE ProcStep(a)
  <2>1. BeginCommit(a) \/ CheckTarget(a) \/ ReplaceTarget(a) BY <1>1, IntoCommit
  <2> QED
    BY <2>1 DEF BeginCommit, CheckTarget, ReplaceTarget, SetStatus, disk, Typed, TypeOK
<1>2. CASE Quiet(a) BY <1>2 DEF Quiet
<1> QED BY <1>0, <1>1, <1>2, HolderSteps

LEMMA UndoCauseKept == EngineInv /\ StatusInv /\ [Next]_vars => UndoCause'
<1> SUFFICES ASSUME EngineInv, StatusInv, [Next]_vars,
                    NEW a \in Appliers, pc'[a] = "undo"
             PROVE  status'[a] = "committing" \/ faults' > 0
  BY DEF UndoCause
<1> USE DEF EngineInv, LockInv, StatusInv, CommitStatus, UndoCause, Commits
<1>0. a \in Procs /\ Tx(a) = a /\ pc'[a] \in Locked BY Kinds DEF Tx, Locked
<1>f. faults \in Nat /\ faults' \in Nat /\ faults' >= faults BY FaultsGrow
<1>1. CASE ProcStep(a)
  <2>1. \/ BeginCommitFails(a) \/ CheckTargetFails(a)
        \/ ReplaceTargetFails(a) \/ CommitFails(a)
    BY <1>0, <1>1, IntoUndo
  <2>2. CASE BeginCommitFails(a) \/ CommitFails(a)
    BY <1>f, <2>2 DEF BeginCommitFails, CommitFails, Fault
  <2>3. CASE CheckTargetFails(a) \/ ReplaceTargetFails(a)
    BY <2>3 DEF CheckTargetFails, ReplaceTargetFails, disk
  <2> QED BY <2>1, <2>2, <2>3
<1>2. CASE Quiet(a) BY <1>f, <1>2 DEF Quiet
<1> QED BY <1>0, <1>1, <1>2, HolderSteps

LEMMA RestoreOpenKept == EngineInv /\ StatusInv /\ [Next]_vars => RestoreOpen'
<1> SUFFICES ASSUME EngineInv, StatusInv, [Next]_vars, NEW p \in Procs, pc'[p] \in Restores
             PROVE  (status[Tx(p)])' \in Interrupted \/ faults' > 1
  BY DEF RestoreOpen
<1> USE DEF EngineInv, LockInv, StatusInv, RestoreOpen, Restores
<1>0. pc'[p] \in Locked BY DEF Locked
<1>f. faults \in Nat /\ faults' \in Nat /\ faults' >= faults BY FaultsGrow
<1>1. CASE ProcStep(p)
  <2>1. CASE p \in Appliers /\ BeginUndo(p)
    BY <1>f, <2>1 DEF BeginUndo, SetStatus, Tx, UndoCause, Interrupted, Fault, Typed, TypeOK
  <2>2. CASE p \in Rollbackers /\ BeginRollback(p)
    <3>1. p \notin Appliers /\ chosen[p] \in Appliers
      BY <2>2, ConstantsAssumption DEF BeginRollback, Typed, ChosenOK, Locked
    <3> QED
      BY <2>2, <3>1 DEF BeginRollback, SetStatus, Tx, Interrupted, local, Typed, TypeOK
  <2>3. CASE \/ StageRestore(p) \/ StageRestoreFails(p)
             \/ CheckRestore(p) \/ SkipTarget(p) \/ RevertTarget(p)
    <3>1. pc[p] \in Restores /\ UNCHANGED <<status, chosen>>
      BY <2>3 DEF StageRestore, StageRestoreFails, CheckRestore, SkipTarget, RevertTarget,
        disk, local
    <3> QED BY <1>f, <3>1 DEF Tx
  <2> QED BY <1>1, <2>1, <2>2, <2>3, IntoRestore
<1>2. CASE Quiet(p) BY <1>f, <1>2 DEF Quiet
<1> QED BY <1>0, <1>1, <1>2, HolderSteps

LEMMA StatusInvariant == Spec => []StatusInv
<1>1. Init => StatusInv
  BY Kinds DEF Init, StatusInv, CommitStatus, UndoCause, RestoreOpen, Commits, Restores
<1>2. EngineInv /\ StatusInv /\ [Next]_vars => StatusInv'
  BY CommitStatusKept, UndoCauseKept, RestoreOpenKept DEF StatusInv
<1> QED BY <1>1, <1>2, EngineInvariant, PTL DEF Spec

-------------------------------------------------------------------------------
(* The versions that a commit leaves behind.                                 *)

\* A stamp of a user edit is one of an edit that happened.
PastStamp(v) == v.by \in Appliers \/ (v.by \in Int /\ v.by <= edits)

PastStamps ==
  \A t \in Targets : PastStamp(files[t]) /\ \A y \in Appliers : PastStamp(before[y][t])

\* A transaction never captures what it wrote.
NoSelfCapture == \A x \in Appliers, t \in Targets : before[x][t].by # x

\* What the commit loop has still to write is on no disk and in no backup.
NotYetWritten ==
  \A a \in Appliers : pc[a] \in Commits =>
    \A t \in todo[a] : files[t].by # a /\ \A y \in Appliers : before[y][t].by # a

\* What it has passed is not what it was.
Replaced ==
  \A a \in Appliers : pc[a] \in Commits =>
    \A t \in InPlan(a) \ todo[a] : files[t] # before[a][t]

\* A restore visits targets of its backup.
RestoreTodo ==
  \A p \in Procs : pc[p] \in {"restoring", "reverting"} =>
    \A t \in todo[p] : Tx(p) \in saved /\ t \in InPlan(Tx(p))

\* A backup is made of the versions that were captured.
SavedResolved == \A x \in saved : pc[x] \notin {"start", "planned"}

VersionInv ==
  /\ EngineInv /\ StatusInv
  /\ PastStamps /\ NoSelfCapture /\ NotYetWritten /\ Replaced /\ RestoreTodo /\ SavedResolved

LEMMA PastStampsKept == VersionInv /\ [Next]_vars => PastStamps'
<1> SUFFICES ASSUME VersionInv, [Next]_vars PROVE PastStamps'
  OBVIOUS
<1> USE DEF VersionInv, PastStamps
<1>1. edits \in Nat /\ edits' \in Nat /\ edits' >= edits
  <2>1. edits \in Nat BY Kinds DEF EngineInv, LockInv, Typed, TypeOK
  <2>2. edits' = edits \/ edits' = edits + 1
    BY DEF Next, vars, ProcStep, LockStep, AcquireLock, Busy, AcquireFails, Release, RestoreStep,
      StageRestore, StageRestoreFails, CheckRestore, SkipTarget, RevertTarget, FinishRestore,
      RollbackStep, ReadJournal, RefuseJournal, Preflight, PreflightFails, BeginRollback,
      BeginRollbackFails, ApplyStep, MakePlan, Resolve, RefusePlan, Claim, ClaimFails, Backup,
      Stage, PrepareFails, OpenJournal, PublishJournal, Recheck, RecheckFails, BeginCommit,
      BeginCommitFails, CheckTarget, CheckTargetFails, ReplaceTarget, ReplaceTargetFails,
      Commit, CommitFails, BeginUndo, Environment, EditFile, DamageBackup, Interrupt, Kill,
      RemoveStaleLock
  <2> QED BY <2>1, <2>2
<1>2. ASSUME NEW v, PastStamp(v) PROVE PastStamp(v)' BY <1>1, <1>2 DEF PastStamp
<1>3. ASSUME NEW t \in Targets PROVE PastStamp(files[t])'
  <2>1. CASE files'[t] = files[t] BY <1>1, <2>1 DEF PastStamp
  <2>2. ASSUME NEW a \in Appliers, Replaces(a, t) PROVE PastStamp(files[t])'
    BY <2>2 DEF Replaces, PastStamp
  <2>3. ASSUME NEW p \in Procs, Reverts(p, t) PROVE PastStamp(files[t])'
    <3>1. Tx(p) \in Appliers BY <2>3, TxOK DEF Reverts, RevertTarget, Locked
    <3> QED BY <1>1, <2>3, <3>1 DEF Reverts, PastStamp
  <2>4. CASE EditFile(t) /\ files'[t].by = edits + 1
    BY <1>1, <2>4 DEF EditFile, PastStamp
  <2> QED BY <2>1, <2>2, <2>3, <2>4, FilesStep
<1>4. ASSUME NEW t \in Targets, NEW y \in Appliers PROVE PastStamp(before[y][t])'
  <2>1. CASE before'[y] = before[y] BY <1>1, <2>1 DEF PastStamp
  <2>2. CASE before'[y] # before[y] BY <1>1, <2>2, CaptureStep DEF PastStamp
  <2> QED BY <2>1, <2>2
<1> QED BY <1>3, <1>4

LEMMA NoSelfKept == VersionInv /\ [Next]_vars => NoSelfCapture'
<1> SUFFICES ASSUME VersionInv, [Next]_vars, NEW x \in Appliers, NEW t \in Targets
             PROVE  before'[x][t].by # x
  BY DEF NoSelfCapture
<1>1. CASE before'[x] = before[x] BY <1>1 DEF VersionInv, NoSelfCapture
<1>2. CASE before'[x] # before[x]
  <2>1. pc[x] = "planned" /\ before'[x] = files BY <1>2, CaptureStep DEF VersionInv
  <2>2. status[x] \in Early
    BY <2>1 DEF VersionInv, EngineInv, JournalInv, PreparingEarly, Preparing
  <2>3. ~Installed(x, t)
    BY <2>2 DEF VersionInv, EngineInv, JournalInv, BackupPrecedesInstall, Begun
  <2> QED BY <2>1, <2>3 DEF Installed
<1> QED BY <1>1, <1>2

LEMMA NotYetKept == VersionInv /\ [Next]_vars => NotYetWritten'
<1> SUFFICES ASSUME VersionInv, [Next]_vars,
                    NEW a \in Appliers, pc'[a] \in Commits, NEW t \in todo'[a]
             PROVE  files'[t].by # a /\ \A y \in Appliers : before'[y][t].by # a
  BY DEF NotYetWritten
<1> USE DEF VersionInv, EngineInv, LockInv, Typed, TypeOK
<1>0. a \in Procs /\ pc'[a] \in Locked BY Kinds DEF Locked, Commits
<1>1. CASE ProcStep(a)
  <2>1. CASE BeginCommit(a)
    <3>1. status[a] \in Early /\ t \in Targets /\ UNCHANGED <<files, before>>
      BY <2>1, <1>0 DEF BeginCommit, JournalInv, PreparingEarly, Preparing, InPlan
    <3> QED
      BY <3>1 DEF JournalInv, BackupPrecedesInstall, CapturesBegun, Begun, Installed
  <2>2. CASE CheckTarget(a)
    BY <2>2 DEF CheckTarget, NotYetWritten, Commits, disk, local
  <2>3. CASE ReplaceTarget(a)
    <3>1. PICK u \in Targets : /\ At(a, u)
                               /\ files' = [files EXCEPT ![u] = [data |-> plan[a][u], by |-> a]]
                               /\ todo' = [todo EXCEPT ![a] = @ \ {u}]
      BY <2>3 DEF ReplaceTarget
    <3>2. t \in todo[a] /\ t # u /\ UNCHANGED before BY <1>0, <2>3, <3>1 DEF ReplaceTarget
    <3>3. pc[a] \in Commits BY <2>3 DEF ReplaceTarget, Commits
    <3> QED BY <3>1, <3>2, <3>3 DEF NotYetWritten
  <2> QED BY <1>1, <2>1, <2>2, <2>3, IntoCommit
<1>2. CASE Quiet(a)
  <2>1. pc[a] \in Commits /\ t \in todo[a] /\ t \in Targets BY <1>0, <1>2 DEF Quiet
  <2>2. files[t].by # a /\ \A y \in Appliers : before[y][t].by # a
    BY <2>1 DEF NotYetWritten
  <2>3. files'[t].by # a
    <3>1. CASE files'[t] = files[t] BY <2>2, <3>1
    <3>2. CASE files'[t] # files[t]
      <4>1. PICK u \in Targets : EditFile(u) BY <1>2, <3>2 DEF Quiet
      <4>2. u = t /\ files'[t].by \in Int BY <2>1, <3>2, <4>1, Kinds DEF EditFile
      <4> QED BY <4>2, ConstantsAssumption
    <3> QED BY <3>1, <3>2
  <2>4. ASSUME NEW y \in Appliers PROVE before'[y][t].by # a
    <3>1. CASE before'[y] = before[y] BY <2>2, <3>1
    <3>2. CASE before'[y] # before[y] BY <2>2, <3>2, CaptureStep
    <3> QED BY <3>1, <3>2
  <2> QED BY <2>3, <2>4
<1> QED BY <1>0, <1>1, <1>2, HolderSteps

LEMMA ReplacedKept == VersionInv /\ [Next]_vars => Replaced'
<1> SUFFICES ASSUME VersionInv, [Next]_vars,
                    NEW a \in Appliers, pc'[a] \in Commits, NEW t \in InPlan(a)' \ todo'[a]
             PROVE  files'[t] # before'[a][t]
  BY DEF Replaced
<1> USE DEF VersionInv, EngineInv, LockInv, Typed, TypeOK
<1>0. a \in Procs /\ Tx(a) = a /\ pc'[a] \in Locked /\ t \in Targets
  BY Kinds DEF Locked, Commits, Tx, InPlan
<1>1. CASE ProcStep(a)
  <2>1. CASE BeginCommit(a) BY <1>0, <2>1 DEF BeginCommit, InPlan
  <2>2. CASE CheckTarget(a)
    BY <2>2 DEF CheckTarget, Replaced, Commits, InPlan, disk, local
  <2>3. CASE ReplaceTarget(a)
    <3>1. PICK u \in Targets : /\ At(a, u)
                               /\ files' = [files EXCEPT ![u] = [data |-> plan[a][u], by |-> a]]
                               /\ todo' = [todo EXCEPT ![a] = @ \ {u}]
      BY <2>3 DEF ReplaceTarget
    <3>2. UNCHANGED <<plan, before>> /\ pc[a] \in Commits
      BY <2>3 DEF ReplaceTarget, Commits
    <3>3. CASE t = u
      <4>1. files'[t].by = a BY <3>1, <3>3
      <4> QED BY <1>0, <3>2, <4>1 DEF NoSelfCapture
    <3>4. CASE t # u
      <4>1. t \in InPlan(a) \ todo[a] BY <1>0, <3>1, <3>2, <3>4 DEF InPlan
      <4> QED BY <1>0, <3>1, <3>2, <3>4, <4>1 DEF Replaced
    <3> QED BY <3>3, <3>4
  <2> QED BY <1>1, <2>1, <2>2, <2>3, IntoCommit
<1>2. CASE Quiet(a)
  <2>1. pc[a] \in Commits /\ t \in InPlan(a) \ todo[a] /\ before'[a] = before[a]
    BY <1>0, <1>2 DEF Quiet, Frozen, InPlan
  <2>2. files[t] # before[a][t] BY <2>1 DEF Replaced
  <2>3. CASE files'[t] # files[t]
    <3>1. PICK u \in Targets : EditFile(u) BY <1>2, <2>3 DEF Quiet
    <3>2. files'[t].by = edits + 1 /\ edits \in Nat
      BY <1>0, <2>3, <3>1, Kinds DEF EditFile
    <3>3. edits + 1 \notin Appliers BY <3>2, ConstantsAssumption
    <3>4. before[a][t].by # edits + 1 BY <1>0, <3>2, <3>3 DEF PastStamps, PastStamp
    <3> QED BY <2>1, <3>2, <3>4
  <2> QED BY <2>1, <2>2, <2>3
<1> QED BY <1>0, <1>1, <1>2, HolderSteps

LEMMA RestoreTodoKept == VersionInv /\ [Next]_vars => RestoreTodo'
<1> SUFFICES ASSUME VersionInv, [Next]_vars,
                    NEW p \in Procs, pc'[p] \in {"restoring", "reverting"}, NEW t \in todo'[p]
             PROVE  Tx(p)' \in saved' /\ t \in InPlan(Tx(p))'
  BY DEF RestoreTodo
<1> USE DEF VersionInv, EngineInv, LockInv, Typed, TypeOK
<1>0. pc'[p] \in Locked BY DEF Locked
<1>1. CASE ProcStep(p)
  <2>1. \/ StageRestore(p) \/ StageRestoreFails(p)
        \/ CheckRestore(p) \/ SkipTarget(p) \/ RevertTarget(p)
    BY <1>1, IntoRestore DEF Restores, BeginUndo, BeginRollback, Goto
  <2>2. UNCHANGED <<saved, plan, chosen>> /\ Tx(p)' = Tx(p) /\ InPlan(Tx(p))' = InPlan(Tx(p))
    BY <2>1 DEF StageRestore, StageRestoreFails, CheckRestore, SkipTarget, RevertTarget,
      disk, local, Tx, InPlan
  <2>3. CASE StageRestore(p) BY <2>2, <2>3 DEF StageRestore, Verified
  <2>4. CASE StageRestoreFails(p) BY <2>4 DEF StageRestoreFails
  <2>5. CASE CheckRestore(p) \/ SkipTarget(p) \/ RevertTarget(p)
    <3>1. pc[p] \in {"restoring", "reverting"} /\ t \in todo[p]
      BY <2>5 DEF CheckRestore, SkipTarget, RevertTarget, disk, local
    <3> QED BY <2>2, <3>1 DEF RestoreTodo
  <2> QED BY <2>1, <2>3, <2>4, <2>5
<1>2. CASE Quiet(p)
  BY <1>2 DEF Quiet, RestoreTodo, Frozen, InPlan
<1> QED BY <1>0, <1>1, <1>2, HolderSteps

\* Nobody goes back to the plan, and a backup is completed by its own apply.
LEMMA OwnBackup ==
  ASSUME Typed, NEW p \in Procs, ProcStep(p)
  PROVE  /\ pc'[p] \in {"start", "planned"} => pc[p] \in {"start", "planned"}
         /\ saved' # saved => p \in Appliers /\ saved' = saved \cup {p} /\ pc'[p] = "saved"
BY DEF Typed, TypeOK, Goto, disk, ProcStep, LockStep, AcquireLock, Busy, AcquireFails,
  Release, RestoreStep, StageRestore, StageRestoreFails, CheckRestore, SkipTarget,
  RevertTarget, FinishRestore, RollbackStep, ReadJournal, RefuseJournal, Preflight,
  PreflightFails, BeginRollback, BeginRollbackFails, ApplyStep, MakePlan, Resolve,
  RefusePlan, Claim, ClaimFails, Backup, Stage, PrepareFails, OpenJournal, PublishJournal,
  Recheck, RecheckFails, BeginCommit, BeginCommitFails, CheckTarget, CheckTargetFails,
  ReplaceTarget, ReplaceTargetFails, Commit, CommitFails, BeginUndo

LEMMA SavedKept == VersionInv /\ [Next]_vars => SavedResolved'
<1> SUFFICES ASSUME VersionInv, [Next]_vars, NEW x \in saved', pc'[x] \in {"start", "planned"}
             PROVE  FALSE
  BY DEF SavedResolved
<1> USE Kinds DEF VersionInv, EngineInv, LockInv, SavedResolved
<1>1. ASSUME NEW p \in Procs, ProcStep(p) PROVE FALSE
  <2>1. x \in Procs BY <1>1, OwnBackup DEF Typed, TypeOK
  <2>2. CASE x = p BY <1>1, <2>2, OwnBackup
  <2>3. CASE x # p BY <1>1, <2>1, <2>3, OwnBackup, ProcFrame DEF SameElsewhere
  <2> QED BY <2>2, <2>3
<1>2. CASE Environment
  <2>1. saved' = saved
    BY <1>2 DEF Environment, EditFile, DamageBackup, Interrupt, Kill, RemoveStaleLock, disk
  <2> QED BY <1>2, <2>1, EnvironmentFrame DEF Typed, TypeOK
<1>3. CASE UNCHANGED vars BY <1>3 DEF vars, disk
<1> QED BY <1>1, <1>2, <1>3 DEF Next

LEMMA VersionInvKept == VersionInv /\ [Next]_vars /\ EngineInv' /\ StatusInv' => VersionInv'
BY PastStampsKept, NoSelfKept, NotYetKept, ReplacedKept, RestoreTodoKept, SavedKept
   DEF VersionInv

LEMMA VersionInvariant == Spec => []VersionInv
<1>1. Init /\ EngineInv /\ StatusInv => VersionInv
  <2> SUFFICES ASSUME Init, EngineInv, StatusInv
               PROVE  PastStamps /\ NoSelfCapture /\ NotYetWritten /\ Replaced /\ RestoreTodo
                      /\ SavedResolved
    BY DEF VersionInv
  <2>1. \A t \in Targets : files[t].by = 0 /\ \A y \in Appliers : before[y][t].by = 0
    BY DEF Init
  <2>2. 0 \notin Appliers /\ edits = 0 BY ConstantsAssumption DEF Init
  <2>3. \A p \in Procs : pc[p] = "start" BY DEF Init
  <2>4. saved = {} BY DEF Init
  <2> QED
    BY <2>1, <2>2, <2>3, <2>4, Kinds DEF PastStamps, PastStamp, NoSelfCapture, NotYetWritten,
      Replaced, RestoreTodo, SavedResolved, Commits
<1> QED BY <1>1, VersionInvKept, EngineInvariant, StatusInvariant, PTL DEF Spec

-------------------------------------------------------------------------------
(* A committed transaction is complete.                                      *)

\* Only the commit loop writes "committed", when it is done.
LEMMA IntoCommitted ==
  ASSUME EngineInv, [Next]_vars, NEW x \in Appliers,
         status'[x] = "committed", status[x] # "committed"
  PROVE  Commit(x) \/ CommitFails(x)
<1> USE DEF EngineInv, LockInv, Typed, TypeOK, SetStatus
<1>1. PICK p \in Procs : ProcStep(p)
  BY DEF Next, vars, Environment, EditFile, DamageBackup, Interrupt, Kill, RemoveStaleLock, disk
<1>2. CASE LockStep(p) BY <1>2, LockJournal
<1>3. CASE RestoreStep(p)
  BY <1>3 DEF RestoreStep, StageRestore, StageRestoreFails, CheckRestore, SkipTarget,
    RevertTarget, FinishRestore, Outcome, disk
<1>4. CASE RollbackStep(p)
  BY <1>4 DEF RollbackStep, ReadJournal, RefuseJournal, Preflight, PreflightFails,
    BeginRollback, BeginRollbackFails, disk
<1>5. CASE ApplyStep(p)
  BY <1>5 DEF ApplyStep, MakePlan, Resolve, RefusePlan, Claim, ClaimFails, Backup, Stage,
    PrepareFails, OpenJournal, PublishJournal, Recheck, RecheckFails, BeginCommit,
    BeginCommitFails, CheckTarget, CheckTargetFails, ReplaceTarget, ReplaceTargetFails,
    Commit, CommitFails, BeginUndo, disk
<1> QED BY <1>1, <1>2, <1>3, <1>4, <1>5 DEF ProcStep

\* What another backup explains, it goes on explaining.
LEMMA SharedKept ==
  ASSUME VersionInv, [Next]_vars, NEW x \in Appliers, NEW t \in Targets, SharedCapture(x, t),
         Frozen(x)
  PROVE  SharedCapture(x, t)'
<1>1. PICK y \in saved \ {x} : t \in InPlan(y) /\ before[y][t] = before[x][t]
  BY DEF SharedCapture
<1>2. y \in Appliers /\ pc[y] \notin {"start", "planned"}
  BY DEF VersionInv, EngineInv, LockInv, Typed, TypeOK, SavedResolved
<1>3. Frozen(y) BY <1>2, LateFrozen DEF VersionInv
<1>4. saved \subseteq saved'
  <2>1. ASSUME NEW p \in Procs, ProcStep(p) PROVE saved \subseteq saved'
    BY <2>1, ProcJournal DEF VersionInv, EngineInv, JournalEffect
  <2>2. CASE Environment
    BY <2>2 DEF Environment, EditFile, DamageBackup, Interrupt, Kill, RemoveStaleLock, disk
  <2>3. CASE UNCHANGED vars BY <2>3 DEF vars, disk
  <2> QED BY <2>1, <2>2, <2>3 DEF Next
<1> QED BY <1>1, <1>3, <1>4 DEF SharedCapture, Frozen, InPlan

LEMMA CommittedKept == VersionInv /\ CommittedIsComplete /\ [Next]_vars => CommittedIsComplete'
<1> SUFFICES ASSUME VersionInv, CommittedIsComplete, [Next]_vars,
                    NEW x \in Appliers, status'[x] = "committed", faults' < 2,
                    NEW t \in InPlan(x)', files'[t] = before'[x][t]
             PROVE  SharedCapture(x, t)'
  BY DEF CommittedIsComplete, Untouched
<1> USE DEF VersionInv, EngineInv, LockInv, Typed, TypeOK
<1>0. t \in Targets /\ x \in Procs BY Kinds DEF InPlan
<1>f. faults \in Nat /\ faults < 2 BY FaultsGrow
<1>1. CASE status[x] # "committed"
  <2>1. Commit(x) \/ CommitFails(x) BY <1>1, IntoCommitted
  <2>2. /\ pc[x] = "committing" /\ LoopDone(x) /\ UNCHANGED <<files, plan, before>>
    BY <2>1 DEF Commit, CommitFails, local
  <2>3. t \in InPlan(x) \ todo[x] BY <2>2 DEF LoopDone, InPlan
  <2> QED BY <2>2, <2>3 DEF Replaced, Commits
<1>2. CASE status[x] = "committed"
  <2>1. Frozen(x)
    <3>1. pc[x] \notin {"start", "planned"}
      BY <1>2 DEF JournalInv, PreparingEarly, Preparing, Early
    <3> QED BY <3>1, LateFrozen
  <2>2. t \in InPlan(x) /\ ~Untouched(x, t)
    BY <1>0, <1>2, <1>f, <2>1 DEF CommittedIsComplete, Frozen, InPlan
  <2>3. CASE SharedCapture(x, t) BY <1>0, <2>1, <2>3, SharedKept
  <2>4. CASE files[t] # before[x][t]
    <3>0. files'[t] # files[t] /\ files'[t] = before[x][t] BY <2>1, <2>4 DEF Frozen
    <3>1. ASSUME NEW a \in Appliers, Replaces(a, t) PROVE FALSE
      <4>1. pc[a] \in Commits /\ t \in todo[a] /\ files'[t].by = a
        BY <3>1 DEF Replaces, ReplaceTarget, At, Commits
      <4> QED BY <3>0, <4>1 DEF NotYetWritten
    <3>2. ASSUME NEW p \in Procs, Reverts(p, t) PROVE SharedCapture(x, t)'
      <4>1. pc[p] = "reverting" /\ t \in todo[p] /\ files'[t] = before[Tx(p)][t]
            /\ UNCHANGED <<saved, plan, before>>
        BY <3>2 DEF Reverts, RevertTarget, At
      <4>2. Tx(p) \in saved /\ t \in InPlan(Tx(p)) BY <4>1 DEF RestoreTodo
      <4>3. status[Tx(p)] \in Interrupted
        BY <1>f, <4>1 DEF StatusInv, RestoreOpen, Restores
      <4>4. Tx(p) # x BY <1>2, <4>3 DEF Interrupted
      <4> QED BY <3>0, <4>1, <4>2, <4>4 DEF SharedCapture, InPlan
    <3>3. ASSUME EditFile(t), files'[t].by = edits + 1 PROVE FALSE
      <4>1. edits \in Nat BY Kinds
      <4>2. edits + 1 \notin Appliers BY <4>1, ConstantsAssumption
      <4>3. before[x][t].by # edits + 1
        BY <1>0, <4>1, <4>2 DEF PastStamps, PastStamp
      <4> QED BY <3>0, <3>3, <4>3
    <3> QED BY <1>0, <3>0, <3>1, <3>2, <3>3, FilesStep
  <2> QED BY <2>2, <2>3, <2>4 DEF Untouched
<1> QED BY <1>1, <1>2

\* However processes interleave, fail and die, a journal says "committed" only
\* when the commit loop has passed every target and no restore has put one back,
\* as long as at most one error was met (apply_plan, _restore_from_backup_entries).
THEOREM CommittedMeansComplete == Spec => []CommittedIsComplete
<1>1. Init => CommittedIsComplete BY DEF Init, CommittedIsComplete
<1> QED BY <1>1, CommittedKept, VersionInvariant, PTL DEF Spec

-------------------------------------------------------------------------------
(* Data and versions.                                                        *)

\* sha256 tells the versions at a target apart: two transactions write the same
\* data to no target, and none writes what it held at first or what users write.
\* That includes Absent: what one transaction deletes, nobody else does.  Without
\* it InstalledIsJournaled and PartialIsFlagged fail: one plan captures the
\* deletion of another that is undone then, the user deletes the file, the plan
\* is approved for that, and its rollback puts back the version that was undone.
DistinctData ==
  \A x \in Appliers : \A d \in Plans[x], t \in Targets :
    /\ d[t] \notin InitialData \cup EditData
    /\ \A y \in Appliers \ {x} : \A e \in Plans[y] : d[t] = e[t] => d[t] = Keep

\* A version with a transaction's stamp has the data of its plan.
VersionOK(pl, v, t) ==
  IF v.by \in Appliers THEN pl[v.by][t] # Keep /\ v.data = pl[v.by][t]
                       ELSE v.data \in InitialData \cup EditData

VersionsOK ==
  \A t \in Targets :
    VersionOK(plan, files[t], t) /\ \A y \in Appliers : VersionOK(plan, before[y][t], t)

PlansMade == \A x \in Appliers : InPlan(x) # {} => plan[x] \in Plans[x]

DataInv == VersionInv /\ VersionsOK /\ PlansMade

LEMMA PlansMadeKept == VersionInv /\ PlansMade /\ [Next]_vars => PlansMade'
<1> SUFFICES ASSUME VersionInv, PlansMade, [Next]_vars, NEW x \in Appliers, InPlan(x)' # {}
             PROVE  plan'[x] \in Plans[x]
  BY DEF PlansMade
<1> USE DEF VersionInv, EngineInv, LockInv
<1>1. CASE plan'[x] = plan[x] BY <1>1 DEF PlansMade, InPlan
<1>2. CASE plan'[x] # plan[x]
  <2>1. PICK p \in Procs : ProcStep(p)
    BY <1>2, EnvironmentFrame DEF Next, vars, local, Typed
  <2>2. p = x BY <1>2, <2>1, ProcFrame DEF SameElsewhere
  <2>3. x \notin Rollbackers BY ConstantsAssumption
  <2>4. MakePlan(x)
    BY <1>2, <2>1, <2>2, <2>3 DEF ProcStep, LockStep, AcquireLock, Busy, AcquireFails,
      Release, RestoreStep, StageRestore, StageRestoreFails, CheckRestore, SkipTarget,
      RevertTarget, FinishRestore, ApplyStep, Resolve, RefusePlan, Claim, ClaimFails, Backup,
      Stage, PrepareFails, OpenJournal, PublishJournal, Recheck, RecheckFails, BeginCommit,
      BeginCommitFails, CheckTarget, CheckTargetFails, ReplaceTarget, ReplaceTargetFails,
      Commit, CommitFails, BeginUndo, local
  <2> QED BY <2>4 DEF MakePlan, Typed, TypeOK
<1> QED BY <1>1, <1>2

\* A transaction that has begun has its plan and its versions.
LEMMA BegunFrozen ==
  ASSUME EngineInv, [Next]_vars, NEW x \in Appliers, Begun(x)
  PROVE  Frozen(x)
<1>1. pc[x] \notin {"start", "planned"}
  BY DEF Begun, EngineInv, JournalInv, PreparingEarly, Preparing
<1> QED BY <1>1, LateFrozen

\* A version that is on disk or captured stays what it is.
LEMMA VersionKept ==
  ASSUME EngineInv, [Next]_vars, NEW v, NEW t \in Targets, VersionOK(plan, v, t),
         v.by \in Appliers => Begun(v.by)
  PROVE  VersionOK(plan', v, t)
<1>1. CASE v.by \in Appliers BY <1>1, BegunFrozen DEF VersionOK, Frozen
<1>2. CASE v.by \notin Appliers BY <1>2 DEF VersionOK
<1> QED BY <1>1, <1>2

LEMMA VersionsKept == DataInv /\ [Next]_vars => VersionsOK'
<1> SUFFICES ASSUME DataInv, [Next]_vars, NEW t \in Targets
             PROVE  /\ VersionOK(plan', files'[t], t)
                    /\ \A y \in Appliers : VersionOK(plan', before'[y][t], t)
  BY DEF VersionsOK, VersionOK
<1> USE DEF DataInv, VersionInv, EngineInv, JournalInv, VersionsOK
<1>1. files[t].by \in Appliers => Begun(files[t].by)
  BY DEF BackupPrecedesInstall, Installed
<1>2. \A y \in Appliers : before[y][t].by \in Appliers => Begun(before[y][t].by)
  BY DEF CapturesBegun
<1>3. VersionOK(plan', files'[t], t)
  <2>1. CASE files'[t] = files[t]
    <3>1. VersionOK(plan', files[t], t) BY <1>1, VersionKept
    <3> QED BY <2>1, <3>1
  <2>2. ASSUME NEW a \in Appliers, Replaces(a, t) PROVE VersionOK(plan', files'[t], t)
    <3>1. /\ pc[a] = "replacing" /\ t \in todo[a] /\ UNCHANGED plan
          /\ files'[t] = [data |-> plan[a][t], by |-> a]
      BY <2>2 DEF Replaces, ReplaceTarget, At
    <3>2. t \in InPlan(a) BY <3>1 DEF Typed, TodoOK
    <3> QED BY <3>1, <3>2 DEF VersionOK, InPlan
  <2>3. ASSUME NEW p \in Procs, Reverts(p, t) PROVE VersionOK(plan', files'[t], t)
    <3>1. Tx(p) \in Appliers BY <2>3, TxOK DEF Reverts, RevertTarget, Locked
    <3>2. VersionOK(plan', before[Tx(p)][t], t) BY <1>2, <3>1, VersionKept
    <3> QED BY <2>3, <3>2 DEF Reverts
  <2>4. ASSUME EditFile(t), files'[t].by = edits + 1, files'[t].data \in EditData
        PROVE  VersionOK(plan', files'[t], t)
    <3>1. edits \in Nat BY Kinds DEF Typed, TypeOK
    <3>2. edits + 1 \notin Appliers BY <3>1, ConstantsAssumption
    <3> QED BY <2>4, <3>2 DEF VersionOK
  <2> QED BY <2>1, <2>2, <2>3, <2>4, FilesStep
<1>4. ASSUME NEW y \in Appliers PROVE VersionOK(plan', before'[y][t], t)
  <2>1. CASE before'[y] = before[y]
    <3>1. VersionOK(plan', before[y][t], t) BY <1>2, VersionKept
    <3> QED BY <2>1, <3>1
  <2>2. CASE before'[y] # before[y]
    <3>1. VersionOK(plan', files[t], t) BY <1>1, VersionKept
    <3> QED BY <2>2, <3>1, CaptureStep
  <2> QED BY <2>1, <2>2
<1> QED BY <1>3, <1>4

LEMMA DataInvariant == Spec => []DataInv
<1>1. Init => VersionsOK /\ PlansMade
  <2> SUFFICES ASSUME Init PROVE VersionsOK /\ PlansMade
    OBVIOUS
  <2>1. 0 \notin Appliers BY ConstantsAssumption
  <2>2. \A t \in Targets : files[t].by = 0 /\ files[t].data \in InitialData
    BY DEF Init
  <2>3. \A y \in Appliers, t \in Targets : before[y][t] = files[t] BY DEF Init
  <2>4. PlansMade BY DEF Init, PlansMade, InPlan
  <2> QED BY <2>1, <2>2, <2>3, <2>4 DEF VersionsOK, VersionOK
<1>2. DataInv /\ [Next]_vars /\ VersionInv' => DataInv'
  BY VersionsKept, PlansMadeKept DEF DataInv
<1> QED BY <1>1, <1>2, VersionInvariant, PTL DEF Spec, DataInv

\* The data of a version says which transaction wrote it.
LEMMA WriterKnown ==
  ASSUME DistinctData, DataInv, NEW t \in Targets, NEW v, VersionOK(plan, v, t),
         NEW x \in Appliers, t \in InPlan(x), v.data = plan[x][t]
  PROVE  v.by = x
<1>1. plan[x] \in Plans[x] /\ plan[x][t] # Keep BY DEF DataInv, PlansMade, InPlan
<1>2. v.data \notin InitialData \cup EditData BY <1>1 DEF DistinctData
<1>3. v.by \in Appliers /\ plan[v.by][t] # Keep /\ v.data = plan[v.by][t]
  BY <1>2 DEF VersionOK
<1>4. plan[v.by] \in Plans[v.by] BY <1>3 DEF DataInv, PlansMade, InPlan
<1> QED BY <1>1, <1>3, <1>4 DEF DistinctData

LEMMA SameData ==
  ASSUME DistinctData, DataInv, NEW t \in Targets, NEW v, VersionOK(plan, v, t),
         NEW w, VersionOK(plan, w, t), v.data = w.data, v.by \in Appliers \/ w.by \in Appliers
  PROVE  v.by = w.by
<1>1. CASE v.by \in Appliers BY <1>1, WriterKnown DEF VersionOK, InPlan
<1>2. CASE w.by \in Appliers BY <1>2, WriterKnown DEF VersionOK, InPlan
<1> QED BY <1>1, <1>2

-------------------------------------------------------------------------------
(* What lies under a version: the transaction that wrote it, the one whose   *)
(* version that transaction captured, and so on.                             *)

Closed(bf, S, t) == \A y \in S : bf[y][t].by \in Appliers => bf[y][t].by \in S

Chain(bf, v, t) ==
  {x \in Appliers : \A S \in SUBSET Appliers :
     (v.by \in Appliers => v.by \in S) /\ Closed(bf, S, t) => x \in S}

LEMMA ChainHead ==
  ASSUME NEW bf, NEW v, NEW t, v.by \in Appliers
  PROVE  v.by \in Chain(bf, v, t)
BY DEF Chain

LEMMA ChainLeast ==
  ASSUME NEW bf, NEW v, NEW t, NEW S \in SUBSET Appliers,
         v.by \in Appliers => v.by \in S, Closed(bf, S, t)
  PROVE  Chain(bf, v, t) \subseteq S
BY DEF Chain

\* What lies under a member lies under the version.
LEMMA ChainDown ==
  ASSUME NEW bf, NEW v, NEW t, NEW y \in Chain(bf, v, t)
  PROVE  Chain(bf, bf[y][t], t) \subseteq Chain(bf, v, t)
<1> SUFFICES ASSUME NEW z \in Chain(bf, bf[y][t], t), NEW S \in SUBSET Appliers,
                    v.by \in Appliers => v.by \in S, Closed(bf, S, t)
             PROVE  z \in S
  BY DEF Chain
<1>1. y \in S BY DEF Chain
<1> QED BY <1>1 DEF Chain, Closed

LEMMA ChainClosed ==
  ASSUME NEW bf, NEW v, NEW t
  PROVE  Chain(bf, v, t) \in SUBSET Appliers /\ Closed(bf, Chain(bf, v, t), t)
<1>1. Chain(bf, v, t) \subseteq Appliers BY DEF Chain
<1>2. ASSUME NEW y \in Chain(bf, v, t), bf[y][t].by \in Appliers
      PROVE  bf[y][t].by \in Chain(bf, v, t)
  BY <1>2, ChainDown, ChainHead
<1> QED BY <1>1, <1>2 DEF Closed

LEMMA ChainUnfolds ==
  ASSUME NEW bf, NEW v, NEW t, v.by \in Appliers
  PROVE  Chain(bf, v, t) \subseteq {v.by} \cup Chain(bf, bf[v.by][t], t)
<1> DEFINE C == Chain(bf, bf[v.by][t], t)
<1>1. C \in SUBSET Appliers /\ Closed(bf, C, t) BY ChainClosed
<1>2. bf[v.by][t].by \in Appliers => bf[v.by][t].by \in C BY ChainHead
<1>3. Closed(bf, {v.by} \cup C, t) BY <1>1, <1>2 DEF Closed
<1>4. {v.by} \cup C \in SUBSET Appliers BY <1>1
<1> HIDE DEF C
<1> QED BY <1>3, <1>4, ChainLeast DEF C

LEMMA ChainEmpty ==
  ASSUME NEW bf, NEW v, NEW t, v.by \notin Appliers
  PROVE  Chain(bf, v, t) = {}
<1>1. Closed(bf, {}, t) BY DEF Closed
<1> QED BY <1>1, ChainLeast

\* Only the stamp of a version counts.
LEMMA ChainOfStamp ==
  ASSUME NEW bf, NEW v, NEW w, NEW t, v.by = w.by
  PROVE  Chain(bf, v, t) = Chain(bf, w, t)
BY DEF Chain

-------------------------------------------------------------------------------
(* No version that something on disk was built on belongs to a transaction   *)
(* whose journal is final.                                                   *)

\* No transaction captured a version that was built on its own.
Acyclic == \A x \in Appliers, t \in Targets : x \notin Chain(before, before[x][t], t)

\* Every transaction under a version can still be rolled back.
Live(bf, st, v, t) == \A x \in Chain(bf, v, t) : st[x] \in Rollbackable

FilesLive == \A t \in Targets : Live(before, status, files[t], t)

\* So it stays under the version a restore is about to put back.
WindowLive ==
  \A p \in Procs, t \in Targets :
    pc[p] \in {"replacing", "reverting"} /\ At(p, t) =>
      Live(before, status, before[Tx(p)][t], t)

\* From the preflight on, nothing on disk was built on what is being undone.
Working == {"committing", "replacing", "undo", "rollback", "restaging", "restoring",
            "reverting"}

NotBuried ==
  \A p \in Procs, t \in Targets : pc[p] \in Working /\ files[t].by \in Appliers =>
    Tx(p) \notin Chain(before, before[files[t].by][t], t)

\* A restore that met no failure left nothing behind at the targets it passed.
Visited ==
  \A p \in Procs : pc[p] \in {"restoring", "reverting"} /\ ~failed[p] =>
    \A t \in InPlan(Tx(p)) \ todo[p] : files[t].by # Tx(p)

LiveInv == DataInv /\ Acyclic /\ FilesLive /\ WindowLive /\ NotBuried /\ Visited

\* A version of a transaction that has begun.
Known(v) == v.by \in Appliers => Begun(v.by)

LEMMA AllKnown ==
  ASSUME EngineInv, NEW t \in Targets
  PROVE  Known(files[t]) /\ \A y \in Appliers : Known(before[y][t])
BY DEF EngineInv, JournalInv, BackupPrecedesInstall, CapturesBegun, Installed, Known

LEMMA ChainBegun ==
  ASSUME EngineInv, NEW t \in Targets, NEW v, Known(v), NEW x \in Chain(before, v, t)
  PROVE  Begun(x)
<1> DEFINE S == {y \in Appliers : Begun(y)}
<1>1. S \in SUBSET Appliers OBVIOUS
<1>2. v.by \in Appliers => v.by \in S BY DEF Known
<1>3. Closed(before, S, t) BY AllKnown DEF Closed, Known
<1> HIDE DEF S
<1>4. x \in S BY <1>1, <1>2, <1>3, ChainLeast
<1> QED BY <1>4 DEF S

\* The transactions under a version have an operation on the target.
LEMMA ChainInPlan ==
  ASSUME DataInv, NEW t \in Targets, NEW v, VersionOK(plan, v, t), NEW x \in Chain(before, v, t)
  PROVE  x \in Appliers /\ t \in InPlan(x)
<1> DEFINE S == {y \in Appliers : plan[y][t] # Keep}
<1>1. S \in SUBSET Appliers OBVIOUS
<1>2. v.by \in Appliers => v.by \in S BY DEF VersionOK
<1>3. Closed(before, S, t) BY DEF Closed, DataInv, VersionsOK, VersionOK
<1> HIDE DEF S
<1>4. x \in S BY <1>1, <1>2, <1>3, ChainLeast
<1> QED BY <1>4 DEF S, InPlan

\* What lies under a version never grows: its transactions captured what they did.
LEMMA ChainNext ==
  ASSUME EngineInv, [Next]_vars, NEW t \in Targets, NEW v, Known(v)
  PROVE  Chain(before', v, t) \subseteq Chain(before, v, t)
<1> DEFINE C == Chain(before, v, t)
<1>1. C \in SUBSET Appliers /\ Closed(before, C, t) BY ChainClosed
<1>2. v.by \in Appliers => v.by \in C BY ChainHead
<1>3. \A y \in C : before'[y] = before[y] BY <1>1, ChainBegun, BegunFrozen DEF Frozen
<1> HIDE DEF C
<1>4. Closed(before', C, t) BY <1>1, <1>3 DEF Closed
<1> QED BY <1>1, <1>2, <1>4, ChainLeast DEF C

LEMMA AcyclicKept == LiveInv /\ [Next]_vars => Acyclic'
<1> SUFFICES ASSUME LiveInv, [Next]_vars, NEW x \in Appliers, NEW t \in Targets
             PROVE  x \notin Chain(before', before'[x][t], t)
  BY DEF Acyclic, Chain, Closed
<1> USE DEF LiveInv, DataInv, VersionInv
<1>1. CASE before'[x] = before[x]
  <2>1. Chain(before', before[x][t], t) \subseteq Chain(before, before[x][t], t)
    BY AllKnown, ChainNext
  <2> QED BY <1>1, <2>1 DEF Acyclic
<1>2. CASE before'[x] # before[x]
  <2>1. pc[x] = "planned" /\ before'[x] = files BY <1>2, CaptureStep
  <2>2. ~Begun(x) BY <2>1 DEF EngineInv, JournalInv, PreparingEarly, Preparing, Begun
  <2>3. Chain(before', files[t], t) \subseteq Chain(before, files[t], t)
    BY AllKnown, ChainNext
  <2> QED BY <2>1, <2>2, <2>3, AllKnown, ChainBegun
<1> QED BY <1>1, <1>2

\* Only the end of a restore without failures makes a journal final.
LEMMA LeavesRollbackable ==
  ASSUME EngineInv, [Next]_vars, NEW x \in Appliers,
         status[x] \in Rollbackable, status'[x] \notin Rollbackable
  PROVE  \E p \in Procs : /\ pc[p] = "restoring" /\ todo[p] = {} /\ ~failed[p] /\ Tx(p) = x
                          /\ UNCHANGED <<files, before>>
<1> USE DEF EngineInv, LockInv, Typed, TypeOK, Rollbackable
<1>1. PICK p \in Procs : ProcStep(p)
  BY DEF Next, vars, Environment, EditFile, DamageBackup, Interrupt, Kill, RemoveStaleLock, disk
<1>2. x = Tx(p) /\ status'[x] \notin Early
  <2>1. x = Tx(p) /\ (status'[x] \in Early => x = p /\ pc[p] \in Preparing)
    BY <1>1, ProcJournal DEF JournalEffect
  <2>2. pc[x] \notin Preparing BY DEF JournalInv, PreparingEarly, Early
  <2> QED BY <2>1, <2>2
<1>3. status'[x] = "rolled_back"
  <2>1. status'[x] \in Statuses BY TypedKept
  <2> QED BY <1>2, <2>1 DEF Statuses, Early
<1>4. CASE LockStep(p) BY <1>4, LockJournal
<1>5. CASE RestoreStep(p)
  <2>1. FinishRestore(p) /\ ~failed[p]
    BY <1>3, <1>5 DEF RestoreStep, StageRestore, StageRestoreFails, CheckRestore, SkipTarget,
      RevertTarget, FinishRestore, Outcome, disk, SetStatus
  <2> QED BY <1>2, <2>1 DEF FinishRestore, LoopDone, local
<1>6. CASE RollbackStep(p)
  BY <1>3, <1>6 DEF RollbackStep, ReadJournal, RefuseJournal, Preflight, PreflightFails,
    BeginRollback, BeginRollbackFails, disk, SetStatus
<1>7. CASE ApplyStep(p)
  BY <1>3, <1>7 DEF ApplyStep, MakePlan, Resolve, RefusePlan, Claim, ClaimFails, Backup, Stage,
    PrepareFails, OpenJournal, PublishJournal, Recheck, RecheckFails, BeginCommit,
    BeginCommitFails, CheckTarget, CheckTargetFails, ReplaceTarget, ReplaceTargetFails,
    Commit, CommitFails, BeginUndo, disk, SetStatus
<1> QED BY <1>1, <1>4, <1>5, <1>6, <1>7 DEF ProcStep

\* A version that is live stays so, unless the restore that ends is of one
\* transaction under it.
LEMMA LiveKept ==
  ASSUME EngineInv, [Next]_vars, NEW t \in Targets, NEW v, Known(v),
         Live(before, status, v, t),
         \A x \in Chain(before, v, t) :
           \/ status'[x] \in Rollbackable
           \/ status[x] \notin Rollbackable
  PROVE  Live(before', status', v, t)
BY ChainNext DEF Live

LEMMA FilesLiveKept == LiveInv /\ [Next]_vars => FilesLive'
<1> SUFFICES ASSUME LiveInv, [Next]_vars, NEW t \in Targets
             PROVE  Live(before', status', files'[t], t)
  BY DEF FilesLive, Live, Chain, Closed
<1> USE DEF LiveInv, DataInv, VersionInv
<1>1. CASE files'[t] = files[t]
  <2>1. ASSUME NEW x \in Chain(before, files[t], t),
               status'[x] \notin Rollbackable, status[x] \in Rollbackable
        PROVE  FALSE
    <3>1. x \in Appliers /\ t \in InPlan(x) BY ChainInPlan DEF VersionsOK
    <3>2. PICK p \in Procs : /\ pc[p] = "restoring" /\ todo[p] = {} /\ ~failed[p] /\ Tx(p) = x
      BY <2>1, <3>1, LeavesRollbackable
    <3>3. files[t].by # x BY <3>1, <3>2 DEF Visited
    <3>4. files[t].by \in Appliers BY ChainEmpty
    <3>5. x \in Chain(before, before[files[t].by][t], t) BY <3>3, <3>4, ChainUnfolds
    <3> QED BY <3>2, <3>4, <3>5 DEF NotBuried, Working
  <2>2. Live(before', status', files[t], t) BY <2>1, AllKnown, LiveKept DEF FilesLive
  <2> QED BY <1>1, <2>2
<1>2. ASSUME NEW a \in Appliers, Replaces(a, t) PROVE Live(before', status', files'[t], t)
  <2>1. /\ pc[a] = "replacing" /\ At(a, t) /\ UNCHANGED <<status, before>>
        /\ files'[t] = [data |-> plan[a][t], by |-> a]
    BY <1>2 DEF Replaces, ReplaceTarget
  <2>2. a \in Procs /\ Tx(a) = a BY Kinds DEF Tx
  <2>3. Live(before, status, before[a][t], t) BY <2>1, <2>2 DEF WindowLive
  <2>4. status[a] \in Rollbackable BY <2>1 DEF StatusInv, CommitStatus, Commits, Rollbackable
  <2>5. files'[t].by = a BY <2>1
  <2>6. Chain(before, files'[t], t) \subseteq {a} \cup Chain(before, before[a][t], t)
    BY <2>5, ChainUnfolds
  <2> QED BY <2>1, <2>3, <2>4, <2>6 DEF Live
<1>3. ASSUME NEW p \in Procs, Reverts(p, t) PROVE Live(before', status', files'[t], t)
  BY <1>3 DEF Reverts, RevertTarget, WindowLive
<1>4. ASSUME EditFile(t), files'[t].by = edits + 1
      PROVE  Live(before', status', files'[t], t)
  <2>1. edits \in Nat BY Kinds DEF EngineInv, LockInv, Typed, TypeOK
  <2>2. edits + 1 \notin Appliers BY <2>1, ConstantsAssumption
  <2> QED BY <1>4, <2>2, ChainEmpty DEF Live
<1> QED BY <1>1, <1>2, <1>3, <1>4, FilesStep

\* The hash checks of the two loops recognise versions by their data.
LEMMA CheckedVersion ==
  ASSUME DistinctData, DataInv, NEW t \in Targets, NEW x \in Appliers,
         files[t].data = before[x][t].data
  PROVE  Chain(before, before[x][t], t) = Chain(before, files[t], t)
<1>1. CASE files[t].by \in Appliers \/ before[x][t].by \in Appliers
  <2>1. files[t].by = before[x][t].by BY <1>1, SameData DEF DataInv, VersionsOK
  <2> QED BY <2>1, ChainOfStamp
<1>2. CASE ~(files[t].by \in Appliers \/ before[x][t].by \in Appliers)
  BY <1>2, ChainEmpty
<1> QED BY <1>1, <1>2

LEMMA WindowLiveKept == DistinctData /\ LiveInv /\ [Next]_vars => WindowLive'
<1> SUFFICES ASSUME DistinctData, LiveInv, [Next]_vars, NEW p \in Procs, NEW t \in Targets,
                    pc'[p] \in {"replacing", "reverting"}, At(p, t)'
             PROVE  Live(before', status', before'[Tx(p)'][t], t)
  BY DEF WindowLive, Live, Chain, Closed
<1> USE DEF LiveInv, DataInv, VersionInv
<1>0. pc'[p] \in Locked BY DEF Locked
<1>1. CASE Quiet(p)
  <2>1. pc[p] \in {"replacing", "reverting"} /\ At(p, t) /\ UNCHANGED status
        /\ Tx(p)' = Tx(p) /\ before'[Tx(p)] = before[Tx(p)]
    BY <1>1 DEF Quiet, Frozen, At
  <2>2. Tx(p) \in Appliers BY <2>1, TxOK DEF Locked
  <2>3. Live(before, status, before[Tx(p)][t], t) BY <2>1 DEF WindowLive
  <2>4. Live(before', status', before[Tx(p)][t], t) BY <2>1, <2>2, <2>3, AllKnown, LiveKept
  <2> QED BY <2>1, <2>4
<1>2. CASE ProcStep(p) /\ pc'[p] = "replacing"
  <2>1. p \in Appliers
    BY <1>2, RestOutsideCommit DEF ProcStep, EngineInv, LockInv
  <2>2. CheckTarget(p)
    BY <1>2, <2>1, IntoCommit DEF Commits, BeginCommit, ReplaceTarget, Goto, EngineInv,
      LockInv, Typed, TypeOK
  <2>3. UNCHANGED <<status, before, todo>> /\ Tx(p)' = p BY <2>1, <2>2 DEF CheckTarget, disk, local, Tx
  <2>4. files[t].data = before[p][t].data
    BY <1>2, <2>1, <2>3, EntersWindow DEF At, EngineInv, LockInv
  <2>5. Chain(before, before[p][t], t) = Chain(before, files[t], t)
    BY <2>1, <2>4, CheckedVersion
  <2> QED BY <2>3, <2>5 DEF FilesLive, Live
<1>3. CASE ProcStep(p) /\ pc'[p] = "reverting"
  <2>1. CheckRestore(p)
    BY <1>3, IntoRestore DEF Restores, BeginUndo, BeginRollback, StageRestore,
      StageRestoreFails, SkipTarget, RevertTarget, Goto, EngineInv, LockInv, Typed, TypeOK
  <2>2. UNCHANGED <<status, before, todo>> /\ Tx(p)' = Tx(p) /\ pc[p] = "restoring"
    BY <2>1 DEF CheckRestore, disk, local, Tx
  <2>3. At(p, t) /\ Restorable(Tx(p), t) BY <2>1, <2>2, OneAt DEF CheckRestore, At
  <2>4. Tx(p) \in Appliers /\ t \in InPlan(Tx(p))
    BY <2>2, <2>3, TxOK DEF Locked, RestoreTodo, At
  <2>5. CASE files[t].data = before[Tx(p)][t].data
    <3>1. Chain(before, before[Tx(p)][t], t) = Chain(before, files[t], t)
      BY <2>4, <2>5, CheckedVersion
    <3> QED BY <2>2, <3>1 DEF FilesLive, Live
  <2>6. CASE files[t].data = plan[Tx(p)][t]
    <3>1. files[t].by = Tx(p) BY <2>4, <2>6, WriterKnown DEF VersionsOK
    <3>2. Chain(before, before[Tx(p)][t], t) \subseteq Chain(before, files[t], t)
      BY <2>4, <3>1, ChainHead, ChainDown
    <3> QED BY <2>2, <3>2 DEF FilesLive, Live
  <2> QED BY <2>3, <2>5, <2>6 DEF Restorable
<1> QED BY <1>0, <1>1, <1>2, <1>3, HolderSteps

LEMMA IntoWorking ==
  ASSUME Typed, NEW p \in Procs, ProcStep(p), pc'[p] \in Working
  PROVE  \/ pc[p] \in Working /\ UNCHANGED <<plan, chosen, before>>
         \/ p \in Appliers /\ pc[p] = "checked" /\ UNCHANGED <<files, before>>
         \/ p \in Rollbackers /\ Preflight(p)
<1> USE DEF Typed, TypeOK, Goto, Working, local, disk
<1>1. CASE LockStep(p) BY <1>1 DEF LockStep, AcquireLock, Busy, AcquireFails, Release
<1>2. CASE RestoreStep(p)
  BY <1>2 DEF RestoreStep, StageRestore, StageRestoreFails, CheckRestore, SkipTarget,
    RevertTarget, FinishRestore
<1>3. CASE p \in Rollbackers /\ RollbackStep(p)
  BY <1>3 DEF RollbackStep, ReadJournal, RefuseJournal, PreflightFails,
    BeginRollback, BeginRollbackFails
<1>4. CASE p \in Appliers /\ ApplyStep(p)
  <2>1. CASE CheckTargetFails(p) BY <2>1 DEF CheckTargetFails
  <2>2. CASE ReplaceTargetFails(p) BY <2>2 DEF ReplaceTargetFails
  <2>3. CASE PrepareFails(p) BY <1>4, <2>3 DEF PrepareFails
  <2> QED
    BY <1>4, <2>1, <2>2, <2>3 DEF ApplyStep, MakePlan, Resolve, RefusePlan, Claim, ClaimFails,
      Backup, Stage, OpenJournal, PublishJournal, Recheck, RecheckFails, BeginCommit,
      BeginCommitFails, CheckTarget, ReplaceTarget, Commit, CommitFails, BeginUndo
<1> QED BY <1>1, <1>2, <1>3, <1>4 DEF ProcStep

\* What the preflight accepts was not built upon.
LEMMA PreflightUnburied ==
  ASSUME DistinctData, LiveInv, NEW r \in Rollbackers, Preflight(r),
         NEW t \in Targets, files[t].by \in Appliers
  PROVE  Tx(r) \notin Chain(before, before[files[t].by][t], t)
<1> USE DEF LiveInv, DataInv, VersionInv
<1> DEFINE x == chosen[r]
           z == files[t].by
<1>1. pc[r] = "locked" /\ PreflightOK(r) BY DEF Preflight
<1>2. Tx(r) = x /\ x \in Appliers
  BY <1>1, ConstantsAssumption DEF Tx, EngineInv, LockInv, Typed, ChosenOK, Locked
<1>3. SUFFICES ASSUME x \in Chain(before, before[z][t], t) PROVE FALSE
  BY <1>2
<1>4. t \in InPlan(x)
  BY <1>3, ChainInPlan DEF VersionsOK
<1>5. CASE files[t].data = plan[x][t]
  <2>1. z = x BY <1>2, <1>4, <1>5, WriterKnown DEF VersionsOK
  <2> QED BY <1>2, <1>3, <2>1 DEF Acyclic
<1>6. CASE files[t].data = before[x][t].data
  <2>1. before[x][t].by = z BY <1>2, <1>6, SameData DEF VersionsOK
  <2>2. Chain(before, before[z][t], t) \subseteq Chain(before, before[x][t], t)
    BY <2>1, ChainHead, ChainDown
  <2> QED BY <1>2, <1>3, <2>2 DEF Acyclic
<1> QED BY <1>1, <1>4, <1>5, <1>6 DEF PreflightOK, Unchanged

LEMMA NotBuriedKept == DistinctData /\ LiveInv /\ [Next]_vars => NotBuried'
<1> SUFFICES ASSUME DistinctData, LiveInv, [Next]_vars, NEW p \in Procs, NEW t \in Targets,
                    pc'[p] \in Working, files'[t].by \in Appliers
             PROVE  Tx(p)' \notin Chain(before', before'[files'[t].by][t], t)
  BY DEF NotBuried, Chain, Closed
<1> USE DEF LiveInv, DataInv, VersionInv
<1>0. pc'[p] \in Locked BY DEF Locked, Working
<1>1. ASSUME pc[p] \in Working, Tx(p)' = Tx(p)
      PROVE  Tx(p)' \notin Chain(before', before'[files'[t].by][t], t)
  <2> DEFINE x == Tx(p)
  <2>0. pc[p] \in Locked /\ x \in Appliers BY <1>1, TxOK DEF Locked, Working
  <2>1. CASE files'[t] = files[t]
    <3> DEFINE z == files[t].by
    <3>1. z \in Appliers /\ before'[z] = before[z]
      BY <2>1, AllKnown, BegunFrozen DEF Known, Frozen
    <3>2. Chain(before', before[z][t], t) \subseteq Chain(before, before[z][t], t)
      BY <3>1, AllKnown, ChainNext
    <3> QED BY <1>1, <2>1, <3>1, <3>2 DEF NotBuried
  <2>2. ASSUME NEW a \in Appliers, Replaces(a, t)
        PROVE  x \notin Chain(before', before'[files'[t].by][t], t)
    <3>1. pc[a] \in Locked /\ files'[t].by = a /\ UNCHANGED before
      BY <2>2 DEF Replaces, ReplaceTarget, Locked
    <3>2. a = p BY <2>0, <3>1, Kinds DEF EngineInv, LockInv, LockHeld
    <3>3. x = a BY <3>2 DEF Tx
    <3> QED BY <3>1, <3>3 DEF Acyclic
  <2>3. ASSUME NEW q \in Procs, Reverts(q, t)
        PROVE  x \notin Chain(before', before'[files'[t].by][t], t)
    <3>1. pc[q] \in Locked /\ files'[t] = before[Tx(q)][t] /\ UNCHANGED before
      BY <2>3 DEF Reverts, RevertTarget, Locked
    <3>2. q = p BY <2>0, <3>1 DEF EngineInv, LockInv, LockHeld
    <3>3. Chain(before, before[files'[t].by][t], t) \subseteq Chain(before, before[x][t], t)
      BY <3>1, <3>2, ChainHead, ChainDown
    <3> QED BY <2>0, <3>1, <3>3 DEF Acyclic
  <2>4. ASSUME EditFile(t), files'[t].by = edits + 1 PROVE FALSE
    <3>1. edits \in Nat BY Kinds DEF EngineInv, LockInv, Typed, TypeOK
    <3>2. edits + 1 \notin Appliers BY <3>1, ConstantsAssumption
    <3> QED BY <2>4, <3>2
  <2> QED BY <1>1, <2>1, <2>2, <2>3, <2>4, FilesStep
<1>2. CASE Quiet(p) BY <1>1, <1>2 DEF Quiet
<1>3. CASE ProcStep(p)
  <2>1. CASE pc[p] \in Working /\ UNCHANGED <<plan, chosen, before>>
    BY <1>1, <2>1 DEF Tx
  <2>2. CASE p \in Appliers /\ pc[p] = "checked" /\ UNCHANGED <<files, before>>
    <3>1. ~Begun(p) /\ Tx(p)' = p
      BY <2>2 DEF EngineInv, JournalInv, PreparingEarly, Preparing, Begun, Tx
    <3> QED BY <2>2, <3>1, AllKnown, ChainBegun
  <2>3. CASE p \in Rollbackers /\ Preflight(p)
    <3>1. UNCHANGED <<files, before>> /\ Tx(p)' = Tx(p) BY <2>3 DEF Preflight, disk, local, Tx
    <3> QED BY <2>3, <3>1, PreflightUnburied
  <2> QED BY <1>3, <2>1, <2>2, <2>3, IntoWorking DEF EngineInv, LockInv
<1> QED BY <1>0, <1>2, <1>3, HolderSteps

LEMMA VisitedKept == DistinctData /\ LiveInv /\ [Next]_vars => Visited'
<1> SUFFICES ASSUME DistinctData, LiveInv, [Next]_vars, NEW p \in Procs,
                    pc'[p] \in {"restoring", "reverting"}, ~failed'[p],
                    NEW t \in InPlan(Tx(p))' \ todo'[p]
             PROVE  files'[t].by # Tx(p)'
  BY DEF Visited
<1> USE DEF LiveInv, DataInv, VersionInv, EngineInv, LockInv, Typed, TypeOK
<1>0. pc'[p] \in Locked /\ t \in Targets BY DEF Locked, InPlan
<1>1. CASE Quiet(p)
  <2>1. pc[p] \in {"restoring", "reverting"} /\ ~failed[p] /\ t \in InPlan(Tx(p)) \ todo[p]
        /\ Tx(p)' = Tx(p)
    BY <1>1 DEF Quiet, Frozen, InPlan
  <2>2. files[t].by # Tx(p) /\ Tx(p) \in Appliers BY <2>1, TxOK DEF Visited, Locked
  <2>3. CASE files'[t] # files[t]
    <3>1. PICK u \in Targets : EditFile(u) BY <1>1, <2>3 DEF Quiet
    <3>2. u = t /\ files'[t].by \in Int BY <1>0, <2>3, <3>1, Kinds DEF EditFile
    <3> QED BY <2>1, <2>2, <3>2, ConstantsAssumption
  <2> QED BY <2>1, <2>2, <2>3
<1>2. CASE ProcStep(p)
  <2>1. \/ StageRestore(p) \/ StageRestoreFails(p)
        \/ CheckRestore(p) \/ SkipTarget(p) \/ RevertTarget(p)
    BY <1>2, IntoRestore DEF Restores, BeginUndo, BeginRollback, Goto
  <2>2. UNCHANGED <<plan, before, chosen>> /\ Tx(p)' = Tx(p) /\ InPlan(Tx(p))' = InPlan(Tx(p))
    BY <2>1 DEF StageRestore, StageRestoreFails, CheckRestore, SkipTarget, RevertTarget,
      disk, local, Tx, InPlan
  <2>3. CASE StageRestore(p) BY <2>2, <2>3 DEF StageRestore
  <2>4. CASE StageRestoreFails(p) BY <2>4 DEF StageRestoreFails
  <2>5. CASE CheckRestore(p)
    BY <2>2, <2>5 DEF CheckRestore, Visited, disk, local
  <2>6. CASE SkipTarget(p) BY <2>6 DEF SkipTarget
  <2>7. CASE RevertTarget(p)
    <3> DEFINE x == Tx(p)
    <3>1. PICK u \in Targets :
            /\ At(p, u)
            /\ files' = IF files[u].data = Absent /\ ~Existed(x, u) THEN files
                        ELSE [files EXCEPT ![u] = before[x][u]]
            /\ todo' = [todo EXCEPT ![p] = @ \ {u}]
      BY <2>7 DEF RevertTarget
    <3>2. pc[p] = "reverting" /\ ~failed[p] /\ x \in Appliers
      BY <2>7, TxOK DEF RevertTarget, Locked
    <3>3. CASE t # u
      <4>1. t \in InPlan(x) \ todo[p] BY <2>2, <3>1, <3>3
      <4> QED BY <1>0, <2>2, <3>1, <3>2, <3>3, <4>1 DEF Visited
    <3>4. CASE t = u /\ files' # files
      <4>1. files'[t] = before[x][t] BY <1>0, <3>1, <3>4
      <4> QED BY <1>0, <2>2, <3>2, <4>1 DEF NoSelfCapture
    <3>5. CASE t = u /\ files' = files /\ files[u].data = Absent /\ ~Existed(x, u)
      <4>1. files[t].data = before[x][t].data BY <3>5 DEF Existed
      <4>2. files[t].by = x => before[x][t].by = x
        BY <1>0, <3>2, <4>1, SameData DEF VersionsOK
      <4> QED BY <1>0, <2>2, <3>2, <3>5, <4>2 DEF NoSelfCapture
    <3>6. CASE t = u /\ files' = files /\ files' = [files EXCEPT ![u] = before[x][u]]
      <4>1. files'[t] = before[x][t] BY <1>0, <3>6
      <4> QED BY <1>0, <2>2, <3>2, <4>1 DEF NoSelfCapture
    <3> QED BY <3>1, <3>3, <3>4, <3>5, <3>6
  <2> QED BY <2>1, <2>3, <2>4, <2>5, <2>6, <2>7
<1> QED BY <1>0, <1>1, <1>2, HolderSteps

LEMMA LiveInvariant == ASSUME DistinctData PROVE Spec => []LiveInv
<1>1. Init /\ DataInv => LiveInv
  <2> SUFFICES ASSUME Init, DataInv
               PROVE  Acyclic /\ FilesLive /\ WindowLive /\ NotBuried /\ Visited
    BY DEF LiveInv
  <2>1. 0 \notin Appliers BY ConstantsAssumption
  <2>2. \A t \in Targets : files[t].by = 0 /\ \A y \in Appliers : before[y][t].by = 0
    BY DEF Init
  <2>3. \A p \in Procs : pc[p] = "start" BY DEF Init
  <2>4. Acyclic BY <2>1, <2>2, ChainEmpty DEF Acyclic
  <2>5. FilesLive BY <2>1, <2>2, ChainEmpty DEF FilesLive, Live
  <2>6. WindowLive /\ NotBuried /\ Visited BY <2>3 DEF WindowLive, NotBuried, Visited, Working
  <2> QED BY <2>4, <2>5, <2>6
<1>2. LiveInv /\ [Next]_vars /\ DataInv' => LiveInv'
  BY AcyclicKept, FilesLiveKept, WindowLiveKept, NotBuriedKept, VisitedKept DEF LiveInv
<1> QED BY <1>1, <1>2, DataInvariant, PTL DEF Spec

\* What a transaction wrote is gone from the disk when its journal says
\* "rolled_back", for any number of transactions that wrote over one another and
\* are undone in any order, with faults, kills and edits at any step: what is
\* left of it can be rolled back (rollback_transaction, the preflight).
THEOREM InstalledMeansJournaled == ASSUME DistinctData PROVE Spec => []InstalledIsJournaled
<1>1. LiveInv => InstalledIsJournaled
  <2> SUFFICES ASSUME LiveInv, NEW x \in Appliers, NEW t \in Targets, files[t].by = x
               PROVE  status[x] \in Rollbackable
    BY DEF InstalledIsJournaled, Installed
  <2>1. x \in Chain(before, files[t], t) BY ChainHead
  <2> QED BY <2>1 DEF LiveInv, FilesLive, Live
<1>2. Spec => []LiveInv BY LiveInvariant
<1> QED BY <1>1, <1>2, PTL

\* A transaction that is applied in part is one that doctor reports as in need of
\* recovery, as long as at most one error was met.
THEOREM PartialMeansFlagged == ASSUME DistinctData PROVE Spec => []PartialIsFlagged
<1>1. InstalledIsJournaled /\ CommittedIsComplete => PartialIsFlagged
  BY DEF InstalledIsJournaled, CommittedIsComplete, PartialIsFlagged, Partial, InPlan,
    Rollbackable, Flagged
<1>2. Spec => []InstalledIsJournaled BY InstalledMeansJournaled
<1> QED BY <1>1, <1>2, CommittedMeansComplete, PTL

-------------------------------------------------------------------------------
(* What a restore destroys, and what it leaves.                              *)

\* Between the check of the restore and its replace the target does not change.
RestoreWindow ==
  \A p \in Procs, t \in Targets :
    pc[p] = "reverting" /\ At(p, t) => Restorable(Tx(p), t)

\* No edit hits a target in somebody's window.
LEMMA WindowQuiet ==
  ASSUME EngineInv, ~EditsInWindow, NEW p \in Procs, Quiet(p), NEW t \in Targets, At(p, t),
         pc[p] \in {"replacing", "reverting"}
  PROVE  files'[t] = files[t]
<1> SUFFICES ASSUME files' # files PROVE files'[t] = files[t]
  OBVIOUS
<1>1. PICK u \in Targets : EditFile(u) BY DEF Quiet
<1>2. u # t BY <1>1 DEF EditFile
<1> QED BY <1>1, <1>2 DEF EditFile, EngineInv, LockInv, Typed, TypeOK

LEMMA RestoreWindowKept ==
  ASSUME EngineInv, RestoreWindow, [Next]_vars, ~EditsInWindow
  PROVE  RestoreWindow'
<1> SUFFICES ASSUME NEW p \in Procs, NEW t \in Targets, pc'[p] = "reverting", At(p, t)'
             PROVE  Restorable(Tx(p), t)'
  BY DEF RestoreWindow
<1>0. pc'[p] \in Locked BY DEF Locked
<1>1. CASE Quiet(p)
  <2>1. pc[p] = "reverting" /\ At(p, t) /\ Tx(p)' = Tx(p) /\ Frozen(Tx(p))
    BY <1>1 DEF Quiet, At
  <2>2. Restorable(Tx(p), t) /\ files'[t] = files[t]
    BY <1>1, <2>1, WindowQuiet DEF RestoreWindow
  <2> QED BY <2>1, <2>2 DEF Restorable, Frozen
<1>2. CASE ProcStep(p)
  <2>1. CheckRestore(p)
    BY <1>2, IntoRestore DEF Restores, BeginUndo, BeginRollback, StageRestore,
      StageRestoreFails, SkipTarget, RevertTarget, Goto, EngineInv, LockInv, Typed, TypeOK
  <2>2. UNCHANGED <<files, plan, before, todo, chosen>> BY <2>1 DEF CheckRestore, disk, local
  <2>3. Restorable(Tx(p), t) BY <2>1, <2>2, OneAt DEF CheckRestore, At
  <2> QED BY <2>2, <2>3 DEF Restorable, Tx
<1> QED BY <1>0, <1>1, <1>2, HolderSteps

LEMMA RestoreWindowInvariant == ASSUME ~EditsInWindow PROVE Spec => []RestoreWindow
<1>1. Init => RestoreWindow BY DEF Init, RestoreWindow
<1>2. EngineInv /\ RestoreWindow /\ [Next]_vars => RestoreWindow' BY RestoreWindowKept
<1> QED BY <1>1, <1>2, EngineInvariant, PTL DEF Spec

\* A restore of x writes what x captured, at the target it stands at.
LEMMA RevertOnly ==
  ASSUME VersionInv, [Next]_vars, NEW p \in Procs, NEW t \in Targets, pc[p] = "reverting",
         files'[t] # files[t], files'[t] = before[Tx(p)][t]
  PROVE  At(p, t) /\ Tx(p) \in Appliers
<1> USE DEF VersionInv, EngineInv, LockInv
<1>1. pc[p] \in Locked /\ Tx(p) \in Appliers BY TxOK DEF Locked
<1>2. ASSUME NEW a \in Appliers, Replaces(a, t) PROVE FALSE
  <2>1. pc[a] = "replacing" BY <1>2 DEF Replaces, ReplaceTarget
  <2>2. a = p BY <1>1, <2>1, Kinds DEF LockHeld, Locked
  <2> QED BY <2>1, <2>2
<1>3. ASSUME NEW q \in Procs, Reverts(q, t) PROVE At(p, t)
  <2>1. pc[q] = "reverting" /\ At(q, t) BY <1>3 DEF Reverts, RevertTarget
  <2>2. q = p BY <1>1, <2>1 DEF LockHeld, Locked
  <2> QED BY <2>1, <2>2
<1>4. ASSUME files'[t].by = edits + 1 PROVE FALSE
  <2>1. edits \in Nat BY Kinds DEF Typed, TypeOK
  <2>2. edits + 1 \notin Appliers BY <2>1, ConstantsAssumption
  <2>3. before[Tx(p)][t].by # edits + 1 BY <1>1, <2>1, <2>2 DEF PastStamps, PastStamp
  <2> QED BY <1>4, <2>3
<1> QED BY <1>1, <1>2, <1>3, <1>4, FilesStep

\* A restore never destroys later work: what it replaces is the version that its
\* transaction wrote, when no edit falls between its check and its replace
\* (_revalidate_restore_entry).
THEOREM RestoreSparesLaterWork ==
  ASSUME DistinctData, ~EditsInWindow PROVE Spec => LaterWorkSurvives
<1>1. DataInv /\ RestoreWindow /\ [Next]_vars =>
        [\A p \in Procs, t \in Targets :
           /\ pc[p] = "reverting"
           /\ files'[t].data # files[t].data
           /\ files'[t] = before[Tx(p)][t]
           => Installed(Tx(p), t)]_vars
  <2> SUFFICES ASSUME DataInv, RestoreWindow, [Next]_vars, NEW p \in Procs, NEW t \in Targets,
                      pc[p] = "reverting", files'[t].data # files[t].data,
                      files'[t] = before[Tx(p)][t]
               PROVE  Installed(Tx(p), t)
    OBVIOUS
  <2>1. At(p, t) /\ Tx(p) \in Appliers BY RevertOnly DEF DataInv
  <2>2. files[t].data = plan[Tx(p)][t] BY <2>1 DEF RestoreWindow, Restorable
  <2>3. t \in InPlan(Tx(p)) BY <2>1 DEF DataInv, VersionInv, RestoreTodo, At
  <2> QED BY <2>1, <2>2, <2>3, WriterKnown DEF DataInv, VersionsOK, Installed
<1>2. Spec => []RestoreWindow BY RestoreWindowInvariant
<1> QED BY <1>1, <1>2, DataInvariant, PTL DEF Spec, LaterWorkSurvives

-------------------------------------------------------------------------------
(* A transaction that fails on its own leaves no partial state behind.  With *)
(* another one, its targets may be anything; with four errors, the commit,   *)
(* the two journal writes of the undo and the restore can all fail.          *)

Alone == \A x, y \in Appliers : x = y

\* Nothing but errors and damage has disturbed the program.
Calm == edits = 0 /\ stops = 0

\* A plan deletes what was there when it was made.
DeletesExist ==
  \A x \in Appliers, t \in Targets :
    pc[x] # "start" /\ plan[x][t] = Absent => expected[x][t] # Absent

\* Every target is as it was captured, or as the transaction wrote it.
KnownFiles ==
  \A x \in Appliers, t \in Targets : pc[x] \notin {"start", "planned"} =>
    \/ files[t] = before[x][t]
    \/ /\ t \in InPlan(x) /\ files[t] = [data |-> plan[x][t], by |-> x]
       /\ plan[x][t] # Absent \/ Existed(x, t)

\* What the errors are that an undo has behind it: its cause, a damaged backup,
\* a journal that was not written, a target that was not restored.
Lost(x) == IF x \in damaged THEN 1 ELSE 0
Unrestored(x) == IF failed[x] \/ x \in damaged THEN 1 ELSE 0
Unwritten(x) == IF status[x] = "rolling_back" THEN 0 ELSE 1

UndoCost ==
  \A x \in Appliers :
    /\ pc[x] \in Commits \cup {"checked"} => faults >= Lost(x)
    /\ pc[x] = "undo" => x \in saved /\ faults >= 1 + Lost(x)
    /\ pc[x] = "restaging" => x \in saved /\ faults >= 1 + Lost(x) + Unwritten(x)
    /\ pc[x] \in {"restoring", "reverting"} => faults >= 1 + Unrestored(x) + Unwritten(x)

\* A rollback restores under its own journal.
RollbackWritten ==
  \A r \in Rollbackers : pc[r] \in Restores => status[chosen[r]] = "rolling_back"

\* A restore that met no failure has restored what it visited.
Reverted ==
  \A p \in Procs : pc[p] \in {"restoring", "reverting"} /\ ~failed[p] =>
    \A t \in InPlan(Tx(p)) \ todo[p] : files[t] = before[Tx(p)][t]

\* Somebody is between the first and the last replace of x.
InLoops(p) == pc[p] \in Commits \cup {"undo"} \cup Restores
Busied(x) == \E p \in Procs : Tx(p) = x /\ InLoops(p)

Excused(x) ==
  /\ status[x] \in {"rolling_back", "rollback_failed"}
  /\ faults > 1 \/ \E r \in Rollbackers : chosen[r] = x

LeftOver == \A x \in Appliers : Partial(x) /\ ~Busied(x) => Excused(x)

CalmInv == KnownFiles /\ UndoCost /\ RollbackWritten /\ Reverted /\ LeftOver

AloneInv ==
  VersionInv /\ CaptureApproved /\ DeletesExist /\ (Calm => CalmInv)

\* A quiet state comes from a quiet state, by a step that is no edit and no stop.
LEMMA CalmStep ==
  ASSUME EngineInv, [Next]_vars, Calm'
  PROVE  /\ Calm
         /\ \A t \in Targets : ~EditFile(t)
         /\ \A p \in Procs : ~Interrupt(p) /\ ~Kill(p)
<1> USE DEF EngineInv, LockInv, Typed, TypeOK, Calm
<1>1. edits \in Nat /\ stops \in Nat BY Kinds
<1>2. edits' = edits \/ \E t \in Targets : EditFile(t)
  BY DEF Next, vars, ProcStep, LockStep, AcquireLock, Busy, AcquireFails, Release, RestoreStep,
    StageRestore, StageRestoreFails, CheckRestore, SkipTarget, RevertTarget, FinishRestore,
    RollbackStep, ReadJournal, RefuseJournal, Preflight, PreflightFails, BeginRollback,
    BeginRollbackFails, ApplyStep, MakePlan, Resolve, RefusePlan, Claim, ClaimFails, Backup,
    Stage, PrepareFails, OpenJournal, PublishJournal, Recheck, RecheckFails, BeginCommit,
    BeginCommitFails, CheckTarget, CheckTargetFails, ReplaceTarget, ReplaceTargetFails,
    Commit, CommitFails, BeginUndo, Environment, DamageBackup, Interrupt, Kill, RemoveStaleLock
<1>3. \A t \in Targets : EditFile(t) => edits' = edits + 1 BY DEF EditFile
<1>4. \A p \in Procs : Interrupt(p) \/ Kill(p) => stops' = stops + 1 BY DEF Interrupt, Kill
<1>5. stops' = stops \/ \E p \in Procs : Interrupt(p) \/ Kill(p)
  <2>1. \A p \in Procs : ProcStep(p) => stops' = stops BY StopsKept
  <2>2. Environment => stops' = stops \/ \E p \in Procs : Interrupt(p) \/ Kill(p)
    BY DEF Environment, EditFile, DamageBackup, RemoveStaleLock
  <2>3. UNCHANGED vars => stops' = stops BY DEF vars
  <2> QED BY <2>1, <2>2, <2>3 DEF Next
<1> QED BY <1>1, <1>2, <1>3, <1>4, <1>5

LEMMA DeletesKept == EngineInv /\ DeletesExist /\ [Next]_vars => DeletesExist'
<1> SUFFICES ASSUME EngineInv, DeletesExist, [Next]_vars, NEW x \in Appliers, NEW t \in Targets,
                    pc'[x] # "start", plan'[x][t] = Absent
             PROVE  expected'[x][t] # Absent
  BY DEF DeletesExist
<1> USE DEF EngineInv, LockInv
<1>0. x \in Procs /\ x \notin Rollbackers BY Kinds, ConstantsAssumption
<1>1. ASSUME NEW p \in Procs, ProcStep(p) PROVE expected'[x][t] # Absent
  <2>0. SameElsewhere(p) /\ PlanFixed(p) BY <1>1, ProcFrame
  <2>1. CASE pc[x] # "start" BY <2>0, <2>1 DEF PlanFixed, DeletesExist
  <2>2. CASE pc[x] = "start"
    <3>1. p = x BY <1>0, <2>0, <2>2 DEF SameElsewhere
    <3>2. MakePlan(x)
      BY <1>0, <1>1, <2>2, <3>1 DEF ProcStep, LockStep, AcquireLock, Busy, AcquireFails, Release,
        AtLock, RestoreStep, StageRestore, StageRestoreFails, CheckRestore, SkipTarget,
        RevertTarget, FinishRestore, ApplyStep, Resolve, RefusePlan, Claim, ClaimFails, Backup,
        Stage, PrepareFails, OpenJournal, PublishJournal, Recheck, RecheckFails, BeginCommit,
        BeginCommitFails, CheckTarget, CheckTargetFails, ReplaceTarget, ReplaceTargetFails,
        Commit, CommitFails, BeginUndo
    <3> QED BY <3>2 DEF MakePlan, Typed, TypeOK
  <2> QED BY <2>1, <2>2
<1>2. CASE Environment
  <2>1. UNCHANGED local BY <1>2, EnvironmentFrame DEF Typed
  <2>2. pc[x] # "start"
    BY <1>0, <1>2 DEF Environment, EditFile, DamageBackup, Interrupt, Kill, RemoveStaleLock,
      Running, Goto, Typed, TypeOK
  <2> QED BY <2>1, <2>2 DEF local, DeletesExist
<1>3. CASE UNCHANGED vars BY <1>3 DEF vars, local, DeletesExist
<1> QED BY <1>1, <1>2, <1>3 DEF Next

\* What the commit loop is about to replace is as it was captured, and there is
\* something to delete.
LEMMA LoopTarget ==
  ASSUME AloneInv, Calm, NEW a \in Appliers, pc[a] \in Commits, NEW t \in Targets, At(a, t)
  PROVE  /\ t \in InPlan(a) /\ files[t] = before[a][t]
         /\ plan[a][t] = Absent => Existed(a, t)
<1> USE DEF AloneInv, VersionInv
<1>1. t \in todo[a] /\ t \in InPlan(a)
  BY DEF At, EngineInv, LockInv, Typed, TodoOK, Commits
<1>2. files[t].by # a BY <1>1 DEF NotYetWritten
<1>3. files[t] = before[a][t]
  <2>1. KnownFiles BY DEF CalmInv
  <2>2. pc[a] \notin {"start", "planned"} BY DEF Commits
  <2>3. files[t] = before[a][t] \/ files[t] = [data |-> plan[a][t], by |-> a]
    BY <2>1, <2>2 DEF KnownFiles
  <2> QED BY <1>2, <2>3
<1>4. before[a][t].data = expected[a][t]
  BY <1>1 DEF CaptureApproved, PreStateOK, Approving, Commits
<1>5. plan[a][t] = Absent => expected[a][t] # Absent BY DEF DeletesExist, Commits
<1> QED BY <1>1, <1>3, <1>4, <1>5 DEF Existed

LEMMA KnownKept ==
  ASSUME Alone, AloneInv, [Next]_vars, Calm'
  PROVE  KnownFiles'
<1> SUFFICES ASSUME NEW x \in Appliers, NEW t \in Targets, pc'[x] \notin {"start", "planned"}
             PROVE  \/ files'[t] = before'[x][t]
                    \/ /\ t \in InPlan(x)' /\ files'[t] = [data |-> plan'[x][t], by |-> x]
                       /\ plan'[x][t] # Absent \/ Existed(x, t)'
  BY DEF KnownFiles
<1> USE DEF AloneInv, VersionInv
<1>0. x \in Procs /\ x \notin Rollbackers BY Kinds, ConstantsAssumption
<1>1. Calm /\ (\A p \in Procs : ~Interrupt(p) /\ ~Kill(p)) /\ ~EditFile(t) BY CalmStep
<1>2. CASE pc[x] \in {"start", "planned"}
  <2>1. PICK p \in Procs : ProcStep(p)
    BY <1>0, <1>1, <1>2 DEF Next, vars, Environment, EditFile, DamageBackup, RemoveStaleLock
  <2>2. p = x
    BY <1>0, <1>2, <2>1, ProcFrame DEF EngineInv, LockInv, SameElsewhere
  <2>3. Resolve(x)
    BY <1>0, <1>2, <2>1, <2>2 DEF ProcStep, LockStep, AcquireLock, Busy, AcquireFails, Release,
      AtLock, RestoreStep, StageRestore, StageRestoreFails, CheckRestore, SkipTarget,
      RevertTarget, FinishRestore, ApplyStep, MakePlan, RefusePlan, Claim, ClaimFails, Backup,
      Stage, PrepareFails, OpenJournal, PublishJournal, Recheck, RecheckFails, BeginCommit,
      BeginCommitFails, CheckTarget, CheckTargetFails, ReplaceTarget, ReplaceTargetFails,
      Commit, CommitFails, BeginUndo, Goto, EngineInv, LockInv, Typed, TypeOK
  <2> QED BY <2>3 DEF Resolve, disk, EngineInv, LockInv, Typed, TypeOK
<1>3. CASE pc[x] \notin {"start", "planned"}
  <2>1. plan'[x] = plan[x] /\ before'[x] = before[x] BY <1>3, LateFrozen DEF Frozen
  <2>2. InPlan(x)' = InPlan(x) /\ (Existed(x, t)' <=> Existed(x, t))
    BY <2>1 DEF InPlan, Existed
  <2>3. CASE files'[t] = files[t]
    BY <1>1, <1>3, <2>1, <2>2, <2>3 DEF CalmInv, KnownFiles
  <2>4. ASSUME NEW a \in Appliers, Replaces(a, t)
        PROVE  /\ t \in InPlan(x) /\ files'[t] = [data |-> plan[x][t], by |-> x]
               /\ plan[x][t] # Absent \/ Existed(x, t)
    <3>1. a = x BY DEF Alone
    <3>2. pc[x] \in Commits /\ At(x, t) BY <2>4, <3>1 DEF Replaces, ReplaceTarget, Commits
    <3> QED BY <1>1, <2>4, <3>1, <3>2, LoopTarget DEF Replaces
  <2>5. ASSUME NEW p \in Procs, Reverts(p, t) PROVE files'[t] = before[x][t]
    <3>1. Tx(p) \in Appliers BY <2>5, TxOK DEF Reverts, RevertTarget, Locked
    <3>2. Tx(p) = x BY <3>1 DEF Alone
    <3> QED BY <2>5, <3>2 DEF Reverts
  <2> QED BY <1>1, <2>1, <2>2, <2>3, <2>4, <2>5, FilesStep
<1> QED BY <1>2, <1>3

LEMMA DamageStep ==
  ASSUME Typed, [Next]_vars, damaged' # damaged
  PROVE  \E x \in Appliers : DamageBackup(x)
BY DEF Typed, TypeOK, disk, vars, Next, ProcStep, LockStep, AcquireLock, Busy, AcquireFails,
  Release, RestoreStep, StageRestore, StageRestoreFails, CheckRestore, SkipTarget,
  RevertTarget, FinishRestore, RollbackStep, ReadJournal, RefuseJournal, Preflight,
  PreflightFails, BeginRollback, BeginRollbackFails, ApplyStep, MakePlan, Resolve, RefusePlan,
  Claim, ClaimFails, Backup, Stage, PrepareFails, OpenJournal, PublishJournal, Recheck,
  RecheckFails, BeginCommit, BeginCommitFails, CheckTarget, CheckTargetFails, ReplaceTarget,
  ReplaceTargetFails, Commit, CommitFails, BeginUndo, Environment, EditFile, Interrupt, Kill,
  RemoveStaleLock

LEMMA IntoChecked ==
  ASSUME Typed, NEW a \in Appliers, ProcStep(a), pc'[a] = "checked"
  PROVE  Recheck(a)
<1>1. a \notin Rollbackers /\ a \in Procs BY Kinds, ConstantsAssumption
<1> QED
  BY <1>1 DEF Typed, TypeOK, Goto, ProcStep, LockStep, AcquireLock, Busy, AcquireFails, Release,
    RestoreStep, StageRestore, StageRestoreFails, CheckRestore, SkipTarget, RevertTarget,
    FinishRestore, ApplyStep, MakePlan, Resolve, RefusePlan, Claim, ClaimFails, Backup, Stage,
    PrepareFails, OpenJournal, PublishJournal, RecheckFails, BeginCommit, BeginCommitFails,
    CheckTarget, CheckTargetFails, ReplaceTarget, ReplaceTargetFails, Commit, CommitFails,
    BeginUndo

\* The costs of one transaction.
Costs(x) ==
  /\ pc[x] \in Commits \cup {"checked"} => faults >= Lost(x)
  /\ pc[x] = "undo" => x \in saved /\ faults >= 1 + Lost(x)
  /\ pc[x] = "restaging" => x \in saved /\ faults >= 1 + Lost(x) + Unwritten(x)
  /\ pc[x] \in {"restoring", "reverting"} => faults >= 1 + Unrestored(x) + Unwritten(x)

Costly == Commits \cup {"checked", "undo", "restaging", "restoring", "reverting"}

\* Steps of others: a backup is damaged for one more error.
LEMMA CostsQuiet ==
  ASSUME AloneInv, [Next]_vars, NEW x \in Appliers, Costs(x), Quiet(x)
  PROVE  Costs(x)'
<1> USE DEF AloneInv, VersionInv, EngineInv, LockInv, Typed, TypeOK
<1>1. faults \in Nat /\ faults' \in Nat /\ faults' >= faults BY FaultsGrow
<1>2. /\ pc'[x] = pc[x] /\ failed'[x] = failed[x] /\ saved' = saved /\ status' = status
  BY DEF Quiet
<1>3. CASE damaged' = damaged
  <2>1. Lost(x)' = Lost(x) /\ Unrestored(x)' = Unrestored(x) /\ Unwritten(x)' = Unwritten(x)
    BY <1>2, <1>3 DEF Lost, Unrestored, Unwritten
  <2>2. Lost(x) \in Nat /\ Unrestored(x) \in Nat /\ Unwritten(x) \in Nat
    BY DEF Lost, Unrestored, Unwritten
  <2> QED BY <1>1, <1>2, <2>1, <2>2 DEF Costs
<1>4. CASE damaged' # damaged
  <2>1. faults' = faults + 1 BY <1>4, DamageStep DEF DamageBackup, Fault
  <2>2. /\ Lost(x)' \in 0 .. 1 /\ Lost(x) \in 0 .. 1
        /\ Unrestored(x)' \in 0 .. 1 /\ Unrestored(x) \in 0 .. 1
        /\ Unwritten(x)' = Unwritten(x) /\ Unwritten(x) \in 0 .. 1
    BY <1>2 DEF Lost, Unrestored, Unwritten
  <2> QED BY <1>1, <1>2, <2>1, <2>2 DEF Costs
<1> QED BY <1>3, <1>4

\* The commit loop, and how it fails: every way takes one error, since the targets
\* are what was captured.
LEMMA CostsCommit ==
  ASSUME AloneInv, [Next]_vars, Calm', NEW x \in Appliers, Costs(x), ProcStep(x),
         pc'[x] \in Commits \cup {"checked", "undo"}
  PROVE  Costs(x)'
<1> USE DEF AloneInv, VersionInv, EngineInv, LockInv, Typed, TypeOK
<1>0. x \in Procs /\ Calm BY Kinds, CalmStep
<1>1. faults \in Nat /\ faults' \in Nat /\ faults' >= faults /\ MaxFaults \in Nat
  BY FaultsGrow, Kinds
<1>2. pc[x] \in Commits \cup {"checked"} => x \in saved
  BY DEF JournalInv, PreparingClaimed, LoopBegun, Begun, Commits
<1>3. CASE pc'[x] = "checked"
  <2>1. Recheck(x) BY <1>3, IntoChecked
  <2>2. x \notin damaged' BY <2>1 DEF Recheck, RecheckOK, Verified, disk
  <2> QED BY <1>1, <1>3, <2>2 DEF Costs, Lost, Commits
<1>4. CASE pc'[x] \in Commits
  <2>1. BeginCommit(x) \/ CheckTarget(x) \/ ReplaceTarget(x) BY <1>4, IntoCommit
  <2>2. pc[x] \in Commits \cup {"checked"} /\ damaged' = damaged
    BY <2>1 DEF BeginCommit, CheckTarget, ReplaceTarget, Commits, disk
  <2>3. faults >= Lost(x) /\ Lost(x)' = Lost(x) /\ Lost(x) \in 0 .. 1
    BY <2>2 DEF Costs, Lost
  <2> QED BY <1>1, <1>4, <2>3 DEF Costs, Commits
<1>5. CASE pc'[x] = "undo"
  <2>1. \/ BeginCommitFails(x) \/ CheckTargetFails(x)
        \/ ReplaceTargetFails(x) \/ CommitFails(x)
    BY <1>0, <1>5, IntoUndo
  <2>2. pc[x] \in Commits \cup {"checked"} /\ damaged' = damaged /\ saved' = saved
    BY <2>1 DEF BeginCommitFails, CheckTargetFails, ReplaceTargetFails, CommitFails, Commits, disk
  <2>3. faults >= Lost(x) /\ Lost(x)' = Lost(x) /\ Lost(x) \in 0 .. 1
    BY <2>2 DEF Costs, Lost
  <2>4. faults' = faults + 1
    <3>1. CASE BeginCommitFails(x) \/ CommitFails(x)
      BY <3>1 DEF BeginCommitFails, CommitFails, Fault
    <3>2. CASE CheckTargetFails(x)
      <4>1. PICK t \in Targets : At(x, t) /\ IF Unchanged(x, {t}) THEN Fault ELSE NoFault
        BY <3>2 DEF CheckTargetFails
      <4>2. pc[x] \in Commits BY <3>2 DEF CheckTargetFails, Commits
      <4>3. files[t] = before[x][t] BY <1>0, <4>1, <4>2, LoopTarget
      <4>4. Unchanged(x, {t}) BY <4>3 DEF Unchanged
      <4> QED BY <4>1, <4>4 DEF Fault
    <3>3. CASE ReplaceTargetFails(x)
      <4>1. PICK t \in Targets : At(x, t) /\ IF Missing(x, t) THEN NoFault ELSE Fault
        BY <3>3 DEF ReplaceTargetFails
      <4>2. pc[x] \in Commits BY <3>3 DEF ReplaceTargetFails, Commits
      <4>3. files[t] = before[x][t] /\ (plan[x][t] = Absent => Existed(x, t))
        BY <1>0, <4>1, <4>2, LoopTarget
      <4>4. ~Missing(x, t) BY <4>3 DEF Missing, Existed
      <4> QED BY <4>1, <4>4 DEF Fault
    <3> QED BY <2>1, <3>1, <3>2, <3>3
  <2> QED BY <1>1, <1>2, <1>5, <2>2, <2>3, <2>4 DEF Costs, Commits
<1> QED BY <1>3, <1>4, <1>5

\* The undo of an apply.
LEMMA CostsUndo ==
  ASSUME AloneInv, [Next]_vars, Calm', NEW x \in Appliers, Costs(x), ProcStep(x),
         pc'[x] \in Restores
  PROVE  Costs(x)'
<1> USE DEF AloneInv, VersionInv, EngineInv, LockInv, Typed, TypeOK
<1>0. x \in Procs /\ x \notin Rollbackers /\ Tx(x) = x /\ Calm
  BY Kinds, ConstantsAssumption, CalmStep DEF Tx
<1>1. faults \in Nat /\ faults' \in Nat /\ faults' >= faults /\ MaxFaults \in Nat
  BY FaultsGrow, Kinds
<1>2. CASE BeginUndo(x)
  <2>1. /\ pc[x] = "undo" /\ pc'[x] = "restaging" /\ damaged' = damaged /\ saved' = saved
        /\ \/ status'[x] = "rolling_back" /\ faults' = faults
           \/ status' = status /\ faults' = faults + 1
    BY <1>0, <1>2 DEF BeginUndo, Goto, SetStatus, NoFault, Fault
  <2>2. x \in saved /\ faults >= 1 + Lost(x) BY <2>1 DEF Costs
  <2>3. Lost(x)' = Lost(x) /\ Lost(x) \in 0 .. 1 BY <2>1 DEF Lost
  <2>4. Unwritten(x)' \in 0 .. 1 /\ (status'[x] = "rolling_back" => Unwritten(x)' = 0)
    BY DEF Unwritten
  <2>5. faults' >= 1 + Lost(x)' + Unwritten(x)' BY <1>1, <2>1, <2>2, <2>3, <2>4
  <2> QED BY <2>1, <2>2, <2>5 DEF Costs, Commits
<1>3. CASE StageRestore(x) \/ StageRestoreFails(x)
  <2>1. /\ pc[x] = "restaging" /\ pc'[x] = "restoring" /\ damaged' = damaged
        /\ saved' = saved /\ status' = status
    BY <1>0, <1>3 DEF StageRestore, StageRestoreFails, Goto, disk
  <2>2. x \in saved /\ faults >= 1 + Lost(x) + Unwritten(x) BY <2>1 DEF Costs
  <2>3. /\ Unwritten(x)' = Unwritten(x) /\ Unwritten(x) \in 0 .. 1
        /\ Lost(x) \in 0 .. 1 /\ Unrestored(x)' \in 0 .. 1
    BY <2>1 DEF Unwritten, Lost, Unrestored
  <2>4. CASE x \in damaged
    <3>1. Lost(x) = 1 BY <2>4 DEF Lost
    <3> QED BY <1>1, <2>1, <2>2, <2>3, <3>1 DEF Costs, Commits
  <2>5. CASE x \notin damaged /\ StageRestore(x)
    <3>1. ~failed'[x] BY <1>0, <2>5 DEF StageRestore
    <3>2. Unrestored(x)' = 0 BY <2>1, <2>5, <3>1 DEF Unrestored
    <3> QED BY <1>1, <2>1, <2>2, <2>3, <3>2 DEF Costs, Commits
  <2>6. CASE x \notin damaged /\ StageRestoreFails(x)
    <3>1. faults' = faults + 1 BY <1>0, <2>2, <2>6 DEF StageRestoreFails, Verified, Fault
    <3> QED BY <1>1, <2>1, <2>2, <2>3, <3>1 DEF Costs, Commits
  <2> QED BY <1>3, <2>4, <2>5, <2>6
<1>4. CASE CheckRestore(x) \/ SkipTarget(x) \/ RevertTarget(x)
  <2>1. /\ pc[x] \in {"restoring", "reverting"} /\ pc'[x] \in {"restoring", "reverting"}
        /\ damaged' = damaged /\ status' = status
    BY <1>0, <1>4 DEF CheckRestore, SkipTarget, RevertTarget, Goto, disk
  <2>2. faults >= 1 + Unrestored(x) + Unwritten(x) BY <2>1 DEF Costs
  <2>3. /\ Unwritten(x)' = Unwritten(x) /\ Unwritten(x) \in 0 .. 1
        /\ Unrestored(x) \in 0 .. 1 /\ Unrestored(x)' \in 0 .. 1
    BY <2>1 DEF Unwritten, Unrestored
  <2>4. CASE CheckRestore(x) \/ RevertTarget(x)
    <3>1. failed' = failed BY <2>4 DEF CheckRestore, RevertTarget, local
    <3>2. Unrestored(x)' = Unrestored(x) BY <2>1, <3>1 DEF Unrestored
    <3> QED BY <1>1, <2>1, <2>2, <2>3, <3>2 DEF Costs, Commits
  <2>5. CASE SkipTarget(x)
    <3>1. PICK t \in Targets :
            /\ At(x, t)
            /\ IF pc[x] = "restoring" /\ ~Restorable(x, t) THEN NoFault ELSE Fault
      BY <1>0, <2>5 DEF SkipTarget
    <3>2. Restorable(x, t)
      <4>1. KnownFiles BY <1>0 DEF CalmInv
      <4>2. files[t] = before[x][t] \/ files[t] = [data |-> plan[x][t], by |-> x]
        BY <2>1, <4>1 DEF KnownFiles
      <4> QED BY <4>2 DEF Restorable
    <3>3. faults' = faults + 1 BY <3>1, <3>2 DEF Fault
    <3> QED BY <1>1, <2>1, <2>2, <2>3, <3>3 DEF Costs, Commits
  <2> QED BY <1>4, <2>4, <2>5
<1> QED BY <1>0, <1>2, <1>3, <1>4, IntoRestore

LEMMA CostKept ==
  ASSUME AloneInv, [Next]_vars, Calm'
  PROVE  UndoCost'
<1> SUFFICES ASSUME NEW x \in Appliers PROVE Costs(x)'
  BY DEF UndoCost, Costs
<1>0. x \in Procs BY Kinds
<1>1. Costs(x) BY CalmStep DEF AloneInv, VersionInv, CalmInv, UndoCost, Costs
<1>2. CASE pc'[x] \notin Costly BY <1>2 DEF Costs, Costly
<1>3. CASE pc'[x] \in Costly
  <2>1. pc'[x] \in Locked BY <1>3 DEF Costly, Commits, Locked
  <2>2. ProcStep(x) \/ Quiet(x) BY <1>0, <2>1, HolderSteps DEF AloneInv, VersionInv
  <2>3. pc'[x] \in Commits \cup {"checked", "undo"} \/ pc'[x] \in Restores
    BY <1>3 DEF Costly, Restores
  <2> QED BY <1>1, <2>2, <2>3, CostsQuiet, CostsCommit, CostsUndo
<1> QED BY <1>2, <1>3

LEMMA RollbackWrittenKept ==
  ASSUME AloneInv, [Next]_vars, Calm'
  PROVE  RollbackWritten'
<1> SUFFICES ASSUME NEW r \in Rollbackers, pc'[r] \in Restores
             PROVE  status'[chosen'[r]] = "rolling_back"
  BY DEF RollbackWritten
<1> USE DEF AloneInv, VersionInv, EngineInv, LockInv, Typed, TypeOK
<1>0. r \in Procs /\ r \notin Appliers /\ Calm BY Kinds, ConstantsAssumption, CalmStep
<1>1. pc'[r] \in Locked BY DEF Restores, Locked
<1>2. CASE ProcStep(r)
  <2>1. CASE BeginRollback(r)
    <3>1. chosen[r] \in Appliers BY <2>1 DEF BeginRollback, ChosenOK, Locked
    <3> QED BY <2>1, <3>1 DEF BeginRollback, SetStatus, local
  <2>2. CASE \/ StageRestore(r) \/ StageRestoreFails(r)
             \/ CheckRestore(r) \/ SkipTarget(r) \/ RevertTarget(r)
    <3>1. pc[r] \in Restores /\ UNCHANGED <<status, chosen>>
      BY <2>2 DEF StageRestore, StageRestoreFails, CheckRestore, SkipTarget, RevertTarget,
        Restores, disk, local
    <3> QED BY <1>0, <3>1 DEF CalmInv, RollbackWritten
  <2> QED BY <1>0, <1>2, <2>1, <2>2, IntoRestore
<1>3. CASE Quiet(r)
  <2>1. pc[r] \in Restores /\ status' = status /\ chosen'[r] = chosen[r]
    BY <1>0, <1>3, ConstantsAssumption DEF Quiet, Tx
  <2> QED BY <1>0, <2>1 DEF CalmInv, RollbackWritten
<1> QED BY <1>0, <1>1, <1>2, <1>3, HolderSteps

LEMMA RevertedKept ==
  ASSUME AloneInv, [Next]_vars, Calm'
  PROVE  Reverted'
<1> SUFFICES ASSUME NEW p \in Procs, pc'[p] \in {"restoring", "reverting"}, ~failed'[p],
                    NEW t \in InPlan(Tx(p))' \ todo'[p]
             PROVE  files'[t] = before'[Tx(p)'][t]
  BY DEF Reverted
<1> USE DEF AloneInv, VersionInv, EngineInv, LockInv, Typed, TypeOK
<1>0. pc'[p] \in Locked /\ Calm /\ \A u \in Targets : ~EditFile(u)
  BY CalmStep DEF Locked
<1>1. CASE ProcStep(p)
  <2>1. \/ StageRestore(p) \/ StageRestoreFails(p)
        \/ CheckRestore(p) \/ SkipTarget(p) \/ RevertTarget(p)
    BY <1>1, IntoRestore DEF Restores, BeginUndo, BeginRollback, Goto
  <2>2. UNCHANGED <<before, plan, chosen>> /\ Tx(p)' = Tx(p) /\ InPlan(Tx(p))' = InPlan(Tx(p))
    BY <2>1 DEF StageRestore, StageRestoreFails, CheckRestore, SkipTarget, RevertTarget,
      disk, local, Tx, InPlan
  <2>3. t \in Targets /\ t \in InPlan(Tx(p)) BY <2>2 DEF InPlan
  <2>4. CASE StageRestore(p) BY <2>2, <2>3, <2>4 DEF StageRestore
  <2>5. CASE StageRestoreFails(p) \/ SkipTarget(p)
    BY <2>5 DEF StageRestoreFails, SkipTarget
  <2>6. CASE CheckRestore(p)
    <3>1. pc[p] \in {"restoring", "reverting"} /\ ~failed[p] /\ t \notin todo[p] /\ files' = files
      BY <2>6 DEF CheckRestore, disk, local
    <3> QED BY <1>0, <2>2, <2>3, <3>1 DEF CalmInv, Reverted
  <2>7. CASE RevertTarget(p)
    <3>1. PICK u \in Targets :
            /\ At(p, u)
            /\ files' = IF files[u].data = Absent /\ ~Existed(Tx(p), u) THEN files
                        ELSE [files EXCEPT ![u] = before[Tx(p)][u]]
            /\ todo' = [todo EXCEPT ![p] = @ \ {u}]
      BY <2>7 DEF RevertTarget
    <3>2. pc[p] = "reverting" /\ failed' = failed BY <2>7 DEF RevertTarget
    <3>3. Tx(p) \in Appliers /\ pc[Tx(p)] \notin {"start", "planned"}
      BY <3>2, TxOK DEF Locked
    <3>4. CASE t = u
      <4>1. CASE files[u].data = Absent /\ ~Existed(Tx(p), u)
        <5>1. files' = files BY <3>1, <4>1
        <5>2. \/ files[u] = before[Tx(p)][u]
              \/ /\ files[u] = [data |-> plan[Tx(p)][u], by |-> Tx(p)]
                 /\ plan[Tx(p)][u] # Absent \/ Existed(Tx(p), u)
          BY <1>0, <3>3 DEF CalmInv, KnownFiles
        <5>3. files[u] = before[Tx(p)][u] BY <4>1, <5>2
        <5> QED BY <2>2, <3>4, <5>1, <5>3
      <4>2. CASE ~(files[u].data = Absent /\ ~Existed(Tx(p), u))
        BY <2>2, <2>3, <3>1, <3>4, <4>2
      <4> QED BY <4>1, <4>2
    <3>5. CASE t # u
      <4>1. t \in InPlan(Tx(p)) \ todo[p] BY <2>3, <3>1, <3>5
      <4>2. files[t] = before[Tx(p)][t] BY <1>0, <3>2, <4>1 DEF CalmInv, Reverted
      <4>3. files'[t] = files[t] BY <2>3, <3>1, <3>5
      <4> QED BY <2>2, <4>2, <4>3
    <3> QED BY <3>4, <3>5
  <2> QED BY <2>1, <2>4, <2>5, <2>6, <2>7
<1>2. CASE Quiet(p)
  <2>1. /\ pc[p] \in {"restoring", "reverting"} /\ ~failed[p] /\ todo'[p] = todo[p]
        /\ Tx(p)' = Tx(p) /\ plan'[Tx(p)] = plan[Tx(p)] /\ before'[Tx(p)] = before[Tx(p)]
    BY <1>2 DEF Quiet, Frozen
  <2>2. files' = files BY <1>0, <1>2 DEF Quiet
  <2>3. t \in InPlan(Tx(p)) \ todo[p] BY <2>1 DEF InPlan
  <2> QED BY <1>0, <2>1, <2>2, <2>3 DEF CalmInv, Reverted
<1> QED BY <1>0, <1>1, <1>2, HolderSteps

\* Who leaves the loops has committed or has finished its restore.
LEMMA LeavesLoops ==
  ASSUME Typed, NEW p \in Procs, ProcStep(p), InLoops(p), ~InLoops(p)'
  PROVE  (p \in Appliers /\ Commit(p)) \/ FinishRestore(p)
BY DEF InLoops, Commits, Restores, Typed, TypeOK, Goto, ProcStep, LockStep, AcquireLock, Busy,
  AcquireFails, Release, AtLock, RestoreStep, StageRestore, StageRestoreFails, CheckRestore,
  SkipTarget, RevertTarget, RollbackStep, ReadJournal, RefuseJournal, Preflight,
  PreflightFails, BeginRollback, BeginRollbackFails, ApplyStep, MakePlan, Resolve, RefusePlan,
  Claim, ClaimFails, Backup, Stage, PrepareFails, OpenJournal, PublishJournal, Recheck,
  RecheckFails, BeginCommit, BeginCommitFails, CheckTarget, CheckTargetFails, ReplaceTarget,
  ReplaceTargetFails, CommitFails, BeginUndo

\* Outside the preparation and the loops a journal is written by a rollback only.
LEMMA QuietStatus ==
  ASSUME Typed, NEW p \in Procs, ProcStep(p), status' # status, ~InLoops(p),
         pc[p] \notin Preparing \/ p \notin Appliers
  PROVE  p \in Rollbackers /\ (BeginRollback(p) \/ BeginRollbackFails(p))
BY DEF InLoops, Commits, Restores, Preparing, Typed, TypeOK, disk, ProcStep, LockStep,
  AcquireLock, Busy, AcquireFails, Release, RestoreStep, StageRestore, StageRestoreFails,
  CheckRestore, SkipTarget, RevertTarget, FinishRestore, RollbackStep, ReadJournal,
  RefuseJournal, Preflight, PreflightFails, ApplyStep, MakePlan, Resolve, RefusePlan, Claim,
  ClaimFails, Backup, Stage, PrepareFails, OpenJournal, PublishJournal, Recheck, RecheckFails,
  BeginCommit, BeginCommitFails, CheckTarget, CheckTargetFails, ReplaceTarget,
  ReplaceTargetFails, Commit, CommitFails, BeginUndo

\* A rollbacker keeps its transaction, the only one there is.
LEMMA ChosenStays ==
  ASSUME Alone, EngineInv, [Next]_vars, NEW r \in Rollbackers, chosen[r] \in Appliers
  PROVE  chosen'[r] = chosen[r]
<1> USE DEF EngineInv, LockInv, Typed
<1>0. r \in Procs /\ r \notin Appliers BY Kinds, ConstantsAssumption
<1>1. ASSUME NEW p \in Procs, ProcStep(p) PROVE chosen'[r] = chosen[r]
  <2>1. CASE p # r BY <1>0, <1>1, <2>1, ProcFrame DEF SameElsewhere
  <2>2. CASE p = r
    <3>1. CASE LockStep(p) \/ RestoreStep(p) BY <3>1, LockFrame
    <3>2. CASE ReadJournal(r) BY <3>2 DEF ReadJournal, TypeOK, Alone
    <3>3. CASE RollbackStep(r) /\ ~ReadJournal(r)
      BY <3>3 DEF RollbackStep, RefuseJournal, Preflight, PreflightFails, BeginRollback,
        BeginRollbackFails, local
    <3> QED BY <1>0, <1>1, <2>2, <3>1, <3>2, <3>3 DEF ProcStep
  <2> QED BY <2>1, <2>2
<1>2. CASE Environment BY <1>2, EnvironmentFrame DEF local
<1>3. CASE UNCHANGED vars BY <1>3 DEF vars, local
<1> QED BY <1>1, <1>2, <1>3 DEF Next

\* The end of a commit is not partial, and the end of a restore has its excuse.
LEMMA LoopsLeave ==
  ASSUME Alone, MaxFaults < 4, AloneInv, [Next]_vars, Calm', NEW x \in Appliers,
         NEW p \in Procs, Tx(p) = x, InLoops(p), ProcStep(p), ~InLoops(p)', Partial(x)'
  PROVE  Excused(x)'
<1> USE DEF AloneInv, VersionInv, EngineInv, LockInv, Typed, TypeOK
<1>0. Calm BY CalmStep
<1>1. faults \in Nat /\ faults' \in Nat /\ faults' >= faults /\ MaxFaults \in Nat
  BY FaultsGrow, Kinds
<1>2. (p \in Appliers /\ Commit(p)) \/ FinishRestore(p) BY LeavesLoops
<1>3. UNCHANGED <<files, before, plan, chosen, saved>>
  BY <1>2 DEF Commit, FinishRestore, local
<1>4. InPlan(x)' = InPlan(x) BY <1>3 DEF InPlan
<1>5. CASE Commit(p) /\ p \in Appliers
  <2>1. p = x /\ pc[x] \in Commits /\ todo[x] = {}
    BY <1>5 DEF Tx, Commit, Commits, LoopDone
  <2>2. \A t \in InPlan(x) : files[t] # before[x][t] BY <2>1 DEF Replaced
  <2> QED BY <1>3, <1>4, <2>2 DEF Partial, Untouched
<1>6. CASE FinishRestore(p)
  <2>1. pc[p] \in {"restoring", "reverting"} /\ pc[p] \in Restores /\ todo[p] = {}
    BY <1>6 DEF FinishRestore, LoopDone, Restores
  <2>2. CASE ~failed[p]
    <3>1. \A t \in InPlan(x) : files[t] = before[x][t]
      BY <1>0, <2>1, <2>2 DEF CalmInv, Reverted
    <3>2. \A t \in InPlan(x) : files[t].by # x
      BY <3>1 DEF NoSelfCapture, InPlan
    <3> QED BY <1>3, <1>4, <3>2 DEF Partial, Installed
  <2>3. CASE failed[p]
    <3>1. \/ status'[x] = "rollback_failed"
          \/ status' = status /\ faults' = faults + 1 /\ faults < MaxFaults
      BY <1>6, <2>3 DEF FinishRestore, SetStatus, Outcome, Fault
    <3>2. CASE p \in Appliers
      <4>1. p = x BY <3>2 DEF Tx
      <4>2. Unrestored(x) = 1 BY <2>3, <4>1 DEF Unrestored
      <4>3. faults >= 2 + Unwritten(x)
        <5>1. faults >= 1 + Unrestored(x) + Unwritten(x)
          BY <1>0, <2>1, <4>1 DEF CalmInv, UndoCost
        <5>2. Unwritten(x) \in 0 .. 1 BY DEF Unwritten
        <5> QED BY <1>1, <4>2, <5>1, <5>2
      <4>4. status[x] = "rolling_back" \/ Unwritten(x) = 1 BY DEF Unwritten
      <4>5. Unwritten(x) \in 0 .. 1 BY DEF Unwritten
      <4> QED BY <1>1, <3>1, <4>3, <4>4, <4>5 DEF Excused
    <3>3. CASE p \notin Appliers
      <4>1. p \in Rollbackers /\ chosen[p] = x BY <3>3 DEF Tx, Procs
      <4>2. status[x] = "rolling_back" BY <1>0, <2>1, <4>1 DEF CalmInv, RollbackWritten
      <4> QED BY <1>3, <3>1, <4>1, <4>2 DEF Excused
    <3> QED BY <3>2, <3>3
  <2> QED BY <2>2, <2>3
<1> QED BY <1>2, <1>5, <1>6

LEMMA LeftOverKept ==
  ASSUME Alone, MaxFaults < 4, AloneInv, [Next]_vars, Calm', EngineInv'
  PROVE  LeftOver'
<1> SUFFICES ASSUME NEW x \in Appliers, Partial(x)', ~Busied(x)'
             PROVE  Excused(x)'
  BY DEF LeftOver
<1> USE DEF AloneInv, VersionInv, EngineInv, LockInv
<1>0. /\ Calm
      /\ \A t \in Targets : ~EditFile(t)
      /\ \A p \in Procs : ~Interrupt(p) /\ ~Kill(p)
  BY CalmStep
<1>1. faults \in Nat /\ faults' \in Nat /\ faults' >= faults BY FaultsGrow
<1>2. ASSUME NEW p \in Procs, Tx(p) = x, InLoops(p) PROVE Excused(x)'
  <2>1. pc[p] \in Locked BY <1>2 DEF InLoops, Commits, Restores, Locked
  <2>2. Tx(p)' = x
    <3>1. CASE p \in Appliers BY <1>2, <3>1 DEF Tx
    <3>2. CASE p \notin Appliers
      <4>1. p \in Rollbackers /\ chosen[p] = x BY <1>2, <3>2 DEF Tx, Procs
      <4> QED BY <3>2, <4>1, ChosenStays DEF Tx
    <3> QED BY <3>1, <3>2
  <2>3. ~InLoops(p)' BY <2>2 DEF Busied
  <2>4. ProcStep(p)
    <3>1. pc'[p] # pc[p] BY <1>2, <2>3 DEF InLoops
    <3>2. PICK q \in Procs : ProcStep(q)
      BY <1>0, <3>1 DEF Next, vars, Environment, EditFile, DamageBackup, RemoveStaleLock
    <3>3. q = p BY <3>1, <3>2, ProcFrame DEF SameElsewhere
    <3> QED BY <3>2, <3>3
  <2> QED BY <1>2, <2>3, <2>4, LoopsLeave
<1>3. CASE ~Busied(x)
  <2>1. ASSUME NEW t \in Targets PROVE files'[t] = files[t]
    <3>1. ASSUME NEW a \in Appliers, Replaces(a, t) PROVE FALSE
      <4>1. a = x BY DEF Alone
      <4>2. InLoops(a) /\ Tx(a) = x /\ a \in Procs
        BY <3>1, <4>1, Kinds DEF Replaces, ReplaceTarget, InLoops, Commits, Tx
      <4> QED BY <1>3, <4>2 DEF Busied
    <3>2. ASSUME NEW p \in Procs, Reverts(p, t) PROVE FALSE
      <4>1. InLoops(p) /\ pc[p] \in Locked
        BY <3>2 DEF Reverts, RevertTarget, InLoops, Restores, Locked
      <4>2. Tx(p) = x BY <4>1, TxOK DEF Alone
      <4> QED BY <1>3, <4>1, <4>2 DEF Busied
    <3> QED BY <1>0, <3>1, <3>2, FilesStep
  <2>2. PICK i \in Targets : i \in InPlan(x)' /\ files'[i].by = x
    BY DEF Partial, Installed, InPlan
  <2>3. Begun(x) BY <2>1, <2>2 DEF JournalInv, BackupPrecedesInstall, Installed
  <2>4. pc[x] \notin Preparing
    BY <2>3 DEF Begun, JournalInv, PreparingEarly
  <2>5. plan'[x] = plan[x] /\ before'[x] = before[x]
    BY <2>4, LateFrozen DEF Preparing, Frozen
  <2>6. InPlan(x)' = InPlan(x) BY <2>5 DEF InPlan
  <2>7. PICK u \in InPlan(x) : files'[u] = before'[x][u]
    BY <2>6 DEF Partial, Untouched
  <2>8. Partial(x)
    <3>1. ~SharedCapture(x, u)
      BY DEF SharedCapture, Alone, Typed, TypeOK
    <3>2. u \in Targets /\ Untouched(x, u) BY <2>1, <2>5, <2>7, <3>1 DEF Untouched, InPlan
    <3>3. Installed(x, i) /\ i \in InPlan(x) BY <2>1, <2>2, <2>6 DEF Installed
    <3> QED BY <3>2, <3>3 DEF Partial
  <2>9. Excused(x) BY <1>0, <1>3, <2>8 DEF CalmInv, LeftOver
  <2>10. status'[x] \in {"rolling_back", "rollback_failed"}
    <3>1. CASE status' = status BY <2>9, <3>1 DEF Excused
    <3>2. CASE status' # status
      <4>1. PICK p \in Procs : ProcStep(p)
        BY <3>2 DEF Next, vars, Environment, EditFile, DamageBackup, Interrupt, Kill,
          RemoveStaleLock, disk
      <4>2. CASE InLoops(p)
        <5>1. pc[p] \in Locked BY <4>2 DEF InLoops, Commits, Restores, Locked
        <5>2. Tx(p) = x BY <5>1, TxOK DEF Alone
        <5> QED BY <1>3, <4>2, <5>2 DEF Busied
      <4>3. CASE ~InLoops(p)
        <5>1. p \in Appliers => p = x BY DEF Alone
        <5>2. p \in Rollbackers /\ (BeginRollback(p) \/ BeginRollbackFails(p))
          BY <2>4, <3>2, <4>1, <4>3, <5>1, QuietStatus
        <5>3. pc[p] \in Locked BY <5>2 DEF BeginRollback, BeginRollbackFails, Locked
        <5>4. chosen[p] = x BY <5>2, <5>3 DEF Typed, ChosenOK, Alone
        <5> QED
          BY <2>9, <5>2, <5>4 DEF BeginRollback, BeginRollbackFails, SetStatus, Excused,
            Typed, TypeOK
      <4> QED BY <4>2, <4>3
    <3> QED BY <3>1, <3>2
  <2>11. faults' > 1 \/ \E r \in Rollbackers : chosen'[r] = x
    BY <1>1, <2>9, ChosenStays DEF Excused
  <2> QED BY <2>10, <2>11 DEF Excused
<1> QED BY <1>2, <1>3 DEF Busied

LEMMA InitAlone == Init /\ VersionInv => AloneInv
<1> SUFFICES ASSUME Init, VersionInv PROVE CaptureApproved /\ DeletesExist /\ CalmInv
  BY DEF AloneInv
<1>1. \A p \in Procs : pc[p] = "start" BY DEF Init
<1>2. \A x \in Appliers, t \in Targets : files[t].by # x
  BY ConstantsAssumption DEF Init
<1> QED
  BY <1>1, <1>2, Kinds DEF CaptureApproved, Approving, DeletesExist, CalmInv, KnownFiles,
    UndoCost, RollbackWritten, Reverted, LeftOver, Partial, Installed, InPlan, Commits, Restores

LEMMA AloneKept ==
  ASSUME Alone, MaxFaults < 4
  PROVE  AloneInv /\ [Next]_vars /\ VersionInv' => AloneInv'
<1> SUFFICES ASSUME AloneInv, [Next]_vars, VersionInv' PROVE AloneInv'
  OBVIOUS
<1>1. CaptureApproved' BY CaptureKept DEF AloneInv, VersionInv, EngineInv
<1>2. DeletesExist' BY DeletesKept DEF AloneInv, VersionInv
<1>3. ASSUME Calm' PROVE CalmInv'
  <2>1. EngineInv' BY DEF VersionInv
  <2> QED
    BY <1>3, <2>1, KnownKept, CostKept, RollbackWrittenKept, RevertedKept, LeftOverKept
       DEF CalmInv
<1> QED BY <1>1, <1>2, <1>3 DEF AloneInv

\* The only transaction of a scope, which nobody edits and no kill or interrupt
\* hits, is never left half done and unnoticed by up to three errors: when nobody
\* works on it any more it is whole or undone, or its journal says that the undo
\* failed, the undo itself met an error, and every target can still be restored
\* (the except clause of apply_plan, _restore_from_backup_entries).
THEOREM FailureLeavesNothingPartial ==
  ASSUME Alone, MaxFaults < 4 PROVE Spec => []NoPartialState
<1>1. AloneInv => NoPartialState
  <2> SUFFICES ASSUME AloneInv, NEW x \in Appliers, Partial(x), ~Attended(x),
                      stops = 0, edits = 0
               PROVE  /\ status[x] \in {"rolling_back", "rollback_failed"}
                      /\ faults > 1 \/ \E r \in Rollbackers : chosen[r] = x
                      /\ \A t \in InPlan(x) : Restorable(x, t)
    BY DEF NoPartialState
  <2>1. CalmInv BY DEF AloneInv, Calm
  <2>2. ~Busied(x)
    BY DEF Busied, InLoops, Attended, Commits, Restores, Locked
  <2>3. Excused(x) BY <2>1, <2>2 DEF CalmInv, LeftOver
  <2>4. PICK i \in InPlan(x) : files[i].by = x BY DEF Partial, Installed
  <2>5. i \in Targets BY DEF InPlan
  <2>6. status[x] \notin Early
    BY <2>4, <2>5 DEF AloneInv, VersionInv, EngineInv, JournalInv, BackupPrecedesInstall, Begun,
      Installed
  <2>7. pc[x] \notin {"start", "planned"}
    BY <2>6 DEF AloneInv, VersionInv, EngineInv, JournalInv, PreparingEarly, Preparing
  <2>8. ASSUME NEW t \in InPlan(x) PROVE Restorable(x, t)
    <3>1. KnownFiles /\ t \in Targets BY <2>1 DEF CalmInv, InPlan
    <3>2. files[t] = before[x][t] \/ files[t] = [data |-> plan[x][t], by |-> x]
      BY <2>7, <3>1 DEF KnownFiles
    <3> QED BY <3>2 DEF Restorable
  <2> QED BY <2>3, <2>8 DEF Excused
<1>2. Spec => []AloneInv
  BY InitAlone, AloneKept, VersionInvariant, PTL DEF Spec
<1> QED BY <1>1, <1>2, PTL
===============================================================================
