------------------------ MODULE ScopeTransactionProofs ------------------------
(* Theorems about ScopeTransaction, for every set of targets, plans and      *)
(* processes and every number of edits, faults and kills.                    *)
EXTENDS ScopeTransaction, TLAPS

\* The members of the enumerated sets, one by one.
LEMMA LabelMembers ==
  /\ "start" \in Labels /\ "planned" \in Labels /\ "resolved" \in Labels
  /\ "read" \in Labels /\ "done" \in Labels /\ "killed" \in Labels
  /\ "locked" \in Labels /\ "claimed" \in Labels /\ "saved" \in Labels
  /\ "staged" \in Labels /\ "publishing" \in Labels /\ "prepared" \in Labels
  /\ "checked" \in Labels /\ "committing" \in Labels /\ "replacing" \in Labels
  /\ "undo" \in Labels /\ "rollback" \in Labels /\ "restaging" \in Labels
  /\ "restoring" \in Labels /\ "reverting" \in Labels /\ "releasing" \in Labels
BY DEF Labels, Locked

LEMMA StatusMembers ==
  /\ "none" \in Statuses /\ "torn" \in Statuses /\ "prepared" \in Statuses
  /\ "committing" \in Statuses /\ "committed" \in Statuses
  /\ "rolling_back" \in Statuses /\ "rollback_failed" \in Statuses
  /\ "rolled_back" \in Statuses
  /\ \A s \in Rollbackable : s \in Statuses
BY DEF Statuses, Rollbackable

\* Which processes and which stamps there are, and that the bounds are numbers.
LEMMA Kinds ==
  /\ \A a \in Appliers : a \in Procs /\ a \in Stamps
  /\ \A r \in Rollbackers : r \in Procs
  /\ \A n \in 0 .. MaxEdits : n \in Stamps
  /\ MaxEdits \in Nat /\ MaxFaults \in Nat /\ MaxStops \in Nat
BY ConstantsAssumption DEF Procs, Stamps

\* A rollbacker past its read of the journal has a transaction.
ChosenOK ==
  \A r \in Rollbackers : pc[r] \in Locked \cup {"read"} => chosen[r] \in Appliers

\* The commit loop visits targets of the plan only, so no Keep is installed.
TodoOK ==
  \A a \in Appliers : pc[a] \in {"committing", "replacing"} => todo[a] \subseteq InPlan(a)

\* TypeOK alone is not inductive: the restore of a rollbacker takes its versions
\* from the transaction it chose, and the commit loop its data from the plan.
Typed == TypeOK /\ ChosenOK /\ TodoOK

LEMMA InitTyped == Init => Typed
BY ConstantsAssumption, LabelMembers, StatusMembers, Kinds 
   DEF Init, Typed, ChosenOK, TodoOK, TypeOK, File, Stamps, State, Locked

LEMMA FaultTyped == TypeOK /\ (Fault \/ NoFault) => faults' \in 0 .. MaxFaults
BY Kinds DEF TypeOK, Fault, NoFault

LEMMA LockTyped ==
  ASSUME TypeOK, NEW p \in Procs, LockStep(p)
  PROVE  TypeOK'
<1> USE FaultTyped, LabelMembers DEF TypeOK, disk, local, Goto
<1>1. CASE AcquireLock(p) BY <1>1 DEF AcquireLock
<1>2. CASE Busy(p) BY <1>2 DEF Busy
<1>3. CASE AcquireFails(p) BY <1>3 DEF AcquireFails
<1>4. CASE Release(p) BY <1>4 DEF Release
<1> QED BY <1>1, <1>2, <1>3, <1>4 DEF LockStep

LEMMA RestoreTyped ==
  ASSUME Typed, NEW p \in Procs, RestoreStep(p)
  PROVE  TypeOK'
<1> USE FaultTyped, LabelMembers DEF Typed, TypeOK, disk, local, Goto
<1>1. CASE StageRestore(p) BY <1>1 DEF StageRestore, InPlan
<1>2. CASE StageRestoreFails(p) BY <1>2 DEF StageRestoreFails
<1>3. CASE CheckRestore(p) BY <1>3 DEF CheckRestore
<1>4. CASE SkipTarget(p) BY <1>4 DEF SkipTarget
<1>5. CASE RevertTarget(p)
  <2>1. Tx(p) \in Appliers BY <1>5 DEF RevertTarget, ChosenOK, Tx, Procs, Locked
  <2> QED BY <1>5, <2>1 DEF RevertTarget
<1>6. CASE FinishRestore(p) BY <1>6, StatusMembers DEF FinishRestore, Outcome, SetStatus
<1> QED BY <1>1, <1>2, <1>3, <1>4, <1>5, <1>6 DEF RestoreStep

LEMMA RollbackTyped ==
  ASSUME TypeOK, NEW r \in Rollbackers, RollbackStep(r)
  PROVE  TypeOK'
<1> USE FaultTyped, LabelMembers DEF TypeOK, disk, local, Goto
<1>1. CASE ReadJournal(r)
  <2>1. PICK x \in Appliers : /\ status[x] \in Rollbackable
                             /\ chosen' = [chosen EXCEPT ![r] = x]
                             /\ seen' = [seen EXCEPT ![r] = status[x]]
    BY <1>1 DEF ReadJournal
  <2> QED BY <1>1, <2>1 DEF ReadJournal
<1>2. CASE RefuseJournal(r) BY <1>2 DEF RefuseJournal
<1>3. CASE Preflight(r) BY <1>3 DEF Preflight
<1>4. CASE PreflightFails(r) BY <1>4 DEF PreflightFails
<1>5. CASE BeginRollback(r) BY <1>5, StatusMembers DEF BeginRollback, SetStatus
<1>6. CASE BeginRollbackFails(r) BY <1>6, StatusMembers DEF BeginRollbackFails, SetStatus
<1> QED BY <1>1, <1>2, <1>3, <1>4, <1>5, <1>6 DEF RollbackStep

LEMMA ApplyTyped ==
  ASSUME Typed, NEW a \in Appliers, ApplyStep(a)
  PROVE  TypeOK'
<1> USE FaultTyped, LabelMembers DEF Typed, TypeOK, disk, local, Goto
<1>1. CASE MakePlan(a)
  <2>1. \A d \in Plans[a] : d \in [Targets -> State \cup {Keep}] BY ConstantsAssumption
  <2>2. \A t \in Targets : files[t].data \in State BY DEF File
  <2>3. plan' \in [Appliers -> [Targets -> State \cup {Keep}]] BY <1>1, <2>1 DEF MakePlan
  <2>4. expected' \in [Appliers -> [Targets -> State]] BY <1>1, <2>2 DEF MakePlan
  <2> QED BY <1>1, <2>3, <2>4 DEF MakePlan
<1>2. CASE Resolve(a) BY <1>2 DEF Resolve
<1>3. CASE RefusePlan(a) BY <1>3 DEF RefusePlan
<1>4. CASE Claim(a) BY <1>4 DEF Claim
<1>5. CASE ClaimFails(a) BY <1>5 DEF ClaimFails
<1>6. CASE Backup(a) BY <1>6 DEF Backup
<1>7. CASE Stage(a) BY <1>7 DEF Stage
<1>8. CASE PrepareFails(a)
  <2>1. faults' \in 0 .. MaxFaults BY <1>8, Kinds DEF PrepareFails
  <2>2. claim' \in [Appliers -> {"none", "preparing", "prepare_failed"}]
    BY <1>8 DEF PrepareFails
  <2>3. status' \in [Appliers -> Statuses]
    BY <1>8, StatusMembers DEF PrepareFails, SetStatus
  <2> QED BY <1>8, <2>1, <2>2, <2>3 DEF PrepareFails
<1>9. CASE OpenJournal(a) BY <1>9, StatusMembers DEF OpenJournal, SetStatus
<1>10. CASE PublishJournal(a) BY <1>10, StatusMembers DEF PublishJournal, SetStatus
<1>11. CASE Recheck(a) BY <1>11 DEF Recheck
<1>12. CASE RecheckFails(a) BY <1>12 DEF RecheckFails
<1>13. CASE BeginCommit(a) BY <1>13, StatusMembers DEF BeginCommit, SetStatus, InPlan
<1>14. CASE BeginCommitFails(a)
  <2>1. status' \in [Appliers -> Statuses] BY <1>14, StatusMembers DEF BeginCommitFails, SetStatus
  <2> QED BY <1>14, <2>1 DEF BeginCommitFails
<1>15. CASE CheckTarget(a) BY <1>15 DEF CheckTarget
<1>16. CASE CheckTargetFails(a) BY <1>16 DEF CheckTargetFails
<1>17. CASE ReplaceTarget(a)
  <2>1. PICK t \in Targets : /\ At(a, t)
                             /\ files' = [files EXCEPT ![t] = [data |-> plan[a][t], by |-> a]]
                             /\ todo' = [todo EXCEPT ![a] = @ \ {t}]
    BY <1>17 DEF ReplaceTarget
  <2>2. plan[a][t] \in State BY <1>17, <2>1 DEF ReplaceTarget, TodoOK, At, InPlan
  <2>3. [data |-> plan[a][t], by |-> a] \in File BY <2>2, Kinds DEF File
  <2> QED BY <1>17, <2>1, <2>3 DEF ReplaceTarget
<1>18. CASE ReplaceTargetFails(a) BY <1>18 DEF ReplaceTargetFails
<1>19. CASE Commit(a) BY <1>19, StatusMembers DEF Commit, SetStatus
<1>20. CASE CommitFails(a)
  <2>1. status' \in [Appliers -> Statuses] BY <1>20, StatusMembers DEF CommitFails, SetStatus
  <2> QED BY <1>20, <2>1 DEF CommitFails
<1>21. CASE BeginUndo(a) BY <1>21, StatusMembers DEF BeginUndo, SetStatus
<1> QED BY <1>1, <1>2, <1>3, <1>4, <1>5, <1>6, <1>7, <1>8, <1>9, <1>10, <1>11,
    <1>12, <1>13, <1>14, <1>15, <1>16, <1>17, <1>18, <1>19, <1>20, <1>21 DEF
    ApplyStep

LEMMA EnvironmentTyped == TypeOK /\ Environment => TypeOK'
<1> USE FaultTyped, LabelMembers, Kinds DEF TypeOK, disk, local, Goto
<1> SUFFICES ASSUME TypeOK, Environment PROVE TypeOK' OBVIOUS
<1>1. ASSUME NEW t \in Targets, EditFile(t) PROVE TypeOK'
  <2>1. PICK d \in EditData : files' = [files EXCEPT ![t] = [data |-> d, by |-> edits']]
    BY <1>1 DEF EditFile
  <2>2. edits' \in 0 .. MaxEdits BY <1>1 DEF EditFile
  <2>3. [data |-> d, by |-> edits'] \in File BY <2>2, ConstantsAssumption DEF File
  <2> QED BY <1>1, <2>1, <2>2, <2>3 DEF EditFile
<1>2. ASSUME NEW x \in Appliers, DamageBackup(x) PROVE TypeOK'
  BY <1>2 DEF DamageBackup
<1>3. ASSUME NEW p \in Procs, Interrupt(p) PROVE TypeOK' BY <1>3 DEF Interrupt
<1>4. ASSUME NEW p \in Procs, Kill(p) PROVE TypeOK' BY <1>4 DEF Kill
<1>5. CASE RemoveStaleLock BY <1>5 DEF RemoveStaleLock
<1> QED BY <1>1, <1>2, <1>3, <1>4, <1>5 DEF Environment

-------------------------------------------------------------------------------
(* What a step of a process leaves alone: the control of other processes and *)
(* the transactions they work on.                                            *)

SameElsewhere(p) ==
  /\ \A q \in Procs \ {p} : pc'[q] = pc[q] /\ todo'[q] = todo[q]
  /\ \A a \in Appliers \ {p} :
       plan'[a] = plan[a] /\ expected'[a] = expected[a] /\ before'[a] = before[a]
  /\ \A r \in Rollbackers \ {p} : chosen'[r] = chosen[r]

\* The plan is fixed once it is made, the captured versions once resolved.
PlanFixed(p) ==
  \A a \in Appliers :
    /\ pc[a] # "start" => plan'[a] = plan[a] /\ expected'[a] = expected[a]
    /\ pc[a] \notin {"start", "planned"} => before'[a] = before[a]

LEMMA LockFrame ==
  ASSUME TypeOK, NEW p \in Procs, LockStep(p) \/ RestoreStep(p)
  PROVE  SameElsewhere(p) /\ PlanFixed(p) /\ UNCHANGED chosen
<1> USE DEF TypeOK, SameElsewhere, PlanFixed, disk, local, Goto
<1>1. CASE LockStep(p) BY <1>1 DEF LockStep, AcquireLock, Busy, AcquireFails, Release
<1>2. CASE RestoreStep(p)
  BY <1>2 DEF RestoreStep, StageRestore, StageRestoreFails, CheckRestore, SkipTarget,
    RevertTarget, FinishRestore
<1> QED BY <1>1, <1>2

LEMMA RollbackFrame ==
  ASSUME TypeOK, NEW r \in Rollbackers, RollbackStep(r)
  PROVE  SameElsewhere(r) /\ PlanFixed(r)
BY Kinds DEF TypeOK, SameElsewhere, PlanFixed, disk, local, Goto, RollbackStep,
  ReadJournal, RefuseJournal, Preflight, PreflightFails, BeginRollback, BeginRollbackFails

LEMMA ApplyFrame ==
  ASSUME TypeOK, NEW a \in Appliers, ApplyStep(a)
  PROVE  SameElsewhere(a) /\ PlanFixed(a) /\ UNCHANGED chosen
<1> USE DEF TypeOK, SameElsewhere, PlanFixed, disk, local, Goto
<1>1. CASE MakePlan(a) \/ Resolve(a) BY <1>1 DEF MakePlan, Resolve
<1>2. CASE RefusePlan(a) \/ Claim(a) \/ ClaimFails(a) \/ Backup(a) \/ Stage(a)
  BY <1>2 DEF RefusePlan, Claim, ClaimFails, Backup, Stage
<1>3. CASE \/ PrepareFails(a) \/ OpenJournal(a) \/ PublishJournal(a)
           \/ Recheck(a) \/ RecheckFails(a)
  BY <1>3 DEF PrepareFails, OpenJournal, PublishJournal, Recheck, RecheckFails
<1>4. CASE BeginCommit(a) \/ BeginCommitFails(a) \/ CheckTarget(a) \/ CheckTargetFails(a)
  BY <1>4 DEF BeginCommit, BeginCommitFails, CheckTarget, CheckTargetFails
<1>5. CASE \/ ReplaceTarget(a) \/ ReplaceTargetFails(a)
           \/ Commit(a) \/ CommitFails(a) \/ BeginUndo(a)
  BY <1>5 DEF ReplaceTarget, ReplaceTargetFails, Commit, CommitFails, BeginUndo
<1> QED BY <1>1, <1>2, <1>3, <1>4, <1>5 DEF ApplyStep

LEMMA ProcFrame ==
  ASSUME Typed, NEW p \in Procs, ProcStep(p)
  PROVE  SameElsewhere(p) /\ PlanFixed(p)
BY LockFrame, RollbackFrame, ApplyFrame DEF ProcStep, Typed

\* The environment stops processes; it never moves one on.
LEMMA EnvironmentFrame ==
  ASSUME TypeOK, Environment
  PROVE  /\ UNCHANGED local
         /\ \A p \in Procs : pc'[p] = pc[p] \/ pc'[p] \in {"done", "killed"}
BY DEF TypeOK, Environment, EditFile, DamageBackup, Interrupt, Kill, RemoveStaleLock, disk, Goto

LEMMA ApplyTodo ==
  ASSUME Typed, NEW a \in Appliers, ApplyStep(a)
  PROVE  pc'[a] \in {"committing", "replacing"} => todo'[a] \subseteq InPlan(a)
<1> USE Kinds DEF Typed, TodoOK, TypeOK, disk, local, Goto
<1>1. CASE BeginCommit(a) BY <1>1 DEF BeginCommit
<1>2. CASE CheckTarget(a) BY <1>2 DEF CheckTarget
<1>3. CASE ReplaceTarget(a) BY <1>3 DEF ReplaceTarget
<1>4. CASE ~(BeginCommit(a) \/ CheckTarget(a) \/ ReplaceTarget(a))
  BY <1>4 DEF ApplyStep, MakePlan, Resolve, RefusePlan, Claim, ClaimFails, Backup, Stage,
    PrepareFails, OpenJournal, PublishJournal, Recheck, RecheckFails, BeginCommitFails,
    CheckTargetFails, ReplaceTargetFails, Commit, CommitFails, BeginUndo
<1> QED BY <1>1, <1>2, <1>3, <1>4

\* The steps that lead into a loop of the commit are steps of an apply.
LEMMA RestOutsideCommit ==
  ASSUME Typed, NEW p \in Procs, LockStep(p) \/ RestoreStep(p) \/ (p \in Rollbackers /\ RollbackStep(p))
  PROVE  pc'[p] \notin {"committing", "replacing"}
BY DEF Typed, TypeOK, Goto, LockStep, AcquireLock, Busy, AcquireFails, Release, RestoreStep,
  StageRestore, StageRestoreFails, CheckRestore, SkipTarget, RevertTarget, FinishRestore,
  RollbackStep, ReadJournal, RefuseJournal, Preflight, PreflightFails, BeginRollback,
  BeginRollbackFails

LEMMA ApplyMoves ==
  ASSUME Typed, NEW a \in Appliers, ApplyStep(a), pc'[a] \in {"committing", "replacing"}
  PROVE  pc[a] # "start"
BY Kinds DEF Typed, TypeOK, Goto, ApplyStep, MakePlan, Resolve, RefusePlan, Claim,
  ClaimFails, Backup, Stage, PrepareFails, OpenJournal, PublishJournal, Recheck, RecheckFails,
  BeginCommit, BeginCommitFails, CheckTarget, CheckTargetFails, ReplaceTarget,
  ReplaceTargetFails, Commit, CommitFails, BeginUndo

LEMMA TodoKept == Typed /\ [Next]_vars => TodoOK'
<1> SUFFICES ASSUME Typed, [Next]_vars, NEW a \in Appliers,
                    pc'[a] \in {"committing", "replacing"}
             PROVE  todo'[a] \subseteq InPlan(a)'
  BY DEF TodoOK
<1> USE DEF InPlan
<1>1. ASSUME NEW p \in Procs, ProcStep(p) PROVE todo'[a] \subseteq InPlan(a)'
  <2>0. a \in Procs BY Kinds
  <2>1. CASE p = a
    <3>1. ApplyStep(a) BY <1>1, <2>1, RestOutsideCommit DEF ProcStep
    <3>2. pc[a] # "start" BY <3>1, ApplyMoves
    <3> QED BY <1>1, <2>1, <3>1, <3>2, ApplyTodo, ProcFrame DEF PlanFixed
  <2>2. CASE p # a
    BY <1>1, <2>0, <2>2, ProcFrame DEF SameElsewhere, Typed, TodoOK
  <2> QED BY <2>1, <2>2
<1>2. CASE Environment
  BY <1>2, Kinds, EnvironmentFrame DEF Typed, TodoOK, local
<1>3. CASE UNCHANGED vars BY <1>3 DEF vars, local, Typed, TodoOK
<1> QED BY <1>1, <1>2, <1>3 DEF Next

\* A rollbacker works under the lock only after it read a journal.
LEMMA RollbackChosen ==
  ASSUME Typed, NEW r \in Rollbackers, ProcStep(r), pc'[r] \in Locked \cup {"read"}
  PROVE  chosen'[r] \in Appliers
<1> USE Kinds DEF Typed, TypeOK, ChosenOK, Goto, local, Locked
<1>1. r \notin Appliers BY ConstantsAssumption
<1>2. CASE ReadJournal(r) BY <1>2 DEF ReadJournal
<1>3. CASE LockStep(r)
  BY <1>1, <1>3 DEF LockStep, AcquireLock, Busy, AcquireFails, Release, AtLock
<1>4. CASE RestoreStep(r)
  BY <1>4 DEF RestoreStep, StageRestore, StageRestoreFails, CheckRestore, SkipTarget,
    RevertTarget, FinishRestore
<1>5. CASE RollbackStep(r) /\ ~ReadJournal(r)
  BY <1>5 DEF RollbackStep, RefuseJournal, Preflight, PreflightFails, BeginRollback,
    BeginRollbackFails
<1> QED BY <1>1, <1>2, <1>3, <1>4, <1>5 DEF ProcStep

LEMMA ChosenKept == Typed /\ [Next]_vars => ChosenOK'
<1> SUFFICES ASSUME Typed, [Next]_vars, NEW r \in Rollbackers,
                    pc'[r] \in Locked \cup {"read"}
             PROVE  chosen'[r] \in Appliers
  BY DEF ChosenOK
<1>1. ASSUME NEW p \in Procs, ProcStep(p) PROVE chosen'[r] \in Appliers
  <2>1. CASE p = r BY <1>1, <2>1, RollbackChosen
  <2>2. CASE p # r BY <1>1, <2>2, Kinds, ProcFrame DEF SameElsewhere, Typed, ChosenOK
  <2> QED BY <2>1, <2>2
<1>2. CASE Environment
  BY <1>2, Kinds, EnvironmentFrame DEF Typed, ChosenOK, local, Locked
<1>3. CASE UNCHANGED vars BY <1>3 DEF vars, local, Typed, ChosenOK
<1> QED BY <1>1, <1>2, <1>3 DEF Next

LEMMA TypedKept == Typed /\ [Next]_vars => Typed'
<1> SUFFICES ASSUME Typed, [Next]_vars PROVE TypeOK'
  BY TodoKept, ChosenKept DEF Typed
<1>1. ASSUME NEW p \in Procs, ProcStep(p) PROVE TypeOK'
  BY <1>1, LockTyped, RestoreTyped, RollbackTyped, ApplyTyped DEF ProcStep, Typed
<1>2. CASE Environment BY <1>2, EnvironmentTyped DEF Typed
<1>3. CASE UNCHANGED vars BY <1>3 DEF vars, disk, local, Typed, TypeOK
<1> QED BY <1>1, <1>2, <1>3 DEF Next

\* Every variable keeps its type: in particular nothing but the data of plans,
\* edits and captured files ever reaches a target.
THEOREM TypeCorrect == Spec => []TypeOK
<1>1. Spec => []Typed BY InitTyped, TypedKept, PTL DEF Spec
<1> QED BY <1>1, PTL DEF Typed

-------------------------------------------------------------------------------
(* The scope lock.                                                           *)

\* While nothing failed and nothing was stopped, the owner of the lock file is
\* in its critical section.
OwnerLocked == lock \in Procs /\ stops = 0 /\ faults = 0 => pc[lock] \in Locked

LockInv == Typed /\ LockHeld /\ OwnerLocked

\* What a step of p does to the lock file.
LockEffect(p) ==
  /\ pc'[p] \in Locked => lock' = p
  /\ lock' # lock => lock \in {NoProc, p}
  /\ lock' \in {NoProc, lock, p}
  /\ lock' = p /\ stops' = 0 /\ faults' = 0 => pc'[p] \in Locked

LEMMA LockStepEffect ==
  ASSUME LockInv, NEW p \in Procs, LockStep(p)
  PROVE  LockEffect(p)
BY ConstantsAssumption DEF LockEffect, LockInv, Typed, TypeOK, LockHeld, OwnerLocked,
  LockStep, AcquireLock, Busy, AcquireFails, Release, AtLock, LockFree, Locked, Goto, Fault,
  NoFault, disk

\* Only LockStep enters or leaves the critical section.
LEMMA OthersKeepLock ==
  ASSUME Typed, NEW p \in Procs, ProcStep(p), ~LockStep(p)
  PROVE  /\ UNCHANGED <<lock, stops>>
         /\ pc'[p] \in Locked <=> pc[p] \in Locked
         /\ faults' = 0 => faults = 0
<1> USE Kinds DEF Typed, TypeOK, Locked, Goto, Fault, NoFault, disk
<1>1. CASE RestoreStep(p)
  BY <1>1 DEF RestoreStep, StageRestore, StageRestoreFails, CheckRestore, SkipTarget,
    RevertTarget, FinishRestore
<1>2. CASE p \in Rollbackers /\ RollbackStep(p)
  BY <1>2 DEF RollbackStep, ReadJournal, RefuseJournal, Preflight, PreflightFails,
    BeginRollback, BeginRollbackFails
<1>3. CASE p \in Appliers /\ ApplyStep(p)
  <2>1. CASE \/ MakePlan(p) \/ Resolve(p) \/ RefusePlan(p) \/ Claim(p) \/ ClaimFails(p)
             \/ Backup(p) \/ Stage(p)
    BY <2>1 DEF MakePlan, Resolve, RefusePlan, Claim, ClaimFails, Backup, Stage
  <2>2. CASE PrepareFails(p) BY <1>3, <2>2 DEF PrepareFails
  <2>3. CASE OpenJournal(p) \/ PublishJournal(p) \/ Recheck(p) \/ RecheckFails(p)
    BY <2>3 DEF OpenJournal, PublishJournal, Recheck, RecheckFails
  <2>4. CASE BeginCommit(p) \/ BeginCommitFails(p) \/ CheckTarget(p)
    BY <2>4 DEF BeginCommit, BeginCommitFails, CheckTarget
  <2>5. CASE CheckTargetFails(p) BY <2>5 DEF CheckTargetFails
  <2>6. CASE ReplaceTarget(p) \/ ReplaceTargetFails(p)
    BY <2>6 DEF ReplaceTarget, ReplaceTargetFails
  <2>7. CASE Commit(p) \/ CommitFails(p) \/ BeginUndo(p)
    BY <2>7 DEF Commit, CommitFails, BeginUndo
  <2> QED BY <1>3, <2>1, <2>2, <2>3, <2>4, <2>5, <2>6, <2>7 DEF ApplyStep
<1> QED BY <1>1, <1>2, <1>3 DEF ProcStep

LEMMA ProcEffect ==
  ASSUME LockInv, NEW p \in Procs, ProcStep(p)
  PROVE  LockEffect(p)
<1>1. CASE LockStep(p) BY <1>1, LockStepEffect
<1>2. CASE ~LockStep(p)
  BY <1>2, OthersKeepLock DEF LockEffect, LockInv, LockHeld, OwnerLocked
<1> QED BY <1>1, <1>2

LEMMA StopsKept ==
  ASSUME Typed, NEW p \in Procs, ProcStep(p)
  PROVE  stops' = stops /\ (faults' = 0 => faults = 0)
<1>1. CASE LockStep(p)
  BY <1>1, Kinds DEF Typed, TypeOK, LockStep, AcquireLock, Busy, AcquireFails, Release,
    Fault, NoFault
<1> QED BY <1>1, OthersKeepLock

LEMMA LockInvKept == LockInv /\ [Next]_vars => LockInv'
<1> SUFFICES ASSUME LockInv, [Next]_vars PROVE LockHeld' /\ OwnerLocked'
  BY TypedKept DEF LockInv
<1> USE DEF LockInv, LockHeld, OwnerLocked
<1>0. NoProc \notin Procs BY ConstantsAssumption
<1>1. ASSUME NEW p \in Procs, ProcStep(p) PROVE LockHeld' /\ OwnerLocked'
  <2>1. LockEffect(p) /\ SameElsewhere(p) BY <1>1, ProcEffect, ProcFrame
  <2>2. LockHeld'
    <3> SUFFICES ASSUME NEW q \in Procs, pc'[q] \in Locked PROVE lock' = q OBVIOUS
    <3>1. CASE q = p BY <2>1, <3>1 DEF LockEffect
    <3>2. CASE q # p
      <4>1. lock = q BY <2>1, <3>2 DEF SameElsewhere
      <4> QED BY <1>0, <2>1, <3>2, <4>1 DEF LockEffect
    <3> QED BY <3>1, <3>2
  <2>3. OwnerLocked'
    <3> SUFFICES ASSUME lock' \in Procs, stops' = 0, faults' = 0
                 PROVE  pc'[lock'] \in Locked
      OBVIOUS
    <3>1. CASE lock' = p BY <2>1, <3>1 DEF LockEffect
    <3>2. CASE lock' # p
      <4>1. lock = lock' BY <1>0, <2>1, <3>2 DEF LockEffect
      <4>2. stops = 0 /\ faults = 0 BY <1>1, StopsKept
      <4> QED BY <2>1, <3>2, <4>1, <4>2 DEF SameElsewhere
    <3> QED BY <3>1, <3>2
  <2> QED BY <2>2, <2>3
<1>2. CASE Environment
  <2> USE <1>0, Kinds DEF Typed, TypeOK, Goto, disk
  <2>1. ASSUME NEW t \in Targets, EditFile(t) PROVE LockHeld' /\ OwnerLocked'
    BY <2>1 DEF EditFile
  <2>2. ASSUME NEW x \in Appliers, DamageBackup(x) PROVE LockHeld' /\ OwnerLocked'
    BY <2>2 DEF DamageBackup, Fault
  <2>3. ASSUME NEW p \in Procs, Interrupt(p) PROVE LockHeld' /\ OwnerLocked'
    BY <2>3 DEF Interrupt, Running, LockFree, Locked
  <2>4. ASSUME NEW p \in Procs, Kill(p) PROVE LockHeld' /\ OwnerLocked'
    BY <2>4 DEF Kill, Running, Locked
  <2>5. CASE RemoveStaleLock BY <2>5 DEF RemoveStaleLock, Running, Locked
  <2> QED BY <1>2, <2>1, <2>2, <2>3, <2>4, <2>5 DEF Environment
<1>3. CASE UNCHANGED vars BY <1>3 DEF vars, disk
<1> QED BY <1>1, <1>2, <1>3 DEF Next

LEMMA InitLockInv == Init => LockInv
BY InitTyped, ConstantsAssumption DEF Init, LockInv, LockHeld, OwnerLocked, Locked

LEMMA LockInvariant == Spec => []LockInv
BY InitLockInv, LockInvKept, PTL DEF Spec

\* No two processes are ever between __enter__ and __exit__ of the scope lock,
\* whatever fails and whoever is stopped.
THEOREM LockExcludes == Spec => []LockHeld
BY LockInvariant, PTL DEF LockInv

\* No path of the engine but a failing release, a failing acquisition, an
\* interrupt or a kill leaves a lock file behind.
THEOREM LockReleased == Spec => []NoOrphanLock
<1>1. LockInv => NoOrphanLock
  BY ConstantsAssumption DEF LockInv, Typed, TypeOK, OwnerLocked, NoOrphanLock, Running, Locked
<1> QED BY <1>1, LockInvariant, PTL

-------------------------------------------------------------------------------
(* What an apply overwrites.                                                 *)

\* Control points of an apply after _verify_pre_state, up to its last replace.
Approving == {"claimed", "saved", "staged", "publishing", "prepared", "checked",
              "committing", "replacing"}

\* The captured versions are the ones the plan was approved for.
CaptureApproved == \A a \in Appliers : pc[a] \in Approving => PreStateOK(a)

\* Between the last hash check and the replace the target does not change.
WindowClosed ==
  \A a \in Appliers : pc[a] = "replacing" =>
    \A t \in Targets : At(a, t) => files[t].data = before[a][t].data

ApplyInv == LockInv /\ CaptureApproved /\ WindowClosed

LEMMA ApplyApproves ==
  ASSUME LockInv, CaptureApproved, NEW a \in Appliers, ProcStep(a), pc'[a] \in Approving
  PROVE  PreStateOK(a) /\ pc[a] \notin {"start", "planned"}
<1> USE Kinds DEF CaptureApproved, LockInv, Typed, TypeOK, Approving, Goto
<1>1. CASE ApplyStep(a)
  BY <1>1 DEF ApplyStep, MakePlan, Resolve, RefusePlan, Claim, ClaimFails, Backup, Stage,
    PrepareFails, OpenJournal, PublishJournal, Recheck, RecheckFails, BeginCommit,
    BeginCommitFails, CheckTarget, CheckTargetFails, ReplaceTarget, ReplaceTargetFails,
    Commit, CommitFails, BeginUndo
<1>2. CASE ~ApplyStep(a)
  <2>1. a \notin Rollbackers BY ConstantsAssumption
  <2> QED
    BY <1>2, <2>1 DEF ProcStep, LockStep, AcquireLock, Busy, AcquireFails, Release, RestoreStep,
      StageRestore, StageRestoreFails, CheckRestore, SkipTarget, RevertTarget, FinishRestore
<1> QED BY <1>1, <1>2

LEMMA CaptureKept == LockInv /\ CaptureApproved /\ [Next]_vars => CaptureApproved'
<1> SUFFICES ASSUME LockInv, CaptureApproved, [Next]_vars, NEW a \in Appliers,
                    pc'[a] \in Approving
             PROVE  PreStateOK(a)'
  BY DEF CaptureApproved
<1> USE DEF PreStateOK, InPlan
<1>0. a \in Procs BY Kinds
<1>1. ASSUME NEW p \in Procs, ProcStep(p) PROVE PreStateOK(a)'
  <2>0. SameElsewhere(p) /\ PlanFixed(p) BY <1>1, ProcFrame DEF LockInv
  <2>1. CASE p = a BY <1>1, <2>0, <2>1, ApplyApproves DEF PlanFixed
  <2>2. CASE p # a BY <1>0, <2>0, <2>2 DEF SameElsewhere, CaptureApproved
  <2> QED BY <2>1, <2>2
<1>2. CASE Environment
  BY <1>0, <1>2, EnvironmentFrame DEF LockInv, Typed, local, CaptureApproved, Approving
<1>3. CASE UNCHANGED vars BY <1>3 DEF vars, local, CaptureApproved
<1> QED BY <1>1, <1>2, <1>3 DEF Next

\* A process changes a target only between its own check and its own replace.
LEMMA FilesKept ==
  ASSUME Typed, NEW p \in Procs, ProcStep(p), pc[p] \notin {"replacing", "reverting"}
  PROVE  UNCHANGED files
<1> USE DEF disk
<1>1. CASE LockStep(p) BY <1>1 DEF LockStep, AcquireLock, Busy, AcquireFails, Release
<1>2. CASE RestoreStep(p)
  BY <1>2 DEF RestoreStep, StageRestore, StageRestoreFails, CheckRestore, SkipTarget,
    RevertTarget, FinishRestore
<1>3. CASE RollbackStep(p)
  BY <1>3 DEF RollbackStep, ReadJournal, RefuseJournal, Preflight, PreflightFails,
    BeginRollback, BeginRollbackFails
<1>4. CASE ApplyStep(p)
  BY <1>4 DEF ApplyStep, MakePlan, Resolve, RefusePlan, Claim, ClaimFails, Backup, Stage,
    PrepareFails, OpenJournal, PublishJournal, Recheck, RecheckFails, BeginCommit,
    BeginCommitFails, CheckTarget, CheckTargetFails, ReplaceTarget, ReplaceTargetFails,
    Commit, CommitFails, BeginUndo
<1> QED BY <1>1, <1>2, <1>3, <1>4 DEF ProcStep

LEMMA EntersWindow ==
  ASSUME Typed, NEW a \in Appliers, ProcStep(a), pc'[a] = "replacing"
  PROVE  /\ UNCHANGED <<files, before, todo>>
         /\ \A t \in Targets : At(a, t) => files[t].data = before[a][t].data
<1> USE Kinds DEF Typed, TypeOK, Goto
<1>1. CheckTarget(a)
  <2>1. a \notin Rollbackers BY ConstantsAssumption
  <2>2. ApplyStep(a)
    BY <2>1, RestOutsideCommit DEF ProcStep
  <2> QED
    BY <2>2 DEF ApplyStep, MakePlan, Resolve, RefusePlan, Claim, ClaimFails, Backup, Stage,
      PrepareFails, OpenJournal, PublishJournal, Recheck, RecheckFails, BeginCommit,
      BeginCommitFails, CheckTargetFails, ReplaceTarget, ReplaceTargetFails,
      Commit, CommitFails, BeginUndo
<1>2. UNCHANGED <<files, before, todo>> BY <1>1 DEF CheckTarget, disk, local
<1>3. \A t, u \in Targets : At(a, t) /\ At(a, u) => t = u
  BY ConstantsAssumption DEF At
<1> QED BY <1>1, <1>2, <1>3 DEF CheckTarget, Unchanged

\* In the window an apply replaces the target or gives up.
LEMMA OnlyReplace ==
  ASSUME Typed, NEW a \in Appliers, ProcStep(a), pc[a] = "replacing", files' # files
  PROVE  ReplaceTarget(a)
<1>1. a \notin Rollbackers BY ConstantsAssumption
<1> QED
  BY <1>1, Kinds DEF ProcStep, LockStep, AcquireLock, Busy, AcquireFails, Release, RestoreStep,
    StageRestore, StageRestoreFails, CheckRestore, SkipTarget, RevertTarget, FinishRestore,
    ApplyStep, MakePlan, Resolve, RefusePlan, Claim, ClaimFails, Backup, Stage,
    PrepareFails, OpenJournal, PublishJournal, Recheck, RecheckFails, BeginCommit,
    BeginCommitFails, CheckTarget, CheckTargetFails, ReplaceTargetFails, Commit, CommitFails,
    BeginUndo, disk

LEMMA WindowKept ==
  ASSUME ApplyInv, [Next]_vars, ~EditsInWindow
  PROVE  WindowClosed'
<1> SUFFICES ASSUME NEW a \in Appliers, pc'[a] = "replacing", NEW t \in Targets, At(a, t)'
             PROVE  files'[t].data = before'[a][t].data
  BY DEF WindowClosed
<1> USE DEF ApplyInv, LockInv, LockHeld, WindowClosed
<1>0. a \in Procs BY Kinds
<1>1. ASSUME NEW p \in Procs, ProcStep(p) PROVE files'[t].data = before'[a][t].data
  <2>1. CASE p = a BY <1>1, <2>1, EntersWindow DEF At
  <2>2. CASE p # a
    <3>1. pc[a] = "replacing" /\ todo'[a] = todo[a] /\ before'[a] = before[a]
      BY <1>0, <1>1, <2>2, ProcFrame DEF SameElsewhere
    <3>2. UNCHANGED files
      BY <1>0, <1>1, <2>2, <3>1, FilesKept DEF Locked
    <3> QED BY <3>1, <3>2 DEF At
  <2> QED BY <2>1, <2>2
<1>2. CASE Environment
  <2>1. pc[a] = "replacing" /\ UNCHANGED <<todo, before>>
    BY <1>0, <1>2, EnvironmentFrame DEF Typed, local
  <2>2. At(a, t) BY <2>1 DEF At
  <2>3. files'[t] = files[t]
    BY <1>0, <1>2, <2>1, <2>2 DEF Environment, EditFile, DamageBackup, Interrupt, Kill,
      RemoveStaleLock, disk, Typed, TypeOK
  <2> QED BY <2>1, <2>2, <2>3
<1>3. CASE UNCHANGED vars BY <1>3 DEF vars, disk, local, At
<1> QED BY <1>1, <1>2, <1>3 DEF Next

LEMMA ApplyInvariant == ASSUME ~EditsInWindow PROVE Spec => []ApplyInv
<1>1. Init => ApplyInv
  BY InitLockInv, Kinds DEF Init, ApplyInv, CaptureApproved, WindowClosed, Approving
<1>2. ApplyInv /\ [Next]_vars => ApplyInv'
  BY LockInvKept, CaptureKept, WindowKept DEF ApplyInv
<1> QED BY <1>1, <1>2, PTL DEF Spec

\* An apply only overwrites or deletes the data its plan was approved for, when
\* no edit falls between a hash check and the replace that follows it.
THEOREM ApplyOverwritesApproved == ASSUME ~EditsInWindow PROVE Spec => OverwritesOnlyApproved
<1>1. ApplyInv /\ [Next]_vars => [ApprovedStep]_vars
  <2> SUFFICES ASSUME ApplyInv, Next, NEW a \in Appliers, NEW t \in Targets,
                      pc[a] = "replacing", files'[t] # files[t], files'[t].by = a
               PROVE  files[t].data = expected[a][t]
    BY DEF ApprovedStep
  <2> USE DEF ApplyInv, LockInv, LockHeld, WindowClosed
  <2>0. a \in Procs BY Kinds
  <2>1. ASSUME NEW p \in Procs, ProcStep(p) PROVE files[t].data = expected[a][t]
    <3>1. p = a BY <2>0, <2>1, FilesKept DEF Locked
    <3>2. ReplaceTarget(a)
      BY <2>1, <3>1, OnlyReplace
    <3>3. At(a, t)
      BY <3>2 DEF ReplaceTarget, Typed, TypeOK
    <3>4. t \in InPlan(a) BY <3>3 DEF Typed, TodoOK, At
    <3> QED BY <3>3, <3>4 DEF CaptureApproved, Approving, PreStateOK
  <2>2. CASE Environment
    <3>1. edits' \in Int /\ a \notin Int
      BY <2>2, Kinds, ConstantsAssumption DEF Environment, EditFile, DamageBackup, Interrupt,
        Kill, RemoveStaleLock, disk, Typed, TypeOK
    <3> QED
      BY <2>2, <3>1 DEF Environment, EditFile, DamageBackup, Interrupt, Kill, RemoveStaleLock,
        disk, Typed, TypeOK, File
  <2> QED BY <2>1, <2>2 DEF Next
<1>2. Spec => []ApplyInv BY ApplyInvariant
<1> QED BY <1>1, <1>2, PTL DEF Spec, OverwritesOnlyApproved
-------------------------------------------------------------------------------
(* Nothing is installed before the backup and the journal are ready for it.  *)

\* The control points where an apply has such a status.
Preparing == {"start", "planned", "resolved", "locked", "claimed", "saved", "staged",
              "publishing", "prepared", "checked"}

\* Versions travel: a transaction captures what another one wrote, and its
\* restore puts that back.
CapturesBegun ==
  \A x, y \in Appliers, t \in Targets : before[y][t].by = x => Begun(x)

PreparingEarly == \A a \in Appliers : pc[a] \in Preparing => status[a] \in Early

PreparingClaimed ==
  \A a \in Appliers :
    /\ pc[a] \in {"claimed", "saved", "staged", "publishing", "prepared", "checked"} =>
         claim[a] = "preparing"
    /\ pc[a] \in {"saved", "staged", "publishing", "prepared", "checked"} => a \in saved

LoopBegun == \A a \in Appliers : pc[a] \in {"committing", "replacing"} => Begun(a)

\* Only transactions that have begun are rolled back by command.
ChosenLate ==
  \A r \in Rollbackers : chosen[r] \in Appliers => status[chosen[r]] \notin Early

JournalInv ==
  /\ Typed
  /\ PreparingEarly /\ PreparingClaimed /\ LoopBegun /\ ChosenLate
  /\ BackupPrecedesInstall /\ CapturesBegun

LEMMA InitJournalInv == Init => JournalInv
<1> SUFFICES ASSUME Init PROVE JournalInv OBVIOUS
<1>1. Typed BY InitTyped
<1>2. 0 \notin Appliers /\ NoProc \notin Appliers BY ConstantsAssumption DEF Procs
<1>3. PreparingEarly /\ PreparingClaimed /\ LoopBegun /\ ChosenLate
  BY <1>2, Kinds DEF Init, PreparingEarly, PreparingClaimed, LoopBegun, ChosenLate, Early
<1>4. \A t \in Targets : files[t].by = 0
  BY DEF Init
<1>5. BackupPrecedesInstall /\ CapturesBegun
  BY <1>2, <1>4 DEF Init, BackupPrecedesInstall, CapturesBegun, Installed
<1> QED BY <1>1, <1>3, <1>5 DEF JournalInv

\* What a step of process p may do to claims, backups and journals.
JournalEffect(p) ==
  /\ saved \subseteq saved'
  /\ \A x \in Appliers : claim'[x] # claim[x] => x = p /\ pc[p] \in Preparing
  /\ \A x \in Appliers : status'[x] # status[x] =>
       /\ x = Tx(p)
       /\ status'[x] \in Early => x = p /\ pc[p] \in Preparing

\* What the next state of an apply owes to its own step.
ApplyEffect(a) ==
  /\ pc'[a] \in Preparing => pc[a] \in Preparing /\ status'[a] \in Early
  /\ pc'[a] \in {"claimed", "saved", "staged", "publishing", "prepared", "checked"} =>
       claim'[a] = "preparing"
  /\ pc'[a] \in {"saved", "staged", "publishing", "prepared", "checked"} => a \in saved'
  /\ pc'[a] \in {"committing", "replacing"} => Begun(a)'

LEMMA LockJournal ==
  ASSUME JournalInv, NEW p \in Procs, LockStep(p)
  PROVE  /\ UNCHANGED <<saved, claim, status, before, files>>
         /\ p \in Appliers => ApplyEffect(p)
BY DEF JournalInv, Typed, TypeOK, PreparingEarly, PreparingClaimed, LockStep, AcquireLock, Busy,
  AcquireFails, Release, AtLock, ApplyEffect, Goto, local, disk, Preparing

LEMMA RestoreJournal ==
  ASSUME JournalInv, NEW p \in Procs, RestoreStep(p)
  PROVE  JournalEffect(p) /\ (p \in Appliers => ApplyEffect(p)) /\ UNCHANGED before
<1> USE DEF JournalInv, Typed, TypeOK, Goto, local, disk, JournalEffect, ApplyEffect, Preparing
<1>1. CASE FinishRestore(p)
  BY <1>1 DEF FinishRestore, SetStatus, Outcome, Early
<1>2. CASE ~FinishRestore(p)
  BY <1>2 DEF RestoreStep, StageRestore, StageRestoreFails, CheckRestore, SkipTarget, RevertTarget
<1> QED BY <1>1, <1>2

LEMMA RollbackJournal ==
  ASSUME JournalInv, NEW r \in Rollbackers, RollbackStep(r)
  PROVE  JournalEffect(r) /\ UNCHANGED <<before, files>>
<1>1. r \notin Appliers BY ConstantsAssumption
<1> QED
  BY <1>1 DEF JournalInv, Typed, TypeOK, Goto, local, disk, JournalEffect, RollbackStep,
    ReadJournal, RefuseJournal, Preflight, PreflightFails, BeginRollback, BeginRollbackFails,
    SetStatus, Tx, Early

LEMMA ApplyJournal ==
  ASSUME JournalInv, NEW a \in Appliers, ApplyStep(a)
  PROVE  JournalEffect(a) /\ ApplyEffect(a)
<1> USE Kinds DEF JournalInv, Typed, TypeOK, Goto, local, disk, JournalEffect, ApplyEffect, Preparing,
      Tx, PreparingEarly, PreparingClaimed
<1>1. CASE MakePlan(a) \/ Resolve(a) \/ RefusePlan(a) \/ Stage(a) \/ Recheck(a) \/ RecheckFails(a)
  BY <1>1 DEF MakePlan, Resolve, RefusePlan, Stage, Recheck, RecheckFails
<1>2. CASE Claim(a) \/ ClaimFails(a) \/ Backup(a)
  BY <1>2 DEF Claim, ClaimFails, Backup
<1>3. CASE PrepareFails(a) BY <1>3 DEF PrepareFails, SetStatus
<1>4. CASE OpenJournal(a) \/ PublishJournal(a)
  BY <1>4 DEF OpenJournal, PublishJournal, SetStatus, Early
<1>5. CASE BeginCommit(a) \/ BeginCommitFails(a)
  BY <1>5 DEF BeginCommit, BeginCommitFails, SetStatus, Early, Begun
<1>6. CASE CheckTarget(a) \/ CheckTargetFails(a) \/ ReplaceTarget(a) \/ ReplaceTargetFails(a)
  BY <1>6 DEF CheckTarget, CheckTargetFails, ReplaceTarget, ReplaceTargetFails, LoopBegun, Begun
<1>7. CASE Commit(a) \/ CommitFails(a) \/ BeginUndo(a)
  BY <1>7 DEF Commit, CommitFails, BeginUndo, SetStatus, Early
<1> QED BY <1>1, <1>2, <1>3, <1>4, <1>5, <1>6, <1>7 DEF ApplyStep

LEMMA ProcJournal ==
  ASSUME JournalInv, NEW p \in Procs, ProcStep(p)
  PROVE  JournalEffect(p) /\ (p \in Appliers => ApplyEffect(p))
<1>1. CASE LockStep(p) BY <1>1, LockJournal DEF JournalEffect
<1>2. CASE RestoreStep(p) BY <1>2, RestoreJournal
<1>3. CASE p \in Appliers /\ ApplyStep(p) BY <1>3, ApplyJournal
<1>4. CASE p \in Rollbackers /\ RollbackStep(p)
  BY <1>4, RollbackJournal, ConstantsAssumption
<1> QED BY <1>1, <1>2, <1>3, <1>4 DEF ProcStep

\* A transaction that has begun is never taken back to its preparation.
LEMMA LateKept ==
  ASSUME JournalInv, [Next]_vars, NEW x \in Appliers, status[x] \notin Early
  PROVE  /\ status'[x] \notin Early
         /\ claim'[x] = claim[x]
         /\ x \in saved => x \in saved'
<1> USE DEF JournalInv
<1>0. pc[x] \notin Preparing BY DEF PreparingEarly
<1>1. ASSUME NEW p \in Procs, ProcStep(p)
      PROVE  /\ status'[x] \notin Early /\ claim'[x] = claim[x]
             /\ x \in saved => x \in saved'
  <2>1. JournalEffect(p) BY <1>1, ProcJournal
  <2>2. claim'[x] = claim[x] /\ (x \in saved => x \in saved')
    BY <1>0, <2>1 DEF JournalEffect
  <2> QED BY <1>0, <2>1, <2>2 DEF JournalEffect
<1>2. CASE Environment
  BY <1>2 DEF Environment, EditFile, DamageBackup, Interrupt, Kill, RemoveStaleLock, disk
<1>3. CASE UNCHANGED vars BY <1>3 DEF vars, disk
<1> QED BY <1>1, <1>2, <1>3 DEF Next

LEMMA BegunKept ==
  ASSUME JournalInv, [Next]_vars, NEW x \in Appliers, Begun(x)
  PROVE  Begun(x)'
BY LateKept DEF Begun

LEMMA PreparingKept ==
  ASSUME JournalInv, [Next]_vars
  PROVE  PreparingEarly' /\ PreparingClaimed' /\ LoopBegun'
<1> SUFFICES ASSUME NEW a \in Appliers
             PROVE  /\ pc'[a] \in Preparing => status'[a] \in Early
                    /\ pc'[a] \in {"claimed", "saved", "staged", "publishing", "prepared", "checked"} =>
                         claim'[a] = "preparing"
                    /\ pc'[a] \in {"saved", "staged", "publishing", "prepared", "checked"} =>
                         a \in saved'
                    /\ pc'[a] \in {"committing", "replacing"} => Begun(a)'
  BY DEF PreparingEarly, PreparingClaimed, LoopBegun
<1> USE DEF JournalInv, PreparingEarly, PreparingClaimed, LoopBegun
<1>0. a \in Procs BY Kinds
<1>1. ASSUME NEW p \in Procs, ProcStep(p), p # a
      PROVE  /\ pc'[a] = pc[a] /\ claim'[a] = claim[a] /\ (a \in saved => a \in saved')
             /\ pc[a] \in Preparing => status'[a] = status[a]
  <2>1. JournalEffect(p) BY <1>1, ProcJournal
  <2>2. pc'[a] = pc[a] BY <1>0, <1>1, ProcFrame DEF SameElsewhere
  <2>3. ASSUME pc[a] \in Preparing PROVE Tx(p) # a
    BY <1>1, <2>3 DEF Tx, ChosenLate, Procs
  <2> QED BY <1>1, <2>1, <2>2, <2>3 DEF JournalEffect
<1>2. ASSUME NEW p \in Procs, ProcStep(p)
      PROVE  /\ pc'[a] \in Preparing => status'[a] \in Early
             /\ pc'[a] \in {"claimed", "saved", "staged", "publishing", "prepared", "checked"} =>
                  claim'[a] = "preparing"
             /\ pc'[a] \in {"saved", "staged", "publishing", "prepared", "checked"} => a \in saved'
             /\ pc'[a] \in {"committing", "replacing"} => Begun(a)'
  <2>1. CASE p = a BY <1>2, <2>1, ProcJournal DEF ApplyEffect
  <2>2. CASE p # a BY <1>1, <1>2, <2>2, BegunKept
  <2> QED BY <2>1, <2>2
<1>3. CASE Environment
  <2>1. pc'[a] = pc[a] \/ pc'[a] \in {"done", "killed"}
    BY <1>0, <1>3, EnvironmentFrame DEF Typed
  <2>2. UNCHANGED <<saved, claim, status>>
    BY <1>3 DEF Environment, EditFile, DamageBackup, Interrupt, Kill, RemoveStaleLock, disk
  <2> QED BY <2>1, <2>2 DEF Preparing, Begun
<1>4. CASE UNCHANGED vars BY <1>4 DEF vars, disk, Begun
<1> QED BY <1>2, <1>3, <1>4 DEF Next

LEMMA ChosenLateKept ==
  ASSUME JournalInv, [Next]_vars
  PROVE  ChosenLate'
<1> SUFFICES ASSUME NEW r \in Rollbackers, chosen'[r] \in Appliers
             PROVE  status'[chosen'[r]] \notin Early
  BY DEF ChosenLate
<1> USE DEF JournalInv, ChosenLate
<1>1. CASE chosen'[r] = chosen[r] BY <1>1, LateKept
<1>2. CASE chosen'[r] # chosen[r]
  <2>1. PICK p \in Procs : ProcStep(p)
    BY <1>2, EnvironmentFrame DEF Next, vars, local, Typed
  <2>2. p = r BY <1>2, <2>1, ProcFrame DEF SameElsewhere
  <2>3. ReadJournal(r)
    <3>1. r \notin Appliers BY ConstantsAssumption
    <3>2. ~(LockStep(r) \/ RestoreStep(r)) BY <1>2, <2>2, LockFrame, Kinds DEF Typed
    <3> QED
      BY <1>2, <2>1, <2>2, <3>1, <3>2 DEF ProcStep, RollbackStep, RefuseJournal, Preflight,
        PreflightFails, BeginRollback, BeginRollbackFails, local, disk
  <2>4. chosen'[r] \in Appliers /\ status[chosen'[r]] \in Rollbackable /\ status' = status
    BY <2>3 DEF ReadJournal, disk, Typed, TypeOK
  <2> QED BY <2>4 DEF Rollbackable, Early
<1> QED BY <1>1, <1>2

\* A version appears at a target by the replace of an apply that has begun, by
\* the restore of what a transaction captured, or by an edit.
LEMMA FilesEffect ==
  ASSUME JournalInv, [Next]_vars, NEW t \in Targets, NEW x \in Appliers, files'[t].by = x
  PROVE  Begun(x)
<1> USE DEF JournalInv, Typed, TypeOK, BackupPrecedesInstall, Installed
<1>0. CASE files'[t] = files[t] BY <1>0
<1>1. ASSUME NEW p \in Procs, ProcStep(p), files'[t] # files[t] PROVE Begun(x)
  <2>1. CASE pc[p] = "replacing" /\ p \in Appliers
    <3>1. ReplaceTarget(p) BY <1>1, <2>1, OnlyReplace
    <3>2. x = p BY <1>1, <3>1 DEF ReplaceTarget
    <3> QED BY <2>1, <3>2 DEF LoopBegun
  <2>2. CASE RevertTarget(p)
    <3>1. Tx(p) \in Appliers BY <2>2, Kinds DEF Tx, RevertTarget, ChosenOK, Locked, Procs
    <3>2. files'[t] = before[Tx(p)][t] BY <1>1, <2>2, <3>1 DEF RevertTarget
    <3> QED BY <3>1, <3>2 DEF CapturesBegun
  <2>3. \/ pc[p] = "replacing" /\ p \in Appliers
        \/ RevertTarget(p)
    BY <1>1 DEF ProcStep, LockStep, AcquireLock, Busy, AcquireFails, Release, RestoreStep,
      StageRestore, StageRestoreFails, CheckRestore, SkipTarget, FinishRestore, RollbackStep,
      ReadJournal, RefuseJournal, Preflight, PreflightFails, BeginRollback,
      BeginRollbackFails, ApplyStep, MakePlan, Resolve, RefusePlan, Claim, ClaimFails, Backup,
      Stage, PrepareFails, OpenJournal, PublishJournal, Recheck, RecheckFails, BeginCommit,
      BeginCommitFails, CheckTarget, CheckTargetFails, ReplaceTarget, ReplaceTargetFails,
      Commit, CommitFails, BeginUndo, disk
  <2> QED BY <2>1, <2>2, <2>3
<1>2. ASSUME Environment, files'[t] # files[t] PROVE FALSE
  <2>1. files'[t].by \in Int
    BY <1>2, Kinds DEF Environment, EditFile, DamageBackup, Interrupt, Kill, RemoveStaleLock, disk
  <2> QED BY <2>1, ConstantsAssumption
<1>3. CASE UNCHANGED vars BY <1>0, <1>3 DEF vars, disk
<1> QED BY <1>0, <1>1, <1>2, <1>3 DEF Next

LEMMA CapturesEffect ==
  ASSUME JournalInv, [Next]_vars,
         NEW x \in Appliers, NEW y \in Appliers, NEW t \in Targets, before'[y][t].by = x
  PROVE  Begun(x)
<1> USE DEF JournalInv, CapturesBegun
<1>1. CASE before'[y] = before[y] BY <1>1
<1>2. CASE before'[y] # before[y]
  <2>1. PICK p \in Procs : ProcStep(p)
    BY <1>2, EnvironmentFrame DEF Next, vars, local, Typed
  <2>2. p = y BY <1>2, <2>1, ProcFrame DEF SameElsewhere
  <2>3. pc[y] \in {"start", "planned"} BY <1>2, <2>1, <2>2, ProcFrame DEF PlanFixed
  <2>4. y \notin Rollbackers BY ConstantsAssumption
  <2>5. Resolve(y)
    BY <1>2, <2>1, <2>2, <2>3, <2>4 DEF ProcStep, LockStep, AcquireLock, Busy, AcquireFails,
      Release, AtLock, RestoreStep, StageRestore, StageRestoreFails, CheckRestore, SkipTarget,
      RevertTarget, FinishRestore, ApplyStep, MakePlan, RefusePlan, Claim, ClaimFails, Backup,
      Stage, PrepareFails, OpenJournal, PublishJournal, Recheck, RecheckFails, BeginCommit,
      BeginCommitFails, CheckTarget, CheckTargetFails, ReplaceTarget, ReplaceTargetFails,
      Commit, CommitFails, BeginUndo, local
  <2>6. before'[y] = files BY <2>5 DEF Resolve, Typed, TypeOK
  <2> QED BY <2>6 DEF BackupPrecedesInstall, Installed
<1> QED BY <1>1, <1>2

LEMMA JournalInvKept == JournalInv /\ [Next]_vars => JournalInv'
<1> SUFFICES ASSUME JournalInv, [Next]_vars
             PROVE  BackupPrecedesInstall' /\ CapturesBegun'
  BY TypedKept, PreparingKept, ChosenLateKept DEF JournalInv
<1>1. BackupPrecedesInstall'
  BY FilesEffect, BegunKept DEF BackupPrecedesInstall, Installed
<1>2. CapturesBegun' BY CapturesEffect, BegunKept DEF CapturesBegun
<1> QED BY <1>1, <1>2

\* A version that a transaction wrote is on disk, in whatever order processes
\* act, fail, die and roll one another back, only when the backup of that
\* transaction is complete, its claim stands, and its journal says that the
\* commit began.
THEOREM CrashFindsBackup == Spec => []BackupPrecedesInstall
<1>1. Spec => []JournalInv BY InitJournalInv, JournalInvKept, PTL DEF Spec
<1> QED BY <1>1, PTL DEF JournalInv
===============================================================================
