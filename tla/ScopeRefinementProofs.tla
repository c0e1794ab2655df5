------------------------ MODULE ScopeRefinementProofs ------------------------
(* The transaction engine implements the contract of a scope, for every set  *)
(* of targets, plans and processes and every number of edits and kills.      *)
EXTENDS ScopeRefinement, ScopeOutcomeProofs

\* The phase that a status stands for.
PhaseOf(s) ==
  CASE s \in {"none", "torn", "prepared"} -> "untouched"
    [] s \in Interrupted -> "open"
    [] s = "committed" -> "whole"
    [] s = "rolled_back" -> "undone"

LEMMA PhaseValues ==
  /\ \A s \in Early : PhaseOf(s) = "untouched"
  /\ \A s \in Interrupted : PhaseOf(s) = "open"
  /\ PhaseOf("committed") = "whole" /\ PhaseOf("rolled_back") = "undone"
BY DEF PhaseOf, Early, Interrupted

LEMMA PhaseNow ==
  ASSUME NEW x \in Appliers
  PROVE  Phase(x) = PhaseOf(status[x]) /\ Phase(x)' = PhaseOf(status'[x])
BY DEF Phase, PhaseOf, Interrupted

LEMMA Stutter ==
  ASSUME UNCHANGED <<files, status, plan, before>>
  PROVE  UNCHANGED Contract!vars
<1>1. \A x \in Appliers : Phase(x)' = Phase(x) BY PhaseNow
<1> QED BY <1>1 DEF Contract!vars

\* A journal is written: the transaction enters the phase of its status.
LEMMA EntersPhase ==
  ASSUME TypeOK, NEW x \in Appliers, NEW s, SetStatus(x, s)
  PROVE  Contract!Enter(x, PhaseOf(s))
<1>1. \A y \in Appliers : status'[y] = IF y = x THEN s ELSE status[y]
  BY DEF SetStatus, TypeOK
<1>2. \A y \in Appliers : Phase(y)' = IF y = x THEN PhaseOf(s) ELSE Phase(y)
  BY <1>1, PhaseNow
<1> QED BY <1>2 DEF Contract!Enter

\* The moves between phases that the contract allows.
LEMMA JournalStep ==
  ASSUME TypeOK, NEW x \in Appliers, NEW s, SetStatus(x, s), UNCHANGED <<files, plan, before>>,
         \/ Phase(x) = PhaseOf(s)
         \/ Phase(x) = "untouched" /\ PhaseOf(s) = "open"
         \/ /\ Phase(x) = "open" /\ PhaseOf(s) = "whole"
            /\ \A t \in InPlan(x) : files[t] # before[x][t]
         \/ /\ Phase(x) = "open" /\ PhaseOf(s) = "undone"
            /\ \A t \in InPlan(x) : files[t].by # x
         \/ Phase(x) \in {"whole", "undone"} /\ PhaseOf(s) = "open"
  PROVE  [Contract!Next]_(Contract!vars)
<1>0. Contract!Enter(x, PhaseOf(s)) BY EntersPhase
<1>1. CASE Phase(x) = PhaseOf(s)
  <2>1. \A y \in Appliers : Phase(y)' = Phase(y) BY <1>0, <1>1 DEF Contract!Enter
  <2> QED BY <2>1 DEF Contract!vars
<1>2. CASE Phase(x) = "untouched" /\ PhaseOf(s) = "open"
  <2>1. Contract!Begin(x) BY <1>0, <1>2 DEF Contract!Begin
  <2> QED BY <2>1 DEF Contract!Next
<1>3. CASE /\ Phase(x) = "open" /\ PhaseOf(s) = "whole"
           /\ \A t \in InPlan(x) : files[t] # before[x][t]
  <2>1. Contract!Complete(x)
    BY <1>0, <1>3 DEF Contract!Complete, Contract!InPlan, InPlan
  <2> QED BY <2>1 DEF Contract!Next
<1>4. CASE /\ Phase(x) = "open" /\ PhaseOf(s) = "undone"
           /\ \A t \in InPlan(x) : files[t].by # x
  <2>1. Contract!Undo(x) BY <1>0, <1>4 DEF Contract!Undo, Contract!InPlan, InPlan
  <2> QED BY <2>1 DEF Contract!Next
<1>5. CASE Phase(x) \in {"whole", "undone"} /\ PhaseOf(s) = "open"
  <2>1. Contract!Reopen(x) BY <1>0, <1>5 DEF Contract!Reopen
  <2> QED BY <2>1 DEF Contract!Next
<1> QED BY <1>1, <1>2, <1>3, <1>4, <1>5

\* A transaction can be opened from every phase.
LEMMA Opens ==
  ASSUME TypeOK, NEW x \in Appliers, NEW s \in Interrupted, SetStatus(x, s),
         UNCHANGED <<files, plan, before>>
  PROVE  [Contract!Next]_(Contract!vars)
<1>1. status[x] \in Early \cup Interrupted \cup {"committed", "rolled_back"}
  BY DEF TypeOK, Statuses, Early, Interrupted
<1>2. Phase(x) \in {"untouched", "open", "whole", "undone"} BY <1>1, PhaseNow, PhaseValues
<1> QED BY <1>2, PhaseValues, JournalStep

-------------------------------------------------------------------------------
(* The steps of the engine.                                                  *)

\* What the contract rests on.
EngineState == LiveInv /\ ApplyInv /\ RestoreWindow /\ faults < 2

LEMMA StateOK ==
  ASSUME EngineState
  PROVE  VersionInv /\ DataInv /\ EngineInv /\ Typed /\ TypeOK /\ StatusInv
BY DEF EngineState, LiveInv, DataInv, VersionInv, EngineInv, LockInv, Typed

LEMMA PrepareSteps ==
  ASSUME EngineState, NEW a \in Appliers, MakePlan(a) \/ Resolve(a)
  PROVE  [Contract!Next]_(Contract!vars)
<1> USE StateOK DEF TypeOK
<1>1. Phase(a) = "untouched" /\ UNCHANGED <<files, status>>
  <2>1. status[a] \in Early
    BY DEF MakePlan, Resolve, EngineInv, JournalInv, PreparingEarly, Preparing
  <2> QED BY <2>1, PhaseNow, PhaseValues DEF MakePlan, Resolve, disk
<1>2. \A x \in Appliers : Phase(x)' = Phase(x) BY <1>1, PhaseNow
<1>3. CASE MakePlan(a)
  <2>1. PICK d \in Plans[a] : plan' = [plan EXCEPT ![a] = d] BY <1>3 DEF MakePlan
  <2>2. d \in [Targets -> State \cup {Keep}] BY ConstantsAssumption
  <2>3. Contract!Prepare(a) BY <1>1, <1>2, <1>3, <2>1, <2>2 DEF Contract!Prepare, MakePlan
  <2> QED BY <2>3 DEF Contract!Next
<1>4. CASE Resolve(a)
  <2>1. plan' = [plan EXCEPT ![a] = plan[a]] /\ plan[a] \in [Targets -> State \cup {Keep}]
    BY <1>4 DEF Resolve
  <2>2. Contract!Prepare(a) BY <1>1, <1>2, <1>4, <2>1 DEF Contract!Prepare, Resolve
  <2> QED BY <2>2 DEF Contract!Next
<1> QED BY <1>3, <1>4

\* Journals that are written before the commit.
LEMMA EarlySteps ==
  ASSUME EngineState, NEW a \in Appliers,
         PrepareFails(a) \/ OpenJournal(a) \/ PublishJournal(a)
  PROVE  UNCHANGED Contract!vars
<1> USE StateOK DEF TypeOK
<1>1. status[a] \in Early
  BY DEF PrepareFails, OpenJournal, PublishJournal, EngineInv, JournalInv, PreparingEarly,
    Preparing
<1>2. status'[a] \in Early /\ \A x \in Appliers \ {a} : status'[x] = status[x]
  <2>1. CASE PrepareFails(a) /\ pc[a] = "publishing"
    BY <2>1 DEF PrepareFails, SetStatus, Early
  <2>2. CASE PrepareFails(a) /\ pc[a] # "publishing" BY <1>1, <2>2 DEF PrepareFails
  <2>3. CASE OpenJournal(a) \/ PublishJournal(a)
    BY <2>3 DEF OpenJournal, PublishJournal, SetStatus, Early
  <2> QED BY <2>1, <2>2, <2>3
<1>3. \A x \in Appliers : Phase(x)' = Phase(x) BY <1>1, <1>2, PhaseNow, PhaseValues
<1>4. UNCHANGED <<files, plan, before>>
  BY DEF PrepareFails, OpenJournal, PublishJournal, local
<1> QED BY <1>3, <1>4 DEF Contract!vars

LEMMA CommitSteps ==
  ASSUME EngineState, NEW a \in Appliers,
         BeginCommit(a) \/ BeginCommitFails(a) \/ Commit(a) \/ CommitFails(a) \/ BeginUndo(a)
  PROVE  [Contract!Next]_(Contract!vars)
<1> USE StateOK
<1>0. UNCHANGED <<files, plan, before>>
  BY DEF BeginCommit, BeginCommitFails, Commit, CommitFails, BeginUndo, local
<1>1. CASE BeginCommit(a) BY <1>0, <1>1, Opens DEF BeginCommit, Interrupted
<1>2. CASE BeginCommitFails(a)
  <2>1. PICK s \in {"prepared", "committing"} : SetStatus(a, s)
    BY <1>2 DEF BeginCommitFails
  <2>2. CASE s = "prepared"
    <3>1. status[a] \in Early
      BY <1>2 DEF BeginCommitFails, EngineInv, JournalInv, PreparingEarly, Preparing
    <3>2. Phase(a) = PhaseOf(s) BY <2>2, <3>1, PhaseNow, PhaseValues DEF Early
    <3> QED BY <1>0, <2>1, <3>2, JournalStep
  <2>3. CASE s = "committing" BY <1>0, <2>1, <2>3, Opens DEF Interrupted
  <2> QED BY <2>2, <2>3
<1>3. CASE Commit(a) \/ CommitFails(a)
  <2>1. /\ pc[a] = "committing" /\ todo[a] = {}
        /\ \E s \in {"committing", "committed"} : SetStatus(a, s)
    BY <1>3 DEF Commit, CommitFails, LoopDone
  <2>2. status[a] = "committing" BY <2>1 DEF StatusInv, CommitStatus, Commits
  <2>3. Phase(a) = "open" BY <2>2, PhaseNow, PhaseValues DEF Interrupted
  <2>4. \A t \in InPlan(a) : files[t] # before[a][t]
    BY <2>1 DEF VersionInv, Replaced, Commits
  <2>5. PICK s \in {"committing", "committed"} : SetStatus(a, s) BY <2>1
  <2>6. CASE s = "committing" BY <1>0, <2>5, <2>6, Opens DEF Interrupted
  <2>7. CASE s = "committed"
    <3>1. PhaseOf(s) = "whole" BY <2>7, PhaseValues
    <3> QED BY <1>0, <2>3, <2>4, <2>5, <3>1, JournalStep
  <2> QED BY <2>6, <2>7
<1>4. CASE BeginUndo(a)
  <2>1. CASE SetStatus(a, "rolling_back") BY <1>0, <2>1, Opens DEF Interrupted
  <2>2. CASE UNCHANGED status BY <1>0, <2>2, Stutter
  <2> QED BY <1>4, <2>1, <2>2 DEF BeginUndo
<1> QED BY <1>1, <1>2, <1>3, <1>4

LEMMA RollbackSteps ==
  ASSUME EngineState, NEW r \in Rollbackers, BeginRollback(r) \/ BeginRollbackFails(r)
  PROVE  [Contract!Next]_(Contract!vars)
<1> USE StateOK
<1>1. UNCHANGED <<files, plan, before>> BY DEF BeginRollback, BeginRollbackFails, local
<1>2. chosen[r] \in Appliers
  BY DEF BeginRollback, BeginRollbackFails, Typed, ChosenOK, Locked
<1>3. CASE SetStatus(chosen[r], "rolling_back") BY <1>1, <1>2, <1>3, Opens DEF Interrupted
<1>4. CASE UNCHANGED status BY <1>1, <1>4, Stutter
<1> QED BY <1>3, <1>4 DEF BeginRollback, BeginRollbackFails

\* A restore runs under an open journal.
LEMMA RestoreIsOpen ==
  ASSUME EngineState, NEW p \in Procs, pc[p] \in Restores
  PROVE  Tx(p) \in Appliers /\ Phase(Tx(p)) = "open"
<1>1. Tx(p) \in Appliers BY StateOK, TxOK DEF Restores, Locked
<1>2. ~(faults > 1) BY StateOK, Kinds DEF EngineState, TypeOK
<1>3. status[Tx(p)] \in Interrupted BY <1>2, StateOK DEF StatusInv, RestoreOpen
<1> QED BY <1>1, <1>3, PhaseNow, PhaseValues

LEMMA FinishStep ==
  ASSUME EngineState, NEW p \in Procs, FinishRestore(p)
  PROVE  [Contract!Next]_(Contract!vars)
<1> DEFINE x == Tx(p)
<1>1. pc[p] = "restoring" /\ todo[p] = {} /\ UNCHANGED <<files, plan, before>>
  BY DEF FinishRestore, LoopDone, local
<1>2. x \in Appliers /\ Phase(x) = "open" BY <1>1, RestoreIsOpen DEF Restores
<1>3. CASE UNCHANGED status BY <1>1, <1>3, Stutter
<1>4. CASE SetStatus(x, "rollback_failed")
  BY <1>1, <1>2, <1>4, StateOK, Opens DEF Interrupted
<1>5. CASE SetStatus(x, "rolled_back") /\ ~failed[p]
  <2>1. \A t \in InPlan(x) : files[t].by # x BY <1>1, <1>5 DEF EngineState, LiveInv, Visited
  <2> QED BY <1>1, <1>2, <1>5, <2>1, StateOK, PhaseValues, JournalStep
<1> QED BY <1>3, <1>4, <1>5 DEF FinishRestore, Outcome

-------------------------------------------------------------------------------
(* The steps that touch targets.                                             *)

LEMMA InstallStep ==
  ASSUME EngineState, NEW a \in Appliers, ReplaceTarget(a)
  PROVE  [Contract!Next]_(Contract!vars)
<1> USE StateOK
<1>1. PICK t \in Targets :
        At(a, t) /\ files' = [files EXCEPT ![t] = [data |-> plan[a][t], by |-> a]]
  BY DEF ReplaceTarget
<1>2. pc[a] = "replacing" /\ UNCHANGED <<status, plan, before>> BY DEF ReplaceTarget
<1>3. Phase(a) = "open"
  <2>1. status[a] = "committing" BY <1>2 DEF StatusInv, CommitStatus, Commits
  <2> QED BY <2>1, PhaseNow, PhaseValues DEF Interrupted
<1>4. t \in Contract!InPlan(a)
  BY <1>1, <1>2 DEF Typed, TodoOK, At, Contract!InPlan, InPlan
<1>5. files[t].data = before[a][t].data
  BY <1>1, <1>2 DEF EngineState, ApplyInv, WindowClosed
<1>6. \A x \in Appliers : Phase(x)' = Phase(x) BY <1>2, PhaseNow
<1>7. Contract!Install(a, t) BY <1>1, <1>2, <1>3, <1>4, <1>5, <1>6 DEF Contract!Install
<1> QED BY <1>7 DEF Contract!Next

LEMMA RevertStep ==
  ASSUME EngineState, NEW p \in Procs, RevertTarget(p)
  PROVE  [Contract!Next]_(Contract!vars)
<1> USE StateOK
<1> DEFINE x == Tx(p)
<1>1. PICK t \in Targets :
        /\ At(p, t)
        /\ files' = IF files[t].data = Absent /\ ~Existed(x, t) THEN files
                    ELSE [files EXCEPT ![t] = before[x][t]]
  BY DEF RevertTarget
<1>2. pc[p] = "reverting" /\ UNCHANGED <<status, plan, before>> BY DEF RevertTarget
<1>3. CASE files' = files BY <1>2, <1>3, Stutter
<1>4. CASE files' = [files EXCEPT ![t] = before[x][t]]
  <2>1. x \in Appliers /\ Phase(x) = "open" BY <1>2, RestoreIsOpen DEF Restores
  <2>2. t \in Contract!InPlan(x)
    BY <1>1, <1>2 DEF VersionInv, RestoreTodo, At, Contract!InPlan, InPlan
  <2>3. files[t].data \in {before[x][t].data, plan[x][t]}
    BY <1>1, <1>2 DEF EngineState, RestoreWindow, Restorable
  <2>4. \A y \in Appliers : Phase(y)' = Phase(y) BY <1>2, PhaseNow
  <2>5. Contract!Revert(x, t) BY <1>2, <1>4, <2>1, <2>2, <2>3, <2>4 DEF Contract!Revert
  <2> QED BY <2>1, <2>5 DEF Contract!Next
<1> QED BY <1>1, <1>3, <1>4

LEMMA EditStep ==
  ASSUME EngineState, NEW t \in Targets, EditFile(t)
  PROVE  [Contract!Next]_(Contract!vars)
<1>1. PICK d \in EditData : files' = [files EXCEPT ![t] = [data |-> d, by |-> edits']]
  BY DEF EditFile
<1>2. edits' \in 0 .. MaxEdits BY StateOK, Kinds DEF EditFile, TypeOK
<1>3. [data |-> d, by |-> edits'] \in [data : State, by : 0 .. MaxEdits]
  BY <1>2, ConstantsAssumption
<1>4. UNCHANGED <<status, plan, before>> BY DEF EditFile, local
<1>5. \A x \in Appliers : Phase(x)' = Phase(x) BY <1>4, PhaseNow
<1>6. Contract!Edit(t) BY <1>1, <1>3, <1>4, <1>5 DEF Contract!Edit
<1> QED BY <1>6 DEF Contract!Next

-------------------------------------------------------------------------------
(* The refinement.                                                           *)

LEMMA ProcRefines ==
  ASSUME EngineState, NEW p \in Procs, ProcStep(p)
  PROVE  [Contract!Next]_(Contract!vars)
<1>1. CASE LockStep(p)
  <2>1. UNCHANGED <<files, status, plan, before>>
    BY <1>1 DEF LockStep, AcquireLock, Busy, AcquireFails, Release, disk, local
  <2> QED BY <2>1, Stutter
<1>2. CASE RestoreStep(p)
  <2>1. CASE \/ StageRestore(p) \/ StageRestoreFails(p)
             \/ CheckRestore(p) \/ SkipTarget(p)
    <3>1. UNCHANGED <<files, status, plan, before>>
      BY <2>1 DEF StageRestore, StageRestoreFails, CheckRestore, SkipTarget, disk, local
    <3> QED BY <3>1, Stutter
  <2> QED BY <1>2, <2>1, RevertStep, FinishStep DEF RestoreStep
<1>3. CASE p \in Rollbackers /\ RollbackStep(p)
  <2>1. CASE \/ ReadJournal(p) \/ RefuseJournal(p)
             \/ Preflight(p) \/ PreflightFails(p)
    <3>1. UNCHANGED <<files, status, plan, before>>
      BY <2>1 DEF ReadJournal, RefuseJournal, Preflight, PreflightFails, disk, local
    <3> QED BY <3>1, Stutter
  <2> QED BY <1>3, <2>1, RollbackSteps DEF RollbackStep
<1>4. CASE p \in Appliers /\ ApplyStep(p)
  <2>1. CASE \/ RefusePlan(p) \/ Claim(p) \/ ClaimFails(p) \/ Backup(p) \/ Stage(p)
             \/ Recheck(p) \/ RecheckFails(p) \/ CheckTarget(p) \/ CheckTargetFails(p)
             \/ ReplaceTargetFails(p)
    <3>1. UNCHANGED <<files, status, plan, before>>
      BY <2>1 DEF RefusePlan, Claim, ClaimFails, Backup, Stage, Recheck, RecheckFails,
        CheckTarget, CheckTargetFails, ReplaceTargetFails, disk, local
    <3> QED BY <3>1, Stutter
  <2> QED BY <1>4, <2>1, PrepareSteps, EarlySteps, CommitSteps, InstallStep DEF ApplyStep
<1> QED BY <1>1, <1>2, <1>3, <1>4 DEF ProcStep

LEMMA StepRefines ==
  ASSUME EngineState, [Next]_vars
  PROVE  [Contract!Next]_(Contract!vars)
<1>1. CASE Environment
  <2>1. CASE ~\E t \in Targets : EditFile(t)
    <3>1. UNCHANGED <<files, status, plan, before>>
      BY <1>1, <2>1 DEF Environment, DamageBackup, Interrupt, Kill, RemoveStaleLock, disk, local
    <3> QED BY <3>1, Stutter
  <2> QED BY <2>1, EditStep
<1>2. CASE UNCHANGED vars
  <2>1. UNCHANGED <<files, status, plan, before>> BY <1>2 DEF vars, disk, local
  <2> QED BY <2>1, Stutter
<1> QED BY <1>1, <1>2, ProcRefines DEF Next

LEMMA InitRefines ==
  ASSUME Init
  PROVE  Contract!Init
<1>1. TypeOK BY InitTyped DEF Typed
<1>2. \A x \in Appliers : Phase(x) = "untouched"
  BY PhaseNow, PhaseValues DEF Init, Early
<1> QED BY <1>1, <1>2 DEF Contract!Init, Contract!File, TypeOK, File, Stamps

\* The journal tells the truth about the files, at every step of every
\* interleaving: apply_plan and rollback_transaction open, write, complete, revert
\* and undo a transaction only as the contract of the scope allows, with one I/O
\* error at most and no edit between a hash check and its replace.
THEOREM EngineImplementsContract ==
  ASSUME DistinctData, ~EditsInWindow, MaxFaults < 2 PROVE Spec => ImplementsContract
<1>1. Spec => []LiveInv BY LiveInvariant
<1>2. Spec => []ApplyInv BY ApplyInvariant
<1>3. Spec => []RestoreWindow BY RestoreWindowInvariant
<1>4. LiveInv /\ ApplyInv /\ RestoreWindow => EngineState
  BY Kinds DEF EngineState, ApplyInv, LockInv, Typed, TypeOK
<1>5. Init => Contract!Init BY InitRefines
<1>6. EngineState /\ [Next]_vars => [Contract!Next]_(Contract!vars) BY StepRefines
<1> QED BY <1>1, <1>2, <1>3, <1>4, <1>5, <1>6, PTL DEF Spec, ImplementsContract, Contract!Spec
===============================================================================
