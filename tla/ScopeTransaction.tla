--------------------------- MODULE ScopeTransaction ---------------------------
(***************************************************************************)
(* The transaction engine of the workflow manager: apply_plan and          *)
(* rollback_transaction (transactions/engine.py) over one scope, with the  *)
(* scope lock (lock.py), the backup (backup.py), the namespace claim and   *)
(* the journal (journal.py).                                               *)
(*                                                                         *)
(* Every process is one invocation of the command-line tool.  An applier   *)
(* creates at most one transaction, so the transaction is named by its     *)
(* applier; a rollbacker picks the journal of some transaction.  The steps *)
(* of different processes interleave with one another, with edits the user *)
(* makes to the target files, with I/O errors, with Ctrl-C and with the    *)
(* death of a process.                                                     *)
(*                                                                         *)
(* A file is its data and a stamp saying who wrote that version.  The code *)
(* compares hashes, that is, data; the stamp is history that only the      *)
(* properties read.                                                        *)
(***************************************************************************)
EXTENDS Integers

CONSTANTS
  Targets,          \* resolved target paths, integers in the order of the plan
  Contents,         \* file contents; sha256 tells any two of them apart
  Absent,           \* no file at the path (the hash None)
  Keep,             \* a plan has no operation on the target
  Appliers,         \* invocations that apply a plan, and their transactions
  Rollbackers,      \* invocations that roll a transaction back
  NoProc,           \* no process
  Plans,            \* Plans[a]: the plans applier a may be asked to apply
  InitialData,      \* data a target may hold before any invocation
  EditData,         \* data a user edit may leave at a target
  EditsInWindow,    \* may an edit hit between a hash check and its replace?
  MaxEdits,         \* bound on user edits
  MaxFaults,        \* bound on I/O errors and damaged backups
  MaxStops          \* bound on killed and interrupted processes

State == Contents \cup {Absent}
Procs == Appliers \cup Rollbackers
Stamps == Appliers \cup (0 .. MaxEdits)
File == [data : State, by : Stamps]

ASSUME ConstantsAssumption ==
  /\ Targets \subseteq Int
  /\ Absent \notin Contents
  /\ Keep \notin State
  /\ Appliers \cap Rollbackers = {}
  /\ NoProc \notin Procs
  /\ Appliers \cap Int = {}
  /\ \A a \in Appliers : Plans[a] \subseteq [Targets -> State \cup {Keep}]
  /\ InitialData \subseteq State
  /\ EditData \subseteq State
  /\ EditsInWindow \in BOOLEAN
  /\ MaxEdits \in Nat /\ MaxFaults \in Nat /\ MaxStops \in Nat

VARIABLES
  files,     \* the targets, on disk
  lock,      \* the process whose lock file exists, or NoProc
  claim,     \* the namespace claim of a transaction and its failure marker
  saved,     \* transactions whose backup is complete
  damaged,   \* transactions whose backup no longer verifies
  status,    \* journal status; "none": no journal, "torn": unreadable one
  plan,      \* the plan of a transaction: the data wanted at each target
  expected,  \* expected_sha256 of its operations
  before,    \* versions captured by _resolve_plan, then journal and backup
  pc,        \* where a process is
  chosen,    \* the transaction a rollbacker works on
  seen,      \* the journal status a rollbacker read before it took the lock
  todo,      \* targets the current loop has still to visit
  failed,    \* did the restore loop collect a failure?
  edits, faults, stops

disk  == <<files, lock, claim, saved, damaged, status>>
local == <<plan, expected, before, chosen, seen, todo, failed>>
vars  == <<disk, local, pc, edits, faults, stops>>

Statuses == {"none", "torn", "prepared", "committing", "committed",
             "rolling_back", "rollback_failed", "rolled_back"}

\* Journals that rollback_transaction agrees to work on.
Rollbackable == {"committed", "committing", "rolling_back", "rollback_failed"}

\* Statuses after which the restore may meet targets that were never written.
Interrupted == {"committing", "rolling_back", "rollback_failed"}

\* Control points between the acquisition and the release of the lock.
Locked == {"locked", "claimed", "saved", "staged", "publishing", "prepared",
           "checked", "committing", "replacing", "undo", "rollback",
           "restaging", "restoring", "reverting", "releasing"}

Labels == Locked \cup {"start", "planned", "resolved", "read", "done", "killed"}

Tx(p) == IF p \in Appliers THEN p ELSE chosen[p]
\* Slip: a loop over all targets, the ones without an operation included.
AllTargets(x) == Targets

InPlan(x) == {t \in Targets : plan[x][t] # Keep}
Existed(x, t) == before[x][t].data # Absent

\* The loops visit the targets in the order of the plan; a loop stands at t.
At(p, t) == t \in todo[p] /\ \A u \in todo[p] : t <= u

\* Slip: the loop ends one target early.
LastOne(p) == \A t \in todo[p] : At(p, t)

LoopDone(p) == todo[p] = {}

\* verify_backup succeeds.
Verified(x) == x \in saved /\ x \notin damaged

\* Slip: the captured hash is not compared again.
NotCompared(x, S) == S \subseteq Targets

\* Every target in S still holds the data captured for transaction x.
Unchanged(x, S) == \A t \in S : files[t].data = before[x][t].data

\* Slip: the restore does not look at the target.
RestoreAnyway(x, t) == t \in InPlan(x)

\* The data the restore of x accepts at t: what it is about to undo, or undid.
Restorable(x, t) == files[t].data \in {before[x][t].data, plan[x][t]}

Goto(p, label) == pc' = [pc EXCEPT ![p] = label]
SetStatus(x, s) == status' = [status EXCEPT ![x] = s]
Fault == faults < MaxFaults /\ faults' = faults + 1
NoFault == UNCHANGED faults

TypeOK ==
  /\ files \in [Targets -> File]
  /\ lock \in Procs \cup {NoProc}
  /\ claim \in [Appliers -> {"none", "preparing", "prepare_failed"}]
  /\ saved \subseteq Appliers
  /\ damaged \subseteq Appliers
  /\ status \in [Appliers -> Statuses]
  /\ plan \in [Appliers -> [Targets -> State \cup {Keep}]]
  /\ expected \in [Appliers -> [Targets -> State]]
  /\ before \in [Appliers -> [Targets -> File]]
  /\ pc \in [Procs -> Labels]
  /\ chosen \in [Rollbackers -> Appliers \cup {NoProc}]
  /\ seen \in [Rollbackers -> Statuses]
  /\ todo \in [Procs -> SUBSET Targets]
  /\ failed \in [Procs -> BOOLEAN]
  /\ edits \in 0 .. MaxEdits
  /\ faults \in 0 .. MaxFaults
  /\ stops \in 0 .. MaxStops

Init ==
  /\ files \in [Targets -> [data : InitialData, by : {0}]]
  /\ lock = NoProc
  /\ claim = [x \in Appliers |-> "none"]
  /\ saved = {}
  /\ damaged = {}
  /\ status = [x \in Appliers |-> "none"]
  /\ plan = [x \in Appliers |-> [t \in Targets |-> Keep]]
  /\ expected = [x \in Appliers |-> [t \in Targets |-> files[t].data]]
  /\ before = [x \in Appliers |-> files]
  /\ pc = [p \in Procs |-> "start"]
  /\ chosen = [r \in Rollbackers |-> NoProc]
  /\ seen = [r \in Rollbackers |-> "none"]
  /\ todo = [p \in Procs |-> {}]
  /\ failed = [p \in Procs |-> FALSE]
  /\ edits = 0 /\ faults = 0 /\ stops = 0

-------------------------------------------------------------------------------
(* The scope lock: ScopeLock.__enter__ and __exit__.                         *)

\* Slip: the lock file is opened without the exclusive flag.
NotExclusive == lock \in Procs \cup {NoProc}

LockFree == lock = NoProc

\* The point right before `with ScopeLock(...)`.
AtLock(p) == pc[p] = IF p \in Appliers THEN "resolved" ELSE "read"

AcquireLock(p) ==
  /\ AtLock(p)
  /\ LockFree
  /\ lock' = p
  /\ Goto(p, "locked")
  /\ UNCHANGED <<files, claim, saved, damaged, status, local, edits, faults, stops>>

\* The lock file exists: TransactionBusyError at once, nothing waits.
Busy(p) ==
  /\ AtLock(p)
  /\ ~LockFree
  /\ Goto(p, "done")
  /\ UNCHANGED <<disk, local, edits, faults, stops>>

\* The token cannot be written; the partial lock file is cleaned up, or stays.
AcquireFails(p) ==
  /\ AtLock(p)
  /\ LockFree
  /\ Fault
  /\ lock' \in {NoProc, p}
  /\ Goto(p, "done")
  /\ UNCHANGED <<files, claim, saved, damaged, status, local, edits, stops>>

Release(p) ==
  /\ pc[p] = "releasing"
  /\ \/ lock' = NoProc /\ NoFault
     \/ UNCHANGED lock /\ Fault
  /\ Goto(p, "done")
  /\ UNCHANGED <<files, claim, saved, damaged, status, local, edits, stops>>

-------------------------------------------------------------------------------
(* apply_plan up to the journal.                                             *)

\* A plan is built from the files of the moment; a delete needs a hash.
MakePlan(a) ==
  /\ pc[a] = "start"
  /\ \E d \in Plans[a] :
       /\ \A t \in Targets : d[t] = Absent => files[t].data # Absent
       /\ plan' = [plan EXCEPT ![a] = d]
  /\ expected' = [expected EXCEPT ![a] = [t \in Targets |-> files[t].data]]
  /\ Goto(a, "planned")
  /\ UNCHANGED <<disk, before, chosen, seen, todo, failed, edits, faults, stops>>

\* _resolve_plan captures the before hashes without the lock.
Resolve(a) ==
  /\ pc[a] = "planned"
  /\ before' = [before EXCEPT ![a] = files]
  /\ Goto(a, "resolved")
  /\ UNCHANGED <<disk, plan, expected, chosen, seen, todo, failed, edits, faults, stops>>

\* _verify_pre_state compares the captured hashes with the plan.
PreStateOK(a) == \A t \in InPlan(a) : before[a][t].data = expected[a][t]

\* Slip: the refusal returns without leaving the lock.
RefuseKeepsLock(a) ==
  /\ pc[a] = "locked" /\ a \in Appliers
  /\ ~PreStateOK(a)
  /\ Goto(a, "done")
  /\ UNCHANGED <<disk, local, edits, faults, stops>>

RefusePlan(a) ==
  /\ pc[a] = "locked" /\ a \in Appliers
  /\ ~PreStateOK(a)
  /\ Goto(a, "releasing")
  /\ UNCHANGED <<disk, local, edits, faults, stops>>

Claim(a) ==
  /\ pc[a] = "locked" /\ a \in Appliers
  /\ PreStateOK(a)
  /\ claim' = [claim EXCEPT ![a] = "preparing"]
  /\ Goto(a, "claimed")
  /\ UNCHANGED <<files, lock, saved, damaged, status, local, edits, faults, stops>>

ClaimFails(a) ==
  /\ pc[a] = "locked" /\ a \in Appliers
  /\ PreStateOK(a)
  /\ Fault
  /\ \E c \in {"none", "preparing", "prepare_failed"} :
       claim' = [claim EXCEPT ![a] = c]
  /\ Goto(a, "releasing")
  /\ UNCHANGED <<files, lock, saved, damaged, status, local, edits, stops>>

\* create_backup reads every existing source and compares its hash.
Backup(a) ==
  /\ pc[a] = "claimed"
  /\ Unchanged(a, {t \in InPlan(a) : Existed(a, t)})
  /\ saved' = saved \cup {a}
  /\ Goto(a, "saved")
  /\ UNCHANGED <<files, lock, claim, damaged, status, local, edits, faults, stops>>

\* verify_backup, _stage_writes, _revalidate_complete_plan.
Stage(a) ==
  /\ pc[a] = "saved"
  /\ Verified(a)
  /\ Unchanged(a, InPlan(a))
  /\ Goto(a, "staged")
  /\ UNCHANGED <<disk, local, edits, faults, stops>>

\* The preparation meets data that is not what was captured, or a bad backup.
PrepareRefused(a) ==
  \/ /\ pc[a] = "claimed"
     /\ ~Unchanged(a, {t \in InPlan(a) : Existed(a, t)})
  \/ /\ pc[a] = "saved"
     /\ ~(Verified(a) /\ Unchanged(a, InPlan(a)))

\* The preparation raises, by a refusal or an I/O error.  The failure marker is
\* written next to the claim; failing to write it is only a note on the error.
\* A journal that was being published stays on disk, torn or whole.
PrepareFails(a) ==
  /\ pc[a] \in {"claimed", "saved", "staged", "publishing"}
  /\ \E marker \in {0, 1} :
       LET cost == marker + IF PrepareRefused(a) THEN 0 ELSE 1
       IN  /\ faults + cost <= MaxFaults
           /\ faults' = faults + cost
           /\ claim' = IF marker = 1 THEN claim
                       ELSE [claim EXCEPT ![a] = "prepare_failed"]
  /\ IF pc[a] = "publishing"
     THEN \E s \in {"torn", "prepared"} : SetStatus(a, s)
     ELSE UNCHANGED status
  /\ Goto(a, "releasing")
  /\ UNCHANGED <<files, lock, saved, damaged, local, edits, stops>>

\* _publish_initial_journal creates the file, then writes and reads it back.
OpenJournal(a) ==
  /\ pc[a] = "staged"
  /\ SetStatus(a, "torn")
  /\ Goto(a, "publishing")
  /\ UNCHANGED <<files, lock, claim, saved, damaged, local, edits, faults, stops>>

PublishJournal(a) ==
  /\ pc[a] = "publishing"
  /\ SetStatus(a, "prepared")
  /\ Goto(a, "prepared")
  /\ UNCHANGED <<files, lock, claim, saved, damaged, local, edits, faults, stops>>

\* The second verify_backup and _revalidate_complete_plan, outside any try.
RecheckOK(a) == Verified(a) /\ Unchanged(a, InPlan(a))

Recheck(a) ==
  /\ pc[a] = "prepared"
  /\ RecheckOK(a)
  /\ Goto(a, "checked")
  /\ UNCHANGED <<disk, local, edits, faults, stops>>

RecheckFails(a) ==
  /\ pc[a] = "prepared"
  /\ IF RecheckOK(a) THEN Fault ELSE NoFault
  /\ Goto(a, "releasing")
  /\ UNCHANGED <<disk, local, edits, stops>>

-------------------------------------------------------------------------------
(* The commit loop of apply_plan.                                            *)

\* Slip: "committing" is set on the object and not written.
BeginCommitUnsaved(a) ==
  /\ pc[a] = "checked"
  /\ todo' = [todo EXCEPT ![a] = InPlan(a)]
  /\ Goto(a, "committing")
  /\ UNCHANGED <<disk, plan, expected, before, chosen, seen, failed, edits, faults, stops>>

BeginCommit(a) ==
  /\ pc[a] = "checked"
  /\ SetStatus(a, "committing")
  /\ todo' = [todo EXCEPT ![a] = InPlan(a)]
  /\ Goto(a, "committing")
  /\ UNCHANGED <<files, lock, claim, saved, damaged, plan, expected, before,
                 chosen, seen, failed, edits, faults, stops>>

\* A journal write that raises left the old journal or the new one on disk.
BeginCommitFails(a) ==
  /\ pc[a] = "checked"
  /\ Fault
  /\ \E s \in {"prepared", "committing"} : SetStatus(a, s)
  /\ Goto(a, "undo")
  /\ UNCHANGED <<files, lock, claim, saved, damaged, local, edits, stops>>

\* _verify_current_target, right before the replace or the unlink.
CheckTarget(a) ==
  /\ pc[a] = "committing"
  /\ \E t \in Targets : At(a, t) /\ Unchanged(a, {t})
  /\ Goto(a, "replacing")
  /\ UNCHANGED <<disk, local, edits, faults, stops>>

CheckTargetFails(a) ==
  /\ pc[a] = "committing"
  /\ \E t \in Targets :
       At(a, t) /\ IF Unchanged(a, {t}) THEN Fault ELSE NoFault
  /\ Goto(a, "undo")
  /\ UNCHANGED <<disk, local, edits, stops>>

\* The unlink of a delete raises when the file is gone.
Missing(a, t) == plan[a][t] = Absent /\ files[t].data = Absent

\* os.replace of the staged file, or unlink.
ReplaceTarget(a) ==
  /\ pc[a] = "replacing"
  /\ \E t \in Targets :
       /\ At(a, t)
       /\ ~Missing(a, t)
       /\ files' = [files EXCEPT ![t] = [data |-> plan[a][t], by |-> a]]
       /\ todo' = [todo EXCEPT ![a] = @ \ {t}]
  /\ Goto(a, "committing")
  /\ UNCHANGED <<lock, claim, saved, damaged, status, plan, expected, before,
                 chosen, seen, failed, edits, faults, stops>>

ReplaceTargetFails(a) ==
  /\ pc[a] = "replacing"
  /\ \E t \in Targets :
       At(a, t) /\ IF Missing(a, t) THEN NoFault ELSE Fault
  /\ Goto(a, "undo")
  /\ UNCHANGED <<disk, local, edits, stops>>

Commit(a) ==
  /\ pc[a] = "committing"
  /\ LoopDone(a)
  /\ SetStatus(a, "committed")
  /\ Goto(a, "releasing")
  /\ UNCHANGED <<files, lock, claim, saved, damaged, local, edits, faults, stops>>

CommitFails(a) ==
  /\ pc[a] = "committing"
  /\ LoopDone(a)
  /\ Fault
  /\ \E s \in {"committing", "committed"} : SetStatus(a, s)
  /\ Goto(a, "undo")
  /\ UNCHANGED <<files, lock, claim, saved, damaged, local, edits, stops>>

\* Slip: the except clause raises again without restoring.
NoUndo(a) ==
  /\ pc[a] = "undo"
  /\ Goto(a, "releasing")
  /\ UNCHANGED <<disk, local, edits, faults, stops>>

\* The except clause: "rolling_back" is written, or is only a note.
BeginUndo(a) ==
  /\ pc[a] = "undo"
  /\ \/ SetStatus(a, "rolling_back") /\ NoFault
     \/ UNCHANGED status /\ Fault
  /\ Goto(a, "restaging")
  /\ UNCHANGED <<files, lock, claim, saved, damaged, local, edits, stops>>

-------------------------------------------------------------------------------
(* rollback_transaction up to the restore.                                   *)

\* The journal is read, and its status judged, before the lock is taken.
ReadJournal(r) ==
  /\ pc[r] = "start"
  /\ \E x \in Appliers :
       /\ status[x] \in Rollbackable
       /\ chosen' = [chosen EXCEPT ![r] = x]
       /\ seen' = [seen EXCEPT ![r] = status[x]]
  /\ Goto(r, "read")
  /\ UNCHANGED <<disk, plan, expected, before, todo, failed, edits, faults, stops>>

\* No journal, an unreadable one, or "transaction is not committed".
RefuseJournal(r) ==
  /\ pc[r] = "start"
  /\ \E x \in Appliers : status[x] \notin Rollbackable
  /\ Goto(r, "done")
  /\ UNCHANGED <<disk, local, edits, faults, stops>>

\* The preflight of rollback_transaction under the lock, all or nothing.
PreflightOK(r) ==
  LET x == chosen[r]
  IN  /\ Verified(x)
      /\ \A t \in InPlan(x) :
           \/ files[t].data = plan[x][t]
           \/ seen[r] \in Interrupted /\ Unchanged(x, {t})

Preflight(r) ==
  /\ pc[r] = "locked" /\ r \in Rollbackers
  /\ PreflightOK(r)
  /\ Goto(r, "rollback")
  /\ UNCHANGED <<disk, local, edits, faults, stops>>

PreflightFails(r) ==
  /\ pc[r] = "locked" /\ r \in Rollbackers
  /\ IF PreflightOK(r) THEN Fault ELSE NoFault
  /\ Goto(r, "releasing")
  /\ UNCHANGED <<disk, local, edits, stops>>

BeginRollback(r) ==
  /\ pc[r] = "rollback"
  /\ SetStatus(chosen[r], "rolling_back")
  /\ Goto(r, "restaging")
  /\ UNCHANGED <<files, lock, claim, saved, damaged, local, edits, faults, stops>>

BeginRollbackFails(r) ==
  /\ pc[r] = "rollback"
  /\ Fault
  /\ \/ SetStatus(chosen[r], "rolling_back")
     \/ UNCHANGED status
  /\ Goto(r, "releasing")
  /\ UNCHANGED <<files, lock, claim, saved, damaged, local, edits, stops>>

-------------------------------------------------------------------------------
(* _restore_from_backup_entries, run by an applier that failed and by a      *)
(* rollbacker.                                                               *)

\* Every payload is verified and staged before any target is touched.
StageRestore(p) ==
  /\ pc[p] = "restaging"
  /\ Verified(Tx(p))
  /\ todo' = [todo EXCEPT ![p] = InPlan(Tx(p))]
  /\ failed' = [failed EXCEPT ![p] = FALSE]
  /\ Goto(p, "restoring")
  /\ UNCHANGED <<disk, plan, expected, before, chosen, seen, edits, faults, stops>>

StageRestoreFails(p) ==
  /\ pc[p] = "restaging"
  /\ IF Verified(Tx(p)) THEN Fault ELSE NoFault
  /\ todo' = [todo EXCEPT ![p] = {}]
  /\ failed' = [failed EXCEPT ![p] = TRUE]
  /\ Goto(p, "restoring")
  /\ UNCHANGED <<disk, plan, expected, before, chosen, seen, edits, stops>>

\* _revalidate_restore_entry: the target is what it was before or after.
CheckRestore(p) ==
  /\ pc[p] = "restoring"
  /\ \E t \in Targets : At(p, t) /\ Restorable(Tx(p), t)
  /\ Goto(p, "reverting")
  /\ UNCHANGED <<disk, local, edits, faults, stops>>

\* Slip: a target that drifted is tried again.
SkipRetries(p) ==
  /\ pc[p] = "restoring"
  /\ \E t \in Targets : At(p, t) /\ ~Restorable(Tx(p), t)
  /\ failed' = [failed EXCEPT ![p] = TRUE]
  /\ UNCHANGED <<disk, plan, expected, before, chosen, seen, todo, pc, edits, faults, stops>>

\* A target that drifted or cannot be restored is recorded and passed over.
SkipTarget(p) ==
  /\ pc[p] \in {"restoring", "reverting"}
  /\ \E t \in Targets :
       /\ At(p, t)
       /\ IF pc[p] = "restoring" /\ ~Restorable(Tx(p), t) THEN NoFault ELSE Fault
       /\ todo' = [todo EXCEPT ![p] = @ \ {t}]
  /\ failed' = [failed EXCEPT ![p] = TRUE]
  /\ Goto(p, "restoring")
  /\ UNCHANGED <<disk, plan, expected, before, chosen, seen, edits, stops>>

\* os.replace of the staged payload, or unlink of what should not exist.
RevertTarget(p) ==
  /\ pc[p] = "reverting"
  /\ \E t \in Targets :
       /\ At(p, t)
       /\ files' = IF files[t].data = Absent /\ ~Existed(Tx(p), t) THEN files
                   ELSE [files EXCEPT ![t] = before[Tx(p)][t]]
       /\ todo' = [todo EXCEPT ![p] = @ \ {t}]
  /\ Goto(p, "restoring")
  /\ UNCHANGED <<lock, claim, saved, damaged, status, plan, expected, before,
                 chosen, seen, failed, edits, faults, stops>>

\* Slip: the collected failures are not raised.
FailuresDropped(p) == "rolled_back"

Outcome(p) == IF failed[p] THEN "rollback_failed" ELSE "rolled_back"

\* The outcome is written; in apply_plan a failure to write it is only a note.
FinishRestore(p) ==
  /\ pc[p] = "restoring"
  /\ LoopDone(p)
  /\ \/ SetStatus(Tx(p), Outcome(p)) /\ NoFault
     \/ UNCHANGED status /\ Fault
  /\ Goto(p, "releasing")
  /\ UNCHANGED <<files, lock, claim, saved, damaged, local, edits, stops>>

-------------------------------------------------------------------------------
(* The environment.                                                          *)

\* The user, or another program, changes a target.
EditFile(t) ==
  /\ edits < MaxEdits
  /\ edits' = edits + 1
  /\ \/ EditsInWindow
     \/ \A p \in Procs : ~(pc[p] \in {"replacing", "reverting"} /\ At(p, t))
  /\ \E d \in EditData \ {files[t].data} :
       files' = [files EXCEPT ![t] = [data |-> d, by |-> edits']]
  /\ UNCHANGED <<lock, claim, saved, damaged, status, local, pc, faults, stops>>

\* A backup payload is damaged or removed outside the program.
DamageBackup(x) ==
  /\ x \in saved \ damaged
  /\ Fault
  /\ damaged' = damaged \cup {x}
  /\ UNCHANGED <<files, lock, claim, saved, status, local, pc, edits, stops>>

Running(p) == pc[p] \notin {"start", "done", "killed"}

\* Ctrl-C: no except clause runs, ScopeLock.__exit__ does, unless the interrupt
\* falls into __enter__ or __exit__ itself: then the lock file may stay.
Interrupt(p) ==
  /\ Running(p)
  /\ stops < MaxStops /\ stops' = stops + 1
  /\ \/ lock' = IF lock = p THEN NoProc ELSE lock
     \/ AtLock(p) /\ LockFree /\ lock' = p
     \/ pc[p] = "releasing" /\ UNCHANGED lock
  /\ Goto(p, "done")
  /\ UNCHANGED <<files, claim, saved, damaged, status, local, edits, faults>>

\* The process or the machine dies; the lock file stays.
Kill(p) ==
  /\ Running(p)
  /\ stops < MaxStops /\ stops' = stops + 1
  /\ Goto(p, "killed")
  /\ UNCHANGED <<disk, local, edits, faults>>

\* Nothing in the program breaks a stale lock: the user removes it.
RemoveStaleLock ==
  /\ lock \in Procs
  /\ ~Running(lock)
  /\ lock' = NoProc
  /\ UNCHANGED <<files, claim, saved, damaged, status, local, pc, edits, faults, stops>>

-------------------------------------------------------------------------------

ApplyStep(a) ==
  \/ MakePlan(a) \/ Resolve(a)
  \/ RefusePlan(a) \/ Claim(a) \/ ClaimFails(a)
  \/ Backup(a) \/ Stage(a) \/ PrepareFails(a)
  \/ OpenJournal(a) \/ PublishJournal(a) \/ Recheck(a) \/ RecheckFails(a)
  \/ BeginCommit(a) \/ BeginCommitFails(a)
  \/ CheckTarget(a) \/ CheckTargetFails(a)
  \/ ReplaceTarget(a) \/ ReplaceTargetFails(a)
  \/ Commit(a) \/ CommitFails(a) \/ BeginUndo(a)

RollbackStep(r) ==
  \/ ReadJournal(r) \/ RefuseJournal(r)
  \/ Preflight(r) \/ PreflightFails(r)
  \/ BeginRollback(r) \/ BeginRollbackFails(r)

LockStep(p) == AcquireLock(p) \/ Busy(p) \/ AcquireFails(p) \/ Release(p)

RestoreStep(p) ==
  \/ StageRestore(p) \/ StageRestoreFails(p)
  \/ CheckRestore(p) \/ SkipTarget(p) \/ RevertTarget(p) \/ FinishRestore(p)

ProcStep(p) ==
  \/ LockStep(p) \/ RestoreStep(p)
  \/ p \in Appliers /\ ApplyStep(p)
  \/ p \in Rollbackers /\ RollbackStep(p)

Environment ==
  \/ \E t \in Targets : EditFile(t)
  \/ \E x \in Appliers : DamageBackup(x)
  \/ \E p \in Procs : Interrupt(p) \/ Kill(p)
  \/ RemoveStaleLock

Next == (\E p \in Procs : ProcStep(p)) \/ Environment

Spec == Init /\ [][Next]_vars

\* A running invocation keeps executing: the operating system schedules it,
\* and no step of it waits for another process.
Progress(p) == Running(p) /\ ProcStep(p)

FairSpec == Spec /\ \A p \in Procs : WF_vars(Progress(p))
-------------------------------------------------------------------------------
(* Properties.                                                               *)

\* Target t holds the very version that transaction x installed.
Installed(x, t) == files[t].by = x

\* Another backup holds the version that x captured: its restore may put that
\* version back after the user undid what x wrote.
SharedCapture(x, t) ==
  \E y \in saved \ {x} : t \in InPlan(y) /\ before[y][t] = before[x][t]

\* Target t holds the version from before x, and x is the reason.
Untouched(x, t) == files[t] = before[x][t] /\ ~SharedCapture(x, t)

\* Some of what x does has happened and some has not.
Partial(x) ==
  /\ \E t \in InPlan(x) : Installed(x, t)
  /\ \E t \in InPlan(x) : Untouched(x, t)

\* Processes that are working on transaction x under the lock.
Attended(x) == \E p \in Procs : pc[p] \in Locked /\ Tx(p) = x

\* Statuses that doctor reports as transaction.recovery-required.
Flagged == {"prepared", "committing", "rolling_back", "rollback_failed"}

\* The scope lock serialises everything between __enter__ and __exit__: a
\* process in that section owns the lock file, whatever others do, fail or die.
LockHeld == \A p \in Procs : pc[p] \in Locked => lock = p

\* A lock file whose owner ended is the trace of a kill or of an I/O error:
\* every refusal, failure and rollback path of the engine releases the lock.
NoOrphanLock ==
  lock \in Procs /\ ~Running(lock) => stops > 0 \/ faults > 0

\* Statuses before the commit.
Early == {"none", "torn", "prepared"}

\* The backup of x is complete, its claim stands and its journal says that the
\* commit began.
Begun(x) == x \in saved /\ claim[x] = "preparing" /\ status[x] \notin Early

\* A version that x wrote is on disk only when x has begun, in whatever order
\* processes act, fail, die and roll one another back: a crash at any point finds
\* the backup and the journal that undoing it needs.
BackupPrecedesInstall ==
  \A x \in Appliers, t \in Targets : Installed(x, t) => Begun(x)

\* What x wrote is no longer there when its journal says "rolled_back": a version
\* of x on disk is one that a rollback of x still undoes.  (No two writers of the
\* same data; with them, see LaterWorkSurvives.)
InstalledIsJournaled ==
  \A x \in Appliers, t \in Targets : Installed(x, t) => status[x] \in Rollbackable

\* A journal that says "committed" tells the truth: none of its targets still
\* holds the version from before the transaction, unless another backup has that
\* version too and may have put it back.  (After a second I/O error, when
\* "rolling_back" cannot be written either, the restore runs under it.)
CommittedIsComplete ==
  \A x \in Appliers :
    status[x] = "committed" /\ faults < 2 => \A t \in InPlan(x) : ~Untouched(x, t)

\* A transaction that is applied in part is visible to doctor, with the same
\* exceptions.
PartialIsFlagged == \A x \in Appliers : Partial(x) /\ faults < 2 => status[x] \in Flagged

\* A forced failure leaves no partial state behind.  When nobody works on x any
\* more, no process was stopped and no user edit stood in the way, x is partial
\* only if the restore itself met an error (the second one, in an apply); the
\* journal then says "rollback_failed", or "rolling_back" when that could not be
\* written, and every target is one a further rollback can restore.
NoPartialState ==
  \A x \in Appliers :
    Partial(x) /\ ~Attended(x) /\ stops = 0 /\ edits = 0 =>
      /\ status[x] \in {"rolling_back", "rollback_failed"}
      /\ faults > 1 \/ \E r \in Rollbackers : chosen[r] = x
      /\ \A t \in InPlan(x) : Restorable(x, t)

\* An apply overwrites or deletes only data the approved plan was built from,
\* however long ago it was built, however the capture, the lock, the backup and
\* the commit loop interleave with edits and with other transactions.  (Holds
\* when no edit falls between a hash check and its replace.)
ApprovedStep ==
  \A a \in Appliers, t \in Targets :
    /\ pc[a] = "replacing"
    /\ files'[t] # files[t]
    /\ files'[t].by = a
    => files[t].data = expected[a][t]

OverwritesOnlyApproved == [][ApprovedStep]_vars

\* Restoring x never destroys later work: a version it puts back replaces one
\* that x installed, or data equal to what it puts back.
LaterWorkSurvives ==
  [][\A p \in Procs, t \in Targets :
       /\ pc[p] = "reverting"
       /\ files'[t].data # files[t].data
       /\ files'[t] = before[Tx(p)][t]
       => Installed(Tx(p), t)]_vars

\* A journal that says "rolled_back" is final: it is not rolled back again.
RolledBackIsFinal ==
  [][\A x \in Appliers :
       status[x] = "rolled_back" => status'[x] = "rolled_back"]_vars

\* Every invocation that started ends, by itself: no step waits for another
\* process, no loop of the commit or of the restore runs for ever.
InvocationsEnd == \A p \in Procs : Running(p) ~> ~Running(p)
===============================================================================
