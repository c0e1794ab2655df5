# A verification model of agent-workflow

`agent-workflow` (the Python package in `src/src/agent_workflow`) sets up and maintains an
agent-neutral workflow in a directory: canonical rules, memory, skills, and adapters for Claude
and Codex. It also migrates native configurations into that layout. Everything that changes files
goes through one transaction engine: a plan is previewed, saved, approved and applied later, with
a lock, a backup and a journal, and can be rolled back.

This directory holds TLA+ models of the parts whose correctness is hardest to test, the TLC
configurations that check them, and proofs checked by TLAPS. Paths below are relative to
`src/src/agent_workflow` unless they start with `docs/`, `tests/` or a capitalised file of the
repository's root.

1. [Inventory](#1-inventory)
2. [Modules](#2-modules-and-how-they-correspond-to-the-code)
3. [Runs](#3-runs)
4. [Fairness and deadlock](#4-fairness-and-deadlock)
5. [Proofs](#5-proofs)
6. [Where the code and its documents disagree](#6-where-the-code-and-its-documents-disagree)
7. [What is not modelled, and why](#7-what-is-not-modelled-and-why)
8. [Plan](#8-plan)

## 1. Inventory

| Component | Source | State it keeps | Operations | What makes it correct |
|---|---|---|---|---|
| transaction engine | `transactions/engine.py` | target files, claim, staging | `apply_plan`, `rollback_transaction` | all or nothing; only approved data is overwritten; what is partial is visible and restorable |
| scope lock | `transactions/lock.py` | `.workflow.lock` | `__enter__`, `__exit__` | mutual exclusion; no refusal or failure leaves the lock behind |
| backup | `transactions/backup.py` | `workflow/backups/<id>` | `create_backup`, `verify_backup`, `read_verified_payload` | complete before the first target changes |
| journal | `transactions/journal.py` | `workflow/journals/<id>.json` | publish, replace, parse | its status never claims more than the files show |
| plans | `plan.py`, `model.py`, `errors.py` | the saved plan | operations with `expected_sha256` | a stale plan is refused |
| setup | `setup.py` | scope files, `manifest.json` | `build_setup_plan` | user files are never overwritten; repeated setup is idempotent |
| layout | `layout.py`, `profiles.py` | neutral core, ignore files | `plan_neutral_init`, `plan_profile_files` | seeds are never replaced; the managed block keeps the user's lines |
| manifest | `manifest.py` | layout and digests of generated files | parse, write | lists what the manager wrote, and nothing else |
| doctor | `doctor.py`, `portability.py` | none | `run_doctor` | blocks on real damage only; an unfinished transaction is reported |
| migration apply | `migration/apply.py` | two journals | `apply_migration` | nothing native is removed before its import is whole |
| migration inventory | `migration/{inventory,model}.py` | the inventory document | `scan_migration_inventory` | every native file below a root once, as what its deepest root says; nothing of the manager's |
| migration planner | `migration/planner.py` | the migration plan | `build_migration_plan` | nothing is lost or deleted unread, nothing of the user's in the neutral scope is overwritten, no plan on stale documents |
| normalization | `migration/normalize.py` | the normal forms document | `normalize_deterministic`, `resolve_normalized_collisions` | one destination for one content; ties broken the same way every time |
| classification | `migration/classification.py` | request and response documents | `build_classification_request`, `validate_classification_response` | decisions count for the text they were made on, once each |
| native mapping | `migration/mappings.py`, `adapters/{claude,codex}/migration.py` | none | `map_native_artifacts` | what cannot be mapped keeps the native files in place |
| redaction, report | `migration/{redaction,report}.py` | none | redaction of text, rendering | secrets are never shown nor imported |
| adapters | `adapters/*` | none | registry, rendering, native locations | precedence and trust of external adapters |
| paths, hashing | `paths.py`, `hashing.py` | none | safe resolution, digests | no path leaves its root |
| command line | `cli.py` | plan files | one command per operation | refusals, exit codes |
| package, scripts, content | `package.py`, `resources.py`, `scripts/`, `skills/`, `templates/` | none | reading the checkout, installing | - |

**Interactions.** Processes meet in the file system only. `setup`, `plan init` and `migrate plan` are
*previews*: they read the scope without the lock and save a plan file. `apply` and `rollback`
read it back, maybe much later, and call the engine, which takes the lock of the scope.
`apply_migration` calls the engine up to four times (import, undo of it, replacement, undo of it)
and calls doctor twice; the lock is free between these calls. The manifest is an ordinary target
of a setup transaction, so that a rollback takes it back with the files it describes. The commands
of `migrate` (scan, normalize, classify-request, validate-response, plan, apply) talk through
documents that the user names on the command line: each may be of another age than the next, and
every command reads the native files again.

**What is hard here.**

- *State read before the lock and used under it*: the before hashes (`engine.py:47`) and the
  journal of a rollback (`engine.py:174`).
- *Check, then act*: a hash is compared and then `os.replace` is called (`engine.py:134`); no
  file system call does both.
- *Crashes and failures in the middle*: of the commit loop, of its undo, of a journal write, of
  the acquisition of the lock, and between the two transactions of a migration.
- *Staleness*: an edit, an upgrade, another plan or a rollback between preview and apply.
- *Several reads of one thing*: the planner of a migration reads every source three times, the
  inventory determines the manager's files before it walks, and the user edits in between.
- *Documents of different ages*: a decision on an older text, or older normal forms, must not be
  taken for the present ones.
- *The tool's own output as its next input*: an imported skill is a source of Codex, a rendered
  entrypoint is a source of Claude, `memory/IMPORTED.md` is written by every migration.
- *Links*: roots lie in each other and symbolic links lead between them, in circles and out.
- *Long legal sequences*: setup, upgrade, exclusion, `plan init`, repair and rollback in any
  order, with nothing but the manifest to remember who wrote what.

`PROJECT.json` lists each of these hazards at its line with the properties aimed at it.

## 2. Modules, and how they correspond to the code

```
ScopeTransaction  (engine, lock, backup, journal, one step per file operation)
   |  refined by ScopeRefinement to
ScopeContract     (untouched, open, whole, undone)
   |  taken as single steps by
TransactionSteps  --->  MigrationApply   (apply_migration, previews of a migration)
                  --->  SetupPlan        (setup, plan init, manifest, doctor)

MigrationNormalization   what one native file becomes; collisions of destinations
   |  extended by
MigrationClassification  redaction, requests, responses, decisions
   |  extended by
NativeMapping            fields of settings for another agent
   |  extended by
MigrationPlanner         the migrate commands, with build_migration_plan read by read

MigrationInventory       migrate scan, directory by directory
```

### ScopeTransaction

One scope, any number of invocations. An *applier* makes a plan and applies it; since it creates
at most one transaction, the transaction bears its name. A *rollbacker* reads the journal of some
transaction and rolls it back.

| Variable | Code |
|---|---|
| `files` | the targets; `data` is what a hash can tell apart, `by` is history that only properties read |
| `lock` | the owner of `.workflow.lock` |
| `claim` | `claim.json` of the namespace and its failure marker |
| `saved`, `damaged` | backups that are complete, and ones that no longer verify |
| `status` | status in the journal file; `"none"` when there is no file, `"torn"` when it cannot be parsed |
| `plan`, `expected` | operations and their `expected_sha256` |
| `before` | the hashes captured by `_resolve_plan`, later in the journal and the backup |
| `pc`, `todo`, `failed`, `chosen`, `seen` | program counter and locals; `seen` is the status read *before* the lock |

Each call that changes the disk is an action; each has a twin `...Fails` for an exception at that
point, with the except clause that follows it in the code. `Interrupt` is Ctrl-C:
`KeyboardInterrupt` is no `Exception`, so that the except clauses do not run and `__exit__` does.
`Kill` is the death of the process. Nothing in the program breaks a stale lock, hence
`RemoveStaleLock` is the user.

*Granularity.* `Resolve` captures all targets in one step; `Backup`, `Stage`, `Recheck`,
`Preflight` and `StageRestore` check all targets in one step. The commit loop and the restore loop
are split at every check and at every replace, because that is where targets change. Claim and
journal writes are atomic (they are written to a temporary file and replaced), the initial journal
is not (`open(..., "xb")`), hence `"torn"`.

### ScopeContract, ScopeRefinement

What a caller may rely on: a transaction is untouched, open, whole or undone; only an open one
writes; it writes a target only over what it captured, and reverts a target only from what it
captured or wanted; it is called whole when no target is left at the captured version, and undone
when none holds its own. `ScopeRefinement` maps the journal status to the phase and states
`ImplementsContract`. The contract lets a transaction that is undone be opened again, because the
code does (finding `stale_status`).

### TransactionSteps, MigrationApply

`TransactionSteps` gives the outcome of a whole transaction as operators: `Approved`, `Installed`
(all targets, or a subset when it is left open), `RollbackOK`, `Restored`, `PartlyRestored`. It has the `prepared`
phase of its own, since doctor reports it and rollback refuses it.

`MigrationApply` has one action per stage of `apply_migration`: `Start` (refusals), `Verify`,
`Import`, `Doctor`, `UndoImport`, `Reverify`, `Replace`, `Redoctor`, `UndoReplace`, and the
failure of each transaction. A transaction may succeed, be refused, be undone without a trace or
be left `open` or `prepared` (`ApplyStuck`). A rollback, the user's or the migration's own, may
succeed, be refused, or stop after any of its targets and leave the journal `open`
(`RollbackStuck`), to be rolled back again. `Preview` gives the operations that
`build_migration_plan` gives a source: no operation when its image is already in place, a conflict
when something else is, a blocker for a user's entrypoint that cannot be reconciled. `broken`
stands for everything else that doctor may block on. The user edits native and neutral files and
rolls journals back, also while a migration runs; `meddled` records that, and the properties that
do not survive it say so.

### SetupPlan

`files` holds the outputs of a setup and the manifest; `plans` the saved plan files; `journals` the
transactions. A digest is known by the content it is the digest of; `Norm` replaces the runtime
roots, as `sha256_runtime_normalized` does, so that a digest matches a content as it is or in its
normal form. Paths have a kind:

| Kind | Code | Rule |
|---|---|---|
| `canonical` | rules of the neutral core | written always, conflict unless absent or as listed (`_can_write`, plain digest) |
| `seeded` | memory index | written when missing, never listed |
| `generated` | wrappers, skills, entrypoints | written when wanted, removed when excluded and listed, conflict unless unmodified (`_generated_conflict`) |
| `merged` | ignore files with a managed block | the block is put in, the rest kept |

Files of canonical skills are checked with `_generated_conflict` and are therefore of kind
`generated` here. `PreviewSetup` and `PreviewInit` are `build_setup_plan` and `plan_neutral_init`;
they write the same manifest and list different files in it. `Doctor` is the set of locations that
doctor blocks on: changed generated files, missing core files, skills without `SKILL.md`. `intact` is
history: the user never removed the manifest, or a file while it was listed.

### MigrationInventory

`tree` maps paths to directories, files and links; a link leads to a path without links, so that
resolving a path (`Resolve`) replaces one name at a time. `Begin` reads the manifest and decides
what is the manager's (`_manager_owned_paths`), *before* the walk. `OpenRoot` is one turn of the loop over the roots,
deepest first; `Walk` is one directory popped from the stack, with the checks in the order of the
code; `Record` is one candidate: identity, ownership, digest. The user edits between any two of
them. `changed` is history. A skill directory is hashed in one step.

### MigrationNormalization, MigrationClassification, NativeMapping

Operators only. A content is a set of files, each a tuple that ends in the user's own text; what
the code tells by reading (frontmatter, "shared", a secret) is a *mark*. So the origin of every
neutral file can be followed, and `<<"memory", 3, "n">>` is the memory that the third source became.
A conversion that keeps a part of its source is told apart from one that keeps it all: a command with
more in its frontmatter than a short description, or with paths of its agent, becomes `<<"abridged", "c">>`
(`Abridged`). What follows the removed keys is not modelled, only that something is missing.
Names are sequences of words, because destinations collide when suffixes are added: the memory
`notes-from-claude` and the memory `notes` of Claude. `Batch` is the grouping by destination, with
its renames, duplicates and conflicts; `Valid` is `validate_classification_response`; `Mapped` gives
the statuses of a settings file for a target, `Unmapped` what blocks a replacement.

### MigrationPlanner

One action per command, and three for `plan`: `Verify` (the normal forms are computed again and
compared, decisions are added, everything is grouped once more), `Screen` (sensitive sources; what
is at the destinations), `Write` (directories are listed for deletion, entrypoints rendered, the
manifest and the list of replacements prepared). These are the three times the planner reads the
native files; the user edits between them (`shaken` has the sources that changed) or in the neutral
scope (`touched`). `PlanFails` are its exceptions. `VerifySources`, `Import`, `VerifyAgain` and
`Replace` are `apply_migration` seen from the planner, with the user's edits between any two of them;
`verified` is what apply hashed last. The transactions are whole or refused, since `MigrationApply` is
about the rest. `neutral` grows with
each import, so the next scan, plan and collision check find what the earlier migration left. A file
of the user's in the neutral scope may hold a secret (`OwnMarks`), and then the neutral skill it is a
part of does.

`MigrationApply` keeps its own, coarser preview: it is about the order of the two transactions,
and needs no more of a plan than its operations.

### MC modules

One `MC` module for each specification gives the constants their values. Operators marked *Slip*
in the modules are plausible bugs; no specification uses them. Each is put in place of one
definition to make sure that the property it is paired with (in `PROJECT.json`, `mutants`) would
notice that bug.

## 3. Runs

| Run | Instance | Question | Result |
|---|---|---|---|
| `live` | 1 apply, 1 rollback, 1 edit (also in the check-replace window), **2** I/O errors, 1 stop | does every invocation end; what do two errors leave; does the journal ever claim more than the disk shows? | five properties hold |
| `overlap` | 2 applies, 1 rollback, 1 edit, 1 stop | lock, stale approvals, drift, and the contract | seven properties hold, `ImplementsContract` among them |
| `repeat` | 4 previews and migrations of 2 sources, 1 edit, 1 stop (of a migration, a transaction or a rollback), rollbacks at any time | can a migration lose data or lie about its result? | six properties hold |
| `setup` | 2 plan files, 4 previews and applies, rollbacks at any time, 2 releases, a removal by the user | do manifest and files agree, and who can block the next setup, when old plans are applied late and rolled back in any order? | five properties hold |
| `stale_plans` | 2 plan files, setup and `plan init`, 2 layouts, 1 edit, an open transaction not recovered first | is the user's work safe with late plans; does rolling everything back restore the scope? | `UserWorkKept`, `UninstallRestores` hold |
| `scan` | 144 trees, 5 roots of 2 agents, 1 edit | does a scan find everything once, and end? | five properties hold |
| `pipeline` | 9 sources of 7 kinds and 2 agents, 5 hosts, the commands in any order and any number of times, 1 edit | what may a plan import, delete and report, whatever its documents? | nine properties hold |
| `stale_status`, `orphan`, `reinit`, `overlay`, `rebuild` | one disagreement each | see section 6 | violated |

**What the properties say.**

- `LockHeld`, `NoOrphanLock`: mutual exclusion whatever fails, and an orphan lock file only after a
  kill, an interrupt or an I/O error.
- `BackupPrecedesInstall`: a version that a transaction wrote is on disk only when its backup is
  complete, its claim stands and its journal says that the commit began. This is what makes every
  crash recoverable. `InstalledIsJournaled`: and the journal is one that rollback still accepts.
- `CommittedIsComplete`, `PartialIsFlagged`: `committed` is true, and what is applied in part is
  shown by doctor.
- `NoPartialState`: after errors alone, a transaction nobody works on is whole or undone, unless the
  restore failed too; then it is restorable.
- `OverwritesOnlyApproved`, `LaterWorkSurvives`: an apply overwrites what its plan was approved
  for, a restore overwrites what its transaction wrote, in every interleaving.
- `RemovedIsRestorable`, `OwnImportPrecedesRemoval`, `AppliedIsClean`, `BlockedIsUndone`: a
  migration removes nothing native before the import is whole, can be taken back through every
  failure, and reports what happened.
- `UserWorkKept` (one in `MigrationApply`, one in `SetupPlan`): the user's content is replaced only
  when the plan was made from it, or is equal to the manager's own, or stays inside a merged file.
- `ManifestTruthful`, `NoOrphans`, `BlockedByUserOnly`, `DoctorBlamesUser`: the manifest lists what
  the manager left, all of it; the next setup and doctor only ever complain of the user's changes.
  All four are about scopes where the user never removed the manifest or a listed file
  (`Undisturbed`), and the first two except outputs that a release drops (`Dropped`): section 6 tells
  what happens otherwise (`orphan`, *The same manifest twice*, *A late exclusion*).
- `ScanIsComplete`, `OneRecordPerFile`, `ManagedLeftOut`, `ScanEnds`: `Expected` computes from the
  tree and the roots alone what a scan should find; the walk with its stack, its visited set and
  its order finds that, and ends. Nothing that is recorded is all the manager's, unless it was touched
  since the scan began, a link renames it, the user put a link into it, or its files went between the
  search and the record.
- `OneWritePerPath`, `SensitiveNotPlanned`, `AskedIsDecided`: what a plan is made of, when requests,
  responses and normal forms may belong to earlier contents.
- `ImportsCurrent`, `NothingLost`, `PreservedIsPreserved`: what applying it does: it imports text
  that was there when this apply hashed the sources, whatever the age of the documents; deletes or
  overwrites piece by piece only what is in the neutral scope, complete unless it is a command that the
  conversion abridges; and leaves alone exactly what the preview said it would. That the text is still
  there when it is imported, and that abridged commands are complete, is said by the documents and not
  so: section 6, *An edit under the import* and *Abridged commands*.
- `EntrypointsListed`, `RepeatedIsQuiet`: the next migration recognises what the last one wrote. A plan
  for the same native files, decisions and time imports nothing and finds nothing that is not its own,
  unless the planner objects to the documents themselves (`Objections`: two sources for one
  destination, a missing decision, a sensitive source and the like).
- `UninstallRestores`: when all transactions are rolled back, in any order the hash checks allow, every
  file has the content it had before the first.

**Bounds, and why they are enough.** Two targets are the least that can be partial; a plan that
deletes one and writes the other and one that leaves a target alone are among the plans. Two
applies and one rollback, or one apply and two rollbacks, are the least that can disagree on a
status read before the lock; a third process only repeats the role of one that has ended. One edit
is one drift; it may hit any target at any time. One I/O error reaches every except clause, two
reach the failures inside an except clause; with two, `committed` can remain in the journal while
the undo runs, so `CommittedIsComplete` and the refinement are stated for one. Contents are
fresh for each writer (`FreshPlans`), so that a confusion of versions is seen; the case of equal
contents is in section 6. Four previews and migrations allow: import, preview again, undo,
apply. Three previews and three applies allow: install, upgrade, exclude, and a rollback of any. With
four, two transactions can write the same manifest over different files, and with two plan files a plan can
be applied behind a repair: these are the ways in which `ManifestTruthful` and `NoOrphans` fail once the user
removed something that is listed, so `setup` has both, and shows that nothing is left of them when the user
did not. The user of `setup` only removes files, wherever and whenever; what the user writes is in
`stale_plans`, which also starts with the user owning at most one of the files (conflicts are per file, so more
of them add refusals only). `setup` has files of every kind but the merged one, which is in `stale_plans` with
the second layout and a transaction left open. Layouts are interchangeable, and so are plan files, hence the
symmetry set. No release of `setup` drops a file, since `DoctorBlamesUser` and `BlockedByUserOnly` fail then: `orphan`
has such a release, and the theorems on `ManifestTruthful` and `NoOrphans` include them.

`scan`: paths in the trees have at most three names (`MaxDepth`; a link counts as one name). A root
of Gemini-like agents contains two others, one of which may be a link to its sibling, to its
parent (a circle) or out of the scope; a root that is a file may be a link to a file below another
root. The neutral skills contain one of the manager's, which may be edited, and a link to it. One
edit hits any of these places between any two steps, or between two scans.

`pipeline`: a command and a skill of one name, the same skill seen through the neutral scope, a
memory and a generated memory of one name, instructions that adapters render, a session, and settings of
both agents, of which those of Codex are mapped for Claude and can block a replacement (Claude is the only
target, so its own settings never do). Five hosts: without and with a manifest, with the entrypoint already
the manager's, and two with the kinds that appear rarely. `MaxEdits = 1`: a native file changes once, or disappears, or a neutral
file is written or deleted, between any two steps; so documents of two ages meet in every
combination. The neutral files that only the user writes are the `SKILL.md` of the imported skill and a
second file next to it, which makes the imported skill differ from its source; each may hold a secret. `Caches = {TRUE}` includes the generated memories. `overlay` and `rebuild` add a second
import time. `Strays` is empty in all runs, for size: what decisions nobody asked for can do is in the
theorems, which are for any `Strays`. Commands run one at a time: two planners share nothing but the documents, and these
may be of any age already.

**Preconditions that narrow a property**, each named where it is defined: `EditsInWindow = FALSE`
in `overlap` (the window is open in `live`); `MaxFaults <= 1` for `CommittedIsComplete`;
no transaction is left open in `setup`; the theorems about its properties have such transactions and suppose
`RecoverFirst`: one left open is rolled back before the next preview or apply, as doctor asks (the code does
not enforce it; without it a core file can be missing after a plan made over an open transaction is applied
behind its rollback); `Undisturbed` (no open transaction, and
the user removed neither the manifest nor a listed file), and `Dropped` for outputs that not all releases
have; for `SensitiveNotPlanned` the directories that were edited while the planner ran (a skill directory is
screened without being compared with its digest again), and no other source; for `NothingLost` `~touched`, a source
that was edited while the planner ran *and* after it was hashed, and the completeness of abridged commands;
`Objections = {}` for `RepeatedIsQuiet`; `changed = {}` for `ScanIsComplete`.

## 4. Fairness and deadlock

`FairSpec` of `ScopeTransaction` has weak fairness of `Progress(p)` for each process, that is, of
any step of a *running* invocation. The operating system schedules it, every step is a finite file
operation, and none waits: a lock that is taken is refused at once (`TransactionBusyError`).
Starting an invocation is not fair, nor is anything of the environment: failures, edits and the
removal of a stale lock need not happen. `MigrationInventory` has weak fairness of `Scanning`, for
the same reason: a scan is one loop in one process. A new scan and an edit are not fair.

Deadlock is checked in the runs of `MigrationPlanner`, where a scan is always possible. The other
configurations set `CHECK_DEADLOCK FALSE`: all invocations end and all counters are bounded, so
that a state without a successor is the normal end.

## 5. Proofs

For any targets, sources, trees, releases, plans, processes and bounds:

| Module | Theorem | Statement |
|---|---|---|
| `ScopeTransactionProofs` | `TypeCorrect` | `Spec => []TypeOK` |
| | `LockExcludes` | `Spec => []LockHeld` |
| | `LockReleased` | `Spec => []NoOrphanLock` |
| | `CrashFindsBackup` | `Spec => []BackupPrecedesInstall` |
| | `ApplyOverwritesApproved` | `~EditsInWindow /\ Spec => OverwritesOnlyApproved` |
| `ScopeOutcomeProofs` | `CommittedMeansComplete` | `Spec => []CommittedIsComplete` |
| | `InstalledMeansJournaled` | `DistinctData`: `Spec => []InstalledIsJournaled` |
| | `PartialMeansFlagged` | `DistinctData`: `Spec => []PartialIsFlagged` |
| | `RestoreSparesLaterWork` | `DistinctData`, `~EditsInWindow`: `Spec => LaterWorkSurvives` |
| | `FailureLeavesNothingPartial` | `Alone`, `MaxFaults < 4`: `Spec => []NoPartialState` |
| `ScopeRefinementProofs` | `EngineImplementsContract` | `DistinctData`, `~EditsInWindow`, `MaxFaults < 2`: `Spec => ImplementsContract` |
| `MigrationApplyProofs` | `TypeCorrect` | `Spec => []TypeOK` |
| | `AppliedMigrationIsClean` | `Spec => AppliedIsClean` |
| | `BlockedMigrationIsUndone` | `Spec => BlockedIsUndone` |
| | `MigrationKeepsUserWork` | `Spec => UserWorkKept` |
| | `ImportPrecedesRemoval` | `Spec => OwnImportPrecedesRemoval` |
| | `RemovedCanBeRestored` | `Spec => []RemovedIsRestorable` |
| `SetupPlanProofs` | `TypeCorrect` | `Spec => []TypeOK` |
| | `SetupKeepsUserWork` | `Spec => UserWorkKept` |
| `SetupManifestProofs` | `ManifestTellsTruth` | `Steady`: `Spec => []ManifestTruthful` |
| | `NothingIsOrphaned` | `Steady`: `Spec => []NoOrphans` |
| | `OnlyUsersBlock` | `Steady`, `NothingDropped`: `Spec => []BlockedByUserOnly` |
| | `DoctorBlocksOnUser` | `Steady`, `SkillsWhole`, `NothingDropped`: `Spec => []DoctorBlamesUser` |
| | `RollingBackRestores` | `Spec /\ RecoveredFirst => []UninstallRestores` |
| `MigrationInventoryProofs` | `TypeCorrect` | `Spec => []TypeOK` |
| | `RecordedOnce` | `Spec => []OneRecordPerFile` |
| | `ManagedIsLeftOut` | `Spec /\ []WellFormed => ManagedLeftOut` |
| `MigrationPlannerProofs` | `TypeCorrect` | `Spec => []TypeOK` |
| | `PlannedIsDecided` | `Spec => []AskedIsDecided` |
| | `EntrypointsAreListed` | `Spec => []EntrypointsListed` |
| | `PreservedIsLeftAlone` | `Spec => PreservedIsPreserved` |
| | `OnePathOneContent` | `Spec => []OneWritePerPath` |
| | `ImportsAreCurrent` | `Spec => ImportsCurrent` |
| | `NothingIsLost` | `Spec => NothingLost` |
| | `NothingSensitiveIsPlanned` | `Spec => []SensitiveNotPlanned` |
| | `RepeatedMigrationIsQuiet` | `Spec => RepeatedIsQuiet` |

### What is supposed

The named assumptions of the modules, which TLC evaluates in every run:

- `ConstantsAssumption` (kinds and ranges).
- `DataAssumption` of `MigrationApply`: files are told apart by digests, so the user does not write
  the very bytes the manager renders or imports, and no such file is "no file".
- `NormAssumption` of `SetupPlan`: replacing the runtime roots twice is replacing them once, and no
  output is the manifest. `ManifestAssumption`: no content and no manifest is taken for "nothing
  to do" or "no file".
- `TreesAssumption` of `MigrationInventory`: paths, and what links lead to, are sequences of names.
  `BoundsAssumption`: finitely many roots, and bounds that are numbers.
- `SourcesAssumption`: finitely many native files, without which "as many decisions as decided
  artifacts" would say nothing, numbered, because ties are broken by the first.
- `WordsAssumption`, `NamesAssumption`: the words of fixed paths are words, and every source has a
  name (`_portable_slug` raises on an empty one, `normalize.py:550`).
- `HostsAssumption`, `AgentsAssumption`, `OptionsAssumption`: what a user may have and write at a
  source is a directory of named files for a skill and one file otherwise, never a generated
  entrypoint; adapters render rules files; a response with unknown kinds does not load; deleting some files of a
  directory leaves a directory.

Hypotheses of single theorems:

- `~EditsInWindow`: no edit falls between a hash check and its replace. The window is real
  (`engine.py:134`); the theorems say that it is the only one.
- `DistinctData`: two transactions write no equal data, and none writes what a target held at first
  or what users write, deletions included. Without it, `InstalledIsJournaled` and `PartialIsFlagged`
  are false: a plan captures the deletion made by another, which is then undone; the user deletes
  the file; the plan is approved for that state, and *its* rollback puts the undone version back.
  Hashes cannot tell the two deletions apart. The instance of `overlap` satisfies `DistinctData`, the one
  of `live` does not, and there the two properties are checked as they are.
- `MaxFaults < 2`: with two I/O errors, `committed` can stay in a journal while the undo runs, which
  the contract does not allow (`CommittedIsComplete` itself is stated for at most one error).
- `Alone`, `MaxFaults < 4`: `NoPartialState` is about one transaction that nothing but errors disturbs, for any
  targets and plan and any number of rollbacks. With another transaction, the targets of one whose undo failed
  may be taken by the other and cannot be restored any more. With four errors (of the commit, of both
  journal writes of the undo, and of the restore) `committed` is left in the journal of a transaction that
  is partial, which TLC shows.
- `Steady`: a transaction left open is rolled back before the next preview or apply, as doctor
  demands; nobody runs `plan init` in a scope of setup (finding `reinit`); core files are not optional
  and do not contain the runtime roots (section 6, `_can_write`). But for the options, which the
  code does not give the core, each is a case in which one of the properties does not hold.
- `NothingDropped`: no release drops an output that another has (finding `orphan`).
  That the user removes nothing that is listed is no hypothesis of the theorems but a part of the
  properties (`Undisturbed`): editing listed files, and writing or removing all others, is allowed at
  any time. The theorems hold for any number of applies, plan files, edits, rollbacks and recoveries.
- `RecoveredFirst`: while a transaction is open, only its own rollback changes a journal, which is what
  doctor asks for (`transaction.recovery-required`, `doctor.py:294`) and no code enforces. Nothing else
  is supposed: any number of plans of any age, `plan init` and edits included. Without it the open
  transaction may be rolled back behind another one, to a content that no apply saw there, and the
  argument fails; TLC found no counterexample in 2 million states with two transactions left open,
  and `stale_plans` checks the property without the hypothesis.
- `[]WellFormed`: in a tree, nodes lie below directories only, as in any file system. `Edit`, which puts
  any node of `Variants` anywhere, keeps that in the instance.
- `SkillsWhole`: every release has the core, and a skill has one option and a `SKILL.md`.

### How the proofs go

**ScopeTransaction.** *Type correctness* is not inductive alone: `status[chosen[r]]` needs that a rollbacker under the
lock has chosen a transaction (`ChosenOK`), and the commit loop needs that it stays inside the
plan (`TodoOK`): what it writes is data, not `Keep`. `Typed` is the conjunction.

*The lock.* `LockInv` adds two facts to `Typed`: `LockHeld` itself, and `OwnerLocked`, that while
nothing was stopped and nothing failed, a lock file that exists belongs to a process between
`__enter__` and `__exit__`. `LockHeld` makes the owner unique, so that a release by one process
cannot take the lock from another.

*Approved overwrites.* `ApplyInv` adds two facts to the lock: `CaptureApproved`, that past the
pre-state check the captured data of every target is the data the plan was approved for; and
`WindowClosed`, that between a hash check and its replace the target still holds the captured data.
The second is where mutual exclusion is needed (no other process replaces a target meanwhile) and
where the assumption on edits is needed (the user does not either).

*Backup before install.* `JournalInv` follows an apply through its preparation
(`PreparingEarly`: the status is an early one; `PreparingClaimed`: the claim and the backup are
there when they should be) into the commit loop (`LoopBegun`). Two facts are needed about the
others: a rollbacker only ever chooses a transaction that has begun (`ChosenLate`), although it
reads the journal without the lock, and a captured version belongs to one that has begun
(`CapturesBegun`), because a restore may put back what another transaction wrote. The lemma
`LateKept` is the heart of it: nothing takes a transaction back to its preparation. The lock is
not needed, nor is the assumption on edits.

*Committed is complete.* `EngineInv` is the lock and the journal together. `StatusInv` says which
status goes with which stage: a commit loop runs under `committing`, and so does its undo, and a restore under an
interrupted status, unless an I/O error came before. `VersionInv` follows the versions: nobody
captures what is its own (`NoSelfCapture`), what the loop has still to write is on no disk and in no
backup (`NotYetWritten`), and what it has passed is not the captured version any more (`Replaced`). A
restore may put back the version that a committed transaction captured only when its own transaction
captured that very version too (`SharedCapture`, which the property excepts).

*Installed is journaled.* Not inductive in the least: a rollback of `x` puts back what `x` captured,
which may be the version of `y`, and then `y` must still be one that can be rolled back. `LiveInv`
follows the chain of captures from a version to the one below it (`Chain`, the least set closed
under "captured", since a recursive definition would be out of the prover's reach): chains have no
circles (`Acyclic`), every transaction in the chain of what is on disk can be rolled back
(`FilesLive`, and `WindowLive` for what is about to be written), a restore meets its own version on
top and not buried under a later one (`NotBuried`), and a transaction becomes `rolled_back` only when
no file holds its version (`Visited`). Rolling back `x` at a file shortens the chain by `x`; this is
where `DistinctData` is needed, because the code recognises the top of the chain by its digest.
`PartialIsFlagged` follows with `CommittedIsComplete`. `LaterWorkSurvives` needs `RestoreWindow`, the
counterpart of `WindowClosed` for a restore.

*Nothing partial.* `CalmInv` holds while there was no edit and no stop. Every target is then as it was captured
or as it was written (`KnownFiles`), so no check of the commit loop fails without an error, and none of a
restore; nor does a delete, because the plan was made, and approved, from files that exist (`DeletesExist`). What is left is
to count (`UndoCost`): an undo has one error behind it for its cause, one more if its backup is damaged or a
target was not restored, and one more if its journal was not written. The journal with neither
`rolling_back` nor `rollback_failed` in it takes a fourth error. A restore without a failure has restored all
it visited (`Reverted`). TLC checked `CalmInv`, and refuted it for four errors, before it was proved.

*The contract.* With `LiveInv`, `ApplyInv` and `RestoreWindow`, initial states map to initial states,
and each of the actions maps to a step of `ScopeContract` or to a stutter: one lemma for each
kind of step (preparation, commit, rollback, finish, install, revert, edit), on the phase that a
status stands for (`PhaseOf`).

**MigrationApply.** `TypeOK` is not inductive: that an image names a content needs that native
data are the user's or rendered. `Typed` says who can have written what at a native and at a
neutral location, in the files and in every journal. `Progress` follows the running migration:
once the import is behind it, its journal is whole unless the user rolled something back meanwhile
(`meddled`); while the replacement is checked, its journal is another one. `IInv` is both, and gives
the first two properties. *The user's work*: a rollback has to find what the manager wrote, which
the user's file never equals, or in an open transaction the version it would put back, which is
then that file itself (`RollbackSparesUser`), however far the rollback gets; an import goes where nothing was; what is left is the
replacement, which finds what the plan saw. *Import first* adds `PlanImages` (what a plan imports is
the image of the native file it saw) and `Stored` (behind the import, every imported file is in
place or the user's). The replacement then takes a native file only as the plan saw it, so that
the image in place is the image of the file that is taken. *Restorable*: of several journals that
wrote one entrypoint, the one that is rolled back need not be the one that explains what is there
now. `Rooted` strengthens the property to a journal that can put back what was there *before the manager came*
(`Root`), and `CapturedManaged` says that only at entrypoints does a transaction write over another's
version; there all of them wrote the same data, so that a rollback of one leads to its own root. A rollback that stops half
way keeps its journal among the roots of the targets it has not reached.

**SetupPlan.** Only the manifest remembers, so the invariant ties it to the journals: every digest
it lists is the digest of a content that some journal wrote there (`KnownManifest`), the manager's
content at a path is one that some journal wrote (`Known`), and both hold of every version that a
journal could put back. A saved plan writes the contents that its manifest lists (`OpsOK`) over
nothing, something empty, content of the manager's, or its own merge (`SeenOK`). Journals are only
added to (`Grown`), so that all this survives plans that become old. No order of recovery is assumed.

*What the manifest says.* `SoundInv` calls a scope sound when what the manifest lists is there and, unless
the user wrote it, as listed (`Truthful`), and when every file of the manager's is listed (`Ours`). It
looks at the outputs that no release drops (`Lasting`), and requires this, while the history is `intact`, of the files outside of what an
open journal has to finish (`Pending`), and of the state that *every* journal would put back. A plan
contains an operation for all that its manifest, or the one it saw, lists (`Covers`); so a journal replaces the
listed files together with the list, and a partial one leaves unsound only what it will write
again. What is left is that a stale plan is approved only where the files are as it saw
them, that a plan for a sound scope makes a sound scope, and that the next plan for a sound scope is blocked
by nothing of the manager's (`OnlyUsersBlock`). `CoreInv` adds for doctor that only one journal in force found no
manifest (`OneFirst`), so that a rollback of another cannot take the core files away, and that a
seed stays where it was put (`SeedStays`).

*Rolling back.* Journals may be undone in an order that is not the reverse of their applies, wherever a
content comes back, so that no journal's `before` need be what its rollback finds or leaves below
it. What does not depend on the order is a balance: a whole journal is an edge at each location, from
the content it replaced to the one it wrote, and the edges lead from the first content to the present one.
So at every location and every content, as many edges come in as go out, but for these two ends
(`Balanced`). An apply adds an edge at the end and a rollback takes one away that begins where the
file then is. With no edge left both ends are one content. An open transaction is an edge in
parts; `OneOpen` says that there is at most one.

**MigrationInventory.** *Once.* `RecordedIsSeen`: what was recorded was seen, and a file is recorded only
when it was not seen.

*Types and the manager's files.* `Resolve` and `Below` are recursive functions that depend on the tree. That
such a function exists, and what its values are, needs an induction over the numbers, and the
library's theorem takes an operator as its parameter. `NaturalsByStep` states it for a set of numbers, from the
minimum of a well-founded order. It gives three facts: links lead to sequences of names (`LeadsTyped`),
a path without links leads to itself (`PhysicalPath`), and what lies below such a path is there by its
own name (`BelowPhysical`). `ManagedInv` says that while the scan runs, a generated file that is as it was
generated and was not touched since `Begin` is owned; then a candidate without links, all of whose files are the
manager's, is recognised (`OwnIsRecognised`).

**MigrationPlanner.** `Prepared`: the documents are finite; while the planner
runs, and in the plan it wrote, the decisions are those of a valid response to the request that the
inventory *of the plan* gives (`Answered`). That each was decided once is a counting argument:
`DecisionsAreInjective`.

*Entrypoints and what is preserved.* `SourceInv`: a native file is the user's or a listed
entrypoint; records are of what the user wrote, one for a source (`RecordsOK`); a replacement
deletes pieces of recorded sources, lists the entrypoints it writes, keeps what is listed besides,
and reports as preserved what it does not touch (`ReplacementOK`).

*Imports.* `ImportInv` follows texts from records to artifacts (`Sound`: every output is the index or
has its origin in a record), to the imports of a plan, to the files of the neutral scope, and
says of every record that was made into artifacts that all of its pieces are among the outputs
(`Covered`, `Kept`). Its lemmas are about the operators: grouping leaves at least one artifact for each
destination with the files of the group (`BatchKeepsOne`, which needs that the first source of a group
exists: a well-founded order), exactly one when it reports no conflict; outputs of artifacts with different
destinations have different paths (`OutputsDiffer`), which is why names must be words and not be empty; the
index lies at the path of none of them (`DesiredOnce`). `OneWritePerPath` is a part of it. While an apply is
under way, `SourceInv` says that what was hashed last is what the plan was made from. `ImportsCurrent` follows
(`ImportedStep`); an edit after the hashing changes the native file and not `verified`. `NothingLost` follows because what a
replacement takes was migrated (`TakenIsMigrated`), so its pieces were imported or found in place (`ToImport` is what is
still to come), complete unless they are of an abridged command; and because what it takes is what was hashed (`LostStep`).

*What the planner has read.* `ReadInv`: what normalization reads was verified, and is as the inventory has it unless it changed
while the planner ran (`Unshaken`); so of a source that did not, a plan removes exactly the pieces that were imported, and expects
the entrypoint that was (`Exact`). This is what the exceptions of `NothingLost` and `SensitiveNotPlanned` rest on.

*Sensitive sources.* `StemInv` says the same of all artifacts, also when there are conflicts, since the
planner removes the artifacts it distrusts and imports the others: each is `Stemmed`, made from a
record of the inventory with its digest. Directories are not compared with their digest when they are
screened; `ReadInv` carries over from the verification that they were, unless the directory was edited since.

*Repeated.* Two runs of the planner are compared through what they want. Without conflicts grouping
changes the files of no artifact, and what it leaves of the memories depends on the memories alone
(`BatchQuiet`). So what a migration wants is a function of the native records, the decisions, the cache
and the time (`Wanted`), and besides it copies of neutral skills, which are in place already because they
were read there and verified (`CopiesInPlace`). `QuietInv` says that a migration applied last left
`Wanted` in the scope, until somebody edits it, and that a plan under way for the same native records wants no more;
`Write` then finds every output in place (`WriteQuiet`).

`ImportInv`, `StemInv` and `QuietInv` were checked with TLC, on the instance of `pipeline`, before they
were proved. The last attempt changed the property: TLC refuted its first form on an instance where
the user has put a file of his own next to an imported skill (section 6), hence `Objections`.

### What is only model-checked

| Property | Why it is not proved |
|---|---|
| `InvocationsEnd`, `ScanEnds` | Liveness under fairness is out of the prover's reach. |
| `ScanIsComplete` | That a depth-first walk with a visited set reaches all that `Expected` does, through links, in every tree: an induction over the walk's own history against that of the definition. Only the numbers can be had (below). |

Induction over data is out of the prover's reach with the library's theorems, whose parameter is an
operator. `NaturalsByStep` of `MigrationInventoryProofs` replaces it where the induction is over numbers and
what is shown can be written as a set of them.

## 6. Where the code and its documents disagree

These have a run whose counterexample shows it:

| Run | What the code does | What is said of it |
|---|---|---|
| `stale_status` | `rollback_transaction` judges a status it read before the lock and starts over on a transaction that is rolled back by then | `engine.py:177`: "transaction is not committed" |
| `orphan` | a release that drops a file of a skill unlists it; excluding the skill later leaves the file and doctor blocks | `tests/test_setup.py:179`: doctor finds nothing after an exclusion |
| `reinit` | `plan init` on a scope that setup installed lists the core only; the next setup is blocked by files nobody modified | the design specification, line 260: repeated setup is idempotent |
| `overlay` | entrypoints are rendered at the preview (`planner.py:1021`), and Claude's loads an overlay only if that file exists then: instructions that are decided to *become* the overlay are replaced by an entrypoint that does not load it | `docs/migration.md:188`: a fully migrated instruction file is replaced by the generated entrypoint |
| `rebuild` | `memory/IMPORTED.md` contains the time of the import; a plan rebuilt with a later `--imported-at` is in conflict with the file of the first import | `docs/migration.md:181-185`: to request cleanup, rebuild the plan |

These were met on the way and have no run of their own:

- *The same manifest twice*: rollback compares the digests of what the transaction wrote
  (`engine.py:198-203`). Exclude a skill, set it up again without its file that the user deleted meanwhile,
  exclude it again: two transactions have written equal manifests over different files. The older one is
  rolled back behind the newer one, and its manifest lists files that the newer one removed; doctor then blocks on
  files the user did not touch. `docs/safety.md:41`: rollback checks hashes and does not overwrite later
  changes. `ManifestTruthful` without `intact` shows it.
- *A late exclusion*: an exclusion previewed while a file is missing has no operation for it
  (`setup.py:408-409`); applied after another plan repaired the file, it unlists the file and leaves it.
  `docs/architecture.md:71-72`: what is not listed in the manifest is the user's. `NoOrphans` without
  `intact` shows it.
- *An edit under the import*: the sources are hashed at `migration/apply.py:70` and the import (`:71-75`)
  writes neutral files by the plan without looking at them again, so an edit in between leaves a stale import. Without
  a replacement the migration ends as applied; with one it stops with `SourceChangedError` at `:94` and leaves the
  import in the scope. `docs/migration.md:221-222`: if any source changes after scan or preview, apply
  writes nothing from the stale plan. `ImportsCurrent` with `Now` for `verified` shows it.
- *Abridged commands*: the skill that a command becomes has its body and a description of at most 200
  characters; all other keys of the frontmatter are dropped (`normalize.py:283-298, 511-523`), no conflict is
  reported, and a replacement deletes the command; only the backup has the rest. `docs/safety.md:70` says that only
  fully migrated artifacts are deleted; `docs/migration.md:148-150` tells of the description and of
  rewritten paths, not of the rest. `NothingLost` with `TRUE` for `~Abridged(...)` shows it.
- *Recovery of `prepared`*: doctor demands "recovery or rollback" of a journal in `prepared`
  (`doctor.py:294-306`), which rollback refuses (`engine.py:177`).
- *The same plan twice*: an interrupted apply, the same plan applied again, and a rollback of the
  first: the work of the second is undone, and its journal goes on saying `committed`;
  `docs/safety.md:41` says that a rollback does not overwrite later changes. `ScopeTransaction` shows it
  when two plans write equal contents.
- *A forgotten image*: with the image of an earlier import in place, a plan has no operation for it
  (`planner.py:541`); when that import is rolled back, or the file deleted, before the plan is
  applied, the native file is removed all the same. `docs/safety.md:70`: only fully migrated artifacts
  are deleted. `OwnImportPrecedesRemoval` and `NothingLost` except it by name.
- *A file next to an imported skill*: a file that the user put into the skill's directory in the neutral
  scope, before the import or after it, is no obstacle to the import, which writes the other files. At the
  next scan `.agents/skills` is a source of its own and the two skills of one destination are compared as wholes
  (`normalize.py:232`): they differ, one of them is planned once more under another name, and the plan has
  a conflict about the destination. `Objections` excepts it.
- *Duplicates stay*: of several sources with one content, the ones that are not the first are never
  deleted, though they are migrated (`docs/migration.md:186-187`).
- *Unknown files are deleted*: an artifact of unknown kind that was decided to be a memory or a skill
  is removed by a replacement (`planner.py:670-680`); `docs/migration.md:192` lists unknown artifacts as
  preserved.
- *A request that does not validate*: a quoted secret is redacted to a placeholder inside the quotes,
  which `redact_text` finds again; `migrate validate-response` then refuses the tool's own request
  (`classification.py:662`). `migrate plan` does not read the request back and is not affected; the
  action `ValidateResponse` has both outcomes.
- *Decisions nobody asked for*: with no id expected, `validate_classification_response` accepts
  decisions for any id (`classification.py:477`), and the planner does not look whether the kind is
  an ambiguous one. `Valid` keeps that, and `Respond` writes such responses (`Strays`); that what they bring
  together at least becomes a conflict is the theorem `OnePathOneContent`.
- *Undoing an import of an edited entrypoint*: doctor blocks on a managed entrypoint that the user
  edited, so the import is rolled back, for a reason that was there before it. Likewise when there
  is no manifest.
- *Links in skills*: the inventory follows links inside the boundary, normalization refuses them. A
  skill of the manager's that is reached first through a directory link of another name is recorded
  as the user's, and so is one the user put a link into; `ManagedLeftOut` excepts both.
- *Skill directories* are read three times and compared with their digest once.
- *Credentials in headers*: `headers` of a Claude server give the status partial, not manual.
- A preview with another profile or other targets than the manifest's is refused
  (`layout.py:64-67`); `docs/project-profiles.md:78` and `INSTALL.md:145-148` tell the user to make
  one. `Compatible` is that guard.
- A rollback of the import while the migration stands between its two transactions is not noticed;
  the native file is removed and the result is `applied`. `AppliedIsClean` without `~meddled`
  shows it.
- `_can_write` compares plain digests (`layout.py:245`) with ones that setup normalized
  (`setup.py:252`): where the home is part of the text of the rules, as `/` is, the second setup is
  blocked.
- Setup's first transaction cannot be rolled back once the user has written into the seeded memory
  index: the preflight compares all targets. This is the documented caution, not a bug.

## 7. What is not modelled, and why

- *Paths*: junctions, case, the resolution of roots, and links outside of `MigrationInventory`.
  Targets are resolved paths;
  the checks in `paths.py` and the directory identity checks of the engine are properties of the
  host file system.
- *Durability*: writes are atomic and survive a crash once made; the model has no lost page cache.
- *Formats*: JSON validation of journals, claims, inventories, manifests and plans. A file that
  does not parse is `"torn"`, or a refusal.
- *Text*: how redaction, `shared` rules and frontmatter are recognised; the wording of memories,
  requests and reports; templates, skill lint beyond the missing `SKILL.md`, rendering by adapters.
  They enter as marks of a content and as constants (`Variants`, `Shipped`, `Norm`, `Merge`).
- *Native values*: what a mapped field looks like in the target's format; only its status decides
  what happens to files. Mapped settings are proposals in the report, never written.
- *Several scopes*: a migration of the user's home and one of a project share adapters, not files.
- *The documents' formats* and their schema versions; a document that does not load is a command
  that raises, that is, no step.
- *Left-overs*: staged files, empty parents, old backups. No property reads them.
- *Doctor's* bootstrap scan and adapter validation; the check of the global installation that a
  project setup makes.
- *Scripts, packaging, argument parsing, output.*

## 8. Plan

Modules, in order:

1. `ScopeTransaction`, its contract and refinement; `MigrationApply`; `SetupPlan`. Done.
2. `MigrationInventory`; `MigrationPlanner` with `MigrationNormalization`, `MigrationClassification` and
   `NativeMapping`. Done.
3. `ManagedBlock`: `render_managed_ignore` (`profiles.py`) as operators on sequences of lines, with
   a reference definition: idempotent, keeps the user's lines, one block only.
4. `PlanFile`: validation of saved plans and manifests (`plan.py`, `manifest.py`), over abstract
   roots and paths: nothing accepted leaves its roots.
5. `AdapterRegistry`: precedence, duplicates and trust of external adapters, as functions.
6. `MigrationApply` with the plans of `MigrationPlanner`, and with the contract in place of the
   single steps, so that a rollback can fall inside a transaction. (Transactions and rollbacks that stop
   half way are in it; what happens to the scope while one runs is in `ScopeTransaction` only.)

Theorems, in order:

1. Those of section 5. Done.
2. `ScanIsComplete`, first for trees without links, where the walk follows the order of the paths.
3. Lemmas on the operators of `ManagedBlock` and `PlanFile`, once they are written.
