---------------------------- MODULE MigrationApply ----------------------------
(***************************************************************************)
(* apply_migration (migration/apply.py): a migration imports native files  *)
(* of the agents into the neutral scope and, when asked to, replaces the   *)
(* native files.  These are two transactions with doctor after each, not   *)
(* one; the lock of the scope is free between them.                        *)
(*                                                                         *)
(* A transaction is one step here, as ScopeContract allows: it is whole,   *)
(* or refused or undone without a trace, or left open.  The preview        *)
(* (build_migration_plan) is modelled by the operations it gives a source. *)
(***************************************************************************)
EXTENDS Integers, Sequences, TransactionSteps

CONSTANTS
  Sources,          \* native files the adapters know of
  Migratable,       \* the ones that normalization imports
  Entrypoints,      \* the ones the adapters render: replaced, not deleted
  Contents,         \* data the user may put into a native file
  Rendered,         \* data of a rendered entrypoint
  Own,              \* data the user may put into a neutral file
  Absent,           \* no file
  MaxRuns,          \* bound on previews and migrations
  MaxEdits,         \* bound on changes by the user
  MaxStops          \* bound on killed migrations and on transactions and rollbacks left open

ASSUME ConstantsAssumption ==
  /\ Migratable \subseteq Sources /\ Entrypoints \subseteq Sources
  /\ MaxRuns \in Nat /\ MaxEdits \in Nat /\ MaxStops \in Nat

VARIABLES
  files,       \* a source has a native and a neutral location
  broken,      \* does doctor find anything to block on besides the journals?
  plan,        \* the migration plan on disk
  journals,    \* the transactions of all migrations, in order
  pc,          \* where the running migration is
  imported,    \* its import journal, or 0
  replaced,    \* its replacement journal, or 0
  outcome,     \* how the last migration ended
  meddled,     \* did the user roll something back while the last migration ran?
  runs, edits, stops

counters == <<runs, edits, stops>>
vars == <<files, broken, plan, journals, pc, imported, replaced,
          outcome, meddled, counters>>

Locations == Sources \X {"native", "neutral"}

\* The neutral form of a native file names the source it was made from.
Image(d) == <<"imported", d>>

\* Files are told apart by their bytes: the user does not write what the manager
\* would have written.
ASSUME DataAssumption ==
  /\ Rendered \notin Contents \cup {Absent}
  /\ Own \notin {Image(d) : d \in Contents} /\ Absent \notin {Image(d) : d \in Contents}

Data == Contents \cup {Image(d) : d \in Contents} \cup {Rendered, Own, Absent}
Version == [data : Data, by : {"user", "manager", "nobody"}]
Ops == [Locations -> Data \cup {Keep}]
NoOps == [l \in Locations |-> Keep]
Journal == [phase : {"prepared", "open", "whole", "undone"},
            ops : Ops, before : [Locations -> Version]]

Plan == [seen : [Locations -> Version], imports : Ops, replaces : Ops,
         conflicts : BOOLEAN, blocked : BOOLEAN]

Labels == {"idle", "verify", "import", "doctor", "undoImport",
           "reverify", "replace", "redoctor", "undoReplace"}

Outcomes == {"none", "refused", "drift", "failed", "importBlocked",
             "replaceBlocked", "applied", "killed"}

TypeOK ==
  /\ files \in [Locations -> Version]
  /\ broken \in BOOLEAN
  /\ plan \in Plan
  /\ journals \in Seq(Journal)
  /\ pc \in Labels
  /\ imported \in 0 .. Len(journals) /\ replaced \in 0 .. Len(journals)
  /\ outcome \in Outcomes /\ meddled \in BOOLEAN
  /\ runs \in 0 .. MaxRuns /\ edits \in 0 .. MaxEdits /\ stops \in 0 .. MaxStops

Init ==
  /\ \E d \in [Sources -> Contents \cup {Absent}] :
       files = [l \in Locations |->
                  IF l[2] = "native" THEN [data |-> d[l[1]], by |-> "user"]
                                     ELSE [data |-> Absent, by |-> "nobody"]]
  /\ broken = FALSE
  /\ plan = [seen |-> files, imports |-> NoOps, replaces |-> NoOps,
             conflicts |-> TRUE, blocked |-> FALSE]
  /\ journals = <<>>
  /\ pc = "idle"
  /\ imported = 0 /\ replaced = 0
  /\ outcome = "none" /\ meddled = FALSE
  /\ runs = 0 /\ edits = 0 /\ stops = 0

-------------------------------------------------------------------------------
(* The preview: scan_migration_inventory and build_migration_plan.           *)

\* The inventory holds what is there and is not the manager's own.
Scanned(f, s) == f[<<s, "native">>].data # Absent /\ f[<<s, "native">>].by = "user"

Migrated(s) == s \in Migratable /\ Scanned(files, s)

\* The neutral destination is there already and differs.
Conflict(s) ==
  Migrated(s) /\ files[<<s, "neutral">>].data \notin {Absent, Image(files[<<s, "native">>].data)}

\* An entrypoint the user wrote and normalization cannot take over.
Unreconciled(s) == s \in Entrypoints /\ Scanned(files, s) /\ ~Migrated(s)

\* A source whose image is in place already gets no operation.
ImportOps ==
  [l \in Locations |->
     IF l[2] = "neutral" /\ Migrated(l[1]) /\ files[l].data = Absent
     THEN Image(files[<<l[1], "native">>].data) ELSE Keep]

\* Entrypoints are rendered whether or not there is one; the rest is deleted.
ReplaceOps ==
  [l \in Locations |->
     CASE l[2] = "native" /\ l[1] \in Entrypoints -> Rendered
       [] l[2] = "native" /\ l[1] \notin Entrypoints /\ Migrated(l[1]) -> Absent
       [] OTHER -> Keep]

\* replaceNative: --replace-native.  unmapped: a native field has no mapping.
Preview(replaceNative, unmapped) ==
  LET conflicts == \E s \in Sources : Conflict(s)
      blocked == /\ replaceNative
                 /\ conflicts \/ unmapped \/ \E s \in Sources : Unreconciled(s)
  IN  /\ pc = "idle"
      /\ runs < MaxRuns /\ runs' = runs + 1
      /\ plan' = [seen |-> files,
                  imports |-> ImportOps,
                  replaces |-> IF replaceNative /\ ~blocked THEN ReplaceOps ELSE NoOps,
                  conflicts |-> conflicts,
                  blocked |-> blocked]
      /\ outcome' = "none"
      /\ UNCHANGED <<files, broken, journals, pc, imported, replaced, meddled,
                     edits, stops>>

-------------------------------------------------------------------------------
(* The transactions, by their contract.                                      *)

Record(phase, ops) ==
  journals' = Append(journals, [phase |-> phase, ops |-> ops, before |-> files])

\* apply_plan commits.
Apply(ops) ==
  /\ Approved(files, ops, plan.seen)
  /\ files' = Installed(files, ops, TargetsOf(ops))
  /\ Record("whole", ops)

\* apply_plan dies, or cannot undo, or raises between journal and commit.
ApplyStuck(ops) ==
  /\ stops < MaxStops /\ stops' = stops + 1
  /\ Approved(files, ops, plan.seen)
  /\ \/ /\ \E S \in SUBSET TargetsOf(ops) : files' = Installed(files, ops, S)
        /\ Record("open", ops)
     \/ Record("prepared", ops) /\ UNCHANGED files

Rollback(i) ==
  /\ RollbackOK(files, journals[i])
  /\ files' = Restored(files, journals[i])
  /\ journals' = [journals EXCEPT ![i].phase = "undone"]
  /\ UNCHANGED stops

\* rollback_transaction dies, or cannot restore a target, or raises before its
\* journal is "rolled_back".
RollbackStuck(i) ==
  /\ stops < MaxStops /\ stops' = stops + 1
  /\ RollbackOK(files, journals[i])
  /\ \E S \in SUBSET TargetsOf(journals[i].ops) : files' = PartlyRestored(files, journals[i], S)
  /\ journals' = [journals EXCEPT ![i].phase = "open"]

\* Refused, for the files, the journal or the lock; or stuck.
RollbackFails(i) == UNCHANGED <<files, journals, stops>> \/ RollbackStuck(i)

-------------------------------------------------------------------------------
(* apply_migration.                                                          *)

\* _verify_sources: every source of the scan, imported or not.
SourcesUnchanged ==
  \A s \in Sources :
    Scanned(plan.seen, s) => files[<<s, "native">>].data = plan.seen[<<s, "native">>].data

\* Slip: doctor does not look at the journals.
DoctorSkipsJournals == broken

DoctorBlocks == broken \/ \E i \in DOMAIN journals : journals[i].phase \in Flagged

Goto(label) == pc' = label /\ UNCHANGED <<outcome, meddled>>
End(o) == pc' = "idle" /\ outcome' = o /\ UNCHANGED meddled

Start(confirmed) ==
  /\ pc = "idle"
  /\ runs < MaxRuns /\ runs' = runs + 1
  /\ imported' = 0 /\ replaced' = 0
  /\ IF plan.conflicts \/ plan.blocked \/ (TargetsOf(plan.replaces) # {} /\ ~confirmed)
     THEN End("refused")
     ELSE pc' = "verify" /\ outcome' = "none" /\ meddled' = FALSE
  /\ UNCHANGED <<files, broken, plan, journals, edits, stops>>

Verify ==
  /\ pc = "verify"
  /\ IF SourcesUnchanged THEN Goto("import") ELSE End("drift")
  /\ UNCHANGED <<files, broken, plan, journals, imported, replaced, counters>>

Import ==
  /\ pc = "import"
  /\ IF TargetsOf(plan.imports) = {}
     THEN UNCHANGED <<files, journals, imported>>
     ELSE Apply(plan.imports) /\ imported' = Len(journals')
  /\ Goto("doctor")
  /\ UNCHANGED <<broken, plan, replaced, counters>>

\* Slip: a failed import is taken for an empty one.
ImportFailureIgnored ==
  /\ pc = "import"
  /\ TargetsOf(plan.imports) # {}
  /\ UNCHANGED <<files, journals, stops>>
  /\ Goto("doctor")
  /\ UNCHANGED <<broken, plan, imported, replaced, runs, edits>>

\* apply_plan raises: it refused, or undid what it did, or got stuck.
ImportFails ==
  /\ pc = "import"
  /\ TargetsOf(plan.imports) # {}
  /\ \/ UNCHANGED <<files, journals, stops>>
     \/ ApplyStuck(plan.imports)
  /\ End("failed")
  /\ UNCHANGED <<broken, plan, imported, replaced, runs, edits>>

\* Slip: an import that doctor blocks is not rolled back.
DoctorKeepsImport ==
  /\ pc = "doctor"
  /\ IF DoctorBlocks THEN End("importBlocked")
     ELSE IF TargetsOf(plan.replaces) # {} THEN Goto("reverify") ELSE End("applied")
  /\ UNCHANGED <<files, broken, plan, journals, imported, replaced, counters>>

Doctor ==
  /\ pc = "doctor"
  /\ CASE DoctorBlocks /\ imported # 0 -> Goto("undoImport")
       [] DoctorBlocks /\ imported = 0 -> End("importBlocked")
       [] ~DoctorBlocks /\ TargetsOf(plan.replaces) # {} -> Goto("reverify")
       [] ~DoctorBlocks /\ TargetsOf(plan.replaces) = {} -> End("applied")
  /\ UNCHANGED <<files, broken, plan, journals, imported, replaced, counters>>

\* A rollback that fails raises, and the import stays, or a part of it.
UndoImport ==
  /\ pc = "undoImport"
  /\ \/ Rollback(imported) /\ End("importBlocked")
     \/ RollbackFails(imported) /\ End("failed")
  /\ UNCHANGED <<broken, plan, imported, replaced, runs, edits>>

Reverify ==
  /\ pc = "reverify"
  /\ IF SourcesUnchanged THEN Goto("replace") ELSE End("drift")
  /\ UNCHANGED <<files, broken, plan, journals, imported, replaced, counters>>

Replace ==
  /\ pc = "replace"
  /\ Apply(plan.replaces)
  /\ replaced' = Len(journals')
  /\ Goto("redoctor")
  /\ UNCHANGED <<broken, plan, imported, counters>>

ReplaceFails ==
  /\ pc = "replace"
  /\ \/ UNCHANGED <<files, journals, stops>>
     \/ ApplyStuck(plan.replaces)
  /\ End("failed")
  /\ UNCHANGED <<broken, plan, imported, replaced, runs, edits>>

Redoctor ==
  /\ pc = "redoctor"
  /\ IF DoctorBlocks THEN Goto("undoReplace") ELSE End("applied")
  /\ UNCHANGED <<files, broken, plan, journals, imported, replaced, counters>>

UndoReplace ==
  /\ pc = "undoReplace"
  /\ \/ Rollback(replaced) /\ End("replaceBlocked")
     \/ RollbackFails(replaced) /\ End("failed")
  /\ UNCHANGED <<broken, plan, imported, replaced, runs, edits>>

\* The process dies between two of these steps.
Kill ==
  /\ pc # "idle"
  /\ stops < MaxStops /\ stops' = stops + 1
  /\ End("killed")
  /\ UNCHANGED <<files, broken, plan, journals, imported, replaced, runs, edits>>

-------------------------------------------------------------------------------
(* The user.                                                                 *)

Touch == edits < MaxEdits /\ edits' = edits + 1

Edit(l) ==
  /\ Touch
  /\ \E d \in {Absent} \cup IF l[2] = "native" THEN Contents ELSE {Own} :
       /\ d # files[l].data
       /\ files' = [files EXCEPT ![l] = [data |-> d, by |-> "user"]]
  /\ UNCHANGED <<broken, plan, journals, pc, imported, replaced, outcome,
                 meddled, runs, stops>>

\* Something that doctor blocks on appears in the scope, or is repaired.
Disturb ==
  /\ Touch
  /\ broken' = ~broken
  /\ UNCHANGED <<files, plan, journals, pc, imported, replaced, outcome,
                 meddled, runs, stops>>

\* `agent-workflow rollback` of any journal, also while a migration runs.
UserRollback ==
  /\ \E i \in DOMAIN journals : Rollback(i) \/ RollbackStuck(i)
  /\ meddled' = (meddled \/ pc # "idle")
  /\ UNCHANGED <<broken, plan, pc, imported, replaced, outcome, runs, edits>>

-------------------------------------------------------------------------------

Migration ==
  \/ Verify \/ Import \/ ImportFails \/ Doctor \/ UndoImport
  \/ Reverify \/ Replace \/ ReplaceFails \/ Redoctor \/ UndoReplace

Next ==
  \/ \E replaceNative, unmapped \in BOOLEAN : Preview(replaceNative, unmapped)
  \/ \E confirmed \in BOOLEAN : Start(confirmed)
  \/ Migration
  \/ Kill
  \/ \E l \in Locations : Edit(l)
  \/ Disturb
  \/ UserRollback

Spec == Init /\ [][Next]_vars
-------------------------------------------------------------------------------
(* Properties.                                                               *)

\* The version at location l is replaced or deleted by the manager.
Taken(l) == files'[l] # files[l] /\ files'[l].by = "manager"

\* The neutral file made from native file s is in place, or the user took it
\* over: changed it, or removed it.
InPlace(s) ==
  \/ files[<<s, "neutral">>].by = "user"
  \/ files[<<s, "neutral">>].data = Image(files[<<s, "native">>].data)

\* The running migration ends with outcome o.
Becomes(o) == outcome' = o /\ outcome # o

Whole(i) == i # 0 /\ journals[i].phase = "whole"

\* Whatever the manager removed or overwrote can be brought back: a journal that
\* rollback accepts has the version, through every failure, kill and rollback.
RemovedIsRestorable ==
  \A l \in Locations :
    files[l].by = "manager" =>
      \E i \in DOMAIN journals :
        /\ journals[i].phase \in Rollbackable
        /\ journals[i].ops[l] = files[l].data

\* A user's native file that this migration imports itself is taken only while its
\* content is in the neutral scope: the import is whole when the replacement
\* starts, however often migrations fail and are repeated, unless the user rolls
\* something back while the migration runs.  (A file whose image an earlier
\* import left in place is not protected: planner.py gives it no operation.)
OwnImportPrecedesRemoval ==
  [][\A s \in Sources :
       /\ Taken(<<s, "native">>)
       /\ Scanned(files, s)
       /\ plan.imports[<<s, "neutral">>] # Keep
       /\ ~meddled
       => InPlace(s)]_vars

\* No step of the manager destroys what the user wrote after the preview: the
\* user's files change in a migration only from what the plan was made of, and
\* in the neutral scope never.
UserWorkKept ==
  [][\A l \in Locations :
       /\ files[l].by = "user" /\ files[l].data # Absent
       /\ files'[l] # files[l] /\ edits' = edits
       => l[2] = "native" /\ files[l].data = plan.seen[l].data]_vars

\* A migration reported as applied is applied: its transactions are whole, and
\* no journal of the scope asks for recovery (nothing rolled back meanwhile).
AppliedIsClean ==
  [][Becomes("applied") /\ ~meddled =>
       /\ TargetsOf(plan.imports) = {} \/ Whole(imported)
       /\ TargetsOf(plan.replaces) = {} \/ Whole(replaced)
       /\ \A i \in DOMAIN journals : journals[i].phase \notin Flagged]_vars

\* When doctor blocks a migration, the import it made is undone; when it blocks
\* the replacement, only the replacement is, and the import stays.
BlockedIsUndone ==
  [][/\ Becomes("importBlocked") =>
          imported = 0 \/ journals'[imported].phase = "undone"
     /\ Becomes("replaceBlocked") /\ ~meddled =>
          /\ journals'[replaced].phase = "undone"
          /\ imported = 0 \/ journals'[imported].phase = "whole"]_vars
=============================================================================
