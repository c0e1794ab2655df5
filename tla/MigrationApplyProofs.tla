------------------------- MODULE MigrationApplyProofs -------------------------
(* Theorems about MigrationApply, for every set of native files and every    *)
(* number of migrations, edits, kills and rollbacks.                         *)
EXTENDS MigrationApply, TLAPS

-------------------------------------------------------------------------------
(* What a version can be, by who wrote it and where.                         *)

\* What a replacement leaves at a native location.
Replacement(s) == IF s \in Entrypoints THEN Rendered ELSE Absent

NativeVersion(s) ==
  [data : Contents \cup {Absent}, by : {"user"}] \cup [data : {Replacement(s)}, by : {"manager"}]

NeutralVersion ==
  [data : {Own, Absent}, by : {"user"}]
  \cup [data : {Image(d) : d \in Contents}, by : {"manager"}]
  \cup [data : {Absent}, by : {"nobody"}]

VersionAt(l) == IF l[2] = "native" THEN NativeVersion(l[1]) ELSE NeutralVersion

OpAt(l) ==
  IF l[2] = "native" THEN {Keep, Replacement(l[1])}
                     ELSE {Keep} \cup {Image(d) : d \in Contents}

VersionsOK(f) == f \in [Locations -> Version] /\ \A l \in Locations : f[l] \in VersionAt(l)
OpsOK(o) == o \in Ops /\ \A l \in Locations : o[l] \in OpAt(l)
JournalsOK(js) ==
  /\ js \in Seq(Journal)
  /\ \A i \in DOMAIN js : OpsOK(js[i].ops) /\ VersionsOK(js[i].before)

\* An import goes to neutral locations where nothing was; a replacement to
\* native ones, where an entrypoint is or something was.
PlanOK ==
  /\ OpsOK(plan.imports) /\ OpsOK(plan.replaces)
  /\ \A l \in Locations :
       /\ plan.imports[l] # Keep => l[2] = "neutral" /\ plan.seen[l].data = Absent
       /\ plan.replaces[l] # Keep =>
            l[2] = "native" /\ (l[1] \in Entrypoints \/ plan.seen[l].data # Absent)

\* TypeOK is not inductive: an image has the data of a native file, which must be
\* the user's.
Typed == TypeOK /\ VersionsOK(files) /\ JournalsOK(journals) /\ PlanOK

LEMMA LocationKinds ==
  /\ \A l \in Locations : l[1] \in Sources /\ l[2] \in {"native", "neutral"} /\ l = <<l[1], l[2]>>
  /\ \A s \in Sources : <<s, "native">> \in Locations /\ <<s, "neutral">> \in Locations
BY DEF Locations

LEMMA NoOpsOK == OpsOK(NoOps) /\ NoOps \in Ops
BY LocationKinds DEF OpsOK, NoOps, Ops, OpAt

LEMMA InitTyped == Init => Typed
<1> SUFFICES ASSUME Init PROVE Typed
  OBVIOUS
<1>1. VersionsOK(files)
  <2>1. PICK d \in [Sources -> Contents \cup {Absent}] :
          files = [l \in Locations |->
                     IF l[2] = "native" THEN [data |-> d[l[1]], by |-> "user"]
                                        ELSE [data |-> Absent, by |-> "nobody"]]
    BY DEF Init
  <2>2. ASSUME NEW l \in Locations PROVE files[l] \in VersionAt(l) /\ files[l] \in Version
    BY <2>1, LocationKinds DEF VersionAt, NativeVersion, Replacement, NeutralVersion, Version, Data
  <2> QED BY <2>1, <2>2 DEF VersionsOK
<1>2. JournalsOK(journals)
  BY DEF Init, JournalsOK
<1>3. plan \in Plan
  BY <1>1, NoOpsOK DEF Init, Plan, VersionsOK
<1>4. PlanOK
  BY NoOpsOK DEF Init, PlanOK, NoOps
<1>5. TypeOK
  <2>1. files \in [Locations -> Version] /\ plan \in Plan /\ journals \in Seq(Journal)
    BY <1>1, <1>2, <1>3 DEF VersionsOK, JournalsOK
  <2>2. imported = 0 /\ replaced = 0 /\ Len(journals) \in Nat
    BY <2>1 DEF Init
  <2>3. imported \in 0 .. Len(journals) /\ replaced \in 0 .. Len(journals)
    BY <2>2
  <2>4. runs \in 0 .. MaxRuns /\ edits \in 0 .. MaxEdits /\ stops \in 0 .. MaxStops
    BY ConstantsAssumption DEF Init
  <2>5. broken \in BOOLEAN /\ meddled \in BOOLEAN /\ pc \in Labels /\ outcome \in Outcomes
    BY DEF Init, Labels, Outcomes
  <2> QED BY <2>1, <2>3, <2>4, <2>5 DEF TypeOK
<1> QED BY <1>1, <1>2, <1>4, <1>5 DEF Typed

-------------------------------------------------------------------------------
(* The transactions.                                                         *)

LEMMA InstalledOK ==
  ASSUME VersionsOK(files), NEW ops, OpsOK(ops), NEW S \in SUBSET TargetsOf(ops)
  PROVE  VersionsOK(Installed(files, ops, S))
<1> DEFINE f == Installed(files, ops, S)
<1>1. DOMAIN files = Locations /\ DOMAIN ops = Locations
  BY DEF VersionsOK, OpsOK, Ops
<1>2. ASSUME NEW l \in Locations PROVE f[l] \in VersionAt(l) /\ f[l] \in Version
  <2>1. CASE l \notin S
    BY <1>1, <2>1 DEF Installed, VersionsOK
  <2>2. CASE l \in S
    <3>1. f[l] = [data |-> ops[l], by |-> "manager"]
      BY <1>1, <2>2 DEF Installed
    <3>2. ops[l] # Keep /\ ops[l] \in OpAt(l) /\ ops[l] \in Data \cup {Keep}
      BY <1>1, <2>2 DEF TargetsOf, OpsOK, Ops
    <3> QED BY <3>1, <3>2 DEF OpAt, VersionAt, NativeVersion, Replacement, NeutralVersion, Version
  <2> QED BY <2>1, <2>2
<1>3. f = [l \in Locations |-> f[l]]
  BY <1>1 DEF Installed
<1> QED BY <1>2, <1>3 DEF VersionsOK

LEMMA RestoredOK ==
  ASSUME VersionsOK(files), JournalsOK(journals), NEW i \in DOMAIN journals, NEW S
  PROVE  VersionsOK(PartlyRestored(files, journals[i], S))
<1> DEFINE f == PartlyRestored(files, journals[i], S)
<1>1. DOMAIN files = Locations /\ VersionsOK(journals[i].before)
  BY DEF VersionsOK, JournalsOK
<1>2. ASSUME NEW l \in Locations PROVE f[l] \in VersionAt(l) /\ f[l] \in Version
  BY <1>1 DEF PartlyRestored, VersionsOK
<1>3. f = [l \in Locations |-> f[l]]
  BY <1>1 DEF PartlyRestored
<1> QED BY <1>2, <1>3 DEF VersionsOK

\* What a transaction leaves of the files and the journals.
StoreOK == VersionsOK(files) /\ JournalsOK(journals)

LEMMA RecordOK ==
  ASSUME StoreOK, NEW ops, OpsOK(ops), NEW phase \in {"prepared", "open", "whole"},
         Record(phase, ops)
  PROVE  JournalsOK(journals') /\ Len(journals') = Len(journals) + 1
         /\ journals'[Len(journals')].phase = phase
         /\ \A i \in DOMAIN journals : journals'[i] = journals[i]
<1> DEFINE j == [phase |-> phase, ops |-> ops, before |-> files]
<1>1. journals \in Seq(Journal) /\ journals' = Append(journals, j)
  BY DEF StoreOK, JournalsOK, Record
<1>2. j \in Journal
  BY DEF Journal, StoreOK, VersionsOK, OpsOK
<1>3. journals' \in Seq(Journal) /\ Len(journals') = Len(journals) + 1
  BY <1>1, <1>2
<1>4. \A i \in DOMAIN journals' :
        IF i = Len(journals') THEN journals'[i] = j ELSE i \in DOMAIN journals /\ journals'[i] = journals[i]
  BY <1>1, <1>2
<1>5. OpsOK(j.ops) /\ VersionsOK(j.before)
  BY DEF StoreOK
<1>6. \A i \in DOMAIN journals : OpsOK(journals[i].ops) /\ VersionsOK(journals[i].before)
  BY DEF StoreOK, JournalsOK
<1>7. JournalsOK(journals')
  BY <1>3, <1>4, <1>5, <1>6 DEF JournalsOK
<1>8. \A i \in DOMAIN journals : journals'[i] = journals[i]
  BY <1>1, <1>2
<1> QED BY <1>1, <1>2, <1>3, <1>7, <1>8

LEMMA ApplyOK ==
  ASSUME StoreOK, NEW ops, OpsOK(ops), Apply(ops)
  PROVE  StoreOK'
<1>1. VersionsOK(files')
  BY InstalledOK DEF Apply, StoreOK
<1>2. JournalsOK(journals')
  BY RecordOK DEF Apply
<1> QED BY <1>1, <1>2 DEF StoreOK

LEMMA StuckOK ==
  ASSUME StoreOK, NEW ops, OpsOK(ops), ApplyStuck(ops)
  PROVE  StoreOK'
<1>1. VersionsOK(files')
  BY InstalledOK DEF ApplyStuck, StoreOK
<1>2. JournalsOK(journals')
  BY RecordOK DEF ApplyStuck
<1> QED BY <1>1, <1>2 DEF StoreOK

\* A rollback that got as far as S.
RollsBack(i, S, phase) ==
  /\ RollbackOK(files, journals[i])
  /\ files' = PartlyRestored(files, journals[i], S)
  /\ journals' = [journals EXCEPT ![i].phase = phase]
  /\ \/ phase = "undone" /\ S = TargetsOf(journals[i].ops)
     \/ phase = "open" /\ S \subseteq TargetsOf(journals[i].ops)

LEMMA RollbackSteps ==
  ASSUME NEW i, Rollback(i) \/ RollbackStuck(i)
  PROVE  \E S, phase : RollsBack(i, S, phase) /\ (Rollback(i) => phase = "undone")
<1>1. CASE Rollback(i)
  <2>1. Restored(files, journals[i]) =
          PartlyRestored(files, journals[i], TargetsOf(journals[i].ops))
    BY DEF Restored, PartlyRestored
  <2>2. RollsBack(i, TargetsOf(journals[i].ops), "undone")
    BY <1>1, <2>1 DEF Rollback, RollsBack
  <2> QED BY <2>2
<1>2. CASE RollbackStuck(i) /\ ~Rollback(i)
  <2>1. PICK S \in SUBSET TargetsOf(journals[i].ops) :
          files' = PartlyRestored(files, journals[i], S)
    BY <1>2 DEF RollbackStuck
  <2>2. RollsBack(i, S, "open")
    BY <1>2, <2>1 DEF RollbackStuck, RollsBack
  <2> QED BY <1>2, <2>2
<1> QED BY <1>1, <1>2

LEMMA RollbackLemma ==
  ASSUME StoreOK, NEW i \in DOMAIN journals, Rollback(i) \/ RollbackStuck(i)
  PROVE  StoreOK' /\ Len(journals') = Len(journals) /\ DOMAIN journals' = DOMAIN journals
         /\ (Rollback(i) => journals'[i].phase = "undone")
         /\ \A k \in DOMAIN journals : k # i => journals'[k] = journals[k]
<1> PICK S, phase : RollsBack(i, S, phase) /\ (Rollback(i) => phase = "undone")
  BY RollbackSteps
<1>1. VersionsOK(files')
  BY RestoredOK DEF RollsBack, StoreOK
<1>2. journals \in Seq(Journal) /\ journals[i] \in Journal
  BY DEF StoreOK, JournalsOK
<1>3. journals' = [journals EXCEPT ![i].phase = phase] /\ phase \in {"open", "undone"}
  BY DEF RollsBack
<1>4. [journals[i] EXCEPT !.phase = phase] \in Journal
  BY <1>2, <1>3 DEF Journal
<1>5. journals' \in Seq(Journal) /\ Len(journals') = Len(journals) /\ DOMAIN journals' = DOMAIN journals
  BY <1>2, <1>3, <1>4
<1>6. \A k \in DOMAIN journals : k # i => journals'[k] = journals[k]
  BY <1>2, <1>3
<1>7. /\ journals'[i].phase = phase
      /\ journals'[i].ops = journals[i].ops /\ journals'[i].before = journals[i].before
  BY <1>2, <1>3 DEF Journal
<1>8. JournalsOK(journals')
  BY <1>5, <1>6, <1>7 DEF JournalsOK, StoreOK
<1> QED BY <1>1, <1>5, <1>6, <1>7, <1>8 DEF StoreOK

-------------------------------------------------------------------------------
(* Where a migration is, its transactions are.                               *)

\* The import is behind the migration.
AfterImport == {"doctor", "undoImport", "reverify", "replace", "redoctor", "undoReplace"}

\* Once the import is behind it, its journal is whole unless the user rolled
\* something back; while the replacement is checked, its journal is another one.
Progress ==
  /\ pc \in AfterImport /\ ~meddled =>
       (TargetsOf(plan.imports) = {} /\ imported = 0) \/ Whole(imported)
  /\ pc \in {"verify", "import"} => imported = 0
  /\ pc = "undoImport" => imported # 0
  /\ pc \in {"redoctor", "undoReplace"} =>
       replaced # 0 /\ replaced # imported /\ (~meddled => Whole(replaced))

IInv == Typed /\ Progress

-------------------------------------------------------------------------------
(* Every step is typed.                                                      *)

LEMMA ImportOpsOK ==
  ASSUME VersionsOK(files)
  PROVE  /\ OpsOK(ImportOps)
         /\ \A l \in Locations :
              ImportOps[l] # Keep => l[2] = "neutral" /\ files[l].data = Absent
<1>1. ASSUME NEW s \in Sources, Migrated(s)
      PROVE  files[<<s, "native">>].data \in Contents
  <2>1. <<s, "native">> \in Locations /\ files[<<s, "native">>] \in NativeVersion(s)
    BY LocationKinds DEF VersionsOK, VersionAt
  <2> QED BY <1>1, <2>1 DEF Migrated, Scanned, NativeVersion
<1>2. ASSUME NEW l \in Locations
      PROVE  /\ ImportOps[l] \in OpAt(l) /\ ImportOps[l] \in Data \cup {Keep}
             /\ ImportOps[l] # Keep => l[2] = "neutral" /\ files[l].data = Absent
  BY <1>1, LocationKinds DEF ImportOps, OpAt, Data
<1>3. ImportOps = [l \in Locations |-> ImportOps[l]]
  BY DEF ImportOps
<1> QED BY <1>2, <1>3 DEF OpsOK, Ops

LEMMA ReplaceOpsOK ==
  /\ OpsOK(ReplaceOps)
  /\ \A l \in Locations : ReplaceOps[l] # Keep =>
       l[2] = "native" /\ (l[1] \in Entrypoints \/ files[l].data # Absent)
<1>1. ASSUME NEW l \in Locations
      PROVE  /\ ReplaceOps[l] \in OpAt(l) /\ ReplaceOps[l] \in Data \cup {Keep}
             /\ ReplaceOps[l] # Keep =>
                  l[2] = "native" /\ (l[1] \in Entrypoints \/ files[l].data # Absent)
  <2>1. Migrated(l[1]) /\ l[2] = "native" => files[l].data # Absent
    BY LocationKinds DEF Migrated, Scanned
  <2> QED BY <2>1, LocationKinds DEF ReplaceOps, OpAt, Data, Replacement
<1>2. ReplaceOps = [l \in Locations |-> ReplaceOps[l]]
  BY DEF ReplaceOps
<1> QED BY <1>1, <1>2 DEF OpsOK, Ops

\* The part of TypeOK that is not about files and journals.
Rest ==
  /\ broken \in BOOLEAN /\ meddled \in BOOLEAN
  /\ pc \in Labels /\ outcome \in Outcomes
  /\ imported \in 0 .. Len(journals) /\ replaced \in 0 .. Len(journals)
  /\ runs \in 0 .. MaxRuns /\ edits \in 0 .. MaxEdits /\ stops \in 0 .. MaxStops

LEMMA TypedParts == Typed => StoreOK /\ Rest /\ PlanOK /\ plan \in Plan
BY DEF Typed, TypeOK, StoreOK, Rest

LEMMA SamePlan ==
  ASSUME Typed, UNCHANGED plan, StoreOK', Rest'
  PROVE  Typed'
BY DEF Typed, TypeOK, StoreOK, Rest, PlanOK, VersionsOK, JournalsOK

LEMMA LabelMembers ==
  /\ {"idle", "verify", "import", "doctor", "undoImport", "reverify", "replace",
      "redoctor", "undoReplace"} \subseteq Labels
  /\ {"none", "refused", "drift", "failed", "importBlocked", "replaceBlocked", "applied",
      "killed"} \subseteq Outcomes
BY DEF Labels, Outcomes

LEMMA Numbers ==
  ASSUME Typed
  PROVE  /\ Len(journals) \in Nat
         /\ runs < MaxRuns => runs + 1 \in 0 .. MaxRuns
         /\ edits < MaxEdits => edits + 1 \in 0 .. MaxEdits
         /\ stops < MaxStops => stops + 1 \in 0 .. MaxStops
BY ConstantsAssumption DEF Typed, TypeOK

LEMMA PreviewTyped ==
  ASSUME Typed, NEW replaceNative \in BOOLEAN, NEW unmapped \in BOOLEAN,
         Preview(replaceNative, unmapped)
  PROVE  Typed'
<1>1. VersionsOK(files) /\ Rest
  BY DEF Typed, TypeOK, Rest
<1>2. plan' \in Plan /\ PlanOK'
  <2> DEFINE conflicts == \E s \in Sources : Conflict(s)
             blocked == replaceNative /\ (conflicts \/ unmapped \/ \E s \in Sources : Unreconciled(s))
  <2>1. /\ plan'.seen = files /\ plan'.imports = ImportOps
        /\ plan'.replaces \in {ReplaceOps, NoOps}
        /\ plan' = [seen |-> plan'.seen, imports |-> plan'.imports,
                    replaces |-> plan'.replaces, conflicts |-> conflicts, blocked |-> blocked]
    BY DEF Preview
  <2>2. conflicts \in BOOLEAN /\ blocked \in BOOLEAN
    OBVIOUS
  <2>3. OpsOK(plan'.imports) /\ OpsOK(plan'.replaces)
    BY <1>1, <2>1, ImportOpsOK, ReplaceOpsOK, NoOpsOK
  <2> HIDE DEF conflicts, blocked
  <2>4. plan' \in Plan
    BY <1>1, <2>1, <2>2, <2>3 DEF Plan, OpsOK, VersionsOK
  <2>5. PlanOK'
    BY <1>1, <2>1, <2>3, ImportOpsOK, ReplaceOpsOK DEF PlanOK, NoOps
  <2> QED BY <2>4, <2>5
<1>3. Rest'
  BY <1>1, Numbers, LabelMembers DEF Preview, Rest
<1>4. UNCHANGED <<files, journals>>
  BY DEF Preview
<1> QED BY <1>2, <1>3, <1>4 DEF Typed, TypeOK, Rest, VersionsOK, JournalsOK

\* The steps that change neither files nor journals nor the plan.
LEMMA QuietTyped ==
  ASSUME Typed,
         \/ \E confirmed \in BOOLEAN : Start(confirmed)
         \/ Verify \/ Doctor \/ Reverify \/ Redoctor \/ Kill \/ Disturb \/ UNCHANGED vars
  PROVE  Typed'
<1>1. UNCHANGED <<files, journals, plan>>
  BY DEF Start, Verify, Doctor, Reverify, Redoctor, Kill, Disturb, vars
<1>2. Rest
  BY TypedParts
<1>3. Rest'
  <2> USE <1>1, <1>2, Numbers, LabelMembers DEF Rest, Goto, End, counters
  <2>1. ASSUME NEW confirmed \in BOOLEAN, Start(confirmed) PROVE Rest'
    <3>1. runs' \in 0 .. MaxRuns /\ UNCHANGED <<broken, edits, stops>>
      BY <2>1 DEF Start
    <3>2. imported' \in 0 .. Len(journals') /\ replaced' \in 0 .. Len(journals')
      BY <2>1 DEF Start
    <3>3. pc' \in Labels /\ outcome' \in Outcomes /\ meddled' \in BOOLEAN
      BY <2>1 DEF Start
    <3> QED BY <3>1, <3>2, <3>3
  <2>2. CASE Verify BY <2>2 DEF Verify
  <2>3. CASE Doctor BY <2>3 DEF Doctor
  <2>4. CASE Reverify BY <2>4 DEF Reverify
  <2>5. CASE Redoctor BY <2>5 DEF Redoctor
  <2>6. CASE Kill BY <2>6 DEF Kill
  <2>7. CASE Disturb BY <2>7 DEF Disturb, Touch
  <2>8. CASE UNCHANGED vars BY <2>8 DEF vars
  <2> QED BY <2>1, <2>2, <2>3, <2>4, <2>5, <2>6, <2>7, <2>8
<1>4. StoreOK'
  BY <1>1, TypedParts DEF StoreOK, VersionsOK, JournalsOK
<1> QED BY <1>1, <1>3, <1>4, SamePlan

LEMMA ImportTyped ==
  ASSUME Typed, Import \/ ImportFails
  PROVE  Typed'
<1>1. StoreOK /\ Rest /\ OpsOK(plan.imports) /\ UNCHANGED plan
  BY TypedParts DEF PlanOK, Import, ImportFails
<1> USE <1>1, Numbers, LabelMembers DEF Goto, End, counters
<1>2. CASE UNCHANGED <<files, journals>>
  <2>1. StoreOK'
    BY <1>2 DEF StoreOK, VersionsOK, JournalsOK
  <2>2. CASE Import
    <3>1. UNCHANGED imported
      BY <1>2, <2>2, RecordOK DEF Import, Apply
    <3> QED BY <1>2, <2>1, <2>2, <3>1, SamePlan DEF Import, Rest
  <2>3. CASE ImportFails
    BY <1>2, <2>1, <2>3, SamePlan DEF ImportFails, ApplyStuck, Rest
  <2> QED BY <2>2, <2>3
<1>3. CASE Import /\ Apply(plan.imports) /\ imported' = Len(journals')
  <2>1. StoreOK' /\ Len(journals') = Len(journals) + 1
    BY <1>3, ApplyOK, RecordOK DEF Apply
  <2> QED BY <1>3, <2>1, SamePlan DEF Import, Rest
<1>4. CASE ImportFails /\ ApplyStuck(plan.imports)
  <2>1. StoreOK'
    BY <1>4, StuckOK
  <2>2. Len(journals') \in {Len(journals), Len(journals) + 1}
    BY <1>4, RecordOK DEF ApplyStuck
  <2>3. stops' \in 0 .. MaxStops
    BY <1>4 DEF ApplyStuck
  <2> QED BY <1>4, <2>1, <2>2, <2>3, SamePlan DEF ImportFails, Rest
<1> QED BY <1>2, <1>3, <1>4 DEF Import, ImportFails

LEMMA ReplaceTyped ==
  ASSUME Typed, Replace \/ ReplaceFails
  PROVE  Typed'
<1>1. StoreOK /\ Rest /\ OpsOK(plan.replaces) /\ UNCHANGED plan
  BY TypedParts DEF PlanOK, Replace, ReplaceFails
<1> USE <1>1, Numbers, LabelMembers DEF Goto, End, counters
<1>2. CASE Replace
  <2>1. StoreOK' /\ Len(journals') = Len(journals) + 1
    BY <1>2, ApplyOK, RecordOK DEF Apply, Replace
  <2> QED BY <1>2, <2>1, SamePlan DEF Replace, Rest
<1>3. CASE ReplaceFails /\ UNCHANGED <<files, journals, stops>>
  <2>1. StoreOK'
    BY <1>3 DEF StoreOK, VersionsOK, JournalsOK
  <2> QED BY <1>3, <2>1, SamePlan DEF ReplaceFails, Rest
<1>4. CASE ReplaceFails /\ ApplyStuck(plan.replaces)
  <2>1. StoreOK'
    BY <1>4, StuckOK
  <2>2. Len(journals') \in {Len(journals), Len(journals) + 1}
    BY <1>4, RecordOK DEF ApplyStuck
  <2>3. stops' \in 0 .. MaxStops
    BY <1>4 DEF ApplyStuck
  <2> QED BY <1>4, <2>1, <2>2, <2>3, SamePlan DEF ReplaceFails, Rest
<1> QED BY <1>2, <1>3, <1>4 DEF ReplaceFails

LEMMA UserTyped ==
  ASSUME Typed, UserRollback \/ \E l \in Locations : Edit(l)
  PROVE  Typed'
<1>1. StoreOK /\ Rest /\ UNCHANGED plan
  BY TypedParts DEF UserRollback, Edit
<1>2. CASE UserRollback
  <2>1. PICK i \in DOMAIN journals : Rollback(i) \/ RollbackStuck(i)
    BY <1>2 DEF UserRollback
  <2>2. StoreOK' /\ Len(journals') = Len(journals)
    BY <1>1, <2>1, RollbackLemma
  <2>3. stops' \in 0 .. MaxStops
    BY <1>1, <2>1, Numbers DEF Rollback, RollbackStuck, Rest
  <2> QED BY <1>1, <1>2, <2>2, <2>3, SamePlan DEF UserRollback, Rest
<1>3. ASSUME NEW l \in Locations, Edit(l) PROVE Typed'
  <2>1. PICK d \in {Absent} \cup IF l[2] = "native" THEN Contents ELSE {Own} :
          files' = [files EXCEPT ![l] = [data |-> d, by |-> "user"]]
    BY <1>3 DEF Edit
  <2> DEFINE v == [data |-> d, by |-> "user"]
  <2>2. v \in VersionAt(l) /\ v \in Version
    BY <2>1 DEF VersionAt, NativeVersion, Replacement, NeutralVersion, Version, Data
  <2>3. VersionsOK(files')
    BY <1>1, <2>1, <2>2 DEF VersionsOK, StoreOK
  <2>4. StoreOK' /\ UNCHANGED journals
    BY <1>1, <1>3, <2>3 DEF StoreOK, Edit, JournalsOK
  <2> QED BY <1>1, <1>3, <2>4, Numbers, SamePlan DEF Edit, Touch, Rest
<1> QED BY <1>2, <1>3

\* A rollback of the running migration's own journal.
LEMMA UndoTyped ==
  ASSUME IInv, UndoImport \/ UndoReplace
  PROVE  Typed'
<1>1. StoreOK /\ Rest /\ UNCHANGED plan /\ Typed
  BY TypedParts DEF UndoImport, UndoReplace, IInv
<1>2. imported \in DOMAIN journals \/ ~UndoImport
  BY <1>1, Numbers DEF IInv, Progress, UndoImport, Rest, StoreOK, JournalsOK
<1>3. replaced \in DOMAIN journals \/ ~UndoReplace
  BY <1>1, Numbers DEF IInv, Progress, UndoReplace, Rest, StoreOK, JournalsOK
<1>4. StoreOK' /\ Len(journals') = Len(journals)
  <2>1. CASE UNCHANGED <<files, journals>>
    BY <1>1, <2>1 DEF StoreOK, VersionsOK, JournalsOK
  <2>2. CASE UndoImport /\ (Rollback(imported) \/ RollbackStuck(imported))
    BY <1>1, <1>2, <2>2, RollbackLemma
  <2>3. CASE UndoReplace /\ (Rollback(replaced) \/ RollbackStuck(replaced))
    BY <1>1, <1>3, <2>3, RollbackLemma
  <2> QED BY <2>1, <2>2, <2>3 DEF UndoImport, UndoReplace, RollbackFails
<1>5. stops' \in 0 .. MaxStops
  BY <1>1, Numbers DEF UndoImport, UndoReplace, RollbackFails, Rollback, RollbackStuck, Rest
<1> QED BY <1>1, <1>4, <1>5, LabelMembers, SamePlan
        DEF UndoImport, UndoReplace, Rest, End

LEMMA NextTyped == IInv /\ [Next]_vars => Typed'
BY PreviewTyped, QuietTyped, ImportTyped, ReplaceTyped, UserTyped, UndoTyped
   DEF IInv, Next, Migration

-------------------------------------------------------------------------------
(* Every step keeps track of the transactions.                               *)

LEMMA InitProgress == Init => Progress
BY DEF Init, Progress, AfterImport

\* The commands of the user, and the steps that end or do not touch a journal.
LEMMA QuietProgress ==
  ASSUME IInv,
         \/ \E replaceNative, unmapped \in BOOLEAN : Preview(replaceNative, unmapped)
         \/ \E confirmed \in BOOLEAN : Start(confirmed)
         \/ Verify \/ Doctor \/ Reverify \/ Redoctor \/ Kill \/ Disturb
         \/ ImportFails \/ UndoImport \/ ReplaceFails \/ UndoReplace
         \/ (\E l \in Locations : Edit(l)) \/ UNCHANGED vars
  PROVE  Progress'
<1> USE DEF IInv, Progress, AfterImport, Goto, End, Whole
<1>1. CASE \/ \E replaceNative, unmapped \in BOOLEAN : Preview(replaceNative, unmapped)
           \/ \E confirmed \in BOOLEAN : Start(confirmed)
           \/ Kill \/ ImportFails \/ UndoImport \/ ReplaceFails \/ UndoReplace
  BY <1>1 DEF Preview, Start, Kill, ImportFails, UndoImport, ReplaceFails, UndoReplace
<1>2. CASE Verify BY <1>2 DEF Verify
<1>3. CASE Doctor BY <1>3 DEF Doctor
<1>4. CASE Reverify BY <1>4 DEF Reverify
<1>5. CASE Redoctor BY <1>5 DEF Redoctor
<1>6. CASE Disturb \/ (\E l \in Locations : Edit(l)) \/ UNCHANGED vars
  BY <1>6 DEF Disturb, Edit, vars
<1> QED BY <1>1, <1>2, <1>3, <1>4, <1>5, <1>6

\* A new journal is the last one, and the earlier ones stay.
LEMMA NewJournal ==
  ASSUME Typed, NEW ops, OpsOK(ops), Apply(ops)
  PROVE  /\ Len(journals) \in Nat /\ Len(journals') = Len(journals) + 1
         /\ journals'[Len(journals')].phase = "whole"
         /\ \A i \in 1 .. Len(journals) : journals'[i] = journals[i]
<1>1. StoreOK /\ Len(journals) \in Nat /\ DOMAIN journals = 1 .. Len(journals)
  BY TypedParts DEF StoreOK, JournalsOK
<1> QED BY <1>1, RecordOK DEF Apply

LEMMA ImportProgress == IInv /\ Import => Progress'
<1> SUFFICES ASSUME IInv, Import PROVE Progress'
  OBVIOUS
<1>1. pc' = "doctor" /\ UNCHANGED <<plan, meddled, replaced>> /\ imported = 0
  BY DEF Import, Goto, IInv, Progress
<1>2. CASE TargetsOf(plan.imports) = {}
  <2>1. imported' = 0
    BY <1>1, <1>2 DEF Import
  <2> QED BY <1>1, <1>2, <2>1 DEF Progress
<1>3. CASE TargetsOf(plan.imports) # {}
  <2>1. Apply(plan.imports) /\ imported' = Len(journals')
    BY <1>3 DEF Import
  <2>2. OpsOK(plan.imports) /\ Typed
    BY TypedParts DEF IInv, PlanOK
  <2>3. Whole(imported)'
    BY <2>1, <2>2, NewJournal DEF Whole
  <2> QED BY <1>1, <2>3 DEF Progress
<1> QED BY <1>2, <1>3

LEMMA ReplaceProgress == IInv /\ Replace => Progress'
<1> SUFFICES ASSUME IInv, Replace PROVE Progress'
  OBVIOUS
<1>1. pc = "replace" /\ pc' = "redoctor" /\ UNCHANGED <<plan, meddled, imported>>
  BY DEF Replace, Goto
<1>2. Apply(plan.replaces) /\ replaced' = Len(journals')
  BY DEF Replace
<1>3. OpsOK(plan.replaces) /\ Typed /\ Rest
  BY TypedParts DEF IInv, PlanOK
<1>4. /\ Len(journals) \in Nat /\ Len(journals') = Len(journals) + 1
      /\ journals'[Len(journals')].phase = "whole"
      /\ \A i \in 1 .. Len(journals) : journals'[i] = journals[i]
  BY <1>2, <1>3, NewJournal
<1>5. imported \in 0 .. Len(journals)
  BY <1>3 DEF Rest
<1>6. Whole(replaced)' /\ replaced' # imported'
  BY <1>1, <1>2, <1>4, <1>5 DEF Whole
<1>7. Whole(imported) => Whole(imported)'
  BY <1>1, <1>4, <1>5 DEF Whole
<1>8. ~meddled => (TargetsOf(plan.imports) = {} /\ imported = 0) \/ Whole(imported)
  BY <1>1 DEF IInv, Progress, AfterImport
<1> QED BY <1>1, <1>6, <1>7, <1>8 DEF Progress, Whole

LEMMA RollbackProgress == IInv /\ UserRollback => Progress'
BY DEF UserRollback, IInv, Progress, AfterImport

LEMMA NextProgress == IInv /\ [Next]_vars => Progress'
BY QuietProgress, ImportProgress, ReplaceProgress, RollbackProgress DEF Next, Migration

LEMMA InvariantHolds == Spec => []IInv
<1>1. Init => IInv
  BY InitTyped, InitProgress DEF IInv
<1>2. IInv /\ [Next]_vars => IInv'
  BY NextTyped, NextProgress DEF IInv
<1> QED BY <1>1, <1>2, PTL DEF Spec

\* Every variable of the model of apply_migration has its type.
THEOREM TypeCorrect == Spec => []TypeOK
<1>1. IInv => TypeOK
  BY DEF IInv, Typed
<1> QED BY <1>1, InvariantHolds, PTL

-------------------------------------------------------------------------------
(* What a migration that ends has done.                                      *)

LEMMA AppliedStep ==
  ASSUME IInv, [Next]_vars, Becomes("applied"), ~meddled
  PROVE  /\ TargetsOf(plan.imports) = {} \/ Whole(imported)
         /\ TargetsOf(plan.replaces) = {} \/ Whole(replaced)
         /\ \A i \in DOMAIN journals : journals[i].phase \notin Flagged
<1>1. \/ Doctor /\ ~DoctorBlocks /\ TargetsOf(plan.replaces) = {}
      \/ Redoctor /\ ~DoctorBlocks
  BY DEF Becomes, Next, Migration, Preview, Start, Verify, Import, ImportFails, Doctor,
         UndoImport, Reverify, Replace, ReplaceFails, Redoctor, UndoReplace, Kill, Edit,
         Disturb, UserRollback, Goto, End, vars
<1>2. \A i \in DOMAIN journals : journals[i].phase \notin Flagged
  BY <1>1 DEF DoctorBlocks
<1>3. pc \in {"doctor", "redoctor"}
  BY <1>1 DEF Doctor, Redoctor
<1> QED BY <1>1, <1>2, <1>3 DEF IInv, Progress, AfterImport, Doctor, Redoctor

\* apply_migration returns only with both transactions whole and nothing in the
\* scope to recover (apply.py:76-118), whatever was done to the files meanwhile.
THEOREM AppliedMigrationIsClean == Spec => AppliedIsClean
<1>1. IInv /\ [Next]_vars =>
        (Becomes("applied") /\ ~meddled =>
           /\ TargetsOf(plan.imports) = {} \/ Whole(imported)
           /\ TargetsOf(plan.replaces) = {} \/ Whole(replaced)
           /\ \A i \in DOMAIN journals : journals[i].phase \notin Flagged)
  BY AppliedStep
<1> QED BY <1>1, InvariantHolds, PTL DEF Spec, AppliedIsClean
-------------------------------------------------------------------------------
(* What doctor's blockers undo.                                              *)

LEMMA BlockedStep ==
  ASSUME IInv, [Next]_vars, Becomes("importBlocked") \/ Becomes("replaceBlocked")
  PROVE  /\ Becomes("importBlocked") =>
              imported = 0 \/ journals'[imported].phase = "undone"
         /\ Becomes("replaceBlocked") /\ ~meddled =>
              /\ journals'[replaced].phase = "undone"
              /\ imported = 0 \/ journals'[imported].phase = "whole"
<1>1. \/ Doctor /\ imported = 0 /\ outcome' = "importBlocked"
      \/ UndoImport /\ Rollback(imported) /\ outcome' = "importBlocked"
      \/ UndoReplace /\ Rollback(replaced) /\ outcome' = "replaceBlocked"
  BY DEF Becomes, Next, Migration, Preview, Start, Verify, Import, ImportFails, Doctor,
         UndoImport, Reverify, Replace, ReplaceFails, Redoctor, UndoReplace, Kill, Edit,
         Disturb, UserRollback, Goto, End, vars
<1>2. StoreOK /\ Rest /\ DOMAIN journals = 1 .. Len(journals) /\ Len(journals) \in Nat
  BY TypedParts DEF IInv, StoreOK, JournalsOK
<1>3. CASE Doctor /\ imported = 0 /\ outcome' = "importBlocked"
  BY <1>3 DEF Becomes
<1>4. CASE UndoImport /\ Rollback(imported) /\ outcome' = "importBlocked"
  <2>1. imported \in DOMAIN journals
    BY <1>2, <1>4 DEF IInv, Progress, UndoImport, Rest
  <2>2. journals'[imported].phase = "undone"
    BY <1>2, <1>4, <2>1, RollbackLemma
  <2> QED BY <1>4, <2>2 DEF Becomes
<1>5. CASE UndoReplace /\ Rollback(replaced) /\ outcome' = "replaceBlocked"
  <2>1. replaced \in DOMAIN journals /\ replaced # imported
    BY <1>2, <1>5 DEF IInv, Progress, UndoReplace, Rest
  <2>2. /\ journals'[replaced].phase = "undone"
        /\ \A k \in DOMAIN journals : k # replaced => journals'[k] = journals[k]
    BY <1>2, <1>5, <2>1, RollbackLemma
  <2>3. ~meddled => imported = 0 \/ Whole(imported)
    BY <1>5 DEF IInv, Progress, UndoReplace, AfterImport
  <2>4. imported # 0 => imported \in DOMAIN journals
    BY <1>2 DEF Rest
  <2> QED BY <1>5, <2>1, <2>2, <2>3, <2>4 DEF Becomes, Whole
<1> QED BY <1>1, <1>3, <1>4, <1>5

\* A migration that doctor blocks is undone as far as apply_migration says
\* (apply.py:81-92, 104-117): the import, or only the replacement.
THEOREM BlockedMigrationIsUndone == Spec => BlockedIsUndone
<1>1. IInv /\ [Next]_vars =>
        /\ Becomes("importBlocked") =>
             imported = 0 \/ journals'[imported].phase = "undone"
        /\ Becomes("replaceBlocked") /\ ~meddled =>
             /\ journals'[replaced].phase = "undone"
             /\ imported = 0 \/ journals'[imported].phase = "whole"
  BY BlockedStep
<1> QED BY <1>1, InvariantHolds, PTL DEF Spec, BlockedIsUndone

-------------------------------------------------------------------------------
(* What happens to the user's files.                                         *)

\* A file of the user with something in it.
OfUser(l) == files[l].by = "user" /\ files[l].data # Absent

\* No rollback touches one: what it has to find is what the manager wrote, or in
\* an open transaction the very version it would put back.
LEMMA RollbackSparesUser ==
  ASSUME Typed, NEW i \in DOMAIN journals, Rollback(i) \/ RollbackStuck(i),
         NEW l \in Locations, OfUser(l)
  PROVE  files'[l] = files[l]
<1> DEFINE j == journals[i]
<1> PICK S, phase : RollsBack(i, S, phase) BY RollbackSteps
<1>1. /\ files[l] \in VersionAt(l) /\ j.before[l] \in VersionAt(l) /\ j.ops[l] \in OpAt(l)
      /\ DOMAIN files = Locations /\ DOMAIN j.ops = Locations
  BY DEF Typed, JournalsOK, VersionsOK, OpsOK, Ops
<1>2. CASE l \notin S
  BY <1>1, <1>2 DEF RollsBack, PartlyRestored
<1>3. CASE l \in S
  <2>1. l \in TargetsOf(j.ops) /\ j.ops[l] # Keep /\ files'[l] = j.before[l]
    BY <1>1, <1>3 DEF RollsBack, PartlyRestored, TargetsOf
  <2>2. files[l].data # j.ops[l]
    BY <1>1, <2>1, DataAssumption, LocationKinds
       DEF OfUser, VersionAt, OpAt, NativeVersion, NeutralVersion, Replacement
  <2>3. files[l].data = j.before[l].data
    BY <2>1, <2>2 DEF RollsBack, RollbackOK
  <2>4. j.before[l] = files[l]
    BY <1>1, <2>3, DataAssumption, LocationKinds
       DEF OfUser, VersionAt, NativeVersion, NeutralVersion, Replacement
  <2> QED BY <2>1, <2>4
<1> QED BY <1>2, <1>3

\* A transaction changes only targets that are as the plan saw them.
LEMMA ApplyTouches ==
  ASSUME Typed, NEW ops, OpsOK(ops), Apply(ops) \/ ApplyStuck(ops),
         NEW l \in Locations, files'[l] # files[l]
  PROVE  ops[l] # Keep /\ files[l].data = plan.seen[l].data
<1>1. DOMAIN files = Locations /\ DOMAIN ops = Locations
  BY DEF Typed, VersionsOK, OpsOK, Ops
<1>2. Approved(files, ops, plan.seen)
  BY DEF Apply, ApplyStuck
<1>3. l \in TargetsOf(ops)
  BY <1>1 DEF Apply, ApplyStuck, Installed
<1> QED BY <1>2, <1>3 DEF Approved, TargetsOf

\* Only a replacement takes a file of the user.
LEMMA UserFileTaken ==
  ASSUME IInv, [Next]_vars, NEW l \in Locations, OfUser(l), files'[l] # files[l],
         edits' = edits
  PROVE  /\ Replace \/ ReplaceFails
         /\ l[2] = "native" /\ files[l].data = plan.seen[l].data
<1>1. Typed /\ PlanOK /\ StoreOK /\ Rest /\ DOMAIN journals = 1 .. Len(journals)
  BY TypedParts DEF IInv, StoreOK, JournalsOK
<1>2. edits' # edits + 1
  BY <1>1, ConstantsAssumption DEF Rest
<1>3. \/ Import /\ Apply(plan.imports)
      \/ ImportFails /\ ApplyStuck(plan.imports)
      \/ UndoImport /\ (Rollback(imported) \/ RollbackStuck(imported))
      \/ UndoReplace /\ (Rollback(replaced) \/ RollbackStuck(replaced))
      \/ Replace /\ Apply(plan.replaces)
      \/ ReplaceFails /\ ApplyStuck(plan.replaces)
      \/ \E i \in DOMAIN journals : Rollback(i) \/ RollbackStuck(i)
  <2>1. \/ Import \/ ImportFails \/ UndoImport \/ UndoReplace \/ Replace \/ ReplaceFails
        \/ UserRollback
    BY <1>2 DEF Next, Migration, Preview, Start, Verify, Doctor, Reverify, Redoctor, Kill,
                Edit, Touch, Disturb, vars
  <2>2. Import => Apply(plan.imports)
    BY DEF Import
  <2>3. ImportFails => ApplyStuck(plan.imports)
    BY DEF ImportFails
  <2>4. ReplaceFails => ApplyStuck(plan.replaces)
    BY DEF ReplaceFails
  <2>5. /\ UndoImport => Rollback(imported) \/ RollbackStuck(imported)
        /\ UndoReplace => Rollback(replaced) \/ RollbackStuck(replaced)
    BY DEF UndoImport, UndoReplace, RollbackFails
  <2>6. /\ Replace => Apply(plan.replaces)
        /\ UserRollback => \E i \in DOMAIN journals : Rollback(i) \/ RollbackStuck(i)
    BY DEF Replace, UserRollback
  <2> QED BY <2>1, <2>2, <2>3, <2>4, <2>5, <2>6
<1>4. ~ \E i \in DOMAIN journals : Rollback(i) \/ RollbackStuck(i)
  BY <1>1, RollbackSparesUser
<1>5. UndoImport => imported \in DOMAIN journals
  BY <1>1 DEF IInv, Progress, UndoImport, Rest
<1>6. UndoReplace => replaced \in DOMAIN journals
  BY <1>1 DEF IInv, Progress, UndoReplace, Rest
<1>7. ~ (Apply(plan.imports) \/ ApplyStuck(plan.imports))
  BY <1>1, ApplyTouches DEF PlanOK, OfUser
<1>8. CASE (Replace /\ Apply(plan.replaces)) \/ (ReplaceFails /\ ApplyStuck(plan.replaces))
  BY <1>1, <1>8, ApplyTouches DEF PlanOK
<1> QED BY <1>3, <1>4, <1>5, <1>6, <1>7, <1>8

\* Migrations take from the user only what the plan saw (apply.py:70-103), and
\* nothing in the neutral scope; rollbacks take nothing.
THEOREM MigrationKeepsUserWork == Spec => UserWorkKept
<1>1. IInv /\ [Next]_vars =>
        \A l \in Locations :
          /\ files[l].by = "user" /\ files[l].data # Absent
          /\ files'[l] # files[l] /\ edits' = edits
          => l[2] = "native" /\ files[l].data = plan.seen[l].data
  BY UserFileTaken DEF OfUser
<1>2. IInv /\ UNCHANGED vars =>
        \A l \in Locations :
          /\ files[l].by = "user" /\ files[l].data # Absent
          /\ files'[l] # files[l] /\ edits' = edits
          => l[2] = "native" /\ files[l].data = plan.seen[l].data
  BY DEF vars
<1> QED BY <1>1, <1>2, InvariantHolds, PTL DEF Spec, UserWorkKept

-------------------------------------------------------------------------------
(* The import precedes the replacement.                                      *)

Imported(s) == <<s, "neutral">>

\* What a plan imports is the image of the native file it saw.
PlanImages ==
  \A s \in Sources :
    plan.imports[Imported(s)] # Keep =>
      plan.imports[Imported(s)] = Image(plan.seen[<<s, "native">>].data)

\* Once the import is behind the migration, its files are in place, or the user's.
Stored ==
  pc \in AfterImport /\ ~meddled =>
    \A s \in Sources :
      plan.imports[Imported(s)] # Keep =>
        \/ files[Imported(s)].by = "user"
        \/ files[Imported(s)].data = plan.imports[Imported(s)]

StoredInv == IInv /\ PlanImages /\ Stored

LEMMA InitStored == Init => StoredInv
<1>1. Init => PlanImages
  BY LocationKinds DEF Init, PlanImages, Imported, NoOps
<1> QED BY <1>1, InitTyped, InitProgress DEF StoredInv, IInv, Stored, Init, AfterImport

LEMMA ImagesKept == StoredInv /\ [Next]_vars => PlanImages'
<1> SUFFICES ASSUME StoredInv, [Next]_vars PROVE PlanImages'
  OBVIOUS
<1>1. CASE UNCHANGED plan
  BY <1>1 DEF StoredInv, PlanImages, Imported
<1>2. ASSUME NEW replaceNative \in BOOLEAN, NEW unmapped \in BOOLEAN,
             Preview(replaceNative, unmapped)
      PROVE  PlanImages'
  <2>1. plan'.imports = ImportOps /\ plan'.seen = files
    BY <1>2 DEF Preview
  <2> QED BY <2>1, LocationKinds DEF PlanImages, Imported, ImportOps
<1> QED BY <1>1, <1>2
        DEF Next, Migration, Start, Verify, Import, ImportFails, Doctor, UndoImport,
            Reverify, Replace, ReplaceFails, Redoctor, UndoReplace, Kill, Edit, Disturb,
            UserRollback, vars

LEMMA ImportStores == StoredInv /\ Import => Stored'
<1> SUFFICES ASSUME StoredInv, Import, NEW s \in Sources,
                    plan.imports[Imported(s)] # Keep
             PROVE  files'[Imported(s)].data = plan.imports[Imported(s)]
  BY DEF Stored, Import
<1>1. Imported(s) \in Locations /\ DOMAIN plan.imports = Locations /\ DOMAIN files = Locations
  BY TypedParts, LocationKinds
     DEF StoredInv, IInv, Imported, PlanOK, OpsOK, Ops, StoreOK, VersionsOK
<1>2. Imported(s) \in TargetsOf(plan.imports)
  BY <1>1 DEF TargetsOf
<1>3. files' = Installed(files, plan.imports, TargetsOf(plan.imports))
  BY <1>2 DEF Import, Apply
<1> QED BY <1>1, <1>2, <1>3 DEF Installed

\* The replacement changes native files only.
LEMMA ReplaceStores == StoredInv /\ Replace => Stored'
<1> SUFFICES ASSUME StoredInv, Replace PROVE Stored'
  OBVIOUS
<1>1. Typed /\ PlanOK /\ Apply(plan.replaces) /\ UNCHANGED <<plan, meddled>> /\ pc = "replace"
  BY TypedParts DEF StoredInv, IInv, Replace, Goto
<1>2. ASSUME NEW s \in Sources PROVE files'[Imported(s)] = files[Imported(s)]
  <2>1. Imported(s) \in Locations /\ Imported(s)[2] = "neutral"
    BY LocationKinds DEF Imported
  <2>2. plan.replaces[Imported(s)] = Keep
    BY <1>1, <2>1 DEF PlanOK
  <2> QED BY <1>1, <2>1, <2>2, ApplyTouches DEF PlanOK
<1> QED BY <1>1, <1>2 DEF StoredInv, Stored, AfterImport

LEMMA EditStores ==
  ASSUME StoredInv, NEW l \in Locations, Edit(l)
  PROVE  Stored'
<1>1. DOMAIN files = Locations
  BY TypedParts DEF StoredInv, IInv, StoreOK, VersionsOK
<1>2. PICK d : files' = [files EXCEPT ![l] = [data |-> d, by |-> "user"]]
  BY DEF Edit
<1>3. \A s \in Sources : files'[Imported(s)].by = "user" \/ files'[Imported(s)] = files[Imported(s)]
  BY <1>1, <1>2, LocationKinds DEF Imported
<1> QED BY <1>3 DEF StoredInv, Stored, Edit

LEMMA NextStored == StoredInv /\ [Next]_vars => Stored'
<1> SUFFICES ASSUME StoredInv, [Next]_vars PROVE Stored'
  OBVIOUS
<1>1. CASE \/ \E replaceNative, unmapped \in BOOLEAN : Preview(replaceNative, unmapped)
           \/ \E confirmed \in BOOLEAN : Start(confirmed)
           \/ Verify \/ ImportFails \/ UndoImport \/ ReplaceFails \/ UndoReplace \/ Kill
  BY <1>1 DEF Stored, AfterImport, Preview, Start, Verify, ImportFails, UndoImport,
              ReplaceFails, UndoReplace, Kill, Goto, End, StoredInv, IInv, Progress
<1>2. CASE Doctor \/ Reverify \/ Redoctor \/ Disturb \/ UNCHANGED vars
  BY <1>2 DEF Stored, AfterImport, Doctor, Reverify, Redoctor, Disturb, Goto, End, vars,
              StoredInv
<1>3. CASE UserRollback
  BY <1>3 DEF Stored, AfterImport, UserRollback
<1> QED BY <1>1, <1>2, <1>3, ImportStores, ReplaceStores, EditStores DEF Next, Migration

LEMMA StoredHolds == Spec => []StoredInv
<1>1. StoredInv /\ [Next]_vars => StoredInv'
  BY NextTyped, NextProgress, ImagesKept, NextStored DEF StoredInv, IInv
<1> QED BY <1>1, InitStored, PTL DEF Spec

LEMMA TakenInPlace ==
  ASSUME StoredInv, [Next]_vars, NEW s \in Sources, Taken(<<s, "native">>),
         Scanned(files, s), plan.imports[<<s, "neutral">>] # Keep, ~meddled
  PROVE  InPlace(s)
<1> DEFINE n == <<s, "native">>
<1>1. n \in Locations /\ IInv /\ OfUser(n) /\ files'[n] # files[n] /\ files'[n].by = "manager"
  BY LocationKinds DEF StoredInv, Scanned, OfUser, Taken
<1>2. edits' = edits
  <2>1. ASSUME NEW l \in Locations, Edit(l) PROVE FALSE
    <3>1. DOMAIN files = Locations
      BY TypedParts DEF StoredInv, IInv, StoreOK, VersionsOK
    <3>2. files'[n] = files[n] \/ files'[n].by = "user"
      BY <1>1, <2>1, <3>1 DEF Edit
    <3> QED BY <1>1, <3>2
  <2>2. ~Disturb
    BY <1>1 DEF Disturb
  <2> QED BY <2>1, <2>2
          DEF Next, Migration, Preview, Start, Verify, Import, ImportFails, Doctor,
              UndoImport, Reverify, Replace, ReplaceFails, Redoctor, UndoReplace, Kill,
              UserRollback, counters, vars
<1>3. (Replace \/ ReplaceFails) /\ files[n].data = plan.seen[n].data
  BY <1>1, <1>2, UserFileTaken
<1>4. pc \in AfterImport
  BY <1>3 DEF Replace, ReplaceFails, AfterImport
<1>5. \/ files[<<s, "neutral">>].by = "user"
      \/ files[<<s, "neutral">>].data = Image(plan.seen[n].data)
  BY <1>4 DEF StoredInv, Stored, PlanImages, Imported
<1> QED BY <1>3, <1>5 DEF InPlace

\* A native file is replaced or deleted by the migration that imports it only
\* while what it contains is in the neutral scope (apply.py:70-103).
THEOREM ImportPrecedesRemoval == Spec => OwnImportPrecedesRemoval
<1>1. StoredInv /\ [Next]_vars =>
        \A s \in Sources :
          /\ Taken(<<s, "native">>)
          /\ Scanned(files, s)
          /\ plan.imports[<<s, "neutral">>] # Keep
          /\ ~meddled
          => InPlace(s)
  BY TakenInPlace
<1> QED BY <1>1, StoredHolds, PTL DEF Spec, OwnImportPrecedesRemoval

-------------------------------------------------------------------------------
(* What the manager wrote can be taken back.                                 *)

Entrypoint(l) == l[2] = "native" /\ l[1] \in Entrypoints

\* Only at an entrypoint does a transaction write over what the manager wrote.
CapturedManaged ==
  \A i \in DOMAIN journals, l \in Locations :
    journals[i].ops[l] # Keep /\ journals[i].before[l].by = "manager" => Entrypoint(l)

\* Journal i can put back what was at l before the manager came.
Root(i, l) ==
  /\ journals[i].phase \in Rollbackable
  /\ journals[i].ops[l] # Keep /\ journals[i].ops[l] = files[l].data
  /\ journals[i].before[l].by # "manager"

\* RemovedIsRestorable is not inductive: of several journals that wrote the same
\* entrypoint, the one that is rolled back may not be the last that explains it.
Rooted ==
  \A l \in Locations : files[l].by = "manager" => \E i \in DOMAIN journals : Root(i, l)

RootInv == IInv /\ CapturedManaged /\ Rooted

\* At an entrypoint the data tells the manager's version from the user's.
LEMMA ManagedEntrypoint ==
  ASSUME NEW l, Entrypoint(l), NEW v \in VersionAt(l)
  PROVE  v.data = Rendered <=> v.by = "manager"
BY DataAssumption DEF Entrypoint, VersionAt, NativeVersion, Replacement

LEMMA JournalDomain ==
  ASSUME IInv
  PROVE  /\ DOMAIN journals = 1 .. Len(journals) /\ Len(journals) \in Nat
         /\ StoreOK /\ OpsOK(plan.imports) /\ OpsOK(plan.replaces)
BY TypedParts DEF IInv, StoreOK, JournalsOK, PlanOK

\* The plans write over the manager's versions only at entrypoints.
PlannedOps == {plan.imports, plan.replaces}

LEMMA PlannedTakes ==
  ASSUME IInv, NEW ops \in PlannedOps, Approved(files, ops, plan.seen), NEW l \in Locations,
         ops[l] # Keep, files[l].by = "manager"
  PROVE  Entrypoint(l)
<1>1. PlanOK /\ OpsOK(ops) /\ files[l] \in VersionAt(l)
  BY TypedParts DEF IInv, PlannedOps, StoreOK, VersionsOK, PlanOK
<1>2. files[l].data = plan.seen[l].data BY <1>1 DEF Approved, TargetsOf, OpsOK, Ops
<1>3. CASE ops = plan.imports
  <2>1. l[2] = "neutral" /\ files[l].data = Absent BY <1>1, <1>2, <1>3 DEF PlanOK
  <2> QED BY <1>1, <2>1, DataAssumption DEF VersionAt, NeutralVersion
<1>4. CASE ops = plan.replaces
  <2>1. l[2] = "native" /\ (l[1] \in Entrypoints \/ files[l].data # Absent)
    BY <1>1, <1>2, <1>4 DEF PlanOK
  <2>2. l[1] \notin Entrypoints => files[l].data = Absent
    BY <1>1, <2>1 DEF VersionAt, NativeVersion, Replacement
  <2> QED BY <2>1, <2>2 DEF Entrypoint
<1> QED BY <1>3, <1>4 DEF PlannedOps

LEMMA RecordLast ==
  ASSUME IInv, NEW ops, OpsOK(ops), NEW phase \in {"prepared", "open", "whole"},
         Record(phase, ops)
  PROVE  /\ DOMAIN journals' = DOMAIN journals \cup {Len(journals) + 1}
         /\ journals'[Len(journals) + 1] = [phase |-> phase, ops |-> ops, before |-> files]
         /\ \A i \in DOMAIN journals : journals'[i] = journals[i]
<1> DEFINE j == [phase |-> phase, ops |-> ops, before |-> files]
<1>1. journals \in Seq(Journal) /\ journals' = Append(journals, j)
  BY JournalDomain DEF StoreOK, JournalsOK, Record
<1>2. j \in Journal BY JournalDomain DEF Journal, StoreOK, VersionsOK, OpsOK
<1> HIDE DEF j
<1>3. \A i \in 1 .. Len(journals) : journals'[i] = journals[i] BY <1>1, <1>2
<1>4. Len(journals') = Len(journals) + 1 /\ journals'[Len(journals) + 1] = j BY <1>1, <1>2
<1>5. DOMAIN journals' = 1 .. Len(journals) + 1 BY <1>1, <1>2, <1>4
<1> QED BY <1>3, <1>4, <1>5, JournalDomain DEF j

LEMMA CapturedByRecord ==
  ASSUME RootInv, NEW ops \in PlannedOps, Approved(files, ops, plan.seen),
         NEW phase \in {"prepared", "open", "whole"}, Record(phase, ops)
  PROVE  CapturedManaged'
<1>1. IInv /\ OpsOK(ops) BY JournalDomain DEF RootInv, PlannedOps
<1> SUFFICES ASSUME NEW i \in DOMAIN journals', NEW l \in Locations,
                    journals'[i].ops[l] # Keep, journals'[i].before[l].by = "manager"
             PROVE  Entrypoint(l)
  BY DEF CapturedManaged, Entrypoint
<1>2. CASE i \in DOMAIN journals BY <1>1, <1>2, RecordLast DEF RootInv, CapturedManaged
<1>3. CASE i = Len(journals) + 1
  <2>1. journals'[i] = [phase |-> phase, ops |-> ops, before |-> files]
    BY <1>1, <1>3, RecordLast
  <2>2. ops[l] # Keep /\ files[l].by = "manager" BY <2>1
  <2> QED BY <1>1, <2>2, PlannedTakes
<1> QED BY <1>1, <1>2, <1>3, RecordLast

\* The new journal explains what it installed, or what was there explains it.
LEMMA InstallRoots ==
  ASSUME RootInv, NEW ops \in PlannedOps, Approved(files, ops, plan.seen),
         NEW S \in SUBSET TargetsOf(ops), files' = Installed(files, ops, S),
         NEW phase \in {"open", "whole"}, Record(phase, ops)
  PROVE  Rooted'
<1>1. IInv /\ OpsOK(ops) BY JournalDomain DEF RootInv, PlannedOps
<1>2. /\ DOMAIN journals' = DOMAIN journals \cup {Len(journals) + 1}
      /\ journals'[Len(journals) + 1] = [phase |-> phase, ops |-> ops, before |-> files]
      /\ \A i \in DOMAIN journals : journals'[i] = journals[i]
  BY <1>1, RecordLast
<1>3. DOMAIN files = Locations /\ DOMAIN ops = Locations
  BY <1>1, JournalDomain DEF StoreOK, VersionsOK, OpsOK, Ops
<1> SUFFICES ASSUME NEW l \in Locations, files'[l].by = "manager"
             PROVE  \E i \in DOMAIN journals' : Root(i, l)'
  BY DEF Rooted
<1>4. CASE l \notin S
  <2>1. files'[l] = files[l] BY <1>3, <1>4 DEF Installed
  <2>2. PICK i \in DOMAIN journals : Root(i, l) BY <2>1 DEF RootInv, Rooted
  <2>3. Root(i, l)' BY <1>2, <2>1, <2>2 DEF Root
  <2> QED BY <1>2, <2>3
<1>5. CASE l \in S
  <2>1. files'[l] = [data |-> ops[l], by |-> "manager"] /\ ops[l] # Keep
    BY <1>3, <1>5 DEF Installed, TargetsOf
  <2>2. CASE files[l].by # "manager"
    <3>1. PICK n : n = Len(journals) + 1 OBVIOUS
    <3>2. n \in DOMAIN journals' /\ journals'[n] = [phase |-> phase, ops |-> ops, before |-> files]
      BY <1>2, <3>1
    <3>3. Root(n, l)' BY <2>1, <2>2, <3>2 DEF Root, Rollbackable
    <3> QED BY <3>2, <3>3
  <2>3. CASE files[l].by = "manager"
    <3>1. Entrypoint(l) BY <1>1, <2>1, <2>3, PlannedTakes
    <3>2. files[l].data = Rendered
      BY <1>1, <2>3, <3>1, JournalDomain, ManagedEntrypoint DEF StoreOK, VersionsOK
    <3>3. ops[l] = Rendered BY <1>1, <2>1, <3>1 DEF OpsOK, OpAt, Entrypoint, Replacement
    <3>4. PICK i \in DOMAIN journals : Root(i, l) BY <2>3 DEF RootInv, Rooted
    <3>5. Root(i, l)' BY <1>2, <2>1, <3>2, <3>3, <3>4 DEF Root
    <3> QED BY <1>2, <3>5
  <2> QED BY <2>2, <2>3
<1> QED BY <1>4, <1>5

LEMMA ApplyRoots ==
  ASSUME RootInv, NEW ops \in PlannedOps, Apply(ops) \/ ApplyStuck(ops)
  PROVE  CapturedManaged' /\ Rooted'
<1>1. CASE Apply(ops) BY <1>1, CapturedByRecord, InstallRoots DEF Apply
<1>2. ASSUME ApplyStuck(ops), NEW S \in SUBSET TargetsOf(ops),
             files' = Installed(files, ops, S), Record("open", ops)
      PROVE  CapturedManaged' /\ Rooted'
  BY <1>2, CapturedByRecord, InstallRoots DEF ApplyStuck
<1>3. CASE ApplyStuck(ops) /\ Record("prepared", ops) /\ UNCHANGED files
  <2>1. CapturedManaged' BY <1>3, CapturedByRecord DEF ApplyStuck
  <2>2. Rooted'
    <3>1. OpsOK(ops) BY JournalDomain DEF RootInv, PlannedOps
    <3>2. /\ DOMAIN journals' = DOMAIN journals \cup {Len(journals) + 1}
          /\ \A i \in DOMAIN journals : journals'[i] = journals[i]
      BY <1>3, <3>1, RecordLast DEF RootInv
    <3> QED BY <1>3, <3>2 DEF RootInv, Rooted, Root
  <2> QED BY <2>1, <2>2
<1> QED BY <1>1, <1>2, <1>3 DEF ApplyStuck

\* A rollback that leaves a version of the manager leaves what explains it.
LEMMA RollbackRoots ==
  ASSUME RootInv, NEW k \in DOMAIN journals, Rollback(k) \/ RollbackStuck(k)
  PROVE  CapturedManaged' /\ Rooted'
<1> DEFINE j == journals[k]
<1> PICK S, phase : RollsBack(k, S, phase) BY RollbackSteps
<1>1. IInv /\ StoreOK /\ DOMAIN journals' = DOMAIN journals
      /\ \A i \in DOMAIN journals : i # k => journals'[i] = journals[i]
  BY JournalDomain, RollbackLemma DEF RootInv
<1>2. /\ journals'[k].ops = j.ops /\ journals'[k].before = j.before
      /\ journals'[k].phase = phase
  <2>1. journals \in Seq(Journal) /\ j \in Journal BY <1>1 DEF StoreOK, JournalsOK
  <2>2. journals'[k] = [j EXCEPT !.phase = phase] BY <2>1 DEF RollsBack
  <2> QED BY <2>1, <2>2 DEF Journal
<1>3. /\ DOMAIN files = Locations /\ DOMAIN j.ops = Locations
      /\ \A l \in Locations : files[l] \in VersionAt(l) /\ j.before[l] \in VersionAt(l)
                              /\ j.ops[l] \in OpAt(l)
  BY <1>1 DEF StoreOK, JournalsOK, VersionsOK, OpsOK, Ops
<1>4. CapturedManaged' BY <1>1, <1>2 DEF RootInv, CapturedManaged
<1>5. ASSUME NEW l \in Locations, files'[l].by = "manager"
      PROVE  \E i \in DOMAIN journals' : Root(i, l)'
  <2>1. files[l].by = "manager" /\ files'[l].data = files[l].data
        /\ (l \in S => j.before[l].by = "manager")
    <3>1. CASE l \notin S BY <1>3, <1>5, <3>1 DEF RollsBack, PartlyRestored
    <3>2. CASE l \in S
      <4>1. /\ files'[l] = j.before[l] /\ l \in TargetsOf(j.ops)
            /\ j.ops[l] # Keep
        BY <1>3, <3>2 DEF RollsBack, PartlyRestored, TargetsOf
      <4>2. Entrypoint(l) BY <1>5, <4>1 DEF RootInv, CapturedManaged
      <4>3. j.before[l].data = Rendered BY <1>3, <1>5, <4>1, <4>2, ManagedEntrypoint
      <4>4. j.ops[l] = Rendered BY <1>3, <4>1, <4>2 DEF OpAt, Entrypoint, Replacement
      <4>5. files[l].data = Rendered BY <4>1, <4>3, <4>4 DEF RollsBack, RollbackOK
      <4>6. files[l].by = "manager" BY <1>3, <4>2, <4>5, ManagedEntrypoint
      <4> QED BY <1>5, <4>1, <4>3, <4>5, <4>6
    <3> QED BY <3>1, <3>2
  <2>2. PICK i \in DOMAIN journals : Root(i, l) BY <2>1 DEF RootInv, Rooted
  <2>3. journals'[i].phase \in Rollbackable
    <3>1. CASE i = k
      <4>1. j.ops[l] # Keep /\ j.before[l].by # "manager" BY <2>2, <3>1 DEF Root
      <4>2. l \in TargetsOf(j.ops) /\ l \notin S BY <1>3, <2>1, <4>1 DEF TargetsOf
      <4>3. phase = "open" BY <4>2 DEF RollsBack
      <4> QED BY <1>2, <3>1, <4>3 DEF Rollbackable
    <3> QED BY <1>1, <2>2, <3>1 DEF Root
  <2>4. Root(i, l)' BY <1>1, <1>2, <2>1, <2>2, <2>3 DEF Root
  <2> QED BY <1>1, <2>4
<1> QED BY <1>4, <1>5 DEF Rooted

LEMMA EditRoots ==
  ASSUME RootInv, NEW l \in Locations, Edit(l)
  PROVE  CapturedManaged' /\ Rooted'
<1>1. PICK d : files' = [files EXCEPT ![l] = [data |-> d, by |-> "user"]] BY DEF Edit
<1>2. DOMAIN files = Locations /\ UNCHANGED journals
  BY JournalDomain DEF RootInv, Edit, StoreOK, VersionsOK
<1>3. \A m \in Locations : files'[m].by = "manager" => files'[m] = files[m]
  BY <1>1, <1>2
<1> QED BY <1>2, <1>3 DEF RootInv, CapturedManaged, Rooted, Root

LEMMA NextRoots == RootInv /\ [Next]_vars => CapturedManaged' /\ Rooted'
<1> SUFFICES ASSUME RootInv, [Next]_vars PROVE CapturedManaged' /\ Rooted'
  OBVIOUS
<1>1. CASE UNCHANGED <<files, journals>>
  BY <1>1 DEF RootInv, CapturedManaged, Rooted, Root
<1>2. CASE Import \/ ImportFails
  BY <1>1, <1>2, ApplyRoots DEF Import, ImportFails, PlannedOps
<1>3. CASE Replace \/ ReplaceFails
  BY <1>1, <1>3, ApplyRoots DEF Replace, ReplaceFails, PlannedOps
<1>4. CASE UndoImport
  <2>1. imported \in DOMAIN journals
    BY <1>4, JournalDomain, TypedParts DEF RootInv, IInv, Progress, UndoImport, Rest
  <2> QED BY <1>1, <1>4, <2>1, RollbackRoots DEF UndoImport, RollbackFails
<1>5. CASE UndoReplace
  <2>1. replaced \in DOMAIN journals
    BY <1>5, JournalDomain, TypedParts DEF RootInv, IInv, Progress, UndoReplace, Rest
  <2> QED BY <1>1, <1>5, <2>1, RollbackRoots DEF UndoReplace, RollbackFails
<1>6. CASE UserRollback BY <1>6, RollbackRoots DEF UserRollback
<1>7. CASE \/ \E replaceNative, unmapped \in BOOLEAN : Preview(replaceNative, unmapped)
           \/ \E confirmed \in BOOLEAN : Start(confirmed)
           \/ Verify \/ Doctor \/ Reverify \/ Redoctor \/ Kill \/ Disturb \/ UNCHANGED vars
  BY <1>1, <1>7 DEF Preview, Start, Verify, Doctor, Reverify, Redoctor, Kill, Disturb, vars
<1> QED BY <1>2, <1>3, <1>4, <1>5, <1>6, <1>7, EditRoots DEF Next, Migration

\* Whatever the manager overwrote or deleted, in however many migrations, it can
\* put back: some journal that rollback accepts wrote what is there
\* (apply.py:76-103, engine.py rollback_transaction).
THEOREM RemovedCanBeRestored == Spec => []RemovedIsRestorable
<1>1. Init => RootInv
  <2>1. Init => CapturedManaged /\ Rooted
    BY LocationKinds DEF Init, CapturedManaged, Rooted
  <2> QED BY <2>1, InitTyped, InitProgress DEF RootInv, IInv
<1>2. RootInv /\ [Next]_vars => RootInv'
  BY NextRoots, NextTyped, NextProgress DEF RootInv, IInv
<1>3. RootInv => RemovedIsRestorable
  BY DEF RootInv, Rooted, Root, RemovedIsRestorable
<1> QED BY <1>1, <1>2, <1>3, PTL DEF Spec
===============================================================================
