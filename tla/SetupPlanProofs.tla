---------------------------- MODULE SetupPlanProofs ----------------------------
(* Theorems about SetupPlan, for every release, layout and set of outputs,   *)
(* and every number of plans, upgrades, edits and transactions left open.    *)
EXTENDS SetupPlan, TLAPS

-------------------------------------------------------------------------------
(* What is known of a version, by who put it there.                          *)

\* Some journal of js has written this content there, runtime roots apart.
Wrote(js, p, d) ==
  \E i \in DOMAIN js : js[i].ops[p] \in Contents /\ Norm[js[i].ops[p]] = Norm[d]

\* The manager's content was written by a transaction.
Known(js, v, p) ==
  /\ v \in Version /\ v.data \in Data
  /\ v.by = "manager" /\ v.data # Absent => Wrote(js, p, v.data)
  /\ v.by = "nobody" => v.data = Absent

\* A listed digest is one of a content that a transaction wrote.
KnownManifest(js, m) ==
  m # Absent =>
    m \in Manifests /\ \A p \in Paths : m.digests[p] # Unlisted => Wrote(js, p, m.digests[p])

FilesOK(js, f) ==
  /\ DOMAIN f = Locations /\ f = [l \in Locations |-> f[l]]
  /\ \A p \in Paths : Known(js, f[p], p)
  /\ f[ManifestFile] \in Version /\ f[ManifestFile].data \in Manifests \cup {Absent}
  /\ KnownManifest(js, f[ManifestFile].data)

\* The same content, runtime roots apart.
SameNormal(o, d) == o \in Contents /\ Norm[o] = Norm[d]

\* Operations write what their manifest lists.
OpsOK(ops) ==
  /\ DOMAIN ops = Locations
  /\ \A p \in Paths : ops[p] \in Data \cup {Keep}
  /\ ops[ManifestFile] \in Manifests
  /\ \A p \in Paths :
       ops[ManifestFile].digests[p] # Unlisted =>
         SameNormal(ops[p], ops[ManifestFile].digests[p])

\* An operation replaces nothing, something empty or the manager's own, or it
\* merges.
SeenOK(js, ops, seen) ==
  \A p \in Paths :
    ops[p] # Keep =>
      \/ seen[p].data \in {Absent, Empty}
      \/ Wrote(js, p, seen[p].data)
      \/ \E layout \in Layouts : ops[p] = Merge[layout][seen[p].data]

PlanOK(js, pl) ==
  /\ \A l \in Locations : pl.ops[l] \in Data \cup Manifests \cup {Keep}
  /\ ~pl.conflicts => OpsOK(pl.ops) /\ SeenOK(js, pl.ops, pl.seen)

JournalOK(js, j) ==
  /\ j = [phase |-> j.phase, ops |-> j.ops, before |-> j.before]
  /\ j.phase \in {"prepared", "open", "whole", "undone"}
  /\ OpsOK(j.ops) /\ FilesOK(js, j.before)

PlansOK == DOMAIN plans = Slots /\ \A s \in Slots : PlanOK(journals, plans[s])

JournalsOK ==
  /\ Len(journals) \in Nat /\ DOMAIN journals = 1 .. Len(journals)
  /\ journals = [i \in 1 .. Len(journals) |-> journals[i]]
  /\ \A i \in DOMAIN journals : JournalOK(journals, journals[i])

CountersOK ==
  /\ release \in Releases /\ intact \in BOOLEAN
  /\ previews \in 0 .. MaxPreviews /\ inits \in 0 .. MaxInits
  /\ edits \in 0 .. MaxEdits /\ stops \in 0 .. MaxStops
  /\ upgrades \in 0 .. MaxUpgrades

IInv == FilesOK(journals, files) /\ PlansOK /\ JournalsOK /\ CountersOK

LEMMA BoundsAreNat ==
  {MaxPreviews, MaxInits, MaxApplies, MaxEdits, MaxStops, MaxUpgrades} \subseteq Nat
BY ConstantsAssumption

LEMMA LocationKinds ==
  /\ Locations = Paths \cup {ManifestFile} /\ ManifestFile \in Locations
  /\ ManifestFile \notin Paths /\ \A p \in Paths : p \in Locations /\ p # ManifestFile
BY NormAssumption DEF Locations

LEMMA InitHolds == Init => IInv
<1> SUFFICES ASSUME Init PROVE IInv
  OBVIOUS
<1>1. FilesOK(journals, files)
  <2>1. PICK p \in Paths, d \in UserContents \cup {Absent} :
          files = [l \in Locations |->
                     IF l = p /\ d # Absent THEN [data |-> d, by |-> "user"]
                                            ELSE [data |-> Absent, by |-> "nobody"]]
    BY DEF Init
  <2>2. d \in Data
    BY ConstantsAssumption DEF Data
  <2>3. \A q \in Paths : Known(journals, files[q], q)
    BY <2>1, <2>2, LocationKinds DEF Known, Version, Data
  <2>4. files[ManifestFile] = [data |-> Absent, by |-> "nobody"]
    BY <2>1, LocationKinds
  <2>5. files[ManifestFile] \in Version /\ files[ManifestFile].data = Absent
    BY <2>4 DEF Version, Data
  <2>6. DOMAIN files = Locations /\ files = [l \in Locations |-> files[l]]
    BY <2>1
  <2> QED BY <2>3, <2>5, <2>6 DEF FilesOK, KnownManifest
<1>2. PlansOK
  BY DEF Init, PlansOK, PlanOK, NoOps
<1>3. JournalsOK
  BY DEF Init, JournalsOK
<1>4. CountersOK
  BY BoundsAreNat DEF Init, CountersOK
<1> QED BY <1>1, <1>2, <1>3, <1>4 DEF IInv

-------------------------------------------------------------------------------
(* What was written stays written: journals are only added to.               *)

Grown(js, ks) == \A i \in DOMAIN js : i \in DOMAIN ks /\ ks[i].ops = js[i].ops

LEMMA WroteGrows ==
  ASSUME NEW js, NEW ks, Grown(js, ks), NEW p, NEW d, Wrote(js, p, d)
  PROVE  Wrote(ks, p, d)
BY DEF Grown, Wrote

LEMMA FilesGrow ==
  ASSUME NEW js, NEW ks, Grown(js, ks), NEW f, FilesOK(js, f)
  PROVE  FilesOK(ks, f)
<1>1. \A p \in Paths : Known(ks, f[p], p)
  BY WroteGrows DEF FilesOK, Known
<1>2. KnownManifest(ks, f[ManifestFile].data)
  BY WroteGrows DEF FilesOK, KnownManifest
<1> QED BY <1>1, <1>2 DEF FilesOK

LEMMA JournalGrows ==
  ASSUME NEW js, NEW ks, Grown(js, ks), NEW j, JournalOK(js, j)
  PROVE  JournalOK(ks, j)
BY FilesGrow DEF JournalOK

LEMMA PlanGrows ==
  ASSUME NEW js, NEW ks, Grown(js, ks), NEW pl, PlanOK(js, pl)
  PROVE  PlanOK(ks, pl)
<1>1. SeenOK(js, pl.ops, pl.seen) => SeenOK(ks, pl.ops, pl.seen)
  BY WroteGrows DEF SeenOK
<1> QED BY <1>1 DEF PlanOK

LEMMA PlansGrow ==
  ASSUME PlansOK, Grown(journals, journals'), UNCHANGED plans
  PROVE  PlansOK'
BY PlanGrows DEF PlansOK

-------------------------------------------------------------------------------
(* The transactions.                                                         *)

\* A new journal.
LEMMA Recorded ==
  ASSUME IInv, NEW ops, OpsOK(ops),
         NEW phase \in {"prepared", "open", "whole"}, Record(phase, ops)
  PROVE  /\ Grown(journals, journals') /\ JournalsOK'
         /\ \A p \in Paths : ops[p] \in Contents => Wrote(journals', p, ops[p])
         /\ KnownManifest(journals', ops[ManifestFile])
<1> DEFINE j == [phase |-> phase, ops |-> ops, before |-> files]
           n == Len(journals) + 1
<1>1. /\ Len(journals) \in Nat /\ DOMAIN journals = 1 .. Len(journals)
      /\ journals = [i \in 1 .. Len(journals) |-> journals[i]]
      /\ journals' = Append(journals, j)
  BY DEF IInv, JournalsOK, Record
<1>2. /\ Len(journals') = n /\ DOMAIN journals' = 1 .. n
      /\ journals' = [i \in 1 .. n |-> journals'[i]]
      /\ journals'[n] = j /\ \A i \in 1 .. Len(journals) : journals'[i] = journals[i]
  <2>1. journals \in Seq({journals[i] : i \in 1 .. Len(journals)} \cup {j})
    BY <1>1
  <2> QED BY <1>1, <2>1
<1>3. Grown(journals, journals')
  BY <1>1, <1>2 DEF Grown
<1>4. JournalOK(journals', j)
  BY <1>3, FilesGrow DEF IInv, JournalOK
<1>5. \A i \in 1 .. Len(journals) : JournalOK(journals', journals[i])
  BY <1>1, <1>3, JournalGrows DEF IInv, JournalsOK
<1>6. JournalsOK'
  BY <1>1, <1>2, <1>4, <1>5 DEF JournalsOK
<1>7. \A p \in Paths : ops[p] \in Contents => Wrote(journals', p, ops[p])
  BY <1>1, <1>2 DEF Wrote
<1>8. KnownManifest(journals', ops[ManifestFile])
  BY <1>1, <1>2 DEF Wrote, OpsOK, SameNormal, KnownManifest
<1> QED BY <1>3, <1>6, <1>7, <1>8

\* Targets that are written hold what a journal wrote.
LEMMA InstalledOK ==
  ASSUME NEW js, NEW f, FilesOK(js, f), NEW ops, OpsOK(ops), NEW S \in SUBSET TargetsOf(ops),
         \A p \in Paths : ops[p] \in Contents => Wrote(js, p, ops[p]),
         KnownManifest(js, ops[ManifestFile])
  PROVE  FilesOK(js, Installed(f, ops, S))
<1> DEFINE g == Installed(f, ops, S)
<1>1. DOMAIN f = Locations /\ DOMAIN ops = Locations
  BY DEF FilesOK, OpsOK
<1>2. DOMAIN g = Locations /\ g = [l \in Locations |-> g[l]]
  BY <1>1 DEF Installed
<1>3. \A l \in Locations :
        g[l] = IF l \in S THEN [data |-> ops[l], by |-> "manager"] ELSE f[l]
  BY <1>1 DEF Installed
<1>4. \A l \in S : ops[l] # Keep
  BY DEF TargetsOf
<1>5. ASSUME NEW p \in Paths PROVE Known(js, g[p], p)
  <2>1. CASE p \in S
    <3>1. ops[p] \in Data /\ g[p] = [data |-> ops[p], by |-> "manager"]
      BY <1>3, <1>4, <2>1, LocationKinds DEF OpsOK
    <3> QED BY <3>1 DEF Known, Version, Data
  <2>2. CASE p \notin S
    BY <1>3, <2>2, LocationKinds DEF FilesOK
  <2> QED BY <2>1, <2>2
<1>6. /\ g[ManifestFile] \in Version /\ g[ManifestFile].data \in Manifests \cup {Absent}
      /\ KnownManifest(js, g[ManifestFile].data)
  <2>1. CASE ManifestFile \in S
    <3>1. g[ManifestFile] = [data |-> ops[ManifestFile], by |-> "manager"]
      BY <1>3, <2>1, LocationKinds
    <3> QED BY <3>1 DEF OpsOK, Version
  <2>2. CASE ManifestFile \notin S
    BY <1>3, <2>2, LocationKinds DEF FilesOK
  <2> QED BY <2>1, <2>2
<1> QED BY <1>2, <1>5, <1>6 DEF FilesOK

LEMMA RestoredOK ==
  ASSUME NEW js, NEW f, FilesOK(js, f), NEW j, JournalOK(js, j)
  PROVE  FilesOK(js, Restored(f, j))
<1> DEFINE g == Restored(f, j)
<1>1. DOMAIN f = Locations /\ FilesOK(js, j.before)
  BY DEF FilesOK, JournalOK
<1>2. DOMAIN g = Locations /\ g = [l \in Locations |-> g[l]]
  BY <1>1 DEF Restored
<1>3. \A l \in Locations : g[l] \in {f[l], j.before[l]}
  BY <1>1 DEF Restored
<1>4. \A p \in Paths : Known(js, g[p], p)
  BY <1>1, <1>3, LocationKinds DEF FilesOK
<1>5. /\ g[ManifestFile] \in Version /\ g[ManifestFile].data \in Manifests \cup {Absent}
      /\ KnownManifest(js, g[ManifestFile].data)
  BY <1>1, <1>3, LocationKinds DEF FilesOK
<1> QED BY <1>2, <1>4, <1>5 DEF FilesOK

\* What an apply changes.
Changes(s) ==
  /\ s \in Slots
  /\ Approved(files, plans[s].ops, plans[s].seen)
  /\ ~plans[s].conflicts
  /\ \E phase \in {"prepared", "open", "whole"} : Record(phase, plans[s].ops)
  /\ \E S \in SUBSET TargetsOf(plans[s].ops) : files' = Installed(files, plans[s].ops, S)

LEMMA AppliesChange ==
  ASSUME IInv, NEW s \in Slots, Apply(s) \/ ApplyStuck(s)
  PROVE  Changes(s)
<1>1. CASE Apply(s)
  BY <1>1 DEF Apply, Applicable, Changes
<1>2. CASE ApplyStuck(s) /\ Record("open", plans[s].ops)
                        /\ \E S \in SUBSET TargetsOf(plans[s].ops) :
                             files' = Installed(files, plans[s].ops, S)
  BY <1>2 DEF ApplyStuck, Applicable, Changes
<1>3. CASE ApplyStuck(s) /\ Record("prepared", plans[s].ops) /\ UNCHANGED files
  <2>1. files = [l \in DOMAIN files |-> files[l]]
    BY DEF IInv, FilesOK
  <2>2. files' = Installed(files, plans[s].ops, {})
    BY <1>3, <2>1 DEF Installed
  <2> QED BY <1>3, <2>2 DEF ApplyStuck, Applicable, Changes
<1> QED BY <1>1, <1>2, <1>3 DEF ApplyStuck

LEMMA ChangesOK ==
  ASSUME IInv, NEW s \in Slots, Changes(s), UNCHANGED plans
  PROVE  FilesOK(journals', files') /\ PlansOK' /\ JournalsOK'
<1>1. PICK phase \in {"prepared", "open", "whole"} : Record(phase, plans[s].ops)
  BY DEF Changes
<1>2. OpsOK(plans[s].ops)
  BY DEF Changes, IInv, PlansOK, PlanOK
<1>3. /\ Grown(journals, journals') /\ JournalsOK'
      /\ \A p \in Paths : plans[s].ops[p] \in Contents => Wrote(journals', p, plans[s].ops[p])
      /\ KnownManifest(journals', plans[s].ops[ManifestFile])
  BY <1>1, <1>2, Recorded
<1>4. FilesOK(journals', files)
  BY <1>3, FilesGrow DEF IInv
<1>5. FilesOK(journals', files')
  BY <1>2, <1>3, <1>4, InstalledOK DEF Changes
<1> QED BY <1>3, <1>5, PlansGrow DEF IInv

LEMMA RollbackOKs ==
  ASSUME IInv, NEW i \in DOMAIN journals, Rollback(i)
  PROVE  FilesOK(journals', files') /\ PlansOK' /\ JournalsOK'
<1>1. /\ Len(journals) \in Nat /\ DOMAIN journals = 1 .. Len(journals)
      /\ journals = [k \in 1 .. Len(journals) |-> journals[k]]
      /\ journals' = [journals EXCEPT ![i].phase = "undone"]
      /\ JournalOK(journals, journals[i])
  BY DEF IInv, JournalsOK, Rollback
<1>2. /\ DOMAIN journals' = 1 .. Len(journals) /\ Len(journals') = Len(journals)
      /\ journals' = [k \in 1 .. Len(journals) |-> journals'[k]]
      /\ \A k \in 1 .. Len(journals) : k # i => journals'[k] = journals[k]
  <2> DEFINE n == Len(journals)
             V == {journals'[k] : k \in 1 .. n}
  <2>1. /\ DOMAIN journals' = 1 .. n
        /\ \A k \in 1 .. n : k # i => journals'[k] = journals[k]
    BY <1>1
  <2>2. journals' = [k \in 1 .. n |-> journals'[k]]
    BY <1>1
  <2>3. \A k \in 1 .. n : journals'[k] \in V
    OBVIOUS
  <2> HIDE DEF V
  <2>4. journals' \in Seq(V)
    <3>1. n \in Nat /\ [k \in 1 .. n |-> journals'[k]] \in Seq(V)
      BY <1>1, <2>3
    <3> QED BY <2>2, <3>1
  <2>5. Len(journals') = n
    BY <1>1, <2>1, <2>4
  <2> QED BY <2>1, <2>2, <2>5
<1>3. journals'[i] = [phase |-> "undone", ops |-> journals[i].ops, before |-> journals[i].before]
  BY <1>1 DEF JournalOK
<1>4. Grown(journals, journals')
  <2>1. journals'[i].ops = journals[i].ops
    BY <1>3
  <2> QED BY <1>1, <1>2, <2>1 DEF Grown
<1>5. \A k \in DOMAIN journals : JournalOK(journals', journals[k])
  BY <1>4, JournalGrows DEF IInv, JournalsOK
<1>6. JournalOK(journals', journals'[i])
  BY <1>3, <1>5 DEF JournalOK
<1>7. JournalsOK'
  BY <1>1, <1>2, <1>5, <1>6 DEF JournalsOK
<1>8. FilesOK(journals', files')
  BY <1>4, <1>5, FilesGrow, RestoredOK DEF IInv, Rollback
<1>9. PlansOK'
  BY <1>4, PlansGrow DEF IInv, Rollback
<1> QED BY <1>7, <1>8, <1>9

-------------------------------------------------------------------------------
(* The previews.                                                             *)

LEMMA ShippedData ==
  ASSUME IInv, NEW p \in Paths, NEW layout \in Layouts
  PROVE  New(p, layout) \in Data
BY ConstantsAssumption DEF IInv, CountersOK, New

LEMMA NormalForms ==
  /\ Absent \notin Contents /\ Data = Contents \cup {Absent}
  /\ \A d \in Contents : Norm[d] \in Contents /\ Norm[Norm[d]] = Norm[d]
BY ConstantsAssumption, NormAssumption DEF Data

\* What CanWrite and Unmodified accept is nothing, something empty or the
\* manager's own.
LEMMA ListedIsWritten ==
  ASSUME IInv, NEW p \in Paths, CanWrite(p) \/ Unmodified(p)
  PROVE  files[p].data \in {Absent, Empty} \/ Wrote(journals, p, files[p].data)
<1>1. /\ files[p].data \in Data
      /\ HasManifest => /\ Manifest.digests[p] \in Data
                        /\ Manifest.digests[p] # Absent => Wrote(journals, p, Manifest.digests[p])
  BY DEF IInv, FilesOK, Known, KnownManifest, HasManifest, Manifest, Manifests, Unlisted
<1>2. CASE CanWrite(p)
  BY <1>1, <1>2 DEF CanWrite
<1>3. CASE Unmodified(p)
  <2>1. /\ HasManifest /\ Manifest.digests[p] # Absent /\ files[p].data # Absent
        /\ Manifest.digests[p] \in {files[p].data, Norm[files[p].data]}
    BY <1>3 DEF Unmodified, Listed, Matches, Unlisted
  <2>2. Norm[Manifest.digests[p]] = Norm[files[p].data]
    BY <1>1, <2>1, NormalForms
  <2> QED BY <1>1, <2>1, <2>2 DEF Wrote
<1> QED BY <1>2, <1>3

LEMMA CoreDataOK ==
  ASSUME IInv, NEW p \in Paths, NEW layout \in Layouts, p \notin CoreConflicts
  PROVE  /\ CoreData(p, layout) \in Data \cup {Keep}
         /\ CoreData(p, layout) # Keep =>
              \/ files[p].data \in {Absent, Empty}
              \/ Wrote(journals, p, files[p].data)
              \/ CoreData(p, layout) = Merge[layout][files[p].data]
<1>1. New(p, layout) \in Data /\ files[p].data \in Data
  BY ShippedData DEF IInv, FilesOK, Known
<1>2. Merge[layout][files[p].data] \in Data
  BY <1>1, ConstantsAssumption
<1>3. CASE Kind[p] = "canonical"
  BY <1>1, <1>3, ListedIsWritten DEF CoreData, CoreConflicts
<1>4. CASE Kind[p] # "canonical"
  BY <1>1, <1>2, <1>4 DEF CoreData
<1> QED BY <1>3, <1>4

LEMMA SetupDataOK ==
  ASSUME IInv, NEW p \in Paths, NEW layout \in Layouts, NEW without \in SUBSET Options,
         p \notin SetupConflicts(layout, without)
  PROVE  /\ SetupData(p, layout, without) \in Data \cup {Keep}
         /\ SetupData(p, layout, without) # Keep =>
              \/ files[p].data \in {Absent, Empty}
              \/ Wrote(journals, p, files[p].data)
              \/ SetupData(p, layout, without) = Merge[layout][files[p].data]
<1>1. CASE Kind[p] # "generated"
  BY <1>1, CoreDataOK DEF SetupData, SetupConflicts
<1>2. CASE Kind[p] = "generated"
  <2>1. SetupData(p, layout, without) \in Data \cup {Keep}
    BY <1>2, ShippedData DEF SetupData, Data
  <2>2. SetupData(p, layout, without) # Keep =>
          Wanted(p, layout, without) \/ Removed(p, without)
    BY <1>2 DEF SetupData
  <2>3. SetupData(p, layout, without) # Keep => files[p].data = Absent \/ Unmodified(p)
    BY <1>2, <2>2 DEF SetupConflicts
  <2> QED BY <2>1, <2>3, ListedIsWritten
<1> QED BY <1>1, <1>2

\* A plan that is saved without conflicts.
LEMMA SavedOK ==
  ASSUME IInv, NEW s \in Slots, NEW data, NEW layout \in Layouts, NEW digests, NEW conflicts,
         digests \in [Paths -> Data],
         UNCHANGED <<files, journals>>,
         Save(s, WithManifest(data, layout, digests), conflicts),
         conflicts = {} =>
           \A p \in Paths :
             /\ data[p] \in Data \cup {Keep}
             /\ data[p] # Keep =>
                  \/ files[p].data \in {Absent, Empty}
                  \/ Wrote(journals, p, files[p].data)
                  \/ data[p] = Merge[layout][files[p].data]
             /\ digests[p] # Unlisted => SameNormal(data[p], digests[p])
  PROVE  PlansOK'
<1> DEFINE ops == WithManifest(data, layout, digests)
           pl == plans'[s]
<1>1. DOMAIN plans = Slots /\ \A t \in Slots : PlanOK(journals, plans[t])
  BY DEF IInv, PlansOK
<1>2. /\ DOMAIN plans' = Slots
      /\ \A t \in Slots : t # s => plans'[t] = plans[t]
      /\ pl = IF conflicts = {} THEN PlanFor(ops) ELSE Conflicting
  BY <1>1 DEF Save
<1>3. CASE conflicts # {}
  <2>1. pl.conflicts = TRUE /\ pl.ops = NoOps
    BY <1>2, <1>3 DEF Conflicting, PlanFor
  <2>2. PlanOK(journals', pl)
    BY <2>1 DEF PlanOK, NoOps
  <2> QED BY <1>1, <1>2, <2>2 DEF PlansOK
<1>4. CASE conflicts = {}
  <2>1. pl.ops = ops /\ pl.seen = Expected(ops)
    BY <1>2, <1>4 DEF PlanFor
  <2>2. /\ DOMAIN ops = Locations /\ \A p \in Paths : ops[p] = data[p]
        /\ ops[ManifestFile] = [layout |-> layout, digests |-> digests]
    BY LocationKinds DEF WithManifest
  <2>3. ops[ManifestFile] \in Manifests /\ ops[ManifestFile].digests = digests
    BY <2>2 DEF Manifests
  <2>4. OpsOK(ops)
    BY <1>4, <2>2, <2>3 DEF OpsOK
  <2>5. ASSUME NEW p \in Paths, ops[p] # Keep
        PROVE  pl.seen[p].data = files[p].data
    BY <2>1, <2>5, LocationKinds DEF Expected
  <2>6. SeenOK(journals', pl.ops, pl.seen)
    BY <1>4, <2>1, <2>2, <2>5 DEF SeenOK
  <2>7. \A l \in Locations : pl.ops[l] \in Data \cup Manifests \cup {Keep}
    BY <2>1, <2>4, LocationKinds DEF OpsOK
  <2>8. PlanOK(journals', pl)
    BY <2>1, <2>4, <2>6, <2>7 DEF PlanOK
  <2> QED BY <1>1, <1>2, <2>8 DEF PlansOK
<1> QED BY <1>3, <1>4

LEMMA SetupTyped ==
  ASSUME IInv, NEW s \in Slots, NEW layout \in Layouts, NEW without \in SUBSET Options,
         PreviewSetup(s, layout, without)
  PROVE  PlansOK'
<1> DEFINE data == [p \in Paths |-> SetupData(p, layout, without)]
           digests == SetupDigests(layout, without)
<1>1. digests \in [Paths -> Data]
  BY ShippedData, NormalForms DEF SetupDigests, Wanted, Unlisted
<1>2. ASSUME SetupConflicts(layout, without) = {}, NEW p \in Paths
      PROVE  digests[p] # Unlisted => SameNormal(data[p], digests[p])
  <2> SUFFICES ASSUME digests[p] # Unlisted PROVE SameNormal(data[p], digests[p])
    OBVIOUS
  <2>1. /\ Kind[p] \in {"canonical", "generated"} /\ Wanted(p, layout, without)
        /\ digests[p] = Norm[New(p, layout)]
    BY DEF SetupDigests
  <2>2. data[p] = New(p, layout) /\ New(p, layout) \in Contents
    <3>1. New(p, layout) \in Contents
      BY <2>1, ShippedData, NormalForms DEF Wanted
    <3>2. CASE Kind[p] = "canonical"
      BY <3>1, <3>2 DEF SetupData, CoreData
    <3>3. CASE Kind[p] = "generated"
      <4>1. ~Removed(p, without)
        BY <2>1 DEF Wanted, Removed
      <4>2. SetupData(p, layout, without) = New(p, layout)
        BY <2>1, <3>3, <4>1 DEF SetupData
      <4> QED BY <3>1, <4>2
    <3> QED BY <2>1, <3>1, <3>2, <3>3
  <2> QED BY <2>1, <2>2, NormalForms DEF SameNormal
<1>3. Save(s, WithManifest(data, layout, digests), SetupConflicts(layout, without))
  BY DEF PreviewSetup
<1>4. UNCHANGED <<files, journals>>
  BY DEF PreviewSetup
<1>5. SetupConflicts(layout, without) = {} =>
        \A p \in Paths :
          /\ data[p] \in Data \cup {Keep}
          /\ data[p] # Keep =>
               \/ files[p].data \in {Absent, Empty}
               \/ Wrote(journals, p, files[p].data)
               \/ data[p] = Merge[layout][files[p].data]
          /\ digests[p] # Unlisted => SameNormal(data[p], digests[p])
  BY <1>2, SetupDataOK
<1> HIDE DEF data, digests
<1> QED BY <1>1, <1>3, <1>4, <1>5, SavedOK

LEMMA InitTyped ==
  ASSUME IInv, NEW s \in Slots, NEW layout \in Layouts, PreviewInit(s, layout)
  PROVE  PlansOK'
<1> DEFINE data == [p \in Paths |-> CoreData(p, layout)]
           digests == InitDigests(layout)
<1>1. digests \in [Paths -> Data]
  BY ShippedData DEF InitDigests, Unlisted, Data
<1>2. ASSUME NEW p \in Paths
      PROVE  digests[p] # Unlisted => SameNormal(data[p], digests[p])
  <2> SUFFICES ASSUME digests[p] # Unlisted PROVE SameNormal(data[p], digests[p])
    OBVIOUS
  <2>1. Kind[p] = "canonical" /\ digests[p] = New(p, layout)
    BY DEF InitDigests
  <2>2. data[p] = New(p, layout) /\ New(p, layout) \in Contents
    BY <2>1, ShippedData, NormalForms DEF CoreData, Unlisted
  <2> QED BY <2>1, <2>2 DEF SameNormal
<1>3. Save(s, WithManifest(data, layout, digests), CoreConflicts)
  BY DEF PreviewInit
<1>4. UNCHANGED <<files, journals>>
  BY DEF PreviewInit
<1>5. CoreConflicts = {} =>
        \A p \in Paths :
          /\ data[p] \in Data \cup {Keep}
          /\ data[p] # Keep =>
               \/ files[p].data \in {Absent, Empty}
               \/ Wrote(journals, p, files[p].data)
               \/ data[p] = Merge[layout][files[p].data]
          /\ digests[p] # Unlisted => SameNormal(data[p], digests[p])
  BY <1>2, CoreDataOK
<1> HIDE DEF data, digests
<1> QED BY <1>1, <1>3, <1>4, <1>5, SavedOK

-------------------------------------------------------------------------------
(* The invariant.                                                            *)

LEMMA EditOK ==
  ASSUME IInv, NEW l \in Locations, Edit(l)
  PROVE  FilesOK(journals, files')
<1>1. PICK d \in {Absent} \cup IF l = ManifestFile THEN {} ELSE UserContents :
        files' = [files EXCEPT ![l] = [data |-> d, by |-> "user"]]
  BY DEF Edit
<1>2. DOMAIN files = Locations /\ FilesOK(journals, files)
  BY DEF IInv, FilesOK
<1>3. d \in Data /\ (l = ManifestFile => d = Absent)
  BY ConstantsAssumption, NormalForms
<1>4. \A m \in Locations :
        files'[m] = IF m = l THEN [data |-> d, by |-> "user"] ELSE files[m]
  BY <1>1, <1>2
<1>5. \A p \in Paths : Known(journals, files'[p], p)
  BY <1>2, <1>3, <1>4, LocationKinds DEF FilesOK, Known, Version
<1>6. /\ files'[ManifestFile] \in Version
      /\ files'[ManifestFile].data \in Manifests \cup {Absent}
      /\ KnownManifest(journals, files'[ManifestFile].data)
  BY <1>2, <1>3, <1>4, LocationKinds DEF FilesOK, KnownManifest, Version
<1>7. DOMAIN files' = Locations /\ files' = [m \in Locations |-> files'[m]]
  BY <1>1, <1>2
<1> QED BY <1>5, <1>6, <1>7 DEF FilesOK

LEMMA CountersHold == IInv /\ [Next]_vars => CountersOK'
<1> SUFFICES ASSUME IInv, [Next]_vars PROVE CountersOK'
  OBVIOUS
<1> USE BoundsAreNat DEF IInv, CountersOK, counters
<1>1. ASSUME NEW s \in Slots, NEW layout \in Layouts, NEW without \in SUBSET Options,
             PreviewSetup(s, layout, without)
      PROVE  CountersOK'
  BY <1>1 DEF PreviewSetup, CountPreview
<1>2. ASSUME NEW s \in Slots, NEW layout \in Layouts, PreviewInit(s, layout)
      PROVE  CountersOK'
  BY <1>2 DEF PreviewInit, CountPreview
<1>3. ASSUME NEW s \in Slots, Apply(s) \/ ApplyStuck(s) PROVE CountersOK'
  BY <1>3 DEF Apply, ApplyStuck
<1>4. ASSUME NEW i \in DOMAIN journals, Rollback(i) PROVE CountersOK'
  BY <1>4 DEF Rollback
<1>5. ASSUME NEW l \in Locations, Edit(l) PROVE CountersOK'
  BY <1>5 DEF Edit
<1>6. CASE Upgrade
  BY <1>6 DEF Upgrade
<1>7. CASE UNCHANGED vars
  BY <1>7 DEF vars
<1> QED BY <1>1, <1>2, <1>3, <1>4, <1>5, <1>6, <1>7 DEF Next

LEMMA NextHolds == IInv /\ [Next]_vars => IInv'
<1> SUFFICES ASSUME IInv, [Next]_vars PROVE FilesOK(journals', files') /\ PlansOK' /\ JournalsOK'
  BY CountersHold DEF IInv
<1>1. FilesOK(journals, files) /\ PlansOK /\ JournalsOK
  BY DEF IInv
<1>2. UNCHANGED journals => JournalsOK'
  BY <1>1 DEF JournalsOK
<1>3. UNCHANGED <<journals, plans>> => PlansOK'
  BY <1>1 DEF PlansOK
<1>4. ASSUME NEW s \in Slots, NEW layout \in Layouts, NEW without \in SUBSET Options,
             PreviewSetup(s, layout, without)
      PROVE  FilesOK(journals', files') /\ PlansOK' /\ JournalsOK'
  BY <1>1, <1>2, <1>4, SetupTyped DEF PreviewSetup
<1>5. ASSUME NEW s \in Slots, NEW layout \in Layouts, PreviewInit(s, layout)
      PROVE  FilesOK(journals', files') /\ PlansOK' /\ JournalsOK'
  BY <1>1, <1>2, <1>5, InitTyped DEF PreviewInit
<1>6. ASSUME NEW s \in Slots, Apply(s) \/ ApplyStuck(s)
      PROVE  FilesOK(journals', files') /\ PlansOK' /\ JournalsOK'
  <2>1. UNCHANGED plans
    BY <1>6 DEF Apply, ApplyStuck
  <2> QED BY <1>6, <2>1, AppliesChange, ChangesOK
<1>7. ASSUME NEW i \in DOMAIN journals, Rollback(i)
      PROVE  FilesOK(journals', files') /\ PlansOK' /\ JournalsOK'
  BY <1>7, RollbackOKs
<1>8. ASSUME NEW l \in Locations, Edit(l)
      PROVE  FilesOK(journals', files') /\ PlansOK' /\ JournalsOK'
  BY <1>2, <1>3, <1>8, EditOK DEF Edit
<1>9. CASE Upgrade \/ UNCHANGED vars
  BY <1>1, <1>2, <1>3, <1>9 DEF Upgrade, vars
<1> QED BY <1>4, <1>5, <1>6, <1>7, <1>8, <1>9 DEF Next

LEMMA InvariantHolds == Spec => []IInv
BY InitHolds, NextHolds, PTL DEF Spec

\* Every variable of the model of setup has its type; that a plan without
\* conflicts writes contents needs that manifests list what journals wrote.
THEOREM TypeCorrect == Spec => []TypeOK
<1>1. IInv => TypeOK
  <2> SUFFICES ASSUME IInv PROVE TypeOK
    OBVIOUS
  <2>1. /\ DOMAIN files = Locations /\ \A l \in Locations : files[l] \in Version
        /\ files[ManifestFile].data \in Manifests \cup {Absent}
    BY LocationKinds DEF IInv, FilesOK, Known
  <2>2. \A i \in DOMAIN journals : JournalOK(journals, journals[i])
    BY DEF IInv, JournalsOK
  <2>3. \A i \in DOMAIN journals :
          /\ journals[i].phase \in {"prepared", "open", "whole", "undone"}
          /\ \A l \in Locations : journals[i].before[l] \in Version
    BY <2>2, LocationKinds DEF JournalOK, FilesOK, Known
  <2>4. \A s \in Slots, l \in Locations : plans[s].ops[l] \in Data \cup Manifests \cup {Keep}
    BY DEF IInv, PlansOK, PlanOK
  <2> QED BY <2>1, <2>3, <2>4 DEF IInv, CountersOK, TypeOK
<1> QED BY <1>1, InvariantHolds, PTL

-------------------------------------------------------------------------------
(* The user's work.                                                          *)

Spared(p, d) ==
  WroteBefore(p, d) \/ \E layout \in Layouts : files'[p].data = Merge[layout][d]

LEMMA ApplySpares ==
  ASSUME IInv, NEW s \in Slots, Changes(s), NEW p \in Paths,
         files[p].data \notin {Absent, Empty}, files'[p] # files[p]
  PROVE  Spared(p, files[p].data)
<1> DEFINE ops == plans[s].ops
<1>1. PICK S \in SUBSET TargetsOf(ops) : files' = Installed(files, ops, S)
  BY DEF Changes
<1>2. DOMAIN files = Locations /\ OpsOK(ops) /\ SeenOK(journals, ops, plans[s].seen)
  BY DEF Changes, IInv, FilesOK, PlansOK, PlanOK
<1>3. p \in S /\ files'[p] = [data |-> ops[p], by |-> "manager"]
  BY <1>1, <1>2, LocationKinds DEF Installed
<1>4. ops[p] # Keep /\ files[p].data = plans[s].seen[p].data
  BY <1>3 DEF Changes, Approved, TargetsOf
<1> QED BY <1>2, <1>3, <1>4 DEF SeenOK, Spared, Wrote, WroteBefore

\* A rollback finds what its transaction wrote, or, in an open one, what it would
\* put back: the same content, then, but the manager's.
LEMMA RollbackSpares ==
  ASSUME IInv, NEW i \in DOMAIN journals, Rollback(i), NEW p \in Paths,
         ByUser(p), files[p].data \notin {Absent, Empty}, files'[p] # files[p]
  PROVE  Spared(p, files[p].data)
<1> DEFINE j == journals[i]
<1>1. /\ DOMAIN files = Locations /\ Known(journals, files[p], p)
      /\ OpsOK(j.ops) /\ Known(journals, j.before[p], p)
  BY DEF IInv, FilesOK, JournalsOK, JournalOK
<1>2. p \in TargetsOf(j.ops) /\ files'[p] = j.before[p]
  BY <1>1, LocationKinds DEF Rollback, Restored
<1>3. CASE files[p].data = j.ops[p]
  <2>1. j.ops[p] \in Contents
    BY <1>1, <1>3, NormalForms DEF Known
  <2> QED BY <1>3, <2>1 DEF Spared, WroteBefore
<1>4. CASE files[p].data = j.before[p].data
  <2>1. j.before[p].by # "user"
    BY <1>1, <1>2, <1>4 DEF Known, Version, ByUser
  <2>2. j.before[p].by = "manager" /\ j.before[p].data # Absent
    BY <1>1, <1>4, <2>1 DEF Known, Version
  <2> QED BY <1>1, <1>4, <2>2 DEF Known, Spared, Wrote, WroteBefore
<1> QED BY <1>2, <1>3, <1>4 DEF Rollback, RollbackOK

LEMMA StepSpares ==
  ASSUME IInv, [Next]_vars, NEW p \in Paths,
         ByUser(p), files[p].data \notin {Absent, Empty}, files'[p] # files[p], edits' = edits
  PROVE  Spared(p, files[p].data)
<1>1. edits' # edits + 1
  BY BoundsAreNat DEF IInv, CountersOK
<1>2. \/ \E s \in Slots : Apply(s) \/ ApplyStuck(s)
      \/ \E i \in DOMAIN journals : Rollback(i)
  BY <1>1 DEF Next, PreviewSetup, PreviewInit, Edit, Upgrade, vars
<1> QED BY <1>2, AppliesChange, ApplySpares, RollbackSpares

\* Setup, `plan init`, stuck transactions and rollbacks, in any order and with
\* plans of any age, replace or remove what the user wrote only where it is the
\* manager's own content, or where the text stays in a merged file
\* (_can_write, _generated_conflict, the hash checks of the engine).
THEOREM SetupKeepsUserWork == Spec => UserWorkKept
<1>1. IInv /\ [Next]_vars =>
        \A p \in Paths :
          LET d == files[p].data IN
          /\ ByUser(p) /\ d \notin {Absent, Empty}
          /\ files'[p] # files[p] /\ edits' = edits
          => \/ WroteBefore(p, d)
             \/ \E layout \in Layouts : files'[p].data = Merge[layout][d]
  BY StepSpares DEF Spared
<1> QED BY <1>1, InvariantHolds, PTL DEF Spec, UserWorkKept
===============================================================================
