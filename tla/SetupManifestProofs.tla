-------------------------- MODULE SetupManifestProofs --------------------------
(* Theorems about SetupPlan: what the manifest says of the files, for every   *)
(* release, layout, option and set of outputs, and every number of plans,     *)
(* upgrades, edits, rollbacks and transactions left open; and what is left    *)
(* when all of them are rolled back.                                          *)
EXTENDS SetupPlanProofs, FiniteSetTheorems

-------------------------------------------------------------------------------
(* What the theorems suppose.                                                *)

\* Transactions left open are rolled back before all else, nobody runs `plan
\* init` in a scope of setup, and the core files are no options and do not name
\* the runtime roots.
Steady ==
  /\ RecoverFirst /\ MaxInits = 0
  /\ \A p \in Paths : Kind[p] = "canonical" =>
       /\ OptionOf[p] = Always
       /\ \A r \in Releases, layout \in Layouts :
            Shipped[r][layout][p] # Absent => Norm[Shipped[r][layout][p]] = Shipped[r][layout][p]

\* A skill has one option and no file without its SKILL.md, and every release has
\* the core.
SkillsWhole ==
  /\ \A p \in Paths : SkillFile[p] # NoSkill =>
       /\ Kind[p] = "generated" /\ Kind[SkillFile[p]] = "generated"
       /\ OptionOf[SkillFile[p]] = OptionOf[p]
       /\ \A r \in Releases, layout \in Layouts :
            Shipped[r][layout][p] # Absent => Shipped[r][layout][SkillFile[p]] # Absent
  /\ \A p \in Core :
       /\ Kind[p] \in {"canonical", "seeded"}
       /\ \A r \in Releases, layout \in Layouts : Shipped[r][layout][p] # Absent

\* The outputs that every release has for a layout, or none.
Lasting == {p \in Paths : ~Dropped(p)}
NothingDropped == \A p \in Paths : ~Dropped(p)

-------------------------------------------------------------------------------
(* A scope that is as its manifest says.                                     *)

ManifestOf(f) == f[ManifestFile].data
Lists(m, p) == m # Absent /\ m.digests[p] # Unlisted
Owned(p) == Kind[p] \in {"canonical", "generated"}

\* The file at p that manifest m lists has content d; for the core the digest is
\* that of the content itself.
Fits(m, p, d) ==
  /\ d # Absent
  /\ m.digests[p] \in {d, Norm[d]} /\ (Kind[p] = "canonical" => m.digests[p] = d)

\* A manifest lists what a release has for its layout.
ManifestOK(m) ==
  \A p \in Paths : Lists(m, p) =>
    Owned(p) /\ \E r \in Releases : Shipped[r][m.layout][p] # Absent

Ours(v, p) == Owned(p) /\ v.by = "manager" /\ v.data # Absent

\* What is listed is there, and as listed unless the user wrote it.
Truthful(f) ==
  \A p \in Lasting : Lists(ManifestOf(f), p) =>
    f[p].data # Absent /\ (f[p].by # "user" => Fits(ManifestOf(f), p, f[p].data))

Sound(f) ==
  /\ ManifestOK(ManifestOf(f)) /\ Truthful(f)
  /\ \A p \in Lasting : Ours(f[p], p) => Lists(ManifestOf(f), p)

\* Operations write what their manifest lists, and list what they write.
OpsSound(ops) ==
  /\ ManifestOK(ops[ManifestFile])
  /\ \A p \in Paths : Lists(ops[ManifestFile], p) => Fits(ops[ManifestFile], p, ops[p])
  /\ \A p \in Paths : Owned(p) /\ ops[p] \notin {Keep, Absent} => Lists(ops[ManifestFile], p)

\* What the old manifest lists is replaced or removed: nothing of it is left to
\* change while the new one is in force.
Covers(m, ops) == \A p \in Lasting : Lists(m, p) => ops[p] # Keep

PlansSound ==
  \A s \in Slots : ~plans[s].conflicts =>
    /\ OpsSound(plans[s].ops)
    /\ Covers(ManifestOf(plans[s].seen), plans[s].ops)

JournalSound(j) == OpsSound(j.ops) /\ Sound(j.before) /\ Covers(ManifestOf(j.before), j.ops)
JournalsSound == \A i \in DOMAIN journals : JournalSound(journals[i])

\* A transaction left open has written, or will restore, what is at p.
Pending(p) == \E i \in DOMAIN journals : journals[i].phase = "open" /\ journals[i].ops[p] # Keep

\* Sound is not inductive: while a transaction is open its targets are anything,
\* but the rest of the scope is what one of its two manifests says.
FilesSound ==
  /\ ManifestOK(Manifest) /\ (NoneOpen => Truthful(files))
  /\ \A p \in Lasting : Ours(files[p], p) => Lists(Manifest, p) \/ Pending(p)

SoundInv == IInv /\ PlansSound /\ JournalsSound /\ FilesSound

LEMMA LastingArePaths == \A p \in Lasting : p \in Paths /\ p \in Locations /\ ~Dropped(p)
BY LocationKinds DEF Lasting

LEMMA SettledIsSound == FilesSound /\ NoneOpen => Sound(files)
BY DEF FilesSound, NoneOpen, Sound, Pending, ManifestOf, Manifest

LEMMA InitSound == Init => PlansSound /\ JournalsSound /\ FilesSound
<1> SUFFICES ASSUME Init PROVE PlansSound /\ JournalsSound /\ FilesSound
  OBVIOUS
<1>1. PlansSound BY DEF Init, PlansSound
<1>2. JournalsSound BY DEF Init, JournalsSound
<1>3. PICK p \in Paths, d \in UserContents \cup {Absent} :
        files = [l \in Locations |->
                   IF l = p /\ d # Absent THEN [data |-> d, by |-> "user"]
                                          ELSE [data |-> Absent, by |-> "nobody"]]
  BY DEF Init
<1>4. Manifest = Absent BY <1>3, LocationKinds DEF Manifest
<1>5. \A q \in Paths : files[q].by # "manager" BY <1>3, LocationKinds
<1> QED BY <1>1, <1>2, <1>4, <1>5, LastingArePaths
        DEF FilesSound, ManifestOK, Truthful, ManifestOf, Manifest, Lists, Ours
-------------------------------------------------------------------------------
(* The previews.                                                             *)

\* What a plan of setup does at an output that the manifest lists.
LEMMA ListedIsPlanned ==
  ASSUME SoundInv, Steady, NoneOpen, NEW layout \in Layouts, Compatible(layout),
         NEW without \in SUBSET Options, NEW p \in Lasting, Listed(p)
  PROVE  SetupData(p, layout, without) # Keep
<1> p \in Paths /\ ~Dropped(p) BY LastingArePaths
<1>1. Owned(p) /\ New(p, layout) # Absent
  <2>1. Owned(p) /\ \E r \in Releases : Shipped[r][layout][p] # Absent
    BY DEF SoundInv, FilesSound, ManifestOK, Listed, Lists, HasManifest, Compatible
  <2> QED BY <2>1 DEF Dropped, New, SoundInv, IInv, CountersOK
<1>2. New(p, layout) \in Data /\ Keep \notin Data
  BY ShippedData, ManifestAssumption DEF SoundInv
<1>3. CASE Kind[p] = "canonical"
  BY <1>2, <1>3 DEF SetupData, CoreData
<1>4. CASE Kind[p] = "generated"
  <2>1. files[p].data # Absent
    <3>1. Lists(Manifest, p) BY DEF Listed, HasManifest, Lists
    <3> QED BY <3>1 DEF SoundInv, FilesSound, Truthful, ManifestOf, Manifest
  <2>2. Wanted(p, layout, without) \/ Removed(p, without)
    BY <1>1 DEF Wanted, Removed
  <2>3. SetupData(p, layout, without) \in {New(p, layout), Absent}
    BY <1>4, <2>1, <2>2 DEF SetupData
  <2> QED BY <1>2, <2>3 DEF Data
<1> QED BY <1>1, <1>3, <1>4 DEF Owned

\* The digests of setup are those of what it writes.
LEMMA DigestsFit ==
  ASSUME IInv, Steady, NEW layout \in Layouts, NEW without \in SUBSET Options, NEW p \in Paths,
         NEW digest, digest = SetupDigests(layout, without)[p]
  PROVE  LET new == SetupData(p, layout, without)
         IN  /\ digest # Unlisted =>
                  /\ Owned(p) /\ \E r \in Releases : Shipped[r][layout][p] # Absent
                  /\ new \in Contents /\ digest \in {new, Norm[new]}
                  /\ Kind[p] = "canonical" => digest = new
             /\ Owned(p) /\ new \notin {Keep, Absent} => digest # Unlisted
<1> DEFINE new == SetupData(p, layout, without)
<1>1. digest = IF Owned(p) /\ Wanted(p, layout, without) THEN Norm[New(p, layout)] ELSE Unlisted
  BY DEF SetupDigests, Owned
<1>2. New(p, layout) \in Data /\ release \in Releases /\ New(p, layout) = Shipped[release][layout][p]
  BY ShippedData DEF IInv, CountersOK, New
<1>3. ASSUME digest # Unlisted
      PROVE  /\ Owned(p) /\ \E r \in Releases : Shipped[r][layout][p] # Absent
             /\ new \in Contents /\ digest \in {new, Norm[new]}
             /\ Kind[p] = "canonical" => digest = new
  <2>1. Owned(p) /\ Wanted(p, layout, without) /\ New(p, layout) \in Contents
    BY <1>1, <1>2, <1>3, NormalForms DEF Wanted
  <2>2. new = New(p, layout)
    <3>1. CASE Kind[p] = "canonical" BY <3>1 DEF SetupData, CoreData
    <3>2. CASE Kind[p] = "generated" BY <2>1, <3>2 DEF SetupData, Wanted, Removed
    <3> QED BY <2>1, <3>1, <3>2 DEF Owned
  <2>3. Kind[p] = "canonical" => Norm[New(p, layout)] = New(p, layout)
    BY <1>2, <2>1, NormalForms DEF Steady
  <2>4. \E r \in Releases : Shipped[r][layout][p] # Absent
    BY <1>2, <2>1, NormalForms
  <2> QED BY <1>1, <1>3, <2>1, <2>2, <2>3, <2>4
<1>4. ASSUME Owned(p), new \notin {Keep, Absent} PROVE digest # Unlisted
  <2>1. Wanted(p, layout, without) /\ New(p, layout) \in Contents
    <3>1. CASE Kind[p] = "canonical"
      <4>1. new = New(p, layout) /\ OptionOf[p] = Always
        BY <3>1 DEF SetupData, CoreData, Steady
      <4> QED BY <1>2, <1>4, <4>1, NormalForms, ConstantsAssumption DEF Wanted
    <3>2. CASE Kind[p] = "generated"
      <4>1. Wanted(p, layout, without) BY <1>4, <3>2 DEF SetupData
      <4> QED BY <1>2, <4>1, NormalForms DEF Wanted
    <3> QED BY <1>4, <3>1, <3>2 DEF Owned
  <2> QED BY <1>1, <1>4, <2>1, NormalForms DEF Unlisted
<1> QED BY <1>3, <1>4

LEMMA PreviewSound ==
  ASSUME SoundInv, Steady, NEW s \in Slots, NEW layout \in Layouts,
         NEW without \in SUBSET Options, PreviewSetup(s, layout, without)
  PROVE  PlansSound'
<1> DEFINE digests == SetupDigests(layout, without)
           data == [p \in Paths |-> SetupData(p, layout, without)]
           ops == WithManifest(data, layout, digests)
           m == [layout |-> layout, digests |-> digests]
<1>1. /\ NoneOpen /\ Compatible(layout) /\ UNCHANGED <<files, journals>>
      /\ Save(s, ops, SetupConflicts(layout, without))
  BY DEF PreviewSetup, CountPreview, Recovered, Steady
<1>2. /\ ops[ManifestFile] = m
      /\ \A p \in Paths : ops[p] = SetupData(p, layout, without)
  BY LocationKinds DEF WithManifest
<1>3. \A p \in Paths : m.digests[p] = digests[p] OBVIOUS
<1>4. OpsSound(ops)
  <2>1. ManifestOK(m) BY <1>3, DigestsFit DEF SoundInv, ManifestOK, Lists
  <2>2. \A p \in Paths : Lists(m, p) => Fits(m, p, ops[p])
    BY <1>2, <1>3, DigestsFit, NormalForms DEF SoundInv, Lists, Fits
  <2>3. \A p \in Paths : Owned(p) /\ ops[p] \notin {Keep, Absent} => Lists(m, p)
    <3>1. m \in Manifests
      BY ShippedData, NormalForms DEF SoundInv, Manifests, SetupDigests, Wanted, Unlisted
    <3>2. m # Absent BY <3>1, ManifestAssumption
    <3> HIDE DEF m
    <3> QED BY <1>2, <1>3, <3>2, DigestsFit DEF SoundInv, Lists
  <2> QED BY <1>2, <2>1, <2>2, <2>3 DEF OpsSound
<1>5. ops[ManifestFile] # Keep
  <2>1. m \in Manifests
    BY ShippedData, NormalForms DEF SoundInv, Manifests, SetupDigests, Wanted, Unlisted
  <2> QED BY <1>2, <2>1, ManifestAssumption
<1>6. Covers(ManifestOf(Expected(ops)), ops)
  <2>1. ManifestOf(Expected(ops)) = Manifest
    BY <1>5, LocationKinds DEF ManifestOf, Expected, Manifest
  <2> QED BY <1>1, <1>2, <2>1, ListedIsPlanned, LastingArePaths
          DEF Covers, Lists, Listed, HasManifest
<1> HIDE DEF ops
<1>7. DOMAIN plans = Slots /\ plans'[s] \in {PlanFor(ops), Conflicting}
      /\ \A t \in Slots : t # s => plans'[t] = plans[t]
  BY <1>1 DEF SoundInv, IInv, PlansOK, Save
<1>8. Conflicting.conflicts BY DEF Conflicting, PlanFor
<1>9. PlanFor(ops).ops = ops /\ PlanFor(ops).seen = Expected(ops) BY DEF PlanFor
<1> QED BY <1>4, <1>6, <1>7, <1>8, <1>9 DEF SoundInv, PlansSound
-------------------------------------------------------------------------------
(* The transactions.                                                         *)

\* An apply records a journal and writes all of its targets, none, or, in a
\* transaction left open, some.
Applies(ops, phase, S) ==
  /\ Record(phase, ops) /\ files' = Installed(files, ops, S)
  /\ phase = "whole" => S = TargetsOf(ops)
  /\ phase = "prepared" => S = {}

LEMMA ApplyParts ==
  ASSUME IInv, NEW s \in Slots, Apply(s) \/ ApplyStuck(s)
  PROVE  /\ Recovered /\ ~plans[s].conflicts /\ UNCHANGED plans
         /\ Approved(files, plans[s].ops, plans[s].seen)
         /\ \E phase \in {"prepared", "open", "whole"}, S \in SUBSET TargetsOf(plans[s].ops) :
              Applies(plans[s].ops, phase, S)
<1> DEFINE ops == plans[s].ops
<1>1. /\ Recovered /\ ~plans[s].conflicts /\ UNCHANGED plans
      /\ Approved(files, ops, plans[s].seen)
  BY DEF Apply, ApplyStuck, Applicable
<1>2. CASE Apply(s)
  <2>1. Applies(ops, "whole", TargetsOf(ops)) BY <1>2 DEF Apply, Applies
  <2> QED BY <1>1, <2>1
<1>3. CASE ApplyStuck(s) /\ Record("prepared", ops) /\ UNCHANGED files
  <2>1. files' = Installed(files, ops, {}) BY <1>3 DEF IInv, FilesOK, Installed
  <2>2. Applies(ops, "prepared", {}) BY <1>3, <2>1 DEF Applies
  <2> QED BY <1>1, <2>2
<1>4. ASSUME NEW S \in SUBSET TargetsOf(ops), files' = Installed(files, ops, S), Record("open", ops)
      PROVE  \E phase \in {"prepared", "open", "whole"}, T \in SUBSET TargetsOf(ops) :
               Applies(ops, phase, T)
  <2>1. Applies(ops, "open", S) BY <1>4 DEF Applies
  <2> QED BY <2>1
<1> QED BY <1>1, <1>2, <1>3, <1>4 DEF ApplyStuck

\* A new journal, and the old ones.
LEMMA RecordLast ==
  ASSUME IInv, NEW ops, NEW phase, Record(phase, ops)
  PROVE  \E n : /\ n \notin DOMAIN journals /\ DOMAIN journals' = DOMAIN journals \cup {n}
                /\ journals'[n] = [phase |-> phase, ops |-> ops, before |-> files]
                /\ \A i \in DOMAIN journals : journals'[i] = journals[i]
<1> DEFINE j == [phase |-> phase, ops |-> ops, before |-> files]
<1>1. /\ Len(journals) \in Nat /\ DOMAIN journals = 1 .. Len(journals)
      /\ journals = [i \in 1 .. Len(journals) |-> journals[i]]
      /\ journals' = Append(journals, j)
  BY DEF IInv, JournalsOK, Record
<1> HIDE DEF j
<1>2. journals \in Seq({journals[i] : i \in 1 .. Len(journals)} \cup {j})
  BY <1>1
<1>3. PICK n : n = Len(journals) + 1 OBVIOUS
<1>4. /\ DOMAIN journals' = 1 .. n /\ journals'[n] = j
      /\ \A i \in 1 .. Len(journals) : journals'[i] = journals[i]
  BY <1>1, <1>2, <1>3
<1>5. n \notin DOMAIN journals /\ DOMAIN journals' = DOMAIN journals \cup {n}
  BY <1>1, <1>3, <1>4
<1> QED BY <1>1, <1>4, <1>5 DEF j

\* The targets hold what was written, the other files what they held.
LEMMA InstalledAt ==
  ASSUME IInv, NEW ops, OpsOK(ops), NEW S \in SUBSET TargetsOf(ops), NEW l \in Locations
  PROVE  /\ l \in S => ops[l] # Keep /\ Installed(files, ops, S)[l].data = ops[l]
         /\ l \notin S => Installed(files, ops, S)[l] = files[l]
         /\ l \in TargetsOf(ops) <=> ops[l] # Keep
BY DEF IInv, FilesOK, OpsOK, Installed, TargetsOf

LEMMA OpsKinds ==
  ASSUME NEW ops, OpsOK(ops)
  PROVE  /\ ops[ManifestFile] \notin {Keep, Absent}
         /\ \A p \in Paths : Lists(ops[ManifestFile], p) => ops[p] \in Contents /\ ops[p] # Keep
BY ManifestAssumption, NormalForms DEF OpsOK, Lists, SameNormal

LEMMA TransactionSound ==
  ASSUME SoundInv, NoneOpen, NEW ops, OpsOK(ops), OpsSound(ops), Covers(Manifest, ops),
         NEW phase \in {"prepared", "open", "whole"}, NEW S \in SUBSET TargetsOf(ops),
         Applies(ops, phase, S)
  PROVE  JournalsSound' /\ FilesSound'
<1>1. PICK n : /\ n \notin DOMAIN journals /\ DOMAIN journals' = DOMAIN journals \cup {n}
               /\ journals'[n] = [phase |-> phase, ops |-> ops, before |-> files]
               /\ \A i \in DOMAIN journals : journals'[i] = journals[i]
  BY RecordLast DEF SoundInv, Applies
<1>2. Sound(files) BY SettledIsSound DEF SoundInv
<1>3. JournalsSound'
  <2>1. JournalSound([phase |-> phase, ops |-> ops, before |-> files])
    BY <1>2 DEF JournalSound, ManifestOf, Manifest
  <2> QED BY <1>1, <2>1 DEF SoundInv, JournalsSound
<1>4. /\ \A p \in Paths : p \in S => ops[p] # Keep /\ files'[p].data = ops[p]
      /\ \A p \in Paths : p \notin S => files'[p] = files[p]
      /\ \A p \in Paths : p \in TargetsOf(ops) <=> ops[p] # Keep
      /\ ManifestFile \in S => Manifest' = ops[ManifestFile]
      /\ ManifestFile \notin S => Manifest' = Manifest
      /\ ManifestFile \in TargetsOf(ops)
  <2>1. \A l \in Locations :
          /\ l \in S => ops[l] # Keep /\ files'[l].data = ops[l]
          /\ l \notin S => files'[l] = files[l]
          /\ l \in TargetsOf(ops) <=> ops[l] # Keep
    BY InstalledAt DEF SoundInv, Applies
  <2>2. ManifestFile \in Locations /\ ops[ManifestFile] # Keep BY OpsKinds, LocationKinds
  <2>3. /\ ManifestFile \in S => Manifest' = ops[ManifestFile]
        /\ ManifestFile \notin S => Manifest' = Manifest
        /\ ManifestFile \in TargetsOf(ops)
    BY <2>1, <2>2 DEF Manifest
  <2>4. \A p \in Paths : p \in Locations BY LocationKinds
  <2> QED BY <2>1, <2>3, <2>4
<1>5. ManifestOK(Manifest') BY <1>2, <1>4 DEF OpsSound, Sound, ManifestOf, Manifest
<1>6. NoneOpen' => Truthful(files')
  <2>1. SUFFICES ASSUME NoneOpen', NEW p \in Lasting, Lists(Manifest', p)
                 PROVE  /\ files'[p].data # Absent
                        /\ files'[p].by # "user" => Fits(Manifest', p, files'[p].data)
    BY DEF Truthful, ManifestOf, Manifest
  <2> p \in Paths BY LastingArePaths
  <2>2. CASE phase = "open" BY <1>1, <2>1, <2>2 DEF NoneOpen
  <2>3. CASE phase = "prepared"
    <3>1. Manifest' = Manifest /\ files'[p] = files[p] BY <1>4, <2>3 DEF Applies
    <3> QED BY <1>2, <2>1, <3>1 DEF Sound, Truthful, ManifestOf, Manifest
  <2>4. CASE phase = "whole"
    <3>1. Manifest' = ops[ManifestFile] BY <1>4, <2>4 DEF Applies
    <3>2. p \in S BY <1>4, <2>1, <2>4, <3>1, OpsKinds DEF Applies
    <3> QED BY <1>4, <2>1, <3>1, <3>2 DEF OpsSound, Fits
  <2> QED BY <2>2, <2>3, <2>4
<1>7. ASSUME NEW p \in Lasting, Ours(files'[p], p)
      PROVE  Lists(Manifest', p) \/ Pending(p)'
  <2> p \in Paths BY LastingArePaths
  <2>1. CASE p \in S
    <3>1. Lists(ops[ManifestFile], p) /\ ops[p] # Keep
      BY <1>4, <1>7, <2>1 DEF Ours, OpsSound
    <3>2. CASE phase = "whole" BY <1>4, <3>1, <3>2 DEF Applies
    <3>3. CASE phase = "open" BY <1>1, <3>1, <3>3 DEF Pending
    <3>4. CASE phase = "prepared" BY <2>1, <3>4 DEF Applies
    <3> QED BY <3>2, <3>3, <3>4
  <2>2. CASE p \notin S
    <3>1. Lists(Manifest, p) BY <1>2, <1>4, <1>7, <2>2 DEF Sound, ManifestOf, Manifest
    <3>2. ops[p] # Keep BY <3>1 DEF Covers
    <3>3. CASE phase = "whole" BY <1>4, <2>2, <3>2, <3>3 DEF Applies
    <3>4. CASE phase = "open" BY <1>1, <3>2, <3>4 DEF Pending
    <3>5. CASE phase = "prepared" BY <1>4, <3>1, <3>5 DEF Applies
    <3> QED BY <3>3, <3>4, <3>5
  <2> QED BY <2>1, <2>2
<1> QED BY <1>3, <1>5, <1>6, <1>7 DEF FilesSound

LEMMA ApplySound ==
  ASSUME SoundInv, Steady, NEW s \in Slots, Apply(s) \/ ApplyStuck(s)
  PROVE  PlansSound' /\ JournalsSound' /\ FilesSound'
<1> DEFINE ops == plans[s].ops
<1>1. /\ Recovered /\ ~plans[s].conflicts /\ UNCHANGED plans
      /\ Approved(files, ops, plans[s].seen)
  BY ApplyParts DEF SoundInv
<1>2. PICK phase \in {"prepared", "open", "whole"}, S \in SUBSET TargetsOf(ops) :
        Applies(ops, phase, S)
  BY ApplyParts DEF SoundInv
<1>3. /\ OpsOK(ops) /\ OpsSound(ops) /\ Covers(ManifestOf(plans[s].seen), ops)
      /\ NoneOpen
  BY <1>1 DEF SoundInv, IInv, PlansOK, PlanOK, PlansSound, Recovered, Steady
<1>4. ManifestOf(plans[s].seen) = Manifest
  <2>1. ManifestFile \in TargetsOf(ops)
    BY <1>3, OpsKinds, LocationKinds DEF TargetsOf, OpsOK
  <2> QED BY <1>1, <2>1 DEF Approved, ManifestOf, Manifest
<1>5. PlansSound' BY <1>1 DEF SoundInv, PlansSound
<1>6. JournalsSound' /\ FilesSound' BY <1>2, <1>3, <1>4, TransactionSound
<1> QED BY <1>5, <1>6
-------------------------------------------------------------------------------
(* The rollbacks.                                                            *)

LEMMA RollbackParts ==
  ASSUME IInv, NEW i \in DOMAIN journals, Rollback(i)
  PROVE  /\ DOMAIN journals' = DOMAIN journals
         /\ journals'[i].phase = "undone"
         /\ journals'[i].ops = journals[i].ops /\ journals'[i].before = journals[i].before
         /\ \A k \in DOMAIN journals : k # i => journals'[k] = journals[k]
         /\ \A l \in Locations :
              files'[l] = IF journals[i].ops[l] # Keep THEN journals[i].before[l] ELSE files[l]
         /\ \A l \in Locations : journals[i].ops[l] # Keep =>
              files[l].data \in {journals[i].ops[l], journals[i].before[l].data}
         /\ journals[i].phase # "open" => \A l \in Locations : journals[i].ops[l] # Keep =>
              files[l].data = journals[i].ops[l]
<1> DEFINE j == journals[i]
<1>1. /\ DOMAIN files = Locations /\ DOMAIN j.ops = Locations
      /\ \A l \in Locations : l \in TargetsOf(j.ops) <=> j.ops[l] # Keep
  BY DEF IInv, JournalsOK, JournalOK, FilesOK, OpsOK, TargetsOf
<1>2. /\ RollbackOK(files, j) /\ files' = Restored(files, j)
      /\ journals' = [journals EXCEPT ![i].phase = "undone"]
  BY DEF Rollback
<1>3. /\ DOMAIN journals' = DOMAIN journals
      /\ \A k \in DOMAIN journals : k # i => journals'[k] = journals[k]
  BY <1>2
<1>4. journals'[i] = [phase |-> "undone", ops |-> j.ops, before |-> j.before]
  <2>1. j = [phase |-> j.phase, ops |-> j.ops, before |-> j.before]
    BY DEF IInv, JournalsOK, JournalOK
  <2> QED BY <1>2, <2>1
<1>5. \A l \in Locations : files'[l] = IF j.ops[l] # Keep THEN j.before[l] ELSE files[l]
  BY <1>1, <1>2 DEF Restored
<1>6. /\ \A l \in Locations : j.ops[l] # Keep => files[l].data \in {j.ops[l], j.before[l].data}
      /\ j.phase # "open" => \A l \in Locations : j.ops[l] # Keep => files[l].data = j.ops[l]
  BY <1>1, <1>2 DEF RollbackOK
<1> QED BY <1>3, <1>4, <1>5, <1>6

\* The manifest is a target of every transaction.
LEMMA ManifestRestored ==
  ASSUME IInv, NEW i \in DOMAIN journals, Rollback(i)
  PROVE  /\ journals[i].ops[ManifestFile] \notin {Keep, Absent}
         /\ Manifest' = ManifestOf(journals[i].before)
         /\ Manifest \in {journals[i].ops[ManifestFile], ManifestOf(journals[i].before)}
         /\ journals[i].phase # "open" => Manifest = journals[i].ops[ManifestFile]
<1>1. journals[i].ops[ManifestFile] \notin {Keep, Absent}
  BY OpsKinds DEF IInv, JournalsOK, JournalOK
<1> QED BY <1>1, RollbackParts, LocationKinds DEF Manifest, ManifestOf

LEMMA RollbackSound ==
  ASSUME SoundInv, NEW i \in DOMAIN journals, Rollback(i)
  PROVE  JournalsSound' /\ FilesSound'
<1> DEFINE ops == journals[i].ops
           before == journals[i].before
<1>1. /\ DOMAIN journals' = DOMAIN journals
      /\ journals'[i].phase = "undone" /\ journals'[i].ops = ops /\ journals'[i].before = before
      /\ \A k \in DOMAIN journals : k # i => journals'[k] = journals[k]
  BY RollbackParts DEF SoundInv
<1>2. \A p \in Paths : files'[p] = IF ops[p] # Keep THEN before[p] ELSE files[p]
  BY RollbackParts, LocationKinds DEF SoundInv
<1>3. /\ OpsOK(ops) /\ OpsSound(ops) /\ Sound(before) /\ Covers(ManifestOf(before), ops)
      /\ Manifest' = ManifestOf(before) /\ Manifest \in {ops[ManifestFile], ManifestOf(before)}
  BY ManifestRestored DEF SoundInv, IInv, JournalsOK, JournalOK, JournalsSound, JournalSound
<1>4. JournalsSound'
  <2>1. JournalSound(journals'[i]) BY <1>1, <1>3 DEF JournalSound
  <2>2. \A k \in DOMAIN journals : JournalSound(journals[k]) BY DEF SoundInv, JournalsSound
  <2> QED BY <1>1, <2>1, <2>2 DEF JournalsSound
<1>5. Truthful(files')
  <2>1. SUFFICES ASSUME NEW p \in Lasting, Lists(ManifestOf(before), p)
                 PROVE  /\ files'[p].data # Absent
                        /\ files'[p].by # "user" => Fits(ManifestOf(before), p, files'[p].data)
    BY <1>3 DEF Truthful, ManifestOf, Manifest
  <2> p \in Paths BY LastingArePaths
  <2>2. files'[p] = before[p] BY <1>2, <1>3, <2>1 DEF Covers
  <2> QED BY <1>3, <2>1, <2>2 DEF Sound, Truthful
<1>6. ASSUME NEW p \in Lasting, Ours(files'[p], p)
      PROVE  Lists(Manifest', p) \/ Pending(p)'
  <2> p \in Paths BY LastingArePaths
  <2>1. CASE ops[p] # Keep BY <1>2, <1>3, <1>6, <2>1 DEF Sound
  <2>2. CASE ops[p] = Keep
    <3>1. files'[p] = files[p] BY <1>2, <2>2
    <3>2. ~Lists(Manifest, p)
      <4>1. ~Lists(ops[ManifestFile], p) BY <1>3, <2>2, OpsKinds
      <4>2. ~Lists(ManifestOf(before), p) BY <1>3, <2>2 DEF Covers
      <4> QED BY <1>3, <4>1, <4>2
    <3>3. Pending(p) BY <1>6, <3>1, <3>2 DEF SoundInv, FilesSound
    <3>4. PICK k \in DOMAIN journals : journals[k].phase = "open" /\ journals[k].ops[p] # Keep
      BY <3>3 DEF Pending
    <3>5. k # i BY <2>2, <3>4
    <3> QED BY <1>1, <3>4, <3>5 DEF Pending
  <2> QED BY <2>1, <2>2
<1>7. ManifestOK(Manifest') BY <1>3 DEF Sound
<1> QED BY <1>4, <1>5, <1>6, <1>7 DEF FilesSound

\* While the history is intact, an edit takes away neither the manifest nor a file
\* that it lists.
LEMMA IntactEdit ==
  ASSUME IInv, NEW l \in Locations, Edit(l), intact'
  PROVE  /\ DOMAIN files' = Locations /\ UNCHANGED <<journals, plans>>
         /\ Manifest' = Manifest
         /\ \A m \in Locations :
              \/ files'[m] = files[m]
              \/ files'[m].by = "user" /\ (Listed(m) => files'[m].data # Absent)
<1>1. PICK d \in {Absent} \cup (IF l = ManifestFile THEN {} ELSE UserContents) :
        /\ files' = [files EXCEPT ![l] = [data |-> d, by |-> "user"]]
        /\ intact' = (intact /\ ~(d = Absent /\ (l = ManifestFile \/ Listed(l))))
  BY DEF Edit
<1>2. DOMAIN files = Locations /\ UNCHANGED <<journals, plans>> BY DEF IInv, FilesOK, Edit
<1>3. ~(d = Absent /\ (l = ManifestFile \/ Listed(l))) BY <1>1
<1>4. l # ManifestFile BY <1>3, <1>1
<1>5. Manifest' = Manifest BY <1>1, <1>2, <1>4, LocationKinds DEF Manifest
<1> QED BY <1>1, <1>2, <1>3, <1>5

LEMMA EditSound ==
  ASSUME SoundInv, NEW l \in Locations, Edit(l), intact'
  PROVE  FilesSound'
<1>1. /\ Manifest' = Manifest /\ UNCHANGED journals
      /\ \A p \in Lasting :
           \/ files'[p] = files[p]
           \/ files'[p].by = "user" /\ (Listed(p) => files'[p].data # Absent)
  BY IntactEdit, LastingArePaths DEF SoundInv
<1>2. Truthful(files) => Truthful(files')
  BY <1>1 DEF Truthful, ManifestOf, Manifest, Lists, Listed, HasManifest
<1>3. NoneOpen' => NoneOpen BY <1>1 DEF NoneOpen
<1>4. \A p \in Lasting : Ours(files'[p], p) => Lists(Manifest', p) \/ Pending(p)'
  BY <1>1 DEF SoundInv, FilesSound, Ours, Pending
<1> QED BY <1>1, <1>2, <1>3, <1>4 DEF SoundInv, FilesSound

LEMMA NextSound ==
  ASSUME SoundInv, Steady, intact', [Next]_vars
  PROVE  PlansSound' /\ JournalsSound' /\ FilesSound'
<1>1. /\ PlansSound /\ UNCHANGED plans => PlansSound'
      /\ UNCHANGED journals => JournalsSound'
      /\ UNCHANGED <<files, journals>> => FilesSound'
  BY DEF SoundInv, PlansSound, JournalsSound, FilesSound, NoneOpen, Pending, Manifest, Truthful, ManifestOf
<1>2. ASSUME NEW s \in Slots, NEW layout \in Layouts, NEW without \in SUBSET Options,
             PreviewSetup(s, layout, without)
      PROVE  PlansSound' /\ JournalsSound' /\ FilesSound'
  BY <1>1, <1>2, PreviewSound DEF PreviewSetup
<1>3. ASSUME NEW s \in Slots, NEW layout \in Layouts PROVE ~PreviewInit(s, layout)
  BY BoundsAreNat DEF PreviewInit, SoundInv, IInv, CountersOK, Steady
<1>4. ASSUME NEW s \in Slots, Apply(s) \/ ApplyStuck(s)
      PROVE  PlansSound' /\ JournalsSound' /\ FilesSound'
  BY <1>4, ApplySound
<1>5. ASSUME NEW i \in DOMAIN journals, Rollback(i)
      PROVE  PlansSound' /\ JournalsSound' /\ FilesSound'
  BY <1>1, <1>5, RollbackSound DEF Rollback, SoundInv
<1>6. ASSUME NEW l \in Locations, Edit(l)
      PROVE  PlansSound' /\ JournalsSound' /\ FilesSound'
  BY <1>1, <1>6, EditSound DEF Edit, SoundInv
<1>7. CASE Upgrade \/ UNCHANGED vars
  BY <1>1, <1>7 DEF Upgrade, vars, SoundInv
<1> QED BY <1>2, <1>3, <1>4, <1>5, <1>6, <1>7 DEF Next

\* What the user removed once stays removed in the history.
LEMMA IntactBefore == [Next]_vars /\ intact' => intact
BY DEF Next, PreviewSetup, PreviewInit, Apply, ApplyStuck, Rollback, Edit, Upgrade, vars

LEMMA SoundHolds == ASSUME Steady PROVE Spec => [](intact => SoundInv)
<1>1. Init => (intact => SoundInv) BY InitHolds, InitSound DEF SoundInv
<1>2. (intact => SoundInv) /\ [Next]_vars => (intact => SoundInv)'
  BY IntactBefore, NextSound, NextHolds DEF SoundInv
<1> QED BY <1>1, <1>2, PTL DEF Spec

-------------------------------------------------------------------------------
(* What the manifest is good for.                                            *)

\* A listed file that doctor finds missing or changed, the user changed, or a
\* release dropped: no upgrade, rollback in whatever order, or recovery leaves the
\* manifest and the files apart (SetupDigests, rollback_transaction).
THEOREM ManifestTellsTruth ==
  ASSUME Steady
  PROVE  Spec => []ManifestTruthful
<1>1. (intact => SoundInv) => ManifestTruthful
  BY DEF SoundInv, FilesSound, ManifestTruthful, Undisturbed, Settled, Untrue, Truthful,
         ManifestOf, Manifest, Listed, HasManifest, Lists, Lasting, Fits, Unmodified, Matches,
         ByUser
<1> QED BY <1>1, SoundHolds, PTL

\* What the manager put into the scope is listed, so that a later setup can
\* replace it and remove it, also after options were excluded and taken back
\* and transactions were left open and undone; unless a release dropped it.
THEOREM NothingIsOrphaned ==
  ASSUME Steady
  PROVE  Spec => []NoOrphans
<1>1. (intact => SoundInv) => NoOrphans
  <2> SUFFICES ASSUME SoundInv, NoneOpen, NEW p \in Lasting, Ours(files[p], p) PROVE Listed(p)
    BY DEF NoOrphans, Undisturbed, Settled, Orphan, Ours, Owned, Lasting
  <2>1. Lists(Manifest, p) BY SettledIsSound DEF SoundInv, Sound, ManifestOf, Manifest
  <2> QED BY <2>1 DEF Lists, Listed, HasManifest
<1> QED BY <1>1, SoundHolds, PTL

\* Setup is idempotent: repeated, with whichever options excluded, it meets no
\* conflict but with what the user changed (_generated_conflict, _can_write).
THEOREM OnlyUsersBlock ==
  ASSUME Steady, NothingDropped
  PROVE  Spec => []BlockedByUserOnly
<1>1. (intact => SoundInv) => BlockedByUserOnly
  <2> SUFFICES ASSUME SoundInv, NoneOpen, HasManifest, NEW without \in SUBSET Options,
                      NEW p \in SetupConflicts(Manifest.layout, without), ~ByUser(p)
               PROVE  FALSE
    BY DEF BlockedByUserOnly, Undisturbed, Settled
  <2>1. p \in Paths /\ files[p].data # Absent /\ Owned(p) /\ ~(CanWrite(p) /\ Unmodified(p))
        /\ (Kind[p] = "canonical" => ~CanWrite(p)) /\ (Kind[p] # "canonical" => ~Unmodified(p))
    BY DEF SetupConflicts, CoreConflicts, CanWrite, Owned
  <2> p \in Lasting BY <2>1 DEF Lasting, NothingDropped
  <2>2. files[p].by = "manager"
    BY <2>1 DEF SoundInv, IInv, FilesOK, Known, Version, ByUser
  <2>3. Lists(Manifest, p)
    BY <2>1, <2>2, SettledIsSound DEF SoundInv, Sound, ManifestOf, Manifest, Ours
  <2>4. Fits(Manifest, p, files[p].data)
    BY <2>1, <2>2, <2>3 DEF SoundInv, FilesSound, Truthful, ManifestOf, Manifest
  <2> QED BY <2>1, <2>3, <2>4 DEF Fits, Lists, CanWrite, Unmodified, Listed, HasManifest, Matches
<1> QED BY <1>1, SoundHolds, PTL
-------------------------------------------------------------------------------
(* doctor.                                                                   *)

\* A core file is there, or the user removed it.
Kept(v) == v.data # Absent \/ v.by = "user"

\* The manifest lists a SKILL.md with every file of a skill.
SkillsListed(m) == \A p \in Paths : Lists(m, p) /\ SkillFile[p] # NoSkill => Lists(m, SkillFile[p])

\* The transactions that found no manifest: one at most can be rolled back, and
\* while there is no manifest, only an open one.
First(i) == journals[i].phase \in Rollbackable /\ ManifestOf(journals[i].before) = Absent

OneFirst ==
  /\ \A i, k \in DOMAIN journals : First(i) /\ First(k) => i = k
  /\ Manifest = Absent => \A i \in DOMAIN journals : First(i) => journals[i].phase = "open"

\* A plan made without a manifest does not write a seed that is there: nothing
\* that can be rolled back takes it away before the plan is applied.
SeedStays(p) ==
  Kept(files[p]) /\ \A i \in DOMAIN journals : First(i) => Kept(journals[i].before[p])

PlansKeepCore ==
  \A s \in Slots : ~plans[s].conflicts =>
    /\ SkillsListed(plans[s].ops[ManifestFile])
    /\ \A p \in Core :
         /\ plans[s].ops[p] # Absent
         /\ plans[s].ops[p] = Keep /\ ManifestOf(plans[s].seen) = Absent => SeedStays(p)

JournalKeepsCore(j) ==
  /\ SkillsListed(j.ops[ManifestFile]) /\ SkillsListed(ManifestOf(j.before))
  /\ ManifestOf(j.before) # Absent => \A p \in Core : Kept(j.before[p])

CoreInv ==
  /\ OneFirst /\ PlansKeepCore
  /\ \A i \in DOMAIN journals : JournalKeepsCore(journals[i])
  /\ SkillsListed(Manifest)
  /\ Manifest # Absent => \A p \in Core : Kept(files[p]) \/ Pending(p)

LEMMA CoreKinds ==
  \A p \in Core : p \in Paths /\ p \in Locations /\ p # ManifestFile
BY ConstantsAssumption, LocationKinds

LEMMA InitCore == Init => CoreInv
<1> SUFFICES ASSUME Init PROVE CoreInv
  OBVIOUS
<1>1. PICK p \in Paths, d \in UserContents \cup {Absent} :
        files = [l \in Locations |->
                   IF l = p /\ d # Absent THEN [data |-> d, by |-> "user"]
                                          ELSE [data |-> Absent, by |-> "nobody"]]
  BY DEF Init
<1>2. Manifest = Absent BY <1>1, LocationKinds DEF Manifest
<1>3. \A s \in Slots : plans[s].conflicts BY DEF Init
<1>4. journals = <<>> BY DEF Init
<1> QED BY <1>2, <1>3, <1>4 DEF CoreInv, OneFirst, PlansKeepCore, SkillsListed, Lists

\* A plan of setup has the core, or finds it, and lists skills with their SKILL.md.
LEMMA PreviewCore ==
  ASSUME SoundInv, CoreInv, Steady, SkillsWhole, NEW s \in Slots, NEW layout \in Layouts,
         NEW without \in SUBSET Options, PreviewSetup(s, layout, without)
  PROVE  CoreInv'
<1> DEFINE digests == SetupDigests(layout, without)
           data == [p \in Paths |-> SetupData(p, layout, without)]
           ops == WithManifest(data, layout, digests)
<1>1. /\ NoneOpen /\ UNCHANGED <<files, journals>>
      /\ Save(s, ops, SetupConflicts(layout, without))
  BY DEF PreviewSetup, CountPreview, Recovered, Steady
<1>2. /\ ops[ManifestFile] = [layout |-> layout, digests |-> digests]
      /\ \A p \in Paths : ops[p] = SetupData(p, layout, without)
  BY LocationKinds DEF WithManifest
<1>3. SkillsListed(ops[ManifestFile])
  <2> SUFFICES ASSUME NEW p \in Paths, digests[p] # Unlisted, SkillFile[p] # NoSkill
               PROVE  SkillFile[p] \in Paths /\ digests[SkillFile[p]] # Unlisted
    BY <1>2 DEF SkillsListed, Lists
  <2>1. SkillFile[p] \in Paths BY ConstantsAssumption
  <2>2. Wanted(p, layout, without) BY DEF SetupDigests
  <2>3. Wanted(SkillFile[p], layout, without)
    BY <2>2 DEF Wanted, New, SkillsWhole, SoundInv, IInv, CountersOK
  <2>4. New(SkillFile[p], layout) \in Contents
    BY <2>1, <2>3, ShippedData, NormalForms DEF Wanted, SoundInv
  <2>5. digests[SkillFile[p]] = Norm[New(SkillFile[p], layout)]
    BY <2>1, <2>3 DEF SetupDigests, SkillsWhole
  <2> QED BY <2>1, <2>4, <2>5, NormalForms DEF Unlisted
<1>4. ASSUME NEW p \in Core
      PROVE  ops[p] # Absent /\ (ops[p] = Keep => files[p].data # Absent)
  <2>1. p \in Paths /\ New(p, layout) \in Contents /\ Kind[p] \in {"canonical", "seeded"}
    BY ShippedData, NormalForms, ConstantsAssumption
       DEF SkillsWhole, SoundInv, IInv, CountersOK, New
  <2>2. Keep \notin Data BY ManifestAssumption
  <2>3. CASE Kind[p] = "canonical"
    BY <1>2, <2>1, <2>2, <2>3, NormalForms DEF SetupData, CoreData
  <2>4. CASE Kind[p] = "seeded"
    <3>1. ops[p] = IF files[p].data = Absent THEN New(p, layout) ELSE Keep
      BY <1>2, <2>1, <2>4 DEF SetupData, CoreData
    <3> QED BY <2>1, <2>2, <3>1, NormalForms
  <2> QED BY <2>1, <2>3, <2>4
<1>5. ops[ManifestFile] # Keep
  <2>1. ops[ManifestFile] \in Manifests
    BY <1>2, ShippedData, NormalForms DEF SoundInv, Manifests, SetupDigests, Wanted, Unlisted
  <2> QED BY <2>1, ManifestAssumption
<1>6. ManifestOf(Expected(ops)) = Manifest
  BY <1>5, LocationKinds DEF ManifestOf, Expected, Manifest
<1> HIDE DEF ops
<1>7. ASSUME NEW p \in Core, ops[p] = Keep, Manifest = Absent PROVE SeedStays(p)
  <2>1. \A i \in DOMAIN journals : ~First(i) BY <1>1, <1>7 DEF CoreInv, OneFirst, NoneOpen
  <2> QED BY <1>4, <1>7, <2>1 DEF SeedStays, Kept
<1>8. DOMAIN plans = Slots /\ plans'[s] \in {PlanFor(ops), Conflicting}
      /\ \A t \in Slots : t # s => plans'[t] = plans[t]
  BY <1>1 DEF SoundInv, IInv, PlansOK, Save
<1>9. Conflicting.conflicts BY DEF Conflicting, PlanFor
<1>10. PlanFor(ops).ops = ops /\ PlanFor(ops).seen = Expected(ops) BY DEF PlanFor
<1>11. UNCHANGED <<files, journals>> BY <1>1
<1>12. \A p : SeedStays(p)' <=> SeedStays(p) BY <1>11 DEF SeedStays, First
<1>13. PlansKeepCore'
  BY <1>3, <1>4, <1>6, <1>7, <1>8, <1>9, <1>10, <1>12 DEF CoreInv, PlansKeepCore
<1> QED BY <1>11, <1>13 DEF CoreInv, OneFirst, First, Manifest, Pending
\* A transaction writes the core, or leaves what is there.
LEMMA ApplyCore ==
  ASSUME SoundInv, CoreInv, Steady, NEW s \in Slots, Apply(s) \/ ApplyStuck(s)
  PROVE  CoreInv'
<1> DEFINE ops == plans[s].ops
<1>1. /\ NoneOpen /\ ~plans[s].conflicts /\ UNCHANGED plans
      /\ Approved(files, ops, plans[s].seen) /\ OpsOK(ops)
  BY ApplyParts DEF SoundInv, IInv, PlansOK, PlanOK, Recovered, Steady
<1>2. PICK phase \in {"prepared", "open", "whole"}, S \in SUBSET TargetsOf(ops) :
        Applies(ops, phase, S)
  BY ApplyParts DEF SoundInv
<1>3. PICK n : /\ n \notin DOMAIN journals /\ DOMAIN journals' = DOMAIN journals \cup {n}
               /\ journals'[n] = [phase |-> phase, ops |-> ops, before |-> files]
               /\ \A i \in DOMAIN journals : journals'[i] = journals[i]
  BY <1>2, RecordLast DEF SoundInv, Applies
<1>4. \A l \in Locations :
        /\ l \in S => ops[l] # Keep /\ files'[l].data = ops[l]
        /\ l \notin S => files'[l] = files[l]
        /\ l \in TargetsOf(ops) <=> ops[l] # Keep
  BY <1>1, <1>2, InstalledAt DEF SoundInv, Applies
<1>5. /\ ops[ManifestFile] \notin {Keep, Absent} /\ ManifestFile \in TargetsOf(ops)
      /\ ManifestFile \in S => Manifest' = ops[ManifestFile]
      /\ ManifestFile \notin S => Manifest' = Manifest
  <2>1. ManifestFile \in Locations /\ ops[ManifestFile] \notin {Keep, Absent}
    BY <1>1, OpsKinds, LocationKinds
  <2> QED BY <1>4, <2>1 DEF Manifest
<1>6. /\ SkillsListed(ops[ManifestFile]) /\ SkillsListed(Manifest)
      /\ \A p \in Core : ops[p] # Absent
      /\ \A p \in Core : ops[p] = Keep /\ ManifestOf(plans[s].seen) = Absent => SeedStays(p)
  BY <1>1 DEF CoreInv, PlansKeepCore
<1>7. ManifestOf(plans[s].seen) = Manifest
  BY <1>1, <1>5 DEF Approved, ManifestOf, Manifest
<1>8. \A p \in Core : Manifest # Absent => Kept(files[p])
  BY <1>1 DEF CoreInv, NoneOpen, Pending
<1>9. \A p \in Core : ops[p] = Keep => Kept(files[p])
  BY <1>6, <1>7, <1>8 DEF SeedStays
<1>10. \A i \in DOMAIN journals' : JournalKeepsCore(journals'[i])
  <2>1. JournalKeepsCore([phase |-> phase, ops |-> ops, before |-> files])
    BY <1>6, <1>8 DEF JournalKeepsCore, ManifestOf, Manifest
  <2> QED BY <1>3, <2>1 DEF CoreInv
<1>11. SkillsListed(Manifest') BY <1>5, <1>6
<1>12. \A i \in DOMAIN journals : First(i)' <=> First(i) BY <1>3 DEF First
<1>13. ManifestOf(journals'[n].before) = Manifest /\ journals'[n].phase = phase
  BY <1>3 DEF ManifestOf, Manifest
<1>14. OneFirst'
  <2>1. CASE Manifest # Absent
    <3>1. ~First(n)' /\ Manifest' # Absent BY <1>5, <1>13, <2>1 DEF First
    <3> QED BY <1>3, <1>12, <3>1 DEF CoreInv, OneFirst
  <2>2. CASE Manifest = Absent
    <3>1. \A i \in DOMAIN journals : ~First(i)' BY <1>1, <1>12, <2>2 DEF CoreInv, OneFirst, NoneOpen
    <3>2. Manifest' = Absent /\ First(n)' => journals'[n].phase = "open"
      <4>1. CASE phase = "whole" BY <1>2, <1>5, <4>1 DEF Applies
      <4>2. CASE phase = "open" BY <1>13, <4>2
      <4>3. CASE phase = "prepared" BY <1>13, <4>3 DEF First, Rollbackable
      <4> QED BY <4>1, <4>2, <4>3
    <3> QED BY <1>3, <3>1, <3>2 DEF OneFirst
  <2> QED BY <2>1, <2>2
<1>15. ASSUME NEW p \in Core PROVE Kept(files[p]) => Kept(files'[p])
  BY <1>4, <1>6, CoreKinds DEF Kept
<1>16. ASSUME NEW p \in Core, SeedStays(p) PROVE SeedStays(p)'
  <2>1. Kept(files'[p]) BY <1>15, <1>16 DEF SeedStays
  <2>2. \A i \in DOMAIN journals' : First(i)' => Kept(journals'[i].before[p])
    BY <1>3, <1>12, <1>16 DEF SeedStays
  <2> QED BY <2>1, <2>2 DEF SeedStays
<1>17. PlansKeepCore' BY <1>1, <1>16 DEF CoreInv, PlansKeepCore
<1>18. ASSUME NEW p \in Core, Manifest' # Absent PROVE Kept(files'[p]) \/ Pending(p)'
  <2>1. CASE p \in S BY <1>4, <1>6, <2>1, CoreKinds DEF Kept
  <2>2. CASE p \notin S
    <3>1. CASE ops[p] = Keep BY <1>9, <1>15, <3>1
    <3>2. CASE phase = "whole" /\ ops[p] # Keep BY <1>2, <1>4, <2>2, <3>2, CoreKinds DEF Applies
    <3>3. CASE phase = "open" /\ ops[p] # Keep BY <1>3, <3>3 DEF Pending
    <3>4. CASE phase = "prepared"
      <4>1. Manifest' = Manifest BY <1>2, <1>5, <3>4 DEF Applies
      <4> QED BY <1>8, <1>15, <1>18, <4>1
    <3> QED BY <3>1, <3>2, <3>3, <3>4
  <2> QED BY <2>1, <2>2
<1> QED BY <1>10, <1>11, <1>14, <1>17, <1>18 DEF CoreInv

\* A rollback puts the core back, or takes it away together with the manifest.
LEMMA RollbackCore ==
  ASSUME SoundInv, CoreInv, NEW i \in DOMAIN journals, Rollback(i)
  PROVE  CoreInv'
<1> DEFINE ops == journals[i].ops
           before == journals[i].before
<1>1. /\ DOMAIN journals' = DOMAIN journals
      /\ journals'[i].phase = "undone" /\ journals'[i].ops = ops /\ journals'[i].before = before
      /\ \A k \in DOMAIN journals : k # i => journals'[k] = journals[k]
  BY RollbackParts DEF SoundInv
<1>2. \A p \in Core : files'[p] = IF ops[p] # Keep THEN before[p] ELSE files[p]
  BY RollbackParts, CoreKinds DEF SoundInv
<1>3. /\ Manifest' = ManifestOf(before) /\ Manifest \in {ops[ManifestFile], ManifestOf(before)}
      /\ ops[ManifestFile] # Absent
  BY ManifestRestored DEF SoundInv
<1>4. journals[i].phase \in Rollbackable BY DEF Rollback, RollbackOK
<1>5. JournalKeepsCore(journals[i]) BY DEF CoreInv
<1>6. \A k \in DOMAIN journals : First(k)' => k # i /\ First(k)
  BY <1>1 DEF First, Rollbackable
<1>7. OneFirst'
  <2>1. Manifest' = Absent => \A k \in DOMAIN journals : ~First(k)'
    <3>1. Manifest' = Absent => First(i) BY <1>3, <1>4 DEF First
    <3> QED BY <1>6, <3>1 DEF CoreInv, OneFirst
  <2> QED BY <1>1, <1>6, <2>1 DEF CoreInv, OneFirst
<1>8. \A k \in DOMAIN journals' : JournalKeepsCore(journals'[k])
  BY <1>1 DEF CoreInv, JournalKeepsCore
<1>9. SkillsListed(Manifest') BY <1>3, <1>5 DEF JournalKeepsCore
<1>10. ASSUME NEW p \in Core, SeedStays(p) PROVE SeedStays(p)'
  <2>1. Kept(files'[p])
    <3>1. CASE ops[p] = Keep BY <1>2, <1>10, <3>1 DEF SeedStays
    <3>2. CASE ops[p] # Keep /\ ManifestOf(before) = Absent
      BY <1>2, <1>4, <1>10, <3>2 DEF SeedStays, First
    <3>3. CASE ops[p] # Keep /\ ManifestOf(before) # Absent
      BY <1>2, <1>5, <3>3 DEF JournalKeepsCore
    <3> QED BY <3>1, <3>2, <3>3
  <2>2. \A k \in DOMAIN journals' : First(k)' => Kept(journals'[k].before[p])
    BY <1>1, <1>6, <1>10 DEF SeedStays
  <2> QED BY <2>1, <2>2 DEF SeedStays
<1>11. PlansKeepCore' BY <1>10 DEF CoreInv, PlansKeepCore, Rollback
<1>12. ASSUME NEW p \in Core, Manifest' # Absent PROVE Kept(files'[p]) \/ Pending(p)'
  <2>1. CASE ops[p] # Keep BY <1>2, <1>3, <1>5, <1>12, <2>1 DEF JournalKeepsCore
  <2>2. CASE ops[p] = Keep
    <3>1. files'[p] = files[p] BY <1>2, <2>2
    <3>2. Manifest # Absent BY <1>3, <1>12
    <3>3. CASE Kept(files[p]) BY <3>1, <3>3
    <3>4. CASE Pending(p)
      <4>1. PICK k \in DOMAIN journals : journals[k].phase = "open" /\ journals[k].ops[p] # Keep
        BY <3>4 DEF Pending
      <4>2. k # i BY <2>2, <4>1
      <4> QED BY <1>1, <4>1, <4>2 DEF Pending
    <3> QED BY <3>2, <3>3, <3>4 DEF CoreInv
  <2> QED BY <2>1, <2>2
<1> QED BY <1>7, <1>8, <1>9, <1>11, <1>12 DEF CoreInv

LEMMA EditCore ==
  ASSUME SoundInv, CoreInv, NEW l \in Locations, Edit(l), intact'
  PROVE  CoreInv'
<1>2. UNCHANGED <<journals, plans>> BY DEF Edit
<1>3. \A m \in Locations : files'[m] = files[m] \/ files'[m].by = "user"
  BY IntactEdit DEF SoundInv
<1>4. Manifest' = Manifest BY IntactEdit DEF SoundInv
<1>5. \A p \in Core : Kept(files[p]) => Kept(files'[p]) BY <1>3, CoreKinds DEF Kept
<1>6. \A i : First(i)' <=> First(i) BY <1>2 DEF First
<1>7. OneFirst' BY <1>2, <1>4, <1>6 DEF CoreInv, OneFirst
<1>8. \A p \in Core : SeedStays(p) => SeedStays(p)' BY <1>2, <1>5, <1>6 DEF SeedStays
<1>9. PlansKeepCore' BY <1>2, <1>8 DEF CoreInv, PlansKeepCore
<1>10. \A p : Pending(p)' <=> Pending(p) BY <1>2 DEF Pending
<1> QED BY <1>2, <1>4, <1>5, <1>7, <1>9, <1>10 DEF CoreInv

LEMMA NextCore ==
  ASSUME SoundInv, CoreInv, Steady, SkillsWhole, intact', [Next]_vars
  PROVE  CoreInv'
<1>1. UNCHANGED <<files, plans, journals>> => CoreInv'
  BY DEF CoreInv, OneFirst, First, PlansKeepCore, SeedStays, Pending, Manifest
<1>2. ASSUME NEW s \in Slots, NEW layout \in Layouts PROVE ~PreviewInit(s, layout)
  BY BoundsAreNat DEF PreviewInit, SoundInv, IInv, CountersOK, Steady
<1>3. CASE Upgrade \/ UNCHANGED vars BY <1>1, <1>3 DEF Upgrade, vars
<1> QED BY <1>2, <1>3, PreviewCore, ApplyCore, RollbackCore, EditCore DEF Next

\* In a settled scope doctor blocks only on what the user changed or removed, and
\* on skills whose SKILL.md or files the user changed: no sequence of setups,
\* recoveries and rollbacks leaves a scope that doctor rejects (doctor.py).
THEOREM DoctorBlocksOnUser ==
  ASSUME Steady, SkillsWhole, NothingDropped
  PROVE  Spec => []DoctorBlamesUser
<1> Lasting = Paths BY DEF Lasting, NothingDropped
<1>1. (intact => SoundInv /\ CoreInv) => DoctorBlamesUser
  <2> SUFFICES ASSUME SoundInv, CoreInv, NoneOpen, HasManifest, NEW p \in Doctor
               PROVE  \E q \in Paths : ByUser(q) /\ (q = p \/ SkillFile[q] = p)
    BY DEF DoctorBlamesUser, Undisturbed, Settled
  <2>1. CASE p \in Changed
    BY <2>1 DEF Changed, SoundInv, FilesSound, Truthful, ManifestOf, Manifest, Listed,
                HasManifest, Lists, Fits, Unmodified, Matches, ByUser
  <2>2. CASE p \in MissingCore
    <3>1. p \in Core /\ p \in Paths /\ files[p].data = Absent
      BY <2>2, ConstantsAssumption DEF MissingCore
    <3>2. Kept(files[p]) BY <3>1 DEF CoreInv, Pending, NoneOpen, HasManifest
    <3> QED BY <3>1, <3>2 DEF Kept, ByUser
  <2>3. CASE p \in Headless
    <3>1. PICK q \in Paths : /\ SkillFile[q] # NoSkill /\ p = SkillFile[q]
                             /\ files[q].data # Absent /\ files[p].data = Absent
      BY <2>3 DEF Headless
    <3>2. CASE ByUser(q) BY <3>1, <3>2
    <3>3. CASE ~ByUser(q)
      <4>1. Ours(files[q], q)
        BY <3>1, <3>3 DEF SoundInv, IInv, FilesOK, Known, Version, ByUser, Ours, Owned, SkillsWhole
      <4>2. Lists(Manifest, q) BY <4>1, SettledIsSound DEF SoundInv, Sound, ManifestOf, Manifest
      <4>3. Lists(Manifest, p) BY <3>1, <4>2 DEF CoreInv, SkillsListed
      <4>4. p \in Paths BY <3>1, ConstantsAssumption
      <4>5. ByUser(p)
        BY <3>1, <4>3, <4>4 DEF SoundInv, FilesSound, Truthful, ManifestOf, Manifest, Fits, ByUser
      <4> QED BY <4>4, <4>5
    <3> QED BY <3>2, <3>3
  <2> QED BY <2>1, <2>2, <2>3 DEF Doctor
<1>2. Init => (intact => SoundInv /\ CoreInv)
  BY InitHolds, InitSound, InitCore DEF SoundInv
<1>3. (intact => SoundInv /\ CoreInv) /\ [Next]_vars => (intact => SoundInv /\ CoreInv)'
  BY IntactBefore, NextSound, NextHolds, NextCore DEF SoundInv
<1> QED BY <1>1, <1>2, <1>3, PTL DEF Spec

-------------------------------------------------------------------------------
(* Rolling everything back.  At a location every transaction is an edge from *)
(* the data it replaced to the data it wrote.  An apply goes along its edge, *)
(* a rollback goes back along it, so the edges not undone lead from the data *)
(* before the first transaction to the data of now: at each datum, as many   *)
(* come in as go out, but for these two.                                     *)

\* While a transaction is open it is rolled back before anything else is done to
\* the scope: what doctor asks for (doctor.py, transaction.recovery-required).
\* Rolling back another one in between may take its targets to what it replaced;
\* then its own rollback is a step that no apply has taken.
RecoveredFirst ==
  [][\A i \in DOMAIN journals : journals[i].phase = "open" /\ journals' # journals =>
       journals' = [journals EXCEPT ![i].phase = "undone"]]_vars

IsOpen(i) == i \in DOMAIN journals /\ journals[i].phase = "open"

Moved(l) == {i \in DOMAIN journals : journals[i].phase = "whole" /\ journals[i].ops[l] # Keep}
WroteIt(l, d) == {i \in Moved(l) : journals[i].ops[l] = d}
ReplacedIt(l, d) == {i \in Moved(l) : journals[i].before[l].data = d}

\* The data before the first transaction, and now; an open one does not count.
Start(l, d) == \/ journals = <<>> /\ files[l].data = d
               \/ journals # <<>> /\ journals[1].before[l].data = d
Base(l, d) == \/ NoneOpen /\ files[l].data = d
              \/ \E i : IsOpen(i) /\ journals[i].before[l].data = d

One(b) == IF b THEN 1 ELSE 0

Balanced(l, d) ==
  Cardinality(WroteIt(l, d)) + One(Start(l, d)) = Cardinality(ReplacedIt(l, d)) + One(Base(l, d))

\* There is one open transaction, and what is no target of it is as it was.
OneOpen ==
  /\ \A i, k : IsOpen(i) /\ IsOpen(k) => i = k
  /\ \A i : IsOpen(i) => \A l \in Locations :
       journals[i].ops[l] = Keep => files[l].data = journals[i].before[l].data

UndoInv == IInv /\ (edits = 0 => OneOpen /\ \A l \in Locations : \A d : Balanced(l, d))

\* One edge more, or one less.
LEMMA OneEdge ==
  ASSUME NEW I, NEW O, IsFiniteSet(I), IsFiniteSet(O), NEW i, i \notin I, i \notin O,
         NEW in \in {0, 1}, NEW out \in {0, 1}, NEW start \in {0, 1},
         NEW II, II = IF in = 1 THEN I \cup {i} ELSE I,
         NEW OO, OO = IF out = 1 THEN O \cup {i} ELSE O
  PROVE  Cardinality(I) + start = Cardinality(O) + out
         <=> Cardinality(II) + start = Cardinality(OO) + in
<1>1. /\ Cardinality(I) \in Nat /\ Cardinality(O) \in Nat
      /\ Cardinality(I \cup {i}) = Cardinality(I) + 1
      /\ Cardinality(O \cup {i}) = Cardinality(O) + 1
  BY FS_CardinalityType, FS_AddElement
<1> QED BY <1>1

LEMMA EdgesFinite ==
  ASSUME IInv, NEW l, NEW d
  PROVE  IsFiniteSet(WroteIt(l, d)) /\ IsFiniteSet(ReplacedIt(l, d))
<1>1. IsFiniteSet(DOMAIN journals)
  <2>1. PICK n \in Nat : DOMAIN journals = 1 .. n BY DEF IInv, JournalsOK
  <2>2. 1 \in Int /\ n \in Int OBVIOUS
  <2> QED BY <2>1, <2>2, FS_Interval
<1>2. WroteIt(l, d) \subseteq DOMAIN journals /\ ReplacedIt(l, d) \subseteq DOMAIN journals
  BY DEF WroteIt, ReplacedIt, Moved
<1> QED BY <1>1, <1>2, FS_Subset

\* What a step may do while a transaction is open.
UndoesOpen ==
  \A i \in DOMAIN journals : journals[i].phase = "open" /\ journals' # journals =>
    journals' = [journals EXCEPT ![i].phase = "undone"]

LEMMA ApplyBalances ==
  ASSUME UndoInv, edits = 0, UndoesOpen, NEW s \in Slots, Apply(s) \/ ApplyStuck(s)
  PROVE  OneOpen' /\ \A l \in Locations : \A d : Balanced(l, d)'
<1> DEFINE ops == plans[s].ops
<1>1. IInv /\ OneOpen /\ OpsOK(ops) /\ DOMAIN files = Locations
  BY ApplyParts DEF UndoInv, IInv, PlansOK, PlanOK, FilesOK
<1>2. PICK phase \in {"prepared", "open", "whole"}, S \in SUBSET TargetsOf(ops) :
        Applies(ops, phase, S)
  BY <1>1, ApplyParts
<1> HIDE DEF ops
<1>3. PICK n : /\ n \notin DOMAIN journals /\ DOMAIN journals' = DOMAIN journals \cup {n}
               /\ journals'[n] = [phase |-> phase, ops |-> ops, before |-> files]
               /\ \A i \in DOMAIN journals : journals'[i] = journals[i]
  BY <1>1, <1>2, RecordLast DEF Applies
<1>4. NoneOpen BY <1>3 DEF UndoesOpen, NoneOpen
<1>5. \A i : IsOpen(i)' <=> i = n /\ phase = "open" BY <1>3, <1>4 DEF IsOpen, NoneOpen
<1>6. \A l \in Locations : /\ ops[l] = Keep => files'[l] = files[l]
                           /\ phase = "whole" /\ ops[l] # Keep => files'[l].data = ops[l]
                           /\ phase = "prepared" => files'[l] = files[l]
  BY <1>1, <1>2, InstalledAt DEF Applies
<1>7. OneOpen' BY <1>3, <1>5, <1>6 DEF OneOpen
<1>8. ASSUME NEW l \in Locations, NEW d PROVE Balanced(l, d)'
  <2>1. Start(l, d)' <=> Start(l, d)
    <3>1. /\ Len(journals) \in Nat /\ DOMAIN journals = 1 .. Len(journals)
          /\ journals = [i \in 1 .. Len(journals) |-> journals[i]]
          /\ journals' = Append(journals, [phase |-> phase, ops |-> ops, before |-> files])
      BY <1>1, <1>2 DEF IInv, JournalsOK, Applies, Record
    <3>2. CASE journals = <<>>
      <4>1. DOMAIN journals = {} BY <3>2
      <4>2. journals' # <<>> BY <1>3
      <4>3. journals'[1] = [phase |-> phase, ops |-> ops, before |-> files] BY <3>1, <3>2
      <4> QED BY <3>2, <4>2, <4>3 DEF Start
    <3>3. CASE journals # <<>>
      <4>1. Len(journals) # 0 BY <3>1, <3>3
      <4>2. 1 \in DOMAIN journals BY <3>1, <4>1
      <4>3. journals' # <<>> /\ journals'[1] = journals[1] BY <1>3, <4>2
      <4> QED BY <3>3, <4>3 DEF Start
    <3> QED BY <3>2, <3>3
  <2>2. Base(l, d) <=> files[l].data = d BY <1>4 DEF Base, NoneOpen, IsOpen
  <2>3. Moved(l)' = IF phase = "whole" /\ ops[l] # Keep THEN Moved(l) \cup {n} ELSE Moved(l)
    BY <1>3 DEF Moved
  <2>4. n \notin Moved(l) /\ \A i \in Moved(l) : i \in DOMAIN journals BY <1>3 DEF Moved
  <2>5. Balanced(l, d) BY <1>1 DEF UndoInv
  <2>6. CASE phase = "whole" /\ ops[l] # Keep
    <3>1. WroteIt(l, d)' = IF ops[l] = d THEN WroteIt(l, d) \cup {n} ELSE WroteIt(l, d)
      BY <1>3, <2>3, <2>4, <2>6 DEF WroteIt
    <3>2. ReplacedIt(l, d)' = IF files[l].data = d THEN ReplacedIt(l, d) \cup {n}
                                                   ELSE ReplacedIt(l, d)
      BY <1>3, <2>3, <2>4, <2>6 DEF ReplacedIt
    <3>3. Base(l, d)' <=> ops[l] = d
      BY <1>5, <1>6, <2>6 DEF Base, NoneOpen, IsOpen
    <3>4. n \notin WroteIt(l, d) /\ n \notin ReplacedIt(l, d) BY <2>4 DEF WroteIt, ReplacedIt
    <3>5. IsFiniteSet(WroteIt(l, d)) /\ IsFiniteSet(ReplacedIt(l, d)) BY <1>1, EdgesFinite
    <3>6. PICK in \in {0, 1}, out \in {0, 1}, start \in {0, 1} :
            (in = 1 <=> ops[l] = d) /\ (out = 1 <=> files[l].data = d) /\ (start = 1 <=> Start(l, d))
      OBVIOUS
    <3>7. Cardinality(WroteIt(l, d)) + start = Cardinality(ReplacedIt(l, d)) + out
      BY <2>2, <2>5, <3>6 DEF Balanced, One
    <3>8. Cardinality(WroteIt(l, d)') + start = Cardinality(ReplacedIt(l, d)') + in
      <4>1. PICK I, O : I = WroteIt(l, d) /\ O = ReplacedIt(l, d) OBVIOUS
      <4>2. /\ WroteIt(l, d)' = IF in = 1 THEN I \cup {n} ELSE I
            /\ ReplacedIt(l, d)' = IF out = 1 THEN O \cup {n} ELSE O
        BY <3>1, <3>2, <3>6, <4>1
      <4>3. /\ IsFiniteSet(I) /\ IsFiniteSet(O) /\ n \notin I /\ n \notin O
            /\ Cardinality(I) + start = Cardinality(O) + out
        BY <3>4, <3>5, <3>7, <4>1
      <4> QED BY <3>6, <4>2, <4>3, OneEdge
    <3> QED BY <2>1, <3>3, <3>6, <3>8 DEF Balanced, One
  <2>7. CASE ~(phase = "whole" /\ ops[l] # Keep)
    <3>1. WroteIt(l, d)' = WroteIt(l, d) /\ ReplacedIt(l, d)' = ReplacedIt(l, d)
      BY <1>3, <2>3, <2>4, <2>7 DEF WroteIt, ReplacedIt
    <3>2. Base(l, d)' <=> files[l].data = d
      <4>1. CASE phase = "open" BY <1>3, <1>5, <4>1 DEF Base, NoneOpen, IsOpen
      <4>2. CASE phase # "open"
        <5>1. NoneOpen' BY <1>5, <4>2 DEF NoneOpen, IsOpen
        <5>2. files'[l] = files[l] BY <1>6, <2>7, <4>2
        <5> QED BY <1>5, <4>2, <5>1, <5>2 DEF Base
      <4> QED BY <4>1, <4>2
    <3> QED BY <2>1, <2>2, <2>5, <3>1, <3>2 DEF Balanced, One
  <2> QED BY <2>6, <2>7
<1> QED BY <1>7, <1>8

LEMMA RollbackBalances ==
  ASSUME UndoInv, edits = 0, UndoesOpen, NEW i \in DOMAIN journals, Rollback(i)
  PROVE  OneOpen' /\ \A l \in Locations : \A d : Balanced(l, d)'
<1> DEFINE ops == journals[i].ops
           before == journals[i].before
<1>1. IInv /\ OneOpen BY DEF UndoInv
<1>2. /\ DOMAIN journals' = DOMAIN journals
      /\ journals'[i].phase = "undone" /\ journals'[i].ops = ops /\ journals'[i].before = before
      /\ \A k \in DOMAIN journals : k # i => journals'[k] = journals[k]
      /\ \A l \in Locations : files'[l] = IF ops[l] # Keep THEN before[l] ELSE files[l]
  BY <1>1, RollbackParts
<1>3. journals[i].phase \in {"open", "whole"}
  BY DEF Rollback, RollbackOK, Rollbackable
<1>4. \A k \in DOMAIN journals : journals[k].phase = "open" => k = i
  BY <1>2, <1>3 DEF UndoesOpen
<1>5. NoneOpen' /\ \A k : ~IsOpen(k)' BY <1>2, <1>4 DEF NoneOpen, IsOpen
<1>6. OneOpen' BY <1>5 DEF OneOpen
<1>7. ASSUME NEW l \in Locations, NEW d PROVE Balanced(l, d)'
  <2>1. Start(l, d)' <=> Start(l, d)
    <3>1. journals # <<>> /\ journals' # <<>> BY <1>2
    <3>2. /\ Len(journals) \in Nat /\ DOMAIN journals = 1 .. Len(journals)
      BY <1>1 DEF IInv, JournalsOK
    <3>3. 1 \in DOMAIN journals BY <3>2
    <3>4. journals'[1].before = journals[1].before BY <1>2, <3>3
    <3> QED BY <3>1, <3>4 DEF Start
  <2>2. Base(l, d)' <=> files'[l].data = d BY <1>5 DEF Base
  <2>3. Balanced(l, d) BY DEF UndoInv
  <2>4. Moved(l)' = Moved(l) \ {i} BY <1>2 DEF Moved
  <2>5. \A k \in Moved(l) \ {i} : k \in DOMAIN journals /\ journals'[k] = journals[k]
    BY <1>2 DEF Moved
  <2>6. CASE journals[i].phase = "whole" /\ ops[l] # Keep
    <3>1. i \in Moved(l) BY <2>6 DEF Moved
    <3>2. /\ i \notin WroteIt(l, d)' /\ i \notin ReplacedIt(l, d)'
          /\ WroteIt(l, d) = IF ops[l] = d THEN WroteIt(l, d)' \cup {i} ELSE WroteIt(l, d)'
      BY <2>4, <2>5, <3>1 DEF WroteIt, ReplacedIt
    <3>3. ReplacedIt(l, d) = IF before[l].data = d THEN ReplacedIt(l, d)' \cup {i}
                                                   ELSE ReplacedIt(l, d)'
      BY <2>4, <2>5, <3>1 DEF ReplacedIt
    <3>4. files[l].data = ops[l] /\ files'[l] = before[l]
      BY <1>1, <1>2, <2>6, RollbackParts
    <3>5. Base(l, d) <=> ops[l] = d
      BY <1>4, <2>6, <3>4 DEF Base, NoneOpen, IsOpen
    <3>6. IsFiniteSet(WroteIt(l, d)') /\ IsFiniteSet(ReplacedIt(l, d)')
      <4>1. WroteIt(l, d)' \subseteq WroteIt(l, d) /\ ReplacedIt(l, d)' \subseteq ReplacedIt(l, d)
        BY <3>2, <3>3
      <4> QED BY <1>1, <4>1, EdgesFinite, FS_Subset
    <3>7. PICK in \in {0, 1}, out \in {0, 1}, start \in {0, 1} :
            (in = 1 <=> ops[l] = d) /\ (out = 1 <=> before[l].data = d) /\ (start = 1 <=> Start(l, d))
      OBVIOUS
    <3>8. Cardinality(WroteIt(l, d)) + start = Cardinality(ReplacedIt(l, d)) + in
      BY <2>3, <3>5, <3>7 DEF Balanced, One
    <3>9. Cardinality(WroteIt(l, d)') + start = Cardinality(ReplacedIt(l, d)') + out
      <4>1. PICK I, O : I = WroteIt(l, d)' /\ O = ReplacedIt(l, d)' OBVIOUS
      <4>2. /\ WroteIt(l, d) = IF in = 1 THEN I \cup {i} ELSE I
            /\ ReplacedIt(l, d) = IF out = 1 THEN O \cup {i} ELSE O
        BY <3>2, <3>3, <3>7, <4>1
      <4>3. IsFiniteSet(I) /\ IsFiniteSet(O) /\ i \notin I /\ i \notin O
        BY <3>2, <3>6, <4>1
      <4>4. Cardinality(I) + start = Cardinality(O) + out
        BY <3>7, <3>8, <4>2, <4>3, OneEdge
      <4> QED BY <4>1, <4>4
    <3> QED BY <2>1, <2>2, <3>4, <3>7, <3>9 DEF Balanced, One
  <2>7. CASE ~(journals[i].phase = "whole" /\ ops[l] # Keep)
    <3>1. i \notin Moved(l) BY <2>7 DEF Moved
    <3>2. WroteIt(l, d)' = WroteIt(l, d) /\ ReplacedIt(l, d)' = ReplacedIt(l, d)
      BY <2>4, <2>5, <3>1 DEF WroteIt, ReplacedIt
    <3>3. Base(l, d)' <=> Base(l, d)
      <4>1. CASE journals[i].phase = "open"
        <5>1. IsOpen(i) /\ ~NoneOpen BY <4>1 DEF IsOpen, NoneOpen
        <5>2. files'[l].data = before[l].data BY <1>1, <1>2, <5>1 DEF OneOpen
        <5> QED BY <1>1, <2>2, <5>1, <5>2 DEF Base, OneOpen
      <4>2. CASE journals[i].phase # "open"
        <5>1. NoneOpen /\ \A k : ~IsOpen(k) BY <1>4, <4>2 DEF NoneOpen, IsOpen
        <5>2. files'[l] = files[l] BY <1>2, <1>3, <2>7, <4>2
        <5> QED BY <2>2, <5>1, <5>2 DEF Base
      <4> QED BY <4>1, <4>2
    <3> QED BY <2>1, <2>3, <3>2, <3>3 DEF Balanced, One
  <2> QED BY <2>6, <2>7
<1> QED BY <1>6, <1>7

LEMMA NextBalances ==
  ASSUME UndoInv, UndoesOpen, [Next]_vars
  PROVE  UndoInv'
<1>1. IInv' BY NextHolds DEF UndoInv
<1>2. edits \in Nat BY BoundsAreNat DEF UndoInv, IInv, CountersOK
<1>3. ASSUME UNCHANGED <<files, journals>>
      PROVE  (OneOpen => OneOpen') /\ \A l, d : Balanced(l, d) => Balanced(l, d)'
  <2>1. (NoneOpen' <=> NoneOpen) /\ \A i : IsOpen(i)' <=> IsOpen(i)
    BY <1>3 DEF IsOpen, NoneOpen
  <2>2. \A l, d : WroteIt(l, d)' = WroteIt(l, d) /\ ReplacedIt(l, d)' = ReplacedIt(l, d)
    <3>1. \A l : Moved(l)' = Moved(l) BY <1>3 DEF Moved
    <3> QED BY <1>3, <3>1 DEF WroteIt, ReplacedIt
  <2>3. \A l, d : (Start(l, d)' <=> Start(l, d)) /\ (Base(l, d)' <=> Base(l, d))
    BY <1>3, <2>1 DEF Start, Base
  <2>4. OneOpen => OneOpen' BY <1>3, <2>1 DEF OneOpen
  <2>5. \A l, d : Balanced(l, d) => Balanced(l, d)' BY <2>2, <2>3 DEF Balanced, One
  <2> QED BY <2>4, <2>5
<1>4. CASE UNCHANGED <<files, journals, edits>> BY <1>1, <1>3, <1>4 DEF UndoInv
<1>5. ASSUME NEW s \in Slots, Apply(s) \/ ApplyStuck(s) PROVE UndoInv'
  <2>1. edits' = edits BY <1>5 DEF Apply, ApplyStuck, counters
  <2> QED BY <1>1, <1>5, <2>1, ApplyBalances DEF UndoInv
<1>6. ASSUME NEW i \in DOMAIN journals, Rollback(i) PROVE UndoInv'
  <2>1. edits' = edits BY <1>6 DEF Rollback, counters
  <2> QED BY <1>1, <1>6, <2>1, RollbackBalances DEF UndoInv
<1>7. ASSUME NEW l \in Locations, Edit(l) PROVE UndoInv'
  <2>1. edits' # 0 BY <1>2, <1>7 DEF Edit
  <2> QED BY <1>1, <2>1 DEF UndoInv
<1>8. CASE Upgrade \/ UNCHANGED vars BY <1>4, <1>8 DEF Upgrade, vars, counters
<1>9. ASSUME NEW s \in Slots, NEW layout \in Layouts,
             PreviewInit(s, layout) \/ \E without \in SUBSET Options : PreviewSetup(s, layout, without)
      PROVE  UndoInv'
  BY <1>4, <1>9 DEF PreviewInit, PreviewSetup
<1> QED BY <1>5, <1>6, <1>7, <1>8, <1>9 DEF Next

\* When every transaction that was applied is rolled back, in any order that
\* rollback_transaction accepts, every file has the content it had before the first
\* (setup.py:277, engine.py:198).
THEOREM RollingBackRestores == Spec /\ RecoveredFirst => []UninstallRestores
<1>1. Init => UndoInv
  <2>1. SUFFICES ASSUME Init PROVE UndoInv OBVIOUS
  <2>2. journals = <<>> /\ DOMAIN journals = {} BY <2>1 DEF Init
  <2>3. OneOpen BY <2>2 DEF OneOpen, IsOpen
  <2>4. ASSUME NEW l, NEW d PROVE Balanced(l, d)
    <3>1. WroteIt(l, d) = {} /\ ReplacedIt(l, d) = {} BY <2>2 DEF WroteIt, ReplacedIt, Moved
    <3>2. Start(l, d) <=> Base(l, d) BY <2>2 DEF Start, Base, NoneOpen, IsOpen
    <3> QED BY <3>1, <3>2 DEF Balanced, One
  <2> QED BY <2>1, <2>3, <2>4, InitHolds DEF UndoInv
<1>2. UndoInv /\ UndoesOpen /\ [Next]_vars => UndoInv' BY NextBalances
<1>3. UndoInv => UninstallRestores
  <2> SUFFICES ASSUME UndoInv, edits = 0, journals # <<>>, NEW l \in Locations,
                      \A i \in DOMAIN journals : journals[i].phase \in {"undone", "prepared"}
               PROVE  files[l].data = journals[1].before[l].data
    BY DEF UninstallRestores
  <2> DEFINE d == journals[1].before[l].data
  <2>1. Balanced(l, d) BY DEF UndoInv
  <2>2. WroteIt(l, d) = {} /\ ReplacedIt(l, d) = {} BY DEF WroteIt, ReplacedIt, Moved
  <2>3. Start(l, d) BY DEF Start
  <2>4. One(Start(l, d)) = 1 BY <2>3 DEF One
  <2>5. One(Base(l, d)) = 1 BY <2>1, <2>2, <2>4, FS_EmptySet DEF Balanced, One
  <2>6. Base(l, d) BY <2>5 DEF One
  <2> QED BY <2>6 DEF Base, IsOpen
<1>4. RecoveredFirst => [][UndoesOpen]_vars BY PTL DEF RecoveredFirst, UndoesOpen
<1>5. UndoInv /\ [Next /\ UndoesOpen]_vars => UndoInv'
  <2>1. UNCHANGED vars => UndoesOpen BY DEF vars, UndoesOpen
  <2> QED BY <1>2, <2>1
<1> QED BY <1>1, <1>3, <1>4, <1>5, PTL DEF Spec
===============================================================================
