------------------------------- MODULE SetupPlan -------------------------------
(***************************************************************************)
(* Setup (setup.py, layout.py): plans that install a release of the        *)
(* manager into a scope, upgrade it, and remove options from it.  Only the *)
(* manifest remembers what the manager wrote: a plan is made by comparing  *)
(* the files with the digests the manifest lists, and the manifest is a    *)
(* target of the plan like any other.                                      *)
(*                                                                         *)
(* A transaction is one step here, as ScopeContract allows.  doctor is an  *)
(* operator: the locations it blocks on.                                   *)
(***************************************************************************)
EXTENDS Integers, Sequences, FiniteSets, TransactionSteps

CONSTANTS
  Paths,               \* outputs of setup, the manifest apart
  Kind,                \* Paths -> "canonical", "seeded", "generated", "merged"
  Options, Always,     \* skills and the statusline; what is no option
  OptionOf,            \* Paths -> the option a path belongs to, or Always
  SkillFile, NoSkill,      \* files of a canonical skill -> its SKILL.md
  Core,                \* the files doctor requires
  Releases, Layouts,   \* a layout is a profile and a set of agents
  Contents, Absent, Empty,
  UserContents,        \* contents the user may write
  Shipped,             \* Releases -> Layouts -> Paths -> content, or Absent
  Norm,                \* content with the runtime roots replaced
  Merge,               \* Layouts -> an ignore file with the managed block put in
  Slots,               \* plan files the user keeps
  RecoverFirst,        \* a transaction left open is rolled back before all else
  MaxPreviews, MaxInits, MaxApplies, MaxEdits, MaxStops, MaxUpgrades

Data == Contents \cup {Absent}

ASSUME ConstantsAssumption ==
  /\ Kind \in [Paths -> {"canonical", "seeded", "generated", "merged"}]
  /\ OptionOf \in [Paths -> Options \cup {Always}] /\ Always \notin Options
  /\ SkillFile \in [Paths -> Paths \cup {NoSkill}] /\ Core \subseteq Paths
  /\ Shipped \in [Releases -> [Layouts -> [Paths -> Data]]]
  /\ Absent \notin Contents /\ UserContents \cup {Empty} \subseteq Contents
  /\ Norm \in [Contents -> Contents] /\ Merge \in [Layouts -> [Data -> Data]]
  /\ RecoverFirst \in BOOLEAN
  /\ {MaxPreviews, MaxInits, MaxApplies, MaxEdits, MaxStops, MaxUpgrades} \subseteq Nat

VARIABLES
  files,       \* what is at a location, and who put it there
  release,     \* the release setup runs from
  plans,       \* the plan files
  journals,    \* the transactions of the scope, in order
  intact,      \* history: the user never removed the manifest or a file it listed
  previews, inits, edits, stops, upgrades

counters == <<previews, inits, edits, stops, upgrades>>
vars == <<files, release, plans, journals, intact, counters>>

ManifestFile == "manifest.json"

\* A normal form is its own (no root is a part of the placeholders that replace
\* the roots), and the manifest is no output among others.
ASSUME NormAssumption ==
  /\ \A d \in Contents : Norm[Norm[d]] = Norm[d]
  /\ ManifestFile \notin Paths

Locations == Paths \cup {ManifestFile}

\* A digest is known by the content it is the digest of.
Manifests == [layout : Layouts, digests : [Paths -> Data]]
Unlisted == Absent

\* No content, and no manifest, is taken for "nothing to do" or for "no file".
ASSUME ManifestAssumption == Keep \notin Data \cup Manifests /\ Absent \notin Manifests

Version == [data : Data \cup Manifests, by : {"user", "manager", "nobody"}]
NoOps == [l \in Locations |-> Keep]

TypeOK ==
  /\ DOMAIN files = Locations
  /\ \A l \in Locations : files[l] \in Version
  /\ files[ManifestFile].data \in Manifests \cup {Absent}
  /\ release \in Releases /\ intact \in BOOLEAN
  /\ \A s \in Slots, l \in Locations :
       plans[s].ops[l] \in Data \cup Manifests \cup {Keep}
  /\ \A i \in DOMAIN journals :
       /\ journals[i].phase \in {"prepared", "open", "whole", "undone"}
       /\ \A l \in Locations : journals[i].before[l] \in Version
  /\ previews \in 0 .. MaxPreviews /\ inits \in 0 .. MaxInits
  /\ edits \in 0 .. MaxEdits /\ stops \in 0 .. MaxStops
  /\ upgrades \in 0 .. MaxUpgrades

\* The user may have a file where the manager is going to write.
Init ==
  /\ \E p \in Paths, d \in UserContents \cup {Absent} :
       files = [l \in Locations |->
                  IF l = p /\ d # Absent THEN [data |-> d, by |-> "user"]
                                         ELSE [data |-> Absent, by |-> "nobody"]]
  /\ release \in Releases
  /\ plans = [s \in Slots |->
                [ops |-> NoOps, conflicts |-> TRUE,
                 seen |-> [l \in Locations |-> [data |-> Absent]]]]
  /\ journals = <<>> /\ intact = TRUE
  /\ previews = 0 /\ inits = 0 /\ edits = 0 /\ stops = 0 /\ upgrades = 0

-------------------------------------------------------------------------------
(* What the manifest says of the files.                                      *)

Manifest == files[ManifestFile].data
HasManifest == Manifest # Absent
Listed(p) == HasManifest /\ Manifest.digests[p] # Unlisted

\* Slip: contents are compared as they are.
MatchesRaw(digest, content) == digest = content

\* The content has the digest, as it is or with the runtime roots replaced.
Matches(digest, content) ==
  content # Absent /\ digest \in {content, Norm[content]}

Unmodified(p) == Listed(p) /\ Matches(Manifest.digests[p], files[p].data)

\* _can_write: for the files of the neutral core, by the plain digest.
CanWrite(p) ==
  files[p].data \in {Absent, IF HasManifest THEN Manifest.digests[p] ELSE Empty}

-------------------------------------------------------------------------------
(* Previews.                                                                 *)

\* Another profile or other agents than the manifest's are refused.
Compatible(layout) == HasManifest => Manifest.layout = layout

New(p, layout) == Shipped[release][layout][p]

Wanted(p, layout, without) == New(p, layout) # Absent /\ OptionOf[p] \notin without

\* Slip: only the SKILL.md of an excluded skill is removed.
RemovedHead(p, without) == OptionOf[p] \in without /\ Listed(p) /\ SkillFile[p] = p

\* A listed file of an excluded option.
Removed(p, without) == OptionOf[p] \in without /\ Listed(p)

\* The core, written by setup and by `plan init`: canonical files always, seeds
\* when they are missing, ignore files with the managed block.
CoreData(p, layout) ==
  LET old == files[p].data IN
  CASE Kind[p] = "canonical" -> New(p, layout)
    [] Kind[p] = "seeded" /\ old = Absent -> New(p, layout)
    [] Kind[p] = "merged" /\ Merge[layout][old] # old -> Merge[layout][old]
    [] OTHER -> Keep

CoreConflicts == {p \in Paths : Kind[p] = "canonical" /\ ~CanWrite(p)}

SetupData(p, layout, without) ==
  CASE Kind[p] # "generated" -> CoreData(p, layout)
    [] Kind[p] = "generated" /\ Wanted(p, layout, without) -> New(p, layout)
    [] Kind[p] = "generated" /\ Removed(p, without) /\ files[p].data # Absent -> Absent
    [] OTHER -> Keep

SetupConflicts(layout, without) ==
  CoreConflicts \cup
  {p \in Paths : /\ Kind[p] = "generated"
                 /\ Wanted(p, layout, without) \/ Removed(p, without)
                 /\ files[p].data # Absent
                 /\ ~Unmodified(p)}

\* Slip: the manifest lists what the release ships, excluded or not.
AllDigests(layout, without) ==
  [p \in Paths |-> IF /\ Kind[p] \in {"canonical", "generated"}
                      /\ New(p, layout) # Absent
                   THEN Norm[New(p, layout)] ELSE Unlisted]

SetupDigests(layout, without) ==
  [p \in Paths |-> IF /\ Kind[p] \in {"canonical", "generated"}
                      /\ Wanted(p, layout, without)
                   THEN Norm[New(p, layout)] ELSE Unlisted]

InitDigests(layout) ==
  [p \in Paths |-> IF Kind[p] = "canonical" THEN New(p, layout) ELSE Unlisted]

WithManifest(data, layout, digests) ==
  [l \in Locations |-> IF l = ManifestFile THEN [layout |-> layout, digests |-> digests]
                                           ELSE data[l]]

\* expected_sha256 of the operations.
Expected(ops) ==
  [l \in Locations |-> [data |-> IF ops[l] = Keep THEN Absent ELSE files[l].data]]

PlanFor(ops) == [ops |-> ops, seen |-> Expected(ops), conflicts |-> FALSE]

\* A plan with conflicts will not be applied.
Conflicting == [PlanFor(NoOps) EXCEPT !.conflicts = TRUE]

Save(s, ops, conflicts) ==
  plans' = [plans EXCEPT ![s] = IF conflicts = {} THEN PlanFor(ops) ELSE Conflicting]

NoneOpen == \A i \in DOMAIN journals : journals[i].phase # "open"

\* The order doctor asks for; the code does not enforce it.
Recovered == RecoverFirst => NoneOpen

CountPreview == Recovered /\ previews < MaxPreviews /\ previews' = previews + 1

PreviewSetup(s, layout, without) ==
  /\ CountPreview
  /\ Compatible(layout)
  /\ Save(s, WithManifest([p \in Paths |-> SetupData(p, layout, without)], layout,
                          SetupDigests(layout, without)),
             SetupConflicts(layout, without))
  /\ UNCHANGED <<files, release, journals, intact, inits, edits, stops, upgrades>>

\* `plan init` knows of the core only, and so does the manifest it writes.
PreviewInit(s, layout) ==
  /\ CountPreview
  /\ inits < MaxInits /\ inits' = inits + 1
  /\ Compatible(layout)
  /\ Save(s, WithManifest([p \in Paths |-> CoreData(p, layout)], layout,
                          InitDigests(layout)),
             CoreConflicts)
  /\ UNCHANGED <<files, release, journals, intact, edits, stops, upgrades>>

-------------------------------------------------------------------------------
(* The transactions, by their contract.                                      *)

Record(phase, ops) ==
  /\ Len(journals) < MaxApplies
  /\ journals' = Append(journals, [phase |-> phase, ops |-> ops, before |-> files])

Applicable(s) ==
  /\ Recovered
  /\ ~plans[s].conflicts
  /\ Approved(files, plans[s].ops, plans[s].seen)

Apply(s) ==
  LET ops == plans[s].ops IN
  /\ Applicable(s)
  /\ files' = Installed(files, ops, TargetsOf(ops))
  /\ Record("whole", ops)
  /\ UNCHANGED <<release, plans, intact, counters>>

\* apply_plan dies, or cannot undo, or raises between journal and commit.
ApplyStuck(s) ==
  LET ops == plans[s].ops IN
  /\ stops < MaxStops /\ stops' = stops + 1
  /\ Applicable(s)
  /\ \/ /\ \E S \in SUBSET TargetsOf(ops) : files' = Installed(files, ops, S)
        /\ Record("open", ops)
     \/ Record("prepared", ops) /\ UNCHANGED files
  /\ UNCHANGED <<release, plans, intact, previews, inits, edits, upgrades>>

Rollback(i) ==
  /\ RollbackOK(files, journals[i])
  /\ files' = Restored(files, journals[i])
  /\ journals' = [journals EXCEPT ![i].phase = "undone"]
  /\ UNCHANGED <<release, plans, intact, counters>>

-------------------------------------------------------------------------------
(* The user.                                                                 *)

\* The user writes or removes a file, or removes the manifest.
Edit(l) ==
  /\ edits < MaxEdits /\ edits' = edits + 1
  /\ \E d \in {Absent} \cup IF l = ManifestFile THEN {} ELSE UserContents :
       /\ d # files[l].data
       /\ files' = [files EXCEPT ![l] = [data |-> d, by |-> "user"]]
       /\ intact' = (intact /\ ~(d = Absent /\ (l = ManifestFile \/ Listed(l))))
  /\ UNCHANGED <<release, plans, journals, previews, inits, stops, upgrades>>

\* Another checkout of the manager.
Upgrade ==
  /\ upgrades < MaxUpgrades /\ upgrades' = upgrades + 1
  /\ release' \in Releases \ {release}
  /\ UNCHANGED <<files, plans, journals, intact, previews, inits, edits, stops>>

-------------------------------------------------------------------------------

Next ==
  \/ \E s \in Slots :
       \/ \E layout \in Layouts, without \in SUBSET Options : PreviewSetup(s, layout, without)
       \/ \E layout \in Layouts : PreviewInit(s, layout)
       \/ Apply(s)
       \/ ApplyStuck(s)
  \/ \E i \in DOMAIN journals : Rollback(i)
  \/ \E l \in Locations : Edit(l)
  \/ Upgrade

Spec == Init /\ [][Next]_vars
-------------------------------------------------------------------------------
(* doctor: the locations it blocks on, the journals apart.                   *)

Headless == {SkillFile[p] : p \in {q \in Paths : /\ SkillFile[q] # NoSkill
                                            /\ files[q].data # Absent
                                            /\ files[SkillFile[q]].data = Absent}}

Changed == {p \in Paths : Listed(p) /\ ~Unmodified(p)}
MissingCore == {p \in Core : files[p].data = Absent}

\* Without a manifest doctor looks at the core and no further.
Doctor ==
  IF HasManifest THEN Changed \cup MissingCore \cup Headless
                 ELSE {ManifestFile} \cup MissingCore

-------------------------------------------------------------------------------
(* Properties.                                                               *)

\* No transaction is half way, and the manifest is the manager's.
Settled == NoneOpen /\ files[ManifestFile].by # "user"

\* Nor did the user ever remove the manifest, or a file while it was listed.
Undisturbed == Settled /\ intact

ByUser(p) == files[p].by = "user"

\* The manager has written this content there, runtime roots apart.
WroteBefore(p, d) ==
  \E i \in DOMAIN journals :
    LET o == journals[i].ops[p] IN o \in Contents /\ Norm[o] = Norm[d]

\* The manager replaces or removes what the user wrote only where the same content
\* is its own, or the file is empty, or the user's text stays in it; whatever the
\* order of previews, upgrades, applies, stuck applies and rollbacks.
UserWorkKept ==
  [][\A p \in Paths :
       LET d == files[p].data IN
       /\ ByUser(p) /\ d \notin {Absent, Empty}
       /\ files'[p] # files[p] /\ edits' = edits
       => \/ WroteBefore(p, d)
          \/ \E layout \in Layouts : files'[p].data = Merge[layout][d]]_vars

\* A listed file that is missing or changed, though the user did not do it.
Untrue(p) == Listed(p) /\ ~Unmodified(p) /\ ~ByUser(p)

\* A file of the manager's that the manifest does not list.
Orphan(p) ==
  /\ Kind[p] \in {"canonical", "generated"}
  /\ files[p].by = "manager" /\ files[p].data # Absent
  /\ ~Listed(p)

\* Some release has the output and another one does not.
Dropped(p) ==
  \E layout \in Layouts, r, q \in Releases :
    Shipped[r][layout][p] # Absent /\ Shipped[q][layout][p] = Absent

\* The manifest never lists a digest for a file that the manager left with other
\* content, with plans of any age, upgrades, exclusions and rollbacks in any order;
\* outputs that a release drops excepted.
ManifestTruthful == Undisturbed => \A p \in Paths : Untrue(p) => Dropped(p)

\* What the manager put into the scope is listed, so that a later setup can
\* replace it and remove it; with the same exception.
NoOrphans == Undisturbed => \A p \in Paths : Orphan(p) => Dropped(p)

\* Repeated setup is idempotent: only the user's changes can be in its way,
\* whichever options are excluded.
BlockedByUserOnly ==
  Undisturbed /\ HasManifest => \A without \in SUBSET Options :
    \A p \in SetupConflicts(Manifest.layout, without) : ByUser(p)

\* doctor finds nothing to block on but what the user wrote: a skill without its
\* SKILL.md has a file of the user's.
DoctorBlamesUser ==
  Undisturbed /\ HasManifest => \A p \in Doctor :
    \E q \in Paths : ByUser(q) /\ (q = p \/ SkillFile[q] = p)

\* When every transaction is rolled back, in any order the hash checks allow, every
\* file has the content it had before the first.
UninstallRestores ==
  /\ edits = 0 /\ journals # <<>>
  /\ \A i \in DOMAIN journals : journals[i].phase \in {"undone", "prepared"}
  => \A l \in Locations : files[l].data = journals[1].before[l].data
===============================================================================
