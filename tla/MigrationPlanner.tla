--------------------------- MODULE MigrationPlanner ---------------------------
(***************************************************************************)
(* The commands of `agent-workflow migrate`: scan, normalize,              *)
(* classify-request, validate-response, plan and apply.  They talk through *)
(* documents on disk, each of which may be older than the next one, and    *)
(* every one of them reads the native files again.                         *)
(*                                                                         *)
(* build_migration_plan is the heart of it: it reads the files three times *)
(* (verify, screen, write), and the user may edit between any two reads.   *)
(* What apply does step by step is in MigrationApply; it is an import and  *)
(* a replacement here.                                                     *)
(***************************************************************************)
EXTENDS NativeMapping

CONSTANTS
  EntrypointOf,    \* the rules file that an agent's adapter renders, or 0
  InNeutral,       \* sources that are skills of the neutral scope (already_neutral)
  Hosts,           \* the native files at the start
  Variants,        \* what the user may write into a source
  Options,         \* <<kind, name, agent>> the classifying agent may decide
  Targets,         \* the sets of agents that a migration is asked for
  Times,           \* values of --imported-at
  Caches,          \* values of --include-native-cache
  Strays,          \* sources that a response may decide although nobody asked
  OwnPaths, Own,   \* neutral files the user may write, and what may be in them
  OwnMarks,        \* what can be told of a neutral file of the user's by reading it
  None,
  MaxEdits

VARIABLES
  native,       \* the native files
  neutral,      \* the neutral files, by path
  manifest,     \* the generated entrypoints the manifest lists, or None
  replacements, \* workflow/migration-replacements.json
  inventory, normalized, request, response, plan,     \* the documents
  pc, work,     \* the running command
  outcome,      \* how the last apply ended
  done,         \* the last applied migration, if its files are as it left them
  touched,      \* has the user changed neutral files since the planner read them?
  shaken,       \* the sources that changed while the planner ran
  verified,     \* the sources as apply hashed them last, or None
  edits

documents == <<inventory, normalized, request, response>>
scope == <<native, neutral, manifest, replacements>>
notes == <<done, touched, shaken, verified, edits>>
vars == <<scope, documents, plan, pc, work, outcome, notes>>

-------------------------------------------------------------------------------
(* What the constants stand for.                                             *)

\* What a user has at s: a skill is a directory of files with names, anything else
\* is one file.  A text is one word, and none that the manager writes for itself.  What
\* is left when pieces are deleted is something.
Authored(s, c) ==
  /\ c = [files |-> c.files, marks |-> c.marks, fields |-> c.fields]
  /\ c.files # {}
  /\ \A f \in c.files :
       /\ f = <<f[1], <<f[2][1]>>>> /\ f[2][1] \notin {"entry", "index", "abridged"}
       /\ f[1] \in Word /\ (f[1] = "" <=> KindOf[s] # "skill")
  /\ \A f, g \in c.files : f[1] = g[1] => f = g
  /\ \A left \in SUBSET c.files : [c EXCEPT !.files = left] # Absent

\* A host may have entrypoints that its manifest lists.
ASSUME HostsAssumption ==
  /\ \A h \in Hosts :
       /\ h.native = [s \in Sources |-> h.native[s]]
       /\ h.manifest # None => \A l \in h.manifest : l[1] \in Sources
       /\ \A s \in Sources : h.native[s] # Absent =>
            \/ Authored(s, h.native[s])
            \/ /\ h.manifest # None /\ <<s, h.native[s]>> \in h.manifest
               /\ KindOf[s] # "skill"
  /\ \A s \in Sources \ InNeutral : \A c \in Variants[s] : Authored(s, c)
  /\ MaxEdits \in Nat

\* Rules files are entrypoints, and skills are in the neutral scope.
ASSUME AgentsAssumption ==
  /\ \A targets \in Targets : \A a \in targets :
       EntrypointOf[a] # 0 => EntrypointOf[a] \in Sources /\ KindOf[EntrypointOf[a]] = "rules"
  /\ \A s \in InNeutral : s \in Sources /\ KindOf[s] = "skill"
  /\ 0 \notin Sources

\* A response with other kinds or names does not load.  The user's own files have
\* names.
ASSUME OptionsAssumption ==
  /\ \A o \in Options : o[1] \in DecisionKinds /\ o[2] \in Seq(Word) /\ o[3] \in Word
  /\ \A p \in OwnPaths : p \in Seq(Word) /\ p # <<>> /\ p[Len(p)] # ""

-------------------------------------------------------------------------------
(* What the commands read.                                                   *)

MarksOf(data) == IF data \in DOMAIN OwnMarks THEN OwnMarks[data] ELSE {}

\* The files below <neutral root>/skills/<name>, as a skill of their own.
NeutralSkill(s) ==
  LET dest == <<"skills">> \o NameOf[s]
      inside == {p \in DOMAIN neutral : Len(p) = Len(dest) + 1
                                        /\ SubSeq(p, 1, Len(dest)) = dest}
  IN  IF Append(dest, "SKILL.md") \notin inside THEN Absent
      ELSE [files |-> {<<p[Len(p)], neutral[p]>> : p \in inside},
            marks |-> UNION {MarksOf(neutral[p]) : p \in inside}, fields |-> {}]

Now == [s \in Sources |-> IF s \in InNeutral THEN NeutralSkill(s) ELSE native[s]]

\* A neutral path has a file with this digest.
Holds(path, data) == path \in DOMAIN neutral /\ neutral[path] = data

Listed == IF manifest = None THEN {} ELSE manifest

\* Slip: what is declared is not looked for.
ScannedAll == {Record(s, Now[s]) : s \in {x \in Sources : <<x, Now[x]>> \notin Listed}}

\* The manager's own entrypoints are left out as long as nobody changed them.
ScannedRecords ==
  {Record(s, Now[s]) : s \in {x \in Sources : Now[x] # Absent /\ <<x, Now[x]>> \notin Listed}}

\* load_migration_inventory: every source must still be there.
Loaded == inventory # None /\ \A r \in inventory : Now[r.src] # Absent

-------------------------------------------------------------------------------
(* scan, normalize, classify-request, validate-response.  A command that     *)
(* raises writes nothing: it is the absence of a step.                       *)

Scan ==
  /\ pc = "idle"
  /\ inventory' = ScannedRecords
  /\ UNCHANGED <<scope, normalized, request, response, plan, pc, work, outcome, notes>>

Normalize(cache) ==
  /\ pc = "idle"
  /\ Loaded
  /\ \A r \in inventory : ~NormalizeFails(r, Now[r.src], cache)
  /\ normalized' = NormalizedBatch(inventory, cache)
  /\ UNCHANGED <<scope, inventory, request, response, plan, pc, work, outcome, notes>>

ClassifyRequest ==
  /\ pc = "idle"
  /\ Loaded
  /\ ~RequestFails(inventory, Now)
  /\ request' = Request(inventory)
  /\ UNCHANGED <<scope, inventory, normalized, response, plan, pc, work, outcome, notes>>

\* When nothing is asked, any artifact that the agent knows of can be decided.
Answerable ==
  IF Ids(request) # {} THEN Ids(request)
  ELSE {Identity(r) : r \in {x \in ScannedRecords : x.src \in Strays}}

\* The classifying agent answers the request it was given, or a part of it.
Respond ==
  /\ pc = "idle"
  /\ request # None
  /\ \E ids \in SUBSET Answerable : \E choice \in [ids -> Options] :
       response' = [request |-> request,
                    decisions |-> {Decision(i, choice[i][1], choice[i][2], choice[i][3]) : i \in ids}]
  /\ UNCHANGED <<scope, inventory, normalized, request, plan, pc, work, outcome, notes>>

\* `migrate validate-response` reads the request back from disk.
ValidateResponse ==
  /\ pc = "idle"
  /\ request # None /\ response # None
  /\ outcome' = IF Reloads(request) /\ Valid(response, request) THEN "valid" ELSE "invalid"
  /\ UNCHANGED <<scope, documents, plan, pc, work, notes>>

-------------------------------------------------------------------------------
(* plan                                                                      *)

Goto(label) == pc' = label

Planning == pc \in {"verify", "screen", "write"}

\* The handler loads the documents, rebuilds the request and maps the settings.
Plan(targets, importedAt, replaceNative, cache, answered) ==
  LET rebuilt == Request(inventory)
  IN  /\ pc = "idle"
      /\ Loaded /\ normalized # None
      /\ ~RequestFails(inventory, Now)
      /\ IF answered THEN response # None /\ Valid(response, rebuilt)
                     ELSE rebuilt.artifacts = {}
      /\ ~MappingFails(inventory, Now)
      /\ Goto("verify")
      /\ shaken' = {}
      /\ work' = [targets |-> targets, importedAt |-> importedAt,
                  replaceNative |-> replaceNative, cache |-> cache,
                  decisions |-> IF answered THEN response.decisions ELSE {},
                  artifacts |-> {}, conflicts |-> {}, migrated |-> {}, imports |-> {},
                  seen |-> neutral]
      /\ UNCHANGED <<scope, documents, plan, outcome, done, touched, verified, edits>>


\* Slip: the decisions are added without looking for collisions.
Added(A, B) == [artifacts |-> A \cup B, conflicts |-> {}, duplicates |-> {}]

Combined(A, B) == Batch(A \cup B)

\* First read: the normal form is computed again and compared with the document.
\* Decisions come on top, and everything is grouped by destination once more.
Verify ==
  LET batch == NormalizedBatch(inventory, work.cache)
      tampered == normalized # batch
      classified == Classified(inventory, [decisions |-> work.decisions], Now)
      combined == Combined(batch.artifacts, classified.artifacts)
      suspect == IF tampered THEN {Identity(a) : a \in batch.artifacts} ELSE {}
  IN  /\ pc = "verify"
      /\ \A r \in inventory : ~NormalizeFails(r, Now[r.src], work.cache)
      /\ work' = [work EXCEPT
           !.artifacts = {a \in combined.artifacts : Identity(a) \notin suspect},
           !.conflicts = {<<"destination", d>> : d \in batch.conflicts \cup combined.conflicts}
                         \cup classified.conflicts
                         \cup {<<"tampered", 0>> : t \in {tampered} \cap {TRUE}}]
      /\ Goto("screen")
      /\ UNCHANGED <<scope, documents, plan, outcome, notes>>

IsDirectory(a) == KindOf[a.src] = "skill"

\* Slip: directories are not screened.
FilesWithheld(a) == ~IsDirectory(a) /\ (Now[a.src] = Absent \/ Sensitive(a.sha))

\* A directory is screened as it is now; a file that is not what the inventory
\* hashed raises.  What is gone cannot be read and counts as sensitive.
Withheld(a) ==
  IF Now[a.src] = Absent THEN TRUE
  ELSE IF IsDirectory(a) THEN Replaced(Now[a.src]) \/ "blocked" \in Now[a.src].marks
  ELSE Sensitive(a.sha)

ScreenFails(a) == ~IsDirectory(a) /\ Now[a.src] \notin {a.sha, Absent}

\* The files the import has to write, the index of the memories among them.
Desired(passed) ==
  AllOutputs(passed)
  \cup IF Memories(passed) = {} THEN {}
       ELSE {<<IndexPath, MemoryIndex(Memories(passed), work.importedAt)>>}

\* Slip: the planner does not look whether its file is there already.
Unwritten(o) == TRUE

Missing(o) == ~Holds(o[1], o[2])

\* Second read: sensitive sources, and what is at the destinations.
Screen ==
  LET passed == {a \in work.artifacts : ~Withheld(a)}
      writes == {o \in Desired(passed) : Missing(o)}
      clashes == {o \in writes : o[1] \in DOMAIN neutral}
  IN  /\ pc = "screen"
      /\ ~ \E a \in work.artifacts : ScreenFails(a)
      /\ work' = [work EXCEPT
           !.migrated = {Identity(a) : a \in passed},
           !.imports = writes \ clashes,
           !.conflicts = @ \cup {<<"sensitive", a.src>> : a \in work.artifacts \ passed}
                           \cup {<<"unmanaged", o[1]>> : o \in clashes},
           !.seen = neutral]
      /\ Goto("write")
      /\ UNCHANGED <<scope, documents, plan, outcome, notes>>

\* Files and skill directories that a replacement deletes.
Removable(r) ==
  /\ Identity(r) \in work.migrated
  /\ r.src \notin InNeutral
  /\ KindOf[r.src] \notin Native \cup {"rules"}

\* A file is deleted by the digest of the inventory, a directory by listing it.
Pieces(r) ==
  {<<r.src, f[1], f[2]>> : f \in IF IsDirectory(r) THEN Now[r.src].files ELSE r.sha.files}

OverlayPath(agent) == <<"overlays", agent, "RULES.md">>

\* Claude's entrypoint imports the overlay by name, if there is one to import;
\* the entrypoint of Codex asks the reader to look for it.
Entrypoint(agent) ==
  [files |-> Body(<<"entry", agent, agent = "claude" /\ OverlayPath(agent) \in DOMAIN neutral>>),
   marks |-> {}, fields |-> {}]

\* plan_entrypoints of the target adapters.
Entries(targets) ==
  {[src |-> EntrypointOf[a], expected |-> Now[EntrypointOf[a]], content |-> Entrypoint(a)] :
     a \in {t \in targets : EntrypointOf[t] # 0}}

\* Slip: what became of an entrypoint in the inventory is not asked.
ForeignUnlisted(e) ==
  /\ e.expected # Absent /\ <<e.src, e.expected>> \notin Listed
  /\ e.src \notin {r.src : r \in inventory}

\* An entrypoint that is there is neither imported nor the manager's.
Foreign(e) ==
  LET recorded == {r \in inventory : r.src = e.src}
  IN  /\ e.expected # Absent
      /\ IF recorded = {} THEN <<e.src, e.expected>> \notin Listed
         ELSE \A r \in recorded : Identity(r) \notin work.migrated

\* Slip: entrypoints are replaced without being listed as such.
NotTaken(entries) == {}

Taken(entries) ==
  {r \in inventory : \E e \in entries : e.src = r.src /\ e.expected # Absent}

NoReplacement(conflicts, blocked) ==
  [removes |-> {}, entries |-> {}, rewrites |-> FALSE, manifest |-> <<manifest, manifest>>,
   replacements |-> <<replacements, replacements>>, conflicts |-> conflicts, blocked |-> blocked,
   preserved |-> {r.src : r \in inventory}]

Replacement ==
  LET entries == Entries(work.targets)
      gone == {r \in inventory : Removable(r)}
      taken == Taken(entries)
      sources == {e.src : e \in entries}
  IN  [removes |-> UNION {Pieces(r) : r \in gone},
       entries |-> entries,
       rewrites |-> work.targets # {},
       manifest |-> <<manifest, {l \in Listed : l[1] \notin sources}
                                \cup {<<e.src, e.content>> : e \in entries}>>,
       replacements |-> <<replacements, replacements
                            \cup {<<p[1].src, p[1].sha, p[2].content>> :
                                    p \in {q \in taken \X entries : q[1].src = q[2].src}}>>,
       conflicts |-> {}, blocked |-> FALSE,
       preserved |-> {r.src : r \in inventory \ (gone \cup taken)}]

UnmappedFields == {<<"unmapped", p[1].src>> : p \in Unmapped(inventory, work.targets)}

ForeignEntries ==
  IF work.targets = {} THEN {}
  ELSE IF manifest = None THEN {<<"manifest", 0>>}
  ELSE {<<"foreign", e.src>> : e \in {x \in Entries(work.targets) : Foreign(x)}}

Outcome ==
  LET conflicts == work.conflicts \cup UnmappedFields
  IN  CASE ~work.replaceNative -> NoReplacement(work.conflicts, FALSE)
        [] work.replaceNative /\ conflicts # {} -> NoReplacement(conflicts, TRUE)
        [] work.replaceNative /\ conflicts = {} /\ ForeignEntries # {} ->
             NoReplacement(ForeignEntries, TRUE)
        [] OTHER -> Replacement

\* What is to be deleted cannot be listed any more.
ListingFails ==
  /\ work.replaceNative /\ work.conflicts \cup UnmappedFields = {}
  /\ \E r \in inventory : Removable(r) /\ Now[r.src] = Absent

\* Third read: the directories are listed and the entrypoints rendered.
Write ==
  /\ pc = "write"
  /\ ~ListingFails
  /\ plan' = [sources |-> inventory, decisions |-> work.decisions,
              importedAt |-> work.importedAt, targets |-> work.targets, cache |-> work.cache,
              imports |-> work.imports, replacement |-> Outcome, shaken |-> shaken]
  /\ touched' = (neutral # work.seen)
  /\ Goto("idle") /\ work' = None
  /\ UNCHANGED <<scope, documents, outcome, done, shaken, verified, edits>>

\* build_migration_plan raises.
PlanFails ==
  /\ \/ pc = "verify" /\ \E r \in inventory : NormalizeFails(r, Now[r.src], work.cache)
     \/ pc = "screen" /\ \E a \in work.artifacts : ScreenFails(a)
     \/ pc = "write" /\ ListingFails
  /\ Goto("idle") /\ work' = None
  /\ UNCHANGED <<scope, documents, plan, outcome, notes>>

-------------------------------------------------------------------------------
(* apply                                                                     *)

\* With a target there is always the manifest to write.
Replaces == plan.replacement.removes # {} \/ plan.replacement.rewrites

\* Slip: the sources are not hashed again.
SourcesTrusted == TRUE

SourcesUnchanged == \A r \in plan.sources : Now[r.src] = r.sha

DoctorBlocks(files, listed) == listed = None \/ \E l \in listed : files[l[1]] # l[2]

\* The files of a set of <<path, data>> on top of what is there.
With(writes) ==
  [p \in DOMAIN neutral \cup {o[1] : o \in writes} |->
     IF p \in DOMAIN neutral THEN neutral[p] ELSE (CHOOSE o \in writes : o[1] = p)[2]]

Applied ==
  /\ outcome' = "applied"
  /\ done' = IF touched THEN None
             ELSE [native |-> {r \in plan.sources : r.src \notin InNeutral},
                   decisions |-> plan.decisions, importedAt |-> plan.importedAt,
                   targets |-> plan.targets, cache |-> plan.cache]

\* apply_migration raises.
Stop(result) ==
  /\ outcome' = result
  /\ Goto("idle") /\ verified' = None
  /\ UNCHANGED <<scope, done>>

Finish == Applied /\ Goto("idle") /\ verified' = None

\* The sources are hashed.  The import that follows writes neutral files only and
\* does not look at them any more.
VerifySources ==
  /\ pc = "idle" /\ plan # None
  /\ plan.replacement.conflicts = {} /\ ~plan.replacement.blocked
  /\ SourcesUnchanged
  /\ verified' = Now
  /\ Goto("import")
  /\ UNCHANGED <<scope, documents, plan, work, outcome, done, touched, shaken, edits>>

\* Import, doctor; the import is undone when doctor blocks.
Import ==
  /\ pc = "import"
  /\ IF \E o \in plan.imports : o[1] \in DOMAIN neutral THEN Stop("refused")
     ELSE IF DoctorBlocks(native, manifest) THEN Stop("blocked")
     ELSE /\ neutral' = With(plan.imports)
          /\ IF Replaces THEN Goto("replace") /\ UNCHANGED <<outcome, done, verified>> ELSE Finish
          /\ UNCHANGED <<native, manifest, replacements>>
  /\ UNCHANGED <<documents, plan, work, touched, shaken, edits>>

\* The sources are hashed again before the replacement.
VerifyAgain ==
  /\ pc = "replace"
  /\ IF SourcesUnchanged
     THEN Goto("remove") /\ verified' = Now /\ UNCHANGED <<scope, outcome, done>>
     ELSE Stop("refused")
  /\ UNCHANGED <<documents, plan, work, touched, shaken, edits>>

\* Slip: the manifest does not learn of the new entrypoints.
Forgetful == manifest

\* The native files after the replacement.
AfterReplacement ==
  [s \in Sources |->
     LET removed == {p \in plan.replacement.removes : p[1] = s}
         entry == {e \in plan.replacement.entries : e.src = s}
         left == native[s].files \ {<<p[2], p[3]>> : p \in removed}
     IN  IF entry # {} THEN (CHOOSE e \in entry : TRUE).content
         ELSE IF removed = {} THEN native[s]
         ELSE IF left = {} THEN Absent
         ELSE [native[s] EXCEPT !.files = left]]

NewManifest == plan.replacement.manifest[2]

ReplacementApproved ==
  /\ \A p \in plan.replacement.removes :
       Now[p[1]] # Absent /\ <<p[2], p[3]>> \in Now[p[1]].files
  /\ \A e \in plan.replacement.entries : Now[e.src] = e.expected
  /\ manifest = plan.replacement.manifest[1]
  /\ replacements = plan.replacement.replacements[1]

\* Replace, doctor; the replacement is undone when doctor blocks.
Replace ==
  /\ pc = "remove"
  /\ IF ~ReplacementApproved THEN Stop("refused")
     ELSE IF DoctorBlocks(AfterReplacement, NewManifest) THEN Stop("restored")
     ELSE /\ native' = AfterReplacement
          /\ manifest' = NewManifest
          /\ replacements' = plan.replacement.replacements[2]
          /\ Finish
          /\ UNCHANGED neutral
  /\ UNCHANGED <<documents, plan, work, touched, shaken, edits>>

-------------------------------------------------------------------------------
(* The user.                                                                 *)

Touch == edits < MaxEdits /\ edits' = edits + 1

Shake ==
  shaken' = IF Planning THEN shaken \cup {s \in Sources : Now'[s] # Now[s]} ELSE shaken

EditNative(s) ==
  /\ Touch
  /\ \E c \in (Variants[s] \cup {Absent}) \ {native[s]} : native' = [native EXCEPT ![s] = c]
  /\ UNCHANGED <<neutral, manifest, replacements>>
  /\ Shake
  /\ UNCHANGED <<documents, plan, pc, work, outcome, done, touched, verified>>

EditNeutral(p) ==
  /\ Touch
  /\ \/ \E own \in Own :
          /\ ~Holds(p, own)
          /\ neutral' = [q \in DOMAIN neutral \cup {p} |-> IF q = p THEN own ELSE neutral[q]]
     \/ p \in DOMAIN neutral /\ neutral' = [q \in DOMAIN neutral \ {p} |-> neutral[q]]
  /\ UNCHANGED <<native, manifest, replacements>>
  /\ Shake
  /\ touched' = TRUE /\ done' = None
  /\ UNCHANGED <<documents, plan, pc, work, outcome, verified>>

-------------------------------------------------------------------------------

Init ==
  /\ \E h \in Hosts : native = h.native /\ manifest = h.manifest
  /\ neutral = [p \in {} |-> None]
  /\ replacements = {}
  /\ inventory = None /\ normalized = None /\ request = None /\ response = None /\ plan = None
  /\ pc = "idle" /\ work = None /\ outcome = "none"
  /\ done = None /\ touched = FALSE /\ shaken = {} /\ verified = None /\ edits = 0

Next ==
  \/ Scan
  \/ \E cache \in Caches : Normalize(cache)
  \/ ClassifyRequest \/ Respond \/ ValidateResponse
  \/ \E targets \in Targets, importedAt \in Times, cache \in Caches :
       \E replaceNative, answered \in BOOLEAN :
         Plan(targets, importedAt, replaceNative, cache, answered)
  \/ Verify \/ Screen \/ Write \/ PlanFails
  \/ VerifySources \/ Import \/ VerifyAgain \/ Replace
  \/ \E s \in Sources \ InNeutral : EditNative(s)
  \/ \E p \in OwnPaths : EditNeutral(p)

Spec == Init /\ [][Next]_vars

-------------------------------------------------------------------------------
(* Properties.                                                               *)

\* The user's text that a neutral file was made from.
Origin(data) == <<data[Len(data)]>>

Imported(data) == data[1] # "index"

\* No part of it was left out or rewritten.
Whole(data) == data[1] # "abridged"

TypeOK ==
  /\ DOMAIN native = Sources
  /\ manifest = None \/ \A l \in manifest : l[1] \in Sources
  /\ inventory = None \/ \A r \in inventory : r.src \in Sources /\ r.sha # Absent
  /\ pc \in {"idle", "verify", "screen", "write", "import", "replace", "remove"}
  /\ ~Planning => work = None
  /\ pc \in {"import", "replace", "remove"} => plan # None /\ DOMAIN verified = Sources
  /\ pc \in {"replace", "remove"} => Replaces
  /\ outcome \in {"none", "valid", "invalid", "blocked", "refused", "restored", "applied"}
  /\ edits \in 0 .. MaxEdits

\* A plan that can be applied has one content for one path: what normalization
\* gave different destinations, decisions may bring together again.
OneWritePerPath ==
  plan # None /\ plan.replacement.conflicts = {} =>
    \A o, q \in plan.imports : o[1] = q[1] => o = q

\* data is a text of the content, or was made from one.
Stems(data, c) == data \in Plain(c) \/ Origin(data) \in Plain(c)

\* What a plan imports was made from sources that redaction would have left as they
\* are, however old the normal forms are and also when there are conflicts (a
\* directory edited while the planner runs excepted).
SensitiveNotPlanned ==
  plan # None =>
    \A o \in plan.imports :
      Imported(o[2]) =>
        \E r \in plan.sources :
          /\ ~Sensitive(r.sha) \/ (IsDirectory(r) /\ r.src \in plan.shaken)
          /\ Stems(o[2], r.sha)

\* Every ambiguous source of a plan was decided, once, on the text it has in the
\* plan: an older request or response is never taken for the present one.
AskedIsDecided ==
  plan # None =>
    \A r \in plan.sources :
      Shown(r) => Cardinality({d \in plan.decisions : d.id = Identity(r)}) = 1

\* What apply writes into the neutral scope was made from text that a native file,
\* or neutral skill, had when this apply hashed it: the documents may all be stale,
\* and the user may edit after the hashing, which nothing notices before the import.
ImportsCurrent ==
  [][edits' = edits =>
       \A p \in DOMAIN neutral' \ DOMAIN neutral :
         Imported(neutral'[p]) =>
           \E s \in Sources : verified[s] # Absent /\ Stems(neutral'[p], verified[s])]_vars

\* The pieces of the user's that a step takes from s.
Taking(s) ==
  IF native'[s] = native[s] \/ edits' # edits \/ native[s] = Absent
     \/ <<s, native[s]>> \in Listed
  THEN {} ELSE native[s].files \ IF native'[s] = Absent THEN {} ELSE native'[s].files

\* The scope has this piece of s, complete if `whole` holds.
Keeps(f, whole) ==
  \E p \in DOMAIN neutral :
    /\ Imported(neutral[p]) /\ Origin(neutral[p]) = f[2]
    /\ whole => Whole(neutral[p])

\* Every piece of the user's native files that a migration deletes or overwrites
\* is in the neutral scope, complete but for a command that the conversion
\* abridges.  Excepted are a scope that the user changed since the preview, and a
\* source that was edited while the planner ran and again since it was hashed.
NothingLost ==
  [][\A s \in Sources : \A f \in Taking(s) :
       ~touched /\ (s \notin plan.shaken \/ native[s] = verified[s]) =>
         Keeps(f, ~Abridged(Record(s, verified[s])))]_vars

\* The preview tells the truth: of the sources that are there, a replacement leaves
\* alone exactly those that it lists as preserved.
PreservedIsPreserved ==
  [][native' # native /\ edits' = edits =>
       \A r \in plan.sources :
         Now[r.src] # Absent =>
           (r.src \in plan.replacement.preserved <=> native'[r.src] = native[r.src])]_vars

\* Every generated entrypoint is listed, so that the next scan does not take it
\* for the user's and the next replacement does not take it for foreign.
EntrypointsListed ==
  \A s \in Sources :
    native[s] # Absent /\ (\E f \in native[s].files : f[2][1] = "entry") =>
      <<s, native[s]>> \in Listed

\* A plan for the migration that was applied last, of the same native files.
Repeated ==
  /\ plan # None /\ done # None /\ plan.shaken \subseteq InNeutral
  /\ {r \in plan.sources : r.src \notin InNeutral} = done.native
  /\ plan.decisions = done.decisions /\ plan.targets = done.targets /\ plan.cache = done.cache

\* The destinations at which the plan found something that is not its own.
Unmanaged == {p \in DOMAIN neutral : <<"unmanaged", p>> \in plan.replacement.conflicts}

\* What the planner has against the documents and the sources themselves.
Objections ==
  {c \in plan.replacement.conflicts :
     c[1] \in {"tampered", "destination", "undecided", "outside", "sensitive"}}

\* A migration that is repeated with the same time of import finds its own files
\* in place, whatever else is in the scope by then: if the planner has nothing
\* against the documents, it imports nothing and is in conflict with no file.
RepeatedIsQuiet ==
  [][Write =>
       (Repeated /\ plan.importedAt = done.importedAt /\ Objections = {} =>
          plan.imports = {} /\ Unmanaged = {})']_vars

\* What the documents promise of an apply, and the code does not keep.

\* "A fully migrated native instruction file is atomically replaced by the
\* generated entrypoint": the entrypoint that a replacement writes loads the
\* overlay that the instructions went to.
OverlayLoaded ==
  [][native' # native /\ edits' = edits =>
       \A e \in plan.replacement.entries :
         e.src = EntrypointOf["claude"] =>
           e.content.files = Body(<<"entry", "claude", OverlayPath("claude") \in DOMAIN neutral>>)]_vars

\* "To request cleanup, rebuild the plan with --replace-native": a plan that is
\* rebuilt after the import is not in conflict with the files of the import.
RebuildNotBlocked == [][Write => (Repeated => Unmanaged = {})']_vars
===============================================================================
