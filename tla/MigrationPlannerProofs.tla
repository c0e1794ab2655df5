------------------------ MODULE MigrationPlannerProofs ------------------------
(* Theorems about MigrationPlanner, for every set of native files and every  *)
(* order of scans, requests, answers, previews and edits.                    *)
EXTENDS MigrationPlanner, FiniteSetTheorems, SequenceTheorems, WellFoundedInduction, TLAPS

\* What is asked about a set of records is decided, once.
Answered(records, decisions) ==
  \A r \in records :
    Shown(r) => Cardinality({d \in decisions : d.id = Identity(r)}) = 1

LEMMA ImageIsFinite ==
  ASSUME NEW S, IsFiniteSet(S), NEW f, f = [x \in S |-> f[x]]
  PROVE  IsFiniteSet({f[x] : x \in S})
<1> DEFINE T == {f[x] : x \in S}
<1>1. f \in Surjection(S, T)
  BY DEF Surjection
<1> QED BY <1>1, FS_Surjection

-------------------------------------------------------------------------------
(* A valid response decides everything once.                                 *)

\* As many decisions as decided artifacts: no two decisions are about one.
LEMMA DecisionsAreInjective ==
  ASSUME NEW D, IsFiniteSet(D),
         Cardinality({d.id : d \in D}) = Cardinality(D)
  PROVE  \A d, e \in D : d.id = e.id => d = e
<1> DEFINE f == [d \in D |-> d.id]
           T == {d.id : d \in D}
<1>1. f \in Surjection(D, T)
  BY DEF Surjection
<1>2. f \in Injection(D, T)
  BY <1>1, FS_Surjection
<1>3. \A d, e \in D : f[d] = f[e] => d = e
  BY <1>2 DEF Injection, IsInjective
<1> QED BY <1>3

LEMMA ShownIsAsked ==
  ASSUME NEW records, NEW r \in records, Shown(r)
  PROVE  Identity(r) \in Ids(Request(records))
<1> DEFINE a == [id |-> Identity(r), text |-> Redacted(r.sha), again |-> FoundAgain(r.sha)]
<1>1. a \in Request(records).artifacts
  BY DEF Request
<1>2. a.id = Identity(r)
  OBVIOUS
<1> QED BY <1>1, <1>2 DEF Ids

LEMMA ValidIsAnswered ==
  ASSUME NEW records, NEW answer, IsFiniteSet(answer.decisions),
         Valid(answer, Request(records))
  PROVE  Answered(records, answer.decisions)
<1> DEFINE D == answer.decisions
<1>1. /\ Ids(Request(records)) \subseteq {d.id : d \in D}
      /\ Cardinality({d.id : d \in D}) = Cardinality(D)
  BY DEF Valid
<1>2. \A d, e \in D : d.id = e.id => d = e
  BY <1>1, DecisionsAreInjective
<1>3. ASSUME NEW r \in records, Shown(r)
      PROVE  Cardinality({d \in D : d.id = Identity(r)}) = 1
  <2>1. PICK d \in D : d.id = Identity(r)
    BY <1>1, <1>3, ShownIsAsked
  <2>2. {e \in D : e.id = Identity(r)} = {d}
    BY <1>2, <2>1
  <2> QED BY <2>2, FS_Singleton
<1> QED BY <1>3 DEF Answered

\* Without a question everything is answered.
LEMMA NothingAsked ==
  ASSUME NEW records, Request(records).artifacts = {}, NEW D
  PROVE  Answered(records, D)
BY ShownIsAsked DEF Answered, Ids

-------------------------------------------------------------------------------
(* The invariant.                                                            *)

\* The documents are finite: a response that has as many decisions as artifacts
\* says nothing if it is not.
DocumentsFinite ==
  /\ inventory # None => IsFiniteSet(inventory)
  /\ request # None => IsFiniteSet(request.artifacts)
  /\ response # None => IsFiniteSet(response.decisions)

\* While the planner runs, no other command replaces the inventory whose request
\* the response was checked against.
WorkIsAnswered ==
  Planning => "decisions" \in DOMAIN work /\ Answered(inventory, work.decisions)

PlanIsAnswered == plan # None => Answered(plan.sources, plan.decisions)

Prepared == DocumentsFinite /\ WorkIsAnswered /\ PlanIsAnswered

LEMMA InitPrepared == Init => Prepared
BY DEF Init, Prepared, DocumentsFinite, WorkIsAnswered, PlanIsAnswered, Planning

LEMMA ScanFinite == IsFiniteSet(ScannedRecords)
<1> DEFINE S == {x \in Sources : Now[x] # Absent /\ <<x, Now[x]>> \notin Listed}
           f == [s \in S |-> Record(s, Now[s])]
<1>1. IsFiniteSet(S)
  BY SourcesAssumption, FS_Subset
<1>2. ScannedRecords = {f[s] : s \in S}
  BY DEF ScannedRecords
<1> HIDE DEF S
<1>3. IsFiniteSet({f[s] : s \in S})
  BY <1>1, ImageIsFinite
<1> QED BY <1>2, <1>3

LEMMA RequestFinite ==
  ASSUME NEW records, IsFiniteSet(records)
  PROVE  IsFiniteSet(Request(records).artifacts)
<1> DEFINE S == {x \in records : Shown(x)}
           f == [r \in S |-> [id |-> Identity(r), text |-> Redacted(r.sha),
                              again |-> FoundAgain(r.sha)]]
<1>1. IsFiniteSet(S)
  BY FS_Subset
<1>2. Request(records).artifacts = {f[r] : r \in S}
  BY DEF Request
<1> HIDE DEF S
<1>3. IsFiniteSet({f[r] : r \in S})
  BY <1>1, ImageIsFinite
<1> QED BY <1>2, <1>3

\* An answer has one decision for each of its ids.
LEMMA AnswerFinite ==
  ASSUME NEW ids, IsFiniteSet(ids), NEW choice
  PROVE  IsFiniteSet({Decision(i, choice[i][1], choice[i][2], choice[i][3]) : i \in ids})
<1> DEFINE g == [i \in ids |-> Decision(i, choice[i][1], choice[i][2], choice[i][3])]
<1>1. IsFiniteSet({g[i] : i \in ids})
  BY ImageIsFinite
<1> QED BY <1>1

LEMMA AnswerableFinite ==
  ASSUME IsFiniteSet(request.artifacts)
  PROVE  IsFiniteSet(Answerable)
<1> DEFINE S == request.artifacts
           f == [a \in S |-> a.id]
           R == {x \in ScannedRecords : x.src \in Strays}
           g == [r \in R |-> Identity(r)]
<1>1. IsFiniteSet({f[a] : a \in S})
  BY ImageIsFinite
<1>2. IsFiniteSet(R)
  BY ScanFinite, FS_Subset
<1>3. IsFiniteSet({g[r] : r \in R})
  <2> HIDE DEF R
  <2> QED BY <1>2, ImageIsFinite
<1>4. Answerable = {f[a] : a \in S} \/ Answerable = {g[r] : r \in R}
  BY DEF Answerable, Ids
<1> QED BY <1>1, <1>3, <1>4

-------------------------------------------------------------------------------
(* The steps.                                                                *)

LEMMA DocumentSteps ==
  ASSUME Prepared,
         \/ Scan \/ (\E cache \in Caches : Normalize(cache))
         \/ ClassifyRequest \/ Respond \/ ValidateResponse
  PROVE  Prepared'
<1> USE DEF Prepared, DocumentsFinite, WorkIsAnswered, PlanIsAnswered, Planning, scope, notes,
            documents
<1>1. CASE Scan
  BY <1>1, ScanFinite DEF Scan
<1>2. ASSUME NEW cache \in Caches, Normalize(cache) PROVE Prepared'
  BY <1>2 DEF Normalize
<1>3. CASE ClassifyRequest
  BY <1>3, RequestFinite DEF ClassifyRequest, Loaded
<1>4. CASE Respond
  <2>1. PICK ids \in SUBSET Answerable : \E choice \in [ids -> Options] :
          response' = [request |-> request,
                       decisions |-> {Decision(i, choice[i][1], choice[i][2], choice[i][3]) :
                                        i \in ids}]
    BY <1>4 DEF Respond
  <2>2. PICK choice \in [ids -> Options] :
          response'.decisions = {Decision(i, choice[i][1], choice[i][2], choice[i][3]) : i \in ids}
    BY <2>1
  <2>3. IsFiniteSet(ids)
    BY <1>4, <2>1, AnswerableFinite, FS_Subset DEF Respond
  <2>4. IsFiniteSet(response'.decisions)
    BY <2>2, <2>3, AnswerFinite
  <2> QED BY <1>4, <2>4 DEF Respond
<1>5. CASE ValidateResponse
  BY <1>5 DEF ValidateResponse
<1> QED BY <1>1, <1>2, <1>3, <1>4, <1>5

\* The response is checked against the request of the inventory that is planned,
\* not against the request it was written for.
LEMMA PlanStep ==
  ASSUME Prepared, NEW targets, NEW importedAt, NEW replaceNative, NEW cache,
         NEW answered \in BOOLEAN,
         Plan(targets, importedAt, replaceNative, cache, answered)
  PROVE  Prepared'
<1> DEFINE decisions == IF answered THEN response.decisions ELSE {}
<1>1. Answered(inventory, decisions)
  <2>1. CASE answered
    BY <2>1, ValidIsAnswered DEF Plan, Prepared, DocumentsFinite
  <2>2. CASE ~answered
    BY <2>2, NothingAsked DEF Plan
  <2> QED BY <2>1, <2>2
<1>2. "decisions" \in DOMAIN work' /\ work'.decisions = decisions
  BY DEF Plan
<1>3. UNCHANGED <<inventory, request, response, plan>>
  BY DEF Plan, documents
<1> QED BY <1>1, <1>2, <1>3
        DEF Prepared, DocumentsFinite, WorkIsAnswered, PlanIsAnswered, Answered

\* Verify and Screen keep the decisions they work on.
LEMMA KeepsDecisions ==
  ASSUME NEW w, "decisions" \in DOMAIN w, NEW a, NEW b, NEW c, NEW d
  PROVE  /\ LET v == [w EXCEPT !.artifacts = a, !.conflicts = b]
            IN  "decisions" \in DOMAIN v /\ v.decisions = w.decisions
         /\ LET v == [w EXCEPT !.migrated = a, !.imports = b, !.conflicts = c, !.seen = d]
            IN  "decisions" \in DOMAIN v /\ v.decisions = w.decisions
OBVIOUS

LEMMA VerifyStep == Prepared /\ Verify => Prepared'
<1> SUFFICES ASSUME Prepared, Verify PROVE Prepared'
  OBVIOUS
<1>1. "decisions" \in DOMAIN work /\ Answered(inventory, work.decisions)
  BY DEF Prepared, WorkIsAnswered, Planning, Verify
<1>2. \E a, b : work' = [work EXCEPT !.artifacts = a, !.conflicts = b]
  BY DEF Verify
<1>3. "decisions" \in DOMAIN work' /\ work'.decisions = work.decisions
  BY <1>1, <1>2, KeepsDecisions
<1>4. UNCHANGED <<inventory, request, response, plan>>
  BY DEF Verify, documents
<1> QED BY <1>1, <1>3, <1>4
        DEF Prepared, DocumentsFinite, WorkIsAnswered, PlanIsAnswered, Answered

LEMMA ScreenStep == Prepared /\ Screen => Prepared'
<1> SUFFICES ASSUME Prepared, Screen PROVE Prepared'
  OBVIOUS
<1>1. "decisions" \in DOMAIN work /\ Answered(inventory, work.decisions)
  BY DEF Prepared, WorkIsAnswered, Planning, Screen
<1>2. \E a, b, c, d :
        work' = [work EXCEPT !.migrated = a, !.imports = b, !.conflicts = c, !.seen = d]
  BY DEF Screen
<1>3. "decisions" \in DOMAIN work' /\ work'.decisions = work.decisions
  BY <1>1, <1>2, KeepsDecisions
<1>4. UNCHANGED <<inventory, request, response, plan>>
  BY DEF Screen, documents
<1> QED BY <1>1, <1>3, <1>4
        DEF Prepared, DocumentsFinite, WorkIsAnswered, PlanIsAnswered, Answered

LEMMA WriteStep == Prepared /\ Write => Prepared'
<1> SUFFICES ASSUME Prepared, Write PROVE Prepared'
  OBVIOUS
<1>1. Answered(inventory, work.decisions)
  BY DEF Prepared, WorkIsAnswered, Planning, Write
<1>2. plan'.sources = inventory /\ plan'.decisions = work.decisions
  BY DEF Write
<1>3. pc' = "idle" /\ UNCHANGED <<inventory, request, response>>
  BY DEF Write, Goto, documents
<1> QED BY <1>1, <1>2, <1>3
        DEF Prepared, DocumentsFinite, WorkIsAnswered, PlanIsAnswered, Planning, Answered

\* Apply changes no document, and only one command runs.
LEMMA Applying ==
  ASSUME VerifySources \/ Import \/ VerifyAgain \/ Replace
  PROVE  UNCHANGED <<documents, plan, work, touched, shaken, edits>> /\ ~Planning /\ ~Planning'
BY DEF VerifySources, Import, VerifyAgain, Replace, Stop, Finish, Goto, Planning

\* Failing, applying and editing change no document.
LEMMA OtherSteps ==
  ASSUME Prepared,
         \/ PlanFails \/ VerifySources \/ Import \/ VerifyAgain \/ Replace
         \/ \E s \in Sources \ InNeutral : EditNative(s)
         \/ \E p \in OwnPaths : EditNeutral(p)
         \/ UNCHANGED vars
  PROVE  Prepared'
<1>1. UNCHANGED <<inventory, request, response, plan>>
  BY Applying DEF PlanFails, EditNative, EditNeutral, documents, vars
<1>2. Planning' => Planning /\ UNCHANGED work
  BY Applying DEF PlanFails, EditNative, EditNeutral, documents, vars, Goto, Planning
<1> QED BY <1>1, <1>2
        DEF Prepared, DocumentsFinite, WorkIsAnswered, PlanIsAnswered, Answered

LEMMA NextPrepared == Prepared /\ [Next]_vars => Prepared'
<1> SUFFICES ASSUME Prepared, [Next]_vars PROVE Prepared'
  OBVIOUS
<1>1. ASSUME NEW targets \in Targets, NEW importedAt \in Times, NEW cache \in Caches,
             NEW replaceNative \in BOOLEAN, NEW answered \in BOOLEAN,
             Plan(targets, importedAt, replaceNative, cache, answered)
      PROVE  Prepared'
  BY <1>1, PlanStep
<1> QED BY <1>1, DocumentSteps, VerifyStep, ScreenStep, WriteStep, OtherSteps DEF Next

\* A plan is never made from a response to something else: every ambiguous source
\* that it shows was decided, exactly once, on the text it has in the plan
\* (load_classification_response in _handle_migrate_plan, cli.py:784).
THEOREM PlannedIsDecided == Spec => []AskedIsDecided
<1>1. Prepared => AskedIsDecided
  BY DEF Prepared, PlanIsAnswered, Answered, AskedIsDecided
<1> QED BY InitPrepared, NextPrepared, <1>1, PTL DEF Spec

-------------------------------------------------------------------------------
(* What native files, inventories and plans may hold.                        *)

\* A native file is the user's, or an entrypoint that the manifest lists.
NativeOK ==
  /\ native = [s \in Sources |-> native[s]]
  /\ \A s \in Sources :
       \/ native[s] = Absent
       \/ Authored(s, native[s])
       \/ <<s, native[s]>> \in Listed /\ KindOf[s] # "skill"
  /\ \A l \in Listed : l[1] \in Sources

\* So the records of a scan are of what the user wrote, one for a source.
RecordsOK(records) ==
  /\ \A r \in records :
       /\ r = Record(r.src, r.sha) /\ r.src \in Sources /\ r.sha # Absent
       /\ r.src \notin InNeutral => Authored(r.src, r.sha)
  /\ \A r, q \in records : r.src = q.src => r = q

Deleted(rep, s) == \E p \in rep.removes : p[1] = s
Overwritten(rep, s) == \E e \in rep.entries : e.src = s /\ e.expected # Absent

\* A replacement deletes pieces of recorded sources, writes entrypoints and lists
\* them, keeps what is listed besides, and preserves the other sources.
ReplacementOK(records, rep) ==
  /\ \A p \in rep.removes : p[1] \notin InNeutral /\ \E r \in records : r.src = p[1]
  /\ \A e \in rep.entries :
       /\ e.src \in Sources /\ KindOf[e.src] # "skill"
       /\ \E f \in e.content.files : f[2][1] = "entry"
       /\ <<e.src, e.content>> \in rep.manifest[2]
  /\ rep.removes # {} \/ rep.rewrites =>
       \A l \in rep.manifest[2] :
         \/ \E e \in rep.entries : l = <<e.src, e.content>>
         \/ rep.manifest[1] # None /\ l \in rep.manifest[1]
  /\ rep.manifest[1] # None =>
       \A l \in rep.manifest[1] : (\A e \in rep.entries : e.src # l[1]) => l \in rep.manifest[2]
  /\ \A r \in records :
       r.src \in rep.preserved <=> ~Deleted(rep, r.src) /\ ~Overwritten(rep, r.src)

Flow ==
  /\ pc \in {"idle", "verify", "screen", "write", "import", "replace", "remove"}
  /\ Planning => inventory # None
  /\ pc \in {"import", "replace", "remove"} => plan # None /\ DOMAIN verified = Sources
  /\ pc \in {"replace", "remove"} => Replaces
  /\ ~Planning => work = None
  /\ outcome \in {"none", "valid", "invalid", "blocked", "refused", "restored", "applied"}
  /\ edits \in 0 .. MaxEdits

\* The planner works for targets of a migration.
TargetsOK == Planning => "targets" \in DOMAIN work /\ work.targets \in Targets

\* What apply hashed is what the inventory hashed; since then the user may have
\* written something else.
Hashed ==
  /\ pc \in {"import", "replace", "remove"} =>
       \A r \in plan.sources : verified[r.src] = r.sha
  /\ pc = "remove" =>
       \A r \in plan.sources :
         r.src \notin InNeutral => native[r.src] = Absent \/ Authored(r.src, native[r.src])

SourceInv ==
  /\ NativeOK
  /\ inventory # None => RecordsOK(inventory)
  /\ plan # None => RecordsOK(plan.sources) /\ ReplacementOK(plan.sources, plan.replacement)
  /\ Flow /\ Hashed
  /\ TargetsOK

LEMMA InitSource == Init => SourceInv
<1> SUFFICES ASSUME Init PROVE SourceInv
  OBVIOUS
<1>1. PICK h \in Hosts : native = h.native /\ manifest = h.manifest
  BY DEF Init
<1>2. NativeOK
  BY <1>1, HostsAssumption DEF NativeOK, Listed
<1>3. Flow /\ Hashed
  BY HostsAssumption DEF Init, Flow, Hashed, Planning
<1> QED BY <1>2, <1>3 DEF Init, SourceInv, TargetsOK, Planning

\* A scan takes what is there and is not the manager's.
LEMMA ScanRecords == NativeOK => RecordsOK(ScannedRecords)
<1> SUFFICES ASSUME NativeOK PROVE RecordsOK(ScannedRecords)
  OBVIOUS
<1>1. ASSUME NEW s \in Sources, Now[s] # Absent, <<s, Now[s]>> \notin Listed, s \notin InNeutral
      PROVE  Authored(s, Now[s])
  BY <1>1 DEF NativeOK, Now
<1>2. ASSUME NEW r \in ScannedRecords
      PROVE  /\ r = Record(r.src, Now[r.src]) /\ r.sha = Now[r.src]
             /\ r.src \in Sources /\ r.sha # Absent
             /\ r.src \notin InNeutral => Authored(r.src, r.sha)
  <2>1. PICK s \in Sources : /\ r = Record(s, Now[s])
                             /\ Now[s] # Absent /\ <<s, Now[s]>> \notin Listed
    BY DEF ScannedRecords
  <2>2. r.src = s /\ r.sha = Now[s]
    BY <2>1 DEF Record
  <2> QED BY <1>1, <2>1, <2>2
<1> QED BY <1>2 DEF RecordsOK

LEMMA DocumentSource ==
  ASSUME SourceInv,
         \/ Scan \/ (\E cache \in Caches : Normalize(cache))
         \/ ClassifyRequest \/ Respond \/ ValidateResponse
  PROVE  SourceInv'
<1>1. /\ UNCHANGED <<native, neutral, manifest, plan, pc, work, edits>>
      /\ inventory' = inventory \/ inventory' = ScannedRecords
      /\ pc = "idle" /\ outcome' \in {outcome, "valid", "invalid"}
  BY DEF Scan, Normalize, ClassifyRequest, Respond, ValidateResponse, scope, notes, documents
<1>2. NativeOK'
  BY <1>1 DEF SourceInv, NativeOK, Listed
<1>3. inventory' # None => RecordsOK(inventory')
  BY <1>1, ScanRecords DEF SourceInv
<1>4. Flow' /\ TargetsOK' /\ Hashed'
  BY <1>1 DEF SourceInv, Flow, Hashed, TargetsOK, Planning, Replaces
<1> QED BY <1>1, <1>2, <1>3, <1>4 DEF SourceInv

LEMMA PlanSource ==
  ASSUME SourceInv, NEW targets \in Targets, NEW importedAt, NEW replaceNative, NEW cache,
         NEW answered, Plan(targets, importedAt, replaceNative, cache, answered)
  PROVE  SourceInv'
<1>1. /\ UNCHANGED <<native, neutral, manifest, inventory, plan, edits, outcome>>
      /\ pc' = "verify" /\ inventory # None
      /\ "targets" \in DOMAIN work' /\ work'.targets = targets
  BY DEF Plan, Goto, Loaded, scope, documents
<1>2. NativeOK'
  BY <1>1 DEF SourceInv, NativeOK, Listed
<1>3. Flow' /\ TargetsOK' /\ Hashed'
  BY <1>1 DEF SourceInv, Flow, Hashed, TargetsOK, Planning
<1> QED BY <1>1, <1>2, <1>3 DEF SourceInv

\* Verify and Screen keep what the planner was called with.
LEMMA KeepsCall ==
  ASSUME NEW w, NEW a, NEW b, NEW c, NEW d,
         NEW k \in DOMAIN w, k \notin {"artifacts", "conflicts", "migrated", "imports", "seen"}
  PROVE  /\ LET v == [w EXCEPT !.artifacts = a, !.conflicts = b]
            IN  k \in DOMAIN v /\ v[k] = w[k]
         /\ LET v == [w EXCEPT !.migrated = a, !.imports = b, !.conflicts = c, !.seen = d]
            IN  k \in DOMAIN v /\ v[k] = w[k]
OBVIOUS

LEMMA WorkSource == ASSUME SourceInv, Verify \/ Screen PROVE SourceInv'
<1>1. /\ UNCHANGED <<native, neutral, manifest, inventory, plan, edits, outcome>>
      /\ Planning /\ pc' \in {"screen", "write"}
  BY DEF Verify, Screen, Goto, scope, documents, notes, Planning
<1>2. \/ \E a, b : work' = [work EXCEPT !.artifacts = a, !.conflicts = b]
      \/ \E a, b, c, d :
           work' = [work EXCEPT !.migrated = a, !.imports = b, !.conflicts = c, !.seen = d]
  <2>1. CASE Verify BY <2>1 DEF Verify
  <2>2. CASE Screen BY <2>2 DEF Screen
  <2> QED BY <2>1, <2>2
<1>3. "targets" \in DOMAIN work /\ work.targets \in Targets
  BY <1>1 DEF SourceInv, TargetsOK
<1>4. "targets" \in DOMAIN work' /\ work'.targets = work.targets
  BY <1>2, <1>3, KeepsCall
<1>5. NativeOK'
  BY <1>1 DEF SourceInv, NativeOK, Listed
<1>6. Flow' /\ TargetsOK' /\ Hashed'
  BY <1>1, <1>3, <1>4 DEF SourceInv, Flow, Hashed, TargetsOK, Planning
<1> QED BY <1>1, <1>5, <1>6 DEF SourceInv

\* No replacement at all.
LEMMA NothingReplaced ==
  ASSUME NEW conflicts, NEW blocked
  PROVE  ReplacementOK(inventory, NoReplacement(conflicts, blocked))
BY DEF ReplacementOK, NoReplacement, Deleted, Overwritten

\* What a replacement deletes is there when it is planned.
LEMMA ReplacementSound ==
  ASSUME NativeOK, RecordsOK(inventory), work.targets \in Targets,
         \A r \in inventory : Removable(r) => Now[r.src] # Absent
  PROVE  ReplacementOK(inventory, Replacement)
<1> DEFINE entries == Entries(work.targets)
           gone == {r \in inventory : Removable(r)}
           taken == Taken(entries)
           rep == Replacement
<1>1. /\ rep.removes = UNION {Pieces(r) : r \in gone}
      /\ rep.entries = entries
      /\ rep.preserved = {r.src : r \in inventory \ (gone \cup taken)}
      /\ rep.manifest[1] = manifest
      /\ rep.manifest[2] = {l \in Listed : l[1] \notin {e.src : e \in entries}}
                           \cup {<<e.src, e.content>> : e \in entries}
  BY DEF Replacement
<1>2. ASSUME NEW e \in entries
      PROVE  /\ e.src \in Sources /\ KindOf[e.src] # "skill"
             /\ \E f \in e.content.files : f[2][1] = "entry"
             /\ e.expected = Now[e.src]
  <2>1. PICK a \in work.targets :
          /\ EntrypointOf[a] # 0
          /\ e = [src |-> EntrypointOf[a], expected |-> Now[EntrypointOf[a]],
                  content |-> Entrypoint(a)]
    BY DEF Entries
  <2>2. e.src \in Sources /\ KindOf[e.src] # "skill"
    BY <2>1, AgentsAssumption
  <2>3. PICK overlay : e.content.files = {<<"", <<"entry", a, overlay>>>>}
    BY <2>1 DEF Entrypoint, Body
  <2>4. \E f \in e.content.files : f[2][1] = "entry"
    <3>1. <<"", <<"entry", a, overlay>>>> \in e.content.files BY <2>3
    <3>2. <<"", <<"entry", a, overlay>>>>[2][1] = "entry" OBVIOUS
    <3> QED BY <3>1, <3>2
  <2> QED BY <2>1, <2>2, <2>4
<1>3. ASSUME NEW r \in gone
      PROVE  r.src \notin InNeutral /\ Pieces(r) # {} /\ \A p \in Pieces(r) : p[1] = r.src
  <2>1. r \in inventory /\ r.src \in Sources /\ r.src \notin InNeutral /\ Now[r.src] # Absent
    BY DEF Removable, RecordsOK
  <2>2. Authored(r.src, r.sha)
    BY <2>1 DEF RecordsOK
  <2>3. r.sha.files # {}
    BY <2>2 DEF Authored
  <2>4. Now[r.src] = native[r.src]
    BY <2>1 DEF Now
  <2>5. IsDirectory(r) => Authored(r.src, native[r.src])
    BY <2>1, <2>4 DEF NativeOK, IsDirectory
  <2>6. IsDirectory(r) => Now[r.src].files # {}
    BY <2>4, <2>5 DEF Authored
  <2>7. Pieces(r) = {<<r.src, f[1], f[2]>> :
                       f \in IF IsDirectory(r) THEN Now[r.src].files ELSE r.sha.files}
    BY DEF Pieces
  <2>8. PICK f \in IF IsDirectory(r) THEN Now[r.src].files ELSE r.sha.files : TRUE
    BY <2>3, <2>6
  <2>9. <<r.src, f[1], f[2]>> \in Pieces(r)
    BY <2>7, <2>8
  <2>10. ASSUME NEW p \in Pieces(r) PROVE p[1] = r.src
    <3>1. PICK g : p = <<r.src, g[1], g[2]>> BY <2>7
    <3> QED BY <3>1
  <2> QED BY <2>1, <2>9, <2>10
<1>4. \A p \in rep.removes : p[1] \notin InNeutral /\ \E r \in gone : r.src = p[1]
  BY <1>1, <1>3
<1>5. \A r \in inventory : Deleted(rep, r.src) <=> r \in gone
  BY <1>1, <1>3, <1>4 DEF Deleted, RecordsOK
<1>6. \A r \in inventory : Overwritten(rep, r.src) <=> r \in taken
  BY <1>1 DEF Overwritten, Taken
<1>7. \A r \in inventory : r.src \in rep.preserved <=> r \notin gone /\ r \notin taken
  BY <1>1 DEF RecordsOK
<1>8. \A l \in Listed : manifest # None /\ l \in manifest
  BY DEF Listed
<1>9. manifest # None => Listed = manifest
  BY DEF Listed
<1>10. \A e \in entries : <<e.src, e.content>> \in rep.manifest[2]
  BY <1>1
<1>11. \A l \in rep.manifest[2] :
         \/ \E e \in entries : l = <<e.src, e.content>>
         \/ manifest # None /\ l \in manifest
  BY <1>1, <1>8
<1>12. manifest # None =>
         \A l \in manifest : (\A e \in entries : e.src # l[1]) => l \in rep.manifest[2]
  BY <1>1, <1>9
<1> HIDE DEF rep, entries, gone, taken
<1>13. ReplacementOK(inventory, rep)
  <2>1. \A p \in rep.removes : p[1] \notin InNeutral /\ \E r \in inventory : r.src = p[1]
    BY <1>4 DEF gone
  <2> QED
    BY <1>1, <1>2, <1>5, <1>6, <1>7, <1>10, <1>11, <1>12, <2>1 DEF ReplacementOK
<1> QED BY <1>13 DEF rep

\* What Write puts into the plan.
LEMMA OutcomeSound ==
  ASSUME SourceInv, Write
  PROVE  ReplacementOK(inventory, Outcome)
<1>1. /\ NativeOK /\ RecordsOK(inventory) /\ work.targets \in Targets
      /\ ~ListingFails
  BY DEF SourceInv, Flow, TargetsOK, Write, Planning
<1> DEFINE conflicts == work.conflicts \cup UnmappedFields
<1>2. CASE ~work.replaceNative
  BY <1>2, NothingReplaced DEF Outcome
<1>3. CASE work.replaceNative /\ conflicts # {}
  BY <1>3, NothingReplaced DEF Outcome
<1>4. CASE work.replaceNative /\ conflicts = {} /\ ForeignEntries # {}
  BY <1>4, NothingReplaced DEF Outcome
<1>5. CASE work.replaceNative /\ conflicts = {} /\ ForeignEntries = {}
  <2>1. \A r \in inventory : Removable(r) => Now[r.src] # Absent
    BY <1>1, <1>5 DEF ListingFails
  <2>2. Outcome = Replacement
    BY <1>5 DEF Outcome
  <2> QED BY <1>1, <2>1, <2>2, ReplacementSound
<1> QED BY <1>2, <1>3, <1>4, <1>5

LEMMA WriteSource == ASSUME SourceInv, Write PROVE SourceInv'
<1>1. /\ UNCHANGED <<native, neutral, manifest, inventory, edits, outcome>>
      /\ pc' = "idle" /\ work' = None /\ inventory # None
      /\ plan'.sources = inventory /\ plan'.replacement = Outcome
  BY DEF Write, Goto, scope, documents, SourceInv, Flow, Planning
<1>2. RecordsOK(plan'.sources) /\ ReplacementOK(plan'.sources, plan'.replacement)
  BY <1>1, OutcomeSound DEF SourceInv
<1>3. NativeOK'
  BY <1>1 DEF SourceInv, NativeOK, Listed
<1>4. Flow' /\ TargetsOK' /\ Hashed'
  BY <1>1 DEF SourceInv, Flow, Hashed, TargetsOK, Planning
<1> QED BY <1>1, <1>2, <1>3, <1>4 DEF SourceInv

LEMMA PlanFailsSource == ASSUME SourceInv, PlanFails PROVE SourceInv'
<1>1. /\ UNCHANGED <<native, neutral, manifest, inventory, plan, edits, outcome>>
      /\ pc' = "idle" /\ work' = None
  BY DEF PlanFails, Goto, scope, documents, notes
<1>2. NativeOK'
  BY <1>1 DEF SourceInv, NativeOK, Listed
<1>3. Flow' /\ TargetsOK' /\ Hashed'
  BY <1>1 DEF SourceInv, Flow, Hashed, TargetsOK, Planning
<1> QED BY <1>1, <1>2, <1>3 DEF SourceInv

\* Apply goes on as it should, with what it hashed.
LEMMA ImportSource ==
  ASSUME SourceInv, VerifySources \/ Import \/ VerifyAgain
  PROVE  SourceInv'
<1>1. /\ UNCHANGED <<native, manifest, inventory, plan, work, edits>> /\ ~Planning /\ ~Planning'
      /\ outcome' \in {outcome, "blocked", "refused", "applied"}
  BY Applying
     DEF VerifySources, Import, VerifyAgain, Stop, Finish, Applied, scope, documents
<1>2. \/ pc' = "idle"
      \/ /\ pc' = "import" /\ plan # None /\ SourcesUnchanged /\ verified' = Now
      \/ /\ pc' = "replace" /\ pc = "import" /\ Replaces /\ verified' = verified
      \/ /\ pc' = "remove" /\ pc = "replace" /\ SourcesUnchanged /\ verified' = Now
  BY DEF VerifySources, Import, VerifyAgain, Stop, Finish, Goto
<1>3. NativeOK'
  BY <1>1 DEF SourceInv, NativeOK, Listed
<1>4. DOMAIN Now = Sources
  BY DEF Now
<1>5. Flow' /\ TargetsOK'
  BY <1>1, <1>2, <1>4 DEF SourceInv, Flow, TargetsOK, Replaces
<1>6. Hashed'
  <2>1. ASSUME SourcesUnchanged, plan # None, NEW r \in plan.sources
        PROVE  /\ Now[r.src] = r.sha
               /\ r.src \notin InNeutral => Authored(r.src, native[r.src])
    BY <2>1 DEF SourceInv, RecordsOK, SourcesUnchanged, Now
  <2> QED BY <1>1, <1>2, <2>1 DEF SourceInv, Flow, Hashed
<1> QED BY <1>1, <1>3, <1>5, <1>6 DEF SourceInv

\* Without some of its files what the user wrote is still the user's.
LEMMA LeftIsAuthored ==
  ASSUME NEW s, NEW c, Authored(s, c), NEW left \in SUBSET c.files, left # {}
  PROVE  Authored(s, [c EXCEPT !.files = left])
<1> DEFINE d == [c EXCEPT !.files = left]
<1>1. c = [files |-> c.files, marks |-> c.marks, fields |-> c.fields]
  BY DEF Authored
<1>2. d.files = left /\ d = [files |-> d.files, marks |-> d.marks, fields |-> d.fields]
  BY <1>1
<1>3. ASSUME NEW l \in SUBSET left PROVE [d EXCEPT !.files = l] # Absent
  <2>1. [d EXCEPT !.files = l] = [c EXCEPT !.files = l]
    BY <1>1, <1>2 DEF d
  <2> QED BY <2>1 DEF Authored
<1> HIDE DEF d
<1>4. Authored(s, d)
  BY <1>2, <1>3 DEF Authored
<1> QED BY <1>4 DEF d

\* What the replacement makes of one native file.
LEMMA Replacing ==
  ASSUME SourceInv, pc = "remove", ReplacementApproved, NEW s \in Sources
  PROVE  LET left == native[s].files
                       \ {<<p[2], p[3]>> : p \in {q \in plan.replacement.removes : q[1] = s}}
         IN  \/ \E e \in plan.replacement.entries : e.src = s /\ AfterReplacement[s] = e.content
             \/ /\ \A e \in plan.replacement.entries : e.src # s
                /\ ~Deleted(plan.replacement, s)
                /\ AfterReplacement[s] = native[s]
             \/ /\ \A e \in plan.replacement.entries : e.src # s
                /\ Deleted(plan.replacement, s)
                /\ s \notin InNeutral /\ native[s] # Absent /\ Authored(s, native[s])
                /\ left # native[s].files
                /\ AfterReplacement[s] = IF left = {} THEN Absent
                                         ELSE [native[s] EXCEPT !.files = left]
<1> DEFINE rep == plan.replacement
           removed == {p \in rep.removes : p[1] = s}
           entry == {e \in rep.entries : e.src = s}
           left == native[s].files \ {<<p[2], p[3]>> : p \in removed}
<1>1. AfterReplacement[s] = IF entry # {} THEN (CHOOSE e \in entry : TRUE).content
                            ELSE IF removed = {} THEN native[s]
                            ELSE IF left = {} THEN Absent
                            ELSE [native[s] EXCEPT !.files = left]
  BY DEF AfterReplacement
<1>2. CASE entry # {}
  <2>1. (CHOOSE e \in entry : TRUE) \in entry BY <1>2
  <2> QED BY <1>1, <1>2, <2>1
<1>3. CASE entry = {} /\ removed = {}
  BY <1>1, <1>3 DEF Deleted
<1>4. CASE entry = {} /\ removed # {}
  <2>1. PICK p \in rep.removes : p[1] = s BY <1>4
  <2>2. plan # None /\ RecordsOK(plan.sources) /\ ReplacementOK(plan.sources, rep)
    BY DEF SourceInv, Flow
  <2>3. s \notin InNeutral /\ \E r \in plan.sources : r.src = s
    BY <2>1, <2>2 DEF ReplacementOK
  <2>4. PICK r \in plan.sources : r.src = s BY <2>3
  <2>5. Now[s] = native[s] BY <2>3 DEF Now
  <2>6. native[s] # Absent /\ Authored(s, native[s])
    BY <2>1, <2>3, <2>4, <2>5 DEF ReplacementApproved, SourceInv, Hashed
  <2>7. <<p[2], p[3]>> \in native[s].files
    BY <2>1, <2>5 DEF ReplacementApproved
  <2>8. <<p[2], p[3]>> \notin left
    BY <2>1
  <2>9. Deleted(rep, s) BY <2>1 DEF Deleted
  <2> QED BY <1>1, <1>4, <2>3, <2>6, <2>7, <2>8, <2>9
<1> QED BY <1>2, <1>3, <1>4

LEMMA ReplaceSource == ASSUME SourceInv, Replace PROVE SourceInv'
<1> DEFINE rep == plan.replacement
<1>1. /\ UNCHANGED <<neutral, inventory, plan, work, edits>>
      /\ pc = "remove" /\ pc' = "idle"
      /\ outcome' \in {"refused", "restored", "applied"}
      /\ \/ UNCHANGED <<native, manifest>>
         \/ /\ ReplacementApproved /\ ~DoctorBlocks(AfterReplacement, NewManifest)
            /\ native' = AfterReplacement /\ manifest' = NewManifest
  BY DEF Replace, Stop, Finish, Applied, Goto, scope, documents
<1>2. Flow' /\ TargetsOK' /\ Hashed'
  BY <1>1 DEF SourceInv, Flow, Hashed, TargetsOK, Planning
<1>3. CASE UNCHANGED <<native, manifest>>
  <2>1. NativeOK' BY <1>3 DEF SourceInv, NativeOK, Listed
  <2> QED BY <1>1, <1>2, <2>1 DEF SourceInv
<1>4. CASE /\ ReplacementApproved /\ ~DoctorBlocks(AfterReplacement, NewManifest)
           /\ native' = AfterReplacement /\ manifest' = NewManifest
  <2>1. /\ ReplacementOK(plan.sources, rep) /\ NativeOK
        /\ rep.removes # {} \/ rep.rewrites
    BY <1>1 DEF SourceInv, Flow, Replaces
  <2>2. Listed' = rep.manifest[2] /\ manifest = rep.manifest[1]
    BY <1>4 DEF DoctorBlocks, NewManifest, Listed, ReplacementApproved
  <2>3. native' = [s \in Sources |-> native'[s]]
    BY <1>4 DEF AfterReplacement
  <2>4. ASSUME NEW l \in Listed' PROVE l[1] \in Sources
    <3>1. CASE manifest # None /\ l \in manifest
      BY <2>1, <3>1 DEF NativeOK, Listed
    <3>2. ASSUME NEW e \in rep.entries, l = <<e.src, e.content>> PROVE l[1] \in Sources
      BY <2>1, <3>2 DEF ReplacementOK
    <3> QED BY <2>1, <2>2, <2>4, <3>1, <3>2 DEF ReplacementOK
  <2>5. ASSUME NEW s \in Sources
        PROVE  \/ native'[s] = Absent
               \/ Authored(s, native'[s])
               \/ <<s, native'[s]>> \in Listed' /\ KindOf[s] # "skill"
    <3>1. ASSUME NEW e \in rep.entries, e.src = s, native'[s] = e.content
          PROVE  <<s, native'[s]>> \in Listed' /\ KindOf[s] # "skill"
      BY <2>1, <2>2, <3>1 DEF ReplacementOK
    <3>2. CASE (\A e \in rep.entries : e.src # s) /\ native'[s] = native[s]
      <4>1. CASE <<s, native[s]>> \in Listed /\ KindOf[s] # "skill"
        <5>1. manifest # None /\ <<s, native[s]>> \in manifest
          BY <4>1 DEF Listed
        <5>2. <<s, native[s]>> \in rep.manifest[2]
          BY <2>1, <2>2, <3>2, <5>1 DEF ReplacementOK
        <5> QED BY <2>2, <3>2, <4>1, <5>2
      <4> QED BY <2>1, <3>2, <4>1 DEF NativeOK
    <3>3. ASSUME NEW left \in SUBSET native[s].files, Authored(s, native[s]),
                 native'[s] = IF left = {} THEN Absent ELSE [native[s] EXCEPT !.files = left]
          PROVE  native'[s] = Absent \/ Authored(s, native'[s])
      BY <3>3, LeftIsAuthored
    <3>4. \/ \E e \in rep.entries : e.src = s /\ native'[s] = e.content
          \/ (\A e \in rep.entries : e.src # s) /\ native'[s] = native[s]
          \/ \E left \in SUBSET native[s].files :
               /\ Authored(s, native[s])
               /\ native'[s] = IF left = {} THEN Absent ELSE [native[s] EXCEPT !.files = left]
      <4> DEFINE left == native[s].files \ {<<p[2], p[3]>> : p \in {q \in rep.removes : q[1] = s}}
      <4>1. left \in SUBSET native[s].files OBVIOUS
      <4>2. native'[s] = AfterReplacement[s] BY <1>4
      <4> HIDE DEF rep
      <4> QED BY <1>1, <1>4, <4>1, <4>2, Replacing DEF rep
    <3> QED BY <3>1, <3>2, <3>3, <3>4
  <2>6. NativeOK' BY <2>3, <2>4, <2>5 DEF NativeOK
  <2> QED BY <1>1, <1>2, <2>6 DEF SourceInv
<1> QED BY <1>1, <1>3, <1>4

LEMMA EditSource ==
  ASSUME SourceInv,
         \/ \E s \in Sources \ InNeutral : EditNative(s)
         \/ \E p \in OwnPaths : EditNeutral(p)
         \/ UNCHANGED vars
  PROVE  SourceInv'
<1>1. /\ UNCHANGED <<manifest, inventory, plan, pc, work, outcome, verified>>
      /\ edits' = edits \/ (edits < MaxEdits /\ edits' = edits + 1)
      /\ \/ UNCHANGED native
         \/ \E s \in Sources \ InNeutral : \E c \in Variants[s] \cup {Absent} :
              native' = [native EXCEPT ![s] = c]
  <2>1. CASE \E s \in Sources \ InNeutral : EditNative(s)
    <3>1. PICK s \in Sources \ InNeutral : EditNative(s) BY <2>1
    <3>2. PICK c \in Variants[s] \cup {Absent} : native' = [native EXCEPT ![s] = c]
      BY <3>1 DEF EditNative
    <3>3. /\ UNCHANGED <<manifest, inventory, plan, pc, work, outcome, verified>>
          /\ edits < MaxEdits /\ edits' = edits + 1
      BY <3>1 DEF EditNative, Touch, documents
    <3> QED BY <3>2, <3>3
  <2>2. CASE \E p \in OwnPaths : EditNeutral(p)
    BY <2>2 DEF EditNeutral, Touch, documents
  <2>3. CASE UNCHANGED vars
    <3>1. UNCHANGED <<native, manifest, inventory, plan, pc, work, outcome, verified, edits>>
      BY <2>3 DEF vars, scope, documents, notes
    <3> QED BY <3>1
  <2> QED BY <2>1, <2>2, <2>3
<1>2. NativeOK'
  <2>1. CASE UNCHANGED native
    BY <1>1, <2>1 DEF SourceInv, NativeOK, Listed
  <2>2. ASSUME NEW s \in Sources \ InNeutral, NEW c \in Variants[s] \cup {Absent},
               native' = [native EXCEPT ![s] = c]
        PROVE  NativeOK'
    <3>1. c = Absent \/ Authored(s, c) BY HostsAssumption
    <3>2. Listed' = Listed BY <1>1 DEF Listed
    <3> QED BY <2>2, <3>1, <3>2 DEF SourceInv, NativeOK
  <2> QED BY <1>1, <2>1, <2>2
<1>3. edits' \in 0 .. MaxEdits
  BY <1>1, HostsAssumption DEF SourceInv, Flow
<1>4. Flow' /\ TargetsOK'
  BY <1>1, <1>3 DEF SourceInv, Flow, TargetsOK, Planning, Replaces
<1>5. Hashed'
  <2>1. \A s \in Sources :
          \/ native'[s] = native[s]
          \/ s \notin InNeutral => native'[s] = Absent \/ Authored(s, native'[s])
    <3>1. ASSUME NEW s \in Sources \ InNeutral, NEW c \in Variants[s] \cup {Absent},
                 native' = [native EXCEPT ![s] = c], NEW t \in Sources
          PROVE  native'[t] = native[t] \/ native'[t] = Absent \/ Authored(t, native'[t])
      <4>1. c = Absent \/ Authored(s, c) BY HostsAssumption
      <4>2. native'[t] = IF t = s THEN c ELSE native[t]
        BY <3>1 DEF SourceInv, NativeOK
      <4> QED BY <4>1, <4>2
    <3> QED BY <1>1, <3>1
  <2>2. pc = "remove" => \A r \in plan.sources : r.src \in Sources
    BY DEF SourceInv, Flow, RecordsOK
  <2> QED BY <1>1, <2>1, <2>2 DEF SourceInv, Hashed
<1> QED BY <1>1, <1>2, <1>4, <1>5 DEF SourceInv

LEMMA SourceKept == SourceInv /\ [Next]_vars => SourceInv'
<1> SUFFICES ASSUME SourceInv, [Next]_vars PROVE SourceInv'
  OBVIOUS
<1>1. ASSUME NEW targets \in Targets, NEW importedAt \in Times, NEW cache \in Caches,
             NEW replaceNative \in BOOLEAN, NEW answered \in BOOLEAN,
             Plan(targets, importedAt, replaceNative, cache, answered)
      PROVE  SourceInv'
  BY <1>1, PlanSource
<1> QED
  BY <1>1, DocumentSource, WorkSource, WriteSource, PlanFailsSource, ImportSource,
     ReplaceSource, EditSource
     DEF Next

LEMMA SourceInvariant == Spec => []SourceInv
BY InitSource, SourceKept, PTL DEF Spec

-------------------------------------------------------------------------------
(* What follows for native files.                                            *)

\* Every variable of the planner keeps its type: in particular an inventory never
\* has a source that was not there, and the manifest lists native files only.
THEOREM TypeCorrect == Spec => []TypeOK
<1>1. SourceInv => TypeOK
  BY DEF SourceInv, NativeOK, RecordsOK, Flow, Listed, TypeOK
<1> QED BY <1>1, SourceInvariant, PTL

\* An entrypoint of the manager's is listed as long as it is there, whatever
\* plans, old or new, replaced, kept or deleted meanwhile (planner.py:1068,
\* _native_entrypoint_replacements): the next scan does not take it for the user's.
THEOREM EntrypointsAreListed == Spec => []EntrypointsListed
<1>1. SourceInv => EntrypointsListed
  BY DEF SourceInv, NativeOK, Authored, EntrypointsListed
<1> QED BY <1>1, SourceInvariant, PTL

\* What has been edited is not a step of the program.
LEMMA NotTheUser ==
  ASSUME SourceInv, [Next]_vars, edits' = edits
  PROVE  /\ neutral' # neutral => Import
         /\ native' # native => Replace
<1>1. edits \in Nat
  BY HostsAssumption DEF SourceInv, Flow
<1>2. edits + 1 # edits BY <1>1
<1>3. /\ ~ \E s \in Sources \ InNeutral : EditNative(s)
      /\ ~ \E p \in OwnPaths : EditNeutral(p)
  BY <1>2 DEF EditNative, EditNeutral, Touch
<1> QED
  BY <1>3 DEF Next, Scan, Normalize, ClassifyRequest, Respond, ValidateResponse, Plan, Verify,
              Screen, Write, PlanFails, VerifySources, Import, VerifyAgain, Replace, Stop, vars,
              scope

LEMMA PreservedStep ==
  ASSUME SourceInv, [Next]_vars, native' # native, edits' = edits, NEW r \in plan.sources,
         Now[r.src] # Absent
  PROVE  r.src \in plan.replacement.preserved <=> native'[r.src] = native[r.src]
<1> DEFINE rep == plan.replacement
           s == r.src
<1>1. pc = "remove" /\ ReplacementApproved /\ native' = AfterReplacement
  <2>1. Replace BY NotTheUser
  <2> QED BY <2>1 DEF Replace, Stop, scope
<1>2. /\ RecordsOK(plan.sources) /\ ReplacementOK(plan.sources, rep)
  BY <1>1 DEF SourceInv, Flow
<1>3. s \in Sources /\ Now[s] # Absent
  BY <1>2 DEF RecordsOK
<1>4. s \in rep.preserved <=> ~Deleted(rep, s) /\ ~Overwritten(rep, s)
  BY <1>2 DEF ReplacementOK
<1>5. ASSUME NEW e \in rep.entries, e.src = s, native'[s] = e.content
      PROVE  Overwritten(rep, s) /\ native'[s] # native[s]
  <2>1. e.expected # Absent BY <1>1, <1>3, <1>5 DEF ReplacementApproved
  <2>2. s \notin InNeutral BY <1>2, <1>5, AgentsAssumption DEF ReplacementOK
  <2>3. Authored(s, native[s]) BY <1>1, <1>3, <2>2 DEF SourceInv, Hashed, Now
  <2>4. \E f \in native'[s].files : f[2][1] = "entry" BY <1>2, <1>5 DEF ReplacementOK
  <2> QED BY <1>5, <2>1, <2>3, <2>4 DEF Overwritten, Authored
<1>6. CASE (\A e \in rep.entries : e.src # s) /\ ~Deleted(rep, s) /\ native'[s] = native[s]
  BY <1>4, <1>6 DEF Overwritten
<1>7. ASSUME Deleted(rep, s), native[s] # Absent, NEW left, left # native[s].files,
             Authored(s, native[s]),
             native'[s] = IF left = {} THEN Absent ELSE [native[s] EXCEPT !.files = left]
      PROVE  s \notin rep.preserved /\ native'[s] # native[s]
  <2>1. native[s] = [files |-> native[s].files, marks |-> native[s].marks,
                     fields |-> native[s].fields]
    BY <1>7 DEF Authored
  <2>2. [native[s] EXCEPT !.files = left].files = left BY <2>1
  <2> QED BY <1>4, <1>7, <2>2
<1> QED BY <1>1, <1>3, <1>4, <1>5, <1>6, <1>7, Replacing

\* The preview tells the truth about every source of its inventory: a replacement
\* changes or deletes it, or leaves it exactly as it was, as it is listed in
\* preserved (planner.py:718, source_files_preserved), also when the documents are old and
\* the user edits between preview and apply.
THEOREM PreservedIsLeftAlone == Spec => PreservedIsPreserved
<1>1. SourceInv /\ [Next]_vars =>
        [native' # native /\ edits' = edits =>
           \A r \in plan.sources :
             Now[r.src] # Absent =>
               (r.src \in plan.replacement.preserved <=> native'[r.src] = native[r.src])]_vars
  BY PreservedStep
<1> QED BY <1>1, SourceInvariant, PTL DEF Spec, PreservedIsPreserved

-------------------------------------------------------------------------------
(* What the planner imports.                                                 *)

\* The path of a file: what lies below skills has a name of its own.
PathOK(p) == p \in Seq(Word) /\ p # <<>> /\ (p[1] = "skills" => p[Len(p)] # "")

\* A skill directory as it is in the neutral scope.
Directory(c) ==
  /\ \A f \in c.files : f = <<f[1], f[2]>> /\ f[1] \in Word \ {""}
  /\ \A f, g \in c.files : f[1] = g[1] => f = g

NeutralOK(records) == \A r \in records : r.src \in InNeutral => Directory(r.sha)

\* An artifact goes to one path, or is a directory below skills.
Placed(a) ==
  /\ a.src \in Nat
  /\ a.dest \in Seq(Word) /\ a.dest # <<>>
  /\ a.dest[1] = "memory" => Len(a.dest) > 2
  /\ \A f \in a.files : f[1] \in Word /\ (f[1] = "" <=> a.dest[1] # "skills")
  /\ \A f, g \in a.files : f[1] = g[1] => f = g

\* A file is the index, or has a text of a record.
Sourced(o, records) == Imported(o[2]) => \E r \in records : Stems(o[2], r.sha)

Sound(A, records) ==
  \A a \in A : Placed(a) /\ \A o \in Outputs(a) : Sourced(o, records)

\* Every piece of a source is the origin of some file, and complete there, but for a
\* command that the conversion abridges.
Kept(r, outputs) ==
  \A f \in r.sha.files :
    \E o \in outputs : Imported(o[2]) /\ Origin(o[2]) = f[2] /\ (Abridged(r) \/ Whole(o[2]))

\* What artifacts are made from, they keep.
Covered(A, records) ==
  \A r \in records :
    /\ r.src \notin InNeutral
    /\ KindOf[r.src] = "skill" \/ \E a \in A : Identity(a) = Identity(r)
    => Kept(r, AllOutputs(A))

OneEach(outputs) == \A o, q \in outputs : o[1] = q[1] => o = q

\* The files of a neutral scope.
InScope(scoped) == {<<p, scoped[p]>> : p \in DOMAIN scoped}

DecisionsOK(decisions) ==
  \A d \in decisions : d.kind \in DecisionKinds /\ d.name \in Seq(Word) /\ d.agent \in Word

\* The planner's record, and what is asked of it unless it found a conflict.
CallFields == {"targets", "importedAt", "replaceNative", "cache", "decisions", "artifacts",
               "conflicts", "migrated", "imports", "seen"}

WorkOK ==
  Planning =>
    /\ CallFields \subseteq DOMAIN work
    /\ DecisionsOK(work.decisions)
    /\ pc = "screen" /\ work.conflicts = {} =>
         /\ Sound(work.artifacts, inventory) /\ Covered(work.artifacts, inventory)
         /\ \A a, b \in work.artifacts : a.dest = b.dest => a = b
    /\ pc = "write" /\ work.conflicts = {} =>
         /\ OneEach(work.imports)
         /\ \A o \in work.imports : PathOK(o[1]) /\ Sourced(o, inventory)
         /\ \A r \in inventory :
              r.src \notin InNeutral /\ Identity(r) \in work.migrated =>
                Kept(r, work.imports \cup InScope(work.seen))

\* What a replacement takes is imported, or was in the scope, or has been imported.
Takes(rep, s) == Deleted(rep, s) \/ Overwritten(rep, s)

\* Apply imports before it replaces.
ToImport == IF pc \in {"replace", "remove"} THEN {} ELSE plan.imports

PlanOK ==
  plan # None /\ plan.replacement.conflicts = {} =>
    /\ OneEach(plan.imports)
    /\ \A o \in plan.imports : PathOK(o[1]) /\ Sourced(o, plan.sources)
    /\ \A e \in plan.replacement.entries :
         e.expected # Absent =>
           \/ plan.replacement.manifest[1] # None
              /\ <<e.src, e.expected>> \in plan.replacement.manifest[1]
           \/ \E r \in plan.sources : r.src = e.src
    /\ ~touched =>
         \A r \in plan.sources :
           Takes(plan.replacement, r.src) =>
             Kept(r, ToImport \cup InScope(neutral))

ImportInv ==
  /\ \A p \in DOMAIN neutral : PathOK(p)
  /\ inventory # None => NeutralOK(inventory)
  /\ response # None => DecisionsOK(response.decisions)
  /\ pc \in {"import", "replace", "remove"} => plan.replacement.conflicts = {}
  /\ WorkOK /\ PlanOK

-------------------------------------------------------------------------------
(* Paths and texts.                                                          *)

\* A first word stays the first, whatever follows.
LEMMA Longer ==
  ASSUME NEW p \in Seq(Word), p # <<>>, NEW q \in Seq(Word)
  PROVE  /\ p \o q \in Seq(Word) /\ p \o q # <<>>
         /\ (p \o q)[1] = p[1] /\ Len(p \o q) = Len(p) + Len(q)
<1>1. Len(p) \in Nat /\ Len(p) >= 1 /\ Len(q) \in Nat
  BY EmptySeq, LenProperties
<1>2. p \o q \in Seq(Word) /\ Len(p \o q) = Len(p) + Len(q)
  BY ConcatProperties
<1>3. (p \o q)[1] = p[1]
  BY <1>1, ConcatProperties
<1> QED BY <1>1, <1>2, <1>3, EmptySeq

LEMMA NamesAreWords ==
  ASSUME NEW r, r.src \in Sources
  PROVE  /\ NameOf[r.src] \in Seq(Word) /\ Len(NameOf[r.src]) >= 1
         /\ Agent(r) \in Word /\ r.src \in Nat
<1>1. NameOf[r.src] \in Seq(Word) /\ NameOf[r.src] # <<>> /\ AgentOf[r.src] \in Word
  BY NamesAssumption
<1>2. Len(NameOf[r.src]) \in Nat \ {0}
  BY <1>1, EmptySeq
<1>3. Len(NameOf[r.src]) >= 1
  BY <1>2
<1>4. r.src \in Nat
  BY SourcesAssumption
<1> QED BY <1>1, <1>3, <1>4 DEF Agent

\* A destination of a name, with words before it and the agent behind it.
LEMMA Destination ==
  ASSUME NEW first \in Word, NEW name \in Seq(Word), Len(name) >= 1, NEW agent \in Word
  PROVE  /\ <<first>> \o name \in Seq(Word) /\ <<first>> \o name # <<>>
         /\ (<<first>> \o name)[1] = first /\ Len(<<first>> \o name) >= 2
         /\ <<first>> \o name \o <<agent>> \in Seq(Word)
         /\ <<first>> \o name \o <<agent>> # <<>>
         /\ (<<first>> \o name \o <<agent>>)[1] = first
         /\ Len(<<first>> \o name \o <<agent>>) > 2
<1> DEFINE p == <<first>>
           q == p \o name
           a == <<agent>>
<1>1. p \in Seq(Word) /\ p # <<>> /\ p[1] = first /\ Len(p) = 1
  OBVIOUS
<1>2. a \in Seq(Word) /\ Len(a) = 1
  OBVIOUS
<1>3. Len(name) \in Nat BY LenProperties
<1> HIDE DEF p, a
<1>4. q \in Seq(Word) /\ q # <<>> /\ q[1] = first /\ Len(q) = 1 + Len(name)
  BY <1>1, Longer
<1> HIDE DEF q
<1>5. q \o a \in Seq(Word) /\ q \o a # <<>> /\ (q \o a)[1] = q[1] /\ Len(q \o a) = Len(q) + Len(a)
  BY <1>2, <1>4, Longer
<1>6. Len(q) >= 2 /\ Len(q \o a) > 2
  BY <1>2, <1>3, <1>4, <1>5
<1> QED BY <1>4, <1>5, <1>6 DEF p, q, a

LEMMA Below ==
  ASSUME NEW p \in Seq(Word), p # <<>>, NEW child \in Word
  PROVE  /\ Append(p, child) \in Seq(Word) /\ Append(p, child) # <<>>
         /\ Append(p, child)[1] = p[1]
         /\ Append(p, child)[Len(Append(p, child))] = child
         /\ Len(Append(p, child)) = Len(p) + 1
<1>1. Len(p) \in Nat /\ Len(p) >= 1
  BY EmptySeq, LenProperties
<1>2. /\ Append(p, child) \in Seq(Word) /\ Append(p, child) # <<>>
      /\ Len(Append(p, child)) = Len(p) + 1
      /\ \A i \in 1 .. Len(p) : Append(p, child)[i] = p[i]
      /\ Append(p, child)[Len(p) + 1] = child
  BY AppendProperties
<1> QED BY <1>1, <1>2

LEMMA Joined ==
  ASSUME NEW a, NEW b, NEW w
  PROVE  /\ <<a>> \o <<w>> = <<a, w>>
         /\ <<a, b>> \o <<w>> = <<a, b, w>>
<1> DEFINE S == {a, b, w}
<1>1. /\ <<a>> \in Seq(S) /\ Len(<<a>>) = 1 /\ <<w>> \in Seq(S) /\ Len(<<w>>) = 1
      /\ <<a, b>> \in Seq(S) /\ Len(<<a, b>>) = 2
  OBVIOUS
<1>2. /\ <<a, w>> \in Seq(S) /\ Len(<<a, w>>) = 2
      /\ <<a, b, w>> \in Seq(S) /\ Len(<<a, b, w>>) = 3
  OBVIOUS
<1>3. <<a>> \o <<w>> = <<a, w>>
  <2>1. /\ <<a>> \o <<w>> \in Seq(S) /\ Len(<<a>> \o <<w>>) = 2
        /\ \A i \in 1 .. 2 : (<<a>> \o <<w>>)[i] = IF i <= 1 THEN <<a>>[i] ELSE <<w>>[i - 1]
    BY <1>1, ConcatProperties
  <2>2. \A i \in 1 .. 2 : (<<a>> \o <<w>>)[i] = <<a, w>>[i]
    BY <2>1
  <2> HIDE DEF S
  <2> QED BY <1>2, <2>1, <2>2, SeqEqual
<1>4. <<a, b>> \o <<w>> = <<a, b, w>>
  <2>1. /\ <<a, b>> \o <<w>> \in Seq(S) /\ Len(<<a, b>> \o <<w>>) = 3
        /\ \A i \in 1 .. 3 : (<<a, b>> \o <<w>>)[i] =
                               IF i <= 2 THEN <<a, b>>[i] ELSE <<w>>[i - 2]
    BY <1>1, ConcatProperties
  <2>2. \A i \in 1 .. 3 : (<<a, b>> \o <<w>>)[i] = <<a, b, w>>[i]
    BY <2>1
  <2> HIDE DEF S
  <2> QED BY <1>2, <2>1, <2>2, SeqEqual
<1> QED BY <1>3, <1>4

\* The origin of a text is the text, whatever is put before it.
LEMMA OriginOfText ==
  ASSUME NEW w, NEW a, NEW b
  PROVE  /\ Origin(<<w>>) = <<w>>
         /\ (Imported(<<w>>) <=> w # "index") /\ (Whole(<<w>>) <=> w # "abridged")
         /\ Origin(<<a>> \o <<w>>) = <<w>> /\ (Imported(<<a>> \o <<w>>) <=> a # "index")
         /\ (Whole(<<a>> \o <<w>>) <=> a # "abridged")
         /\ Origin(<<a, b>> \o <<w>>) = <<w>> /\ (Imported(<<a, b>> \o <<w>>) <=> a # "index")
         /\ (Whole(<<a, b>> \o <<w>>) <=> a # "abridged")
<1> QED BY Joined DEF Origin, Imported, Whole

\* A file that the user wrote is one text.
LEMMA OneText ==
  ASSUME NEW r, Authored(r.src, r.sha), KindOf[r.src] # "skill"
  PROVE  \E w : /\ Text(r) = <<w>> /\ w \notin {"index", "abridged"} /\ Text(r) \in Plain(r.sha)
                /\ \A f \in r.sha.files : f[2] = <<w>>
<1>1. PICK f \in r.sha.files : TRUE BY DEF Authored
<1>2. f[1] = "" /\ f[2] = <<f[2][1]>> /\ f[2][1] \notin {"index", "abridged"}
  <2> DEFINE w == f[2][1]
  <2>1. f = <<f[1], <<w>>>> /\ w \notin {"entry", "index", "abridged"} /\ f[1] = ""
    BY DEF Authored
  <2>2. ASSUME NEW v, f = <<f[1], <<v>>>> PROVE f[2] = <<v>>
    BY <2>2
  <2>3. f[2] = <<w>>
    <3> HIDE DEF w
    <3> QED BY <2>1, <2>2
  <2> QED BY <2>1, <2>3
<1>3. \A g \in r.sha.files : g = f
  BY <1>2 DEF Authored
<1>4. Plain(r.sha) = {f[2]}
  BY <1>1, <1>3 DEF Plain
<1>5. Text(r) = f[2]
  BY <1>4 DEF Text
<1>6. \A g \in r.sha.files : g[2] = f[2] BY <1>3
<1> QED BY <1>2, <1>4, <1>5, <1>6

LEMMA LeastNatural ==
  ASSUME NEW T \in SUBSET Nat, T # {}
  PROVE  \E n \in T : \A m \in T : n <= m
<1> DEFINE R == {p \in Nat \X Nat : p[1] < p[2]}
<1>1. IsWellFoundedOn(R, Nat)
  BY NatLessThanWellFounded DEF OpToRel
<1>2. PICK n \in T : \A m \in T : <<m, n>> \notin R
  <2> HIDE DEF R
  <2> QED BY <1>1, WFMin
<1>3. \A m \in T : ~(m < n)
  BY <1>2
<1> QED BY <1>2, <1>3

-------------------------------------------------------------------------------
(* Collisions and outputs.                                                   *)

LEMMA FirstIsIn ==
  ASSUME NEW G, G # {}, \A a \in G : a.src \in Nat
  PROVE  First(G) \in G
<1> DEFINE T == {a.src : a \in G}
<1>1. T \in SUBSET Nat /\ T # {}
  OBVIOUS
<1>2. PICK n \in T : \A m \in T : n <= m
  <2> HIDE DEF T
  <2> QED BY <1>1, LeastNatural
<1>3. \E a \in G : \A b \in G : a.src <= b.src
  BY <1>2
<1> QED BY <1>3 DEF First

\* Without a conflict a batch drops duplicates: one artifact is left for a
\* destination, with the files of all of them.
LEMMA BatchKeepsOne ==
  ASSUME NEW A, \A a \in A : a.src \in Nat, Batch(A).conflicts = {}
  PROVE  /\ Batch(A).artifacts \subseteq A
         /\ \A a \in A : \E b \in Batch(A).artifacts : b.dest = a.dest /\ b.files = a.files
         /\ \A a, b \in Batch(A).artifacts : a.dest = b.dest => a = b
<1>1. ASSUME NEW d \in Destinations(A) PROVE Agreed(Group(A, d))
  BY DEF Batch
<1>2. ASSUME NEW d \in Destinations(A)
      PROVE  First(Group(A, d)) \in Group(A, d) /\ Resolved(A, d) = {First(Group(A, d))}
  <2>1. Group(A, d) # {} /\ \A a \in Group(A, d) : a.src \in Nat
    BY DEF Destinations, Group
  <2> QED BY <1>1, <2>1, FirstIsIn DEF Resolved
<1>3. Batch(A).artifacts = {First(Group(A, d)) : d \in Destinations(A)}
  BY <1>2 DEF Batch
<1>4. ASSUME NEW d \in Destinations(A)
      PROVE  First(Group(A, d)) \in A /\ First(Group(A, d)).dest = d
  BY <1>2 DEF Group
<1>5. ASSUME NEW a \in A
      PROVE  \E b \in Batch(A).artifacts : b.dest = a.dest /\ b.files = a.files
  <2>1. a.dest \in Destinations(A) /\ a \in Group(A, a.dest)
    BY DEF Destinations, Group
  <2>2. Substance(First(Group(A, a.dest))) = Substance(a)
    BY <1>1, <1>2, <2>1 DEF Agreed
  <2> QED BY <1>3, <1>4, <2>1, <2>2 DEF Substance
<1> QED BY <1>3, <1>4, <1>5

LEMMA OutputPath ==
  ASSUME NEW a, Placed(a), NEW f \in a.files
  PROVE  LET p == IF f[1] = "" THEN a.dest ELSE Append(a.dest, f[1])
         IN  PathOK(p) /\ p # IndexPath /\ p[1] = a.dest[1]
<1>1. CASE f[1] = ""
  <2>1. a.dest \in Seq(Word) /\ a.dest # <<>> /\ a.dest[1] # "skills"
    BY <1>1 DEF Placed
  <2>2. a.dest # IndexPath
    <3>1. IndexPath[1] = "memory" /\ ~(Len(IndexPath) > 2) BY DEF IndexPath
    <3>2. a.dest[1] = "memory" => Len(a.dest) > 2 BY DEF Placed
    <3> QED BY <3>1, <3>2
  <2> QED BY <1>1, <2>1, <2>2 DEF PathOK
<1>2. CASE f[1] # ""
  <2> DEFINE p == Append(a.dest, f[1])
  <2>1. a.dest \in Seq(Word) /\ a.dest # <<>> /\ a.dest[1] = "skills" /\ f[1] \in Word
    BY <1>2 DEF Placed
  <2>2. p \in Seq(Word) /\ p # <<>> /\ p[1] = "skills" /\ p[Len(p)] = f[1]
    BY <2>1, Below
  <2>3. p # IndexPath
    <3>1. IndexPath[1] = "memory" BY DEF IndexPath
    <3> QED BY <2>2, <3>1
  <2> QED BY <1>2, <2>1, <2>2, <2>3 DEF PathOK
<1> QED BY <1>1, <1>2

LEMMA OutputsDiffer ==
  ASSUME NEW a, NEW b, Placed(a), Placed(b), a.dest = b.dest => a = b,
         NEW o \in Outputs(a), NEW q \in Outputs(b), o[1] = q[1]
  PROVE  o = q
<1>1. PICK f \in a.files : o = <<IF f[1] = "" THEN a.dest ELSE Append(a.dest, f[1]), f[2]>>
  BY DEF Outputs
<1>2. PICK g \in b.files : q = <<IF g[1] = "" THEN b.dest ELSE Append(b.dest, g[1]), g[2]>>
  BY DEF Outputs
<1>3. o[1][1] = a.dest[1] /\ q[1][1] = b.dest[1]
  BY <1>1, <1>2, OutputPath
<1>4. f[1] = "" <=> g[1] = ""
  BY <1>3 DEF Placed
<1>5. a.dest = b.dest /\ f[1] = g[1]
  <2>1. CASE f[1] = "" BY <1>1, <1>2, <1>4, <2>1
  <2>2. CASE f[1] # ""
    <3>1. /\ a.dest \in Seq(Word) /\ b.dest \in Seq(Word) /\ f[1] \in Word /\ g[1] \in Word
          /\ Append(a.dest, f[1]) = Append(b.dest, g[1])
      BY <1>1, <1>2, <1>4, <2>2 DEF Placed
    <3>2. PICK s \in Seq(Word), v \in Word : s = a.dest /\ v = f[1] BY <3>1
    <3>3. PICK t \in Seq(Word), w \in Word : t = b.dest /\ w = g[1] BY <3>1
    <3>4. Append(s, v) = Append(t, w) BY <3>1, <3>2, <3>3
    <3>5. s = t /\ v = w BY <3>4, AppendInjective
    <3> QED BY <3>2, <3>3, <3>5
  <2> QED BY <2>1, <2>2
<1>6. f = g
  BY <1>5 DEF Placed
<1> QED BY <1>1, <1>2, <1>5, <1>6

-------------------------------------------------------------------------------
(* What normalization and decisions make of a record.                        *)

Made(a, r, records) ==
  /\ Placed(a) /\ Identity(a) = Identity(r)
  /\ \A o \in Outputs(a) : Sourced(o, records)
  /\ r.src \notin InNeutral => Kept(r, Outputs(a))

\* What becomes of the text of a record.
TextsOf(r) ==
  {Text(r), <<"memory", r.src>> \o Text(r), <<"command">> \o Text(r), <<"skill">> \o Text(r)}
  \cup IF Abridged(r) THEN {<<"abridged">> \o Text(r)} ELSE {}

\* The text of a record, with something before it or not, in one file.
LEMMA MadeOfText ==
  ASSUME NEW records, RecordsOK(records), NEW r \in records, KindOf[r.src] # "skill",
         NEW kind, NEW dest \in Seq(Word), dest # <<>>,
         dest[1] = "memory" => Len(dest) > 2,
         NEW child \in Word, child = "" <=> dest[1] # "skills", NEW data \in TextsOf(r)
  PROVE  Made(Artifact(r, kind, dest, {<<child, data>>}), r, records)
<1> DEFINE a == Artifact(r, kind, dest, {<<child, data>>})
           path == IF child = "" THEN dest ELSE Append(dest, child)
<1>1. r.src \in Sources /\ r.src \notin InNeutral /\ Authored(r.src, r.sha)
  BY AgentsAssumption DEF RecordsOK
<1>2. PICK w : /\ Text(r) = <<w>> /\ w \notin {"index", "abridged"} /\ Text(r) \in Plain(r.sha)
               /\ \A f \in r.sha.files : f[2] = <<w>>
  BY <1>1, OneText
<1>3. Imported(data) /\ Origin(data) = <<w>> /\ (Abridged(r) \/ Whole(data))
  <2>1. \/ data \in {<<w>>, <<"memory", r.src>> \o <<w>>, <<"command">> \o <<w>>,
                     <<"skill">> \o <<w>>}
        \/ Abridged(r) /\ data = <<"abridged">> \o <<w>>
    BY <1>2 DEF TextsOf
  <2>2. Imported(<<w>>) /\ Origin(<<w>>) = <<w>> /\ Whole(<<w>>)
    BY <1>2, OriginOfText
  <2>3. /\ Imported(<<"memory", r.src>> \o <<w>>) /\ Whole(<<"memory", r.src>> \o <<w>>)
        /\ Origin(<<"memory", r.src>> \o <<w>>) = <<w>>
    BY OriginOfText
  <2>4. \A x \in {"command", "skill", "abridged"} :
          /\ Imported(<<x>> \o <<w>>) /\ Origin(<<x>> \o <<w>>) = <<w>>
          /\ x # "abridged" => Whole(<<x>> \o <<w>>)
    BY OriginOfText
  <2> QED BY <2>1, <2>2, <2>3, <2>4
<1>4. /\ a.src = r.src /\ a.sha = r.sha /\ a.dest = dest /\ a.files = {<<child, data>>}
  BY DEF Artifact
<1> HIDE DEF a
<1>0. <<child, data>>[1] = child /\ <<child, data>>[2] = data
  OBVIOUS
<1>5. Placed(a)
  <2>1. r.src \in Nat BY <1>1, SourcesAssumption
  <2>2. \A f \in a.files : f = <<child, data>> BY <1>4
  <2> QED BY <1>0, <1>4, <2>1, <2>2 DEF Placed
<1>6. Outputs(a) = {<<path, data>>}
  <2>1. /\ <<child, data>> \in a.files
        /\ \A f \in a.files : f[1] = child /\ f[2] = data
    BY <1>0, <1>4
  <2>2. Outputs(a) = {<<IF f[1] = "" THEN dest ELSE Append(dest, f[1]), f[2]>> : f \in a.files}
    BY <1>4 DEF Outputs
  <2> QED BY <2>1, <2>2
<1>7. \A o \in Outputs(a) : Sourced(o, records)
  <2>1. Stems(data, r.sha) BY <1>2, <1>3 DEF Stems
  <2>2. ASSUME NEW o, o = <<path, data>> PROVE Sourced(o, records)
    <3>1. o[2] = data BY <2>2
    <3> HIDE DEF path
    <3> QED BY <2>1, <3>1 DEF Sourced
  <2> QED BY <1>6, <2>2
<1>8. Kept(r, Outputs(a))
  <2>1. <<path, data>> \in Outputs(a) /\ <<path, data>>[2] = data
    BY <1>6
  <2> HIDE DEF path
  <2> QED BY <1>2, <1>3, <2>1 DEF Kept
<1>9. Identity(a) = Identity(r)
  BY <1>4 DEF Identity
<1> QED BY <1>5, <1>7, <1>8, <1>9 DEF Made, a

\* A skill is copied, file by file.
LEMMA MadeByCopy ==
  ASSUME NEW records, RecordsOK(records), NeutralOK(records),
         NEW r \in records, KindOf[r.src] = "skill"
  PROVE  Made(CopiedSkill(r), r, records)
<1> DEFINE a == CopiedSkill(r)
           dest == <<"skills">> \o NameOf[r.src]
<1>1. r.src \in Sources
  BY DEF RecordsOK
<1>2. dest \in Seq(Word) /\ dest # <<>> /\ dest[1] = "skills" /\ r.src \in Nat
  <2>1. "skills" \in Word BY WordsAssumption
  <2> QED BY <1>1, <2>1, NamesAreWords, Destination
<1>3. a.src = r.src /\ a.sha = r.sha /\ a.dest = dest /\ a.files = r.sha.files
  BY DEF CopiedSkill, Artifact
<1> HIDE DEF a, dest
<1>4. /\ \A f \in r.sha.files : f[1] \in Word /\ f[1] # ""
      /\ \A f, g \in r.sha.files : f[1] = g[1] => f = g
  <2>1. CASE r.src \in InNeutral
    BY <2>1 DEF NeutralOK, Directory
  <2>2. CASE r.src \notin InNeutral
    <3>1. Authored(r.src, r.sha) BY <2>2 DEF RecordsOK
    <3> QED BY <3>1 DEF Authored
  <2> QED BY <2>1, <2>2
<1>5. Placed(a)
  BY <1>2, <1>3, <1>4 DEF Placed
<1>6. Outputs(a) = {<<Append(dest, f[1]), f[2]>> : f \in r.sha.files}
  BY <1>3, <1>4 DEF Outputs
<1>7. ASSUME r.src \notin InNeutral, NEW f \in r.sha.files
      PROVE  Imported(f[2]) /\ Origin(f[2]) = f[2] /\ Whole(f[2])
  <2> DEFINE w == f[2][1]
  <2>1. f = <<f[1], <<w>>>> /\ w \notin {"entry", "index", "abridged"}
    BY <1>7 DEF RecordsOK, Authored
  <2>2. ASSUME NEW v, f = <<f[1], <<v>>>> PROVE f[2] = <<v>>
    BY <2>2
  <2> HIDE DEF w
  <2> QED BY <2>1, <2>2, OriginOfText
<1>8. ASSUME NEW o \in Outputs(a) PROVE Sourced(o, records)
  <2>1. PICK f \in r.sha.files : o = <<Append(dest, f[1]), f[2]>>
    BY <1>6
  <2>2. o[2] = f[2]
    BY <2>1
  <2> QED BY <2>2 DEF Sourced, Stems, Plain
<1>9. ASSUME r.src \notin InNeutral PROVE Kept(r, Outputs(a))
  <2>1. ASSUME NEW f \in r.sha.files
        PROVE  \E o \in Outputs(a) : Imported(o[2]) /\ Origin(o[2]) = f[2] /\ Whole(o[2])
    <3>1. <<Append(dest, f[1]), f[2]>> \in Outputs(a) BY <1>6
    <3> QED BY <1>7, <1>9, <3>1
  <2> QED BY <2>1 DEF Kept
<1>10. Identity(a) = Identity(r)
  BY <1>3 DEF Identity
<1> QED BY <1>5, <1>8, <1>9, <1>10 DEF Made, a

LEMMA SeveralWords ==
  ASSUME NEW a \in Word, NEW b \in Word, NEW c \in Word
  PROVE  /\ <<a>> \in Seq(Word) /\ <<a>> # <<>> /\ <<a>>[1] = a
         /\ <<a, b>> \in Seq(Word) /\ <<a, b>> # <<>> /\ <<a, b>>[1] = a
         /\ <<a, b, c>> \in Seq(Word) /\ <<a, b, c>> # <<>> /\ <<a, b, c>>[1] = a
OBVIOUS

LEMMA MadeDeterministic ==
  ASSUME NEW records, RecordsOK(records), NeutralOK(records), NEW r \in records, NEW cache,
         NEW a \in NormalizeDeterministic(r, cache)
  PROVE  Made(a, r, records)
<1> DEFINE name == NameOf[r.src]
           agent == Agent(r)
<1>1. name \in Seq(Word) /\ Len(name) >= 1 /\ agent \in Word
  BY NamesAreWords DEF RecordsOK
<1>2. {"rules", "skills", "SKILL.md", "memory", "sessions", "cache", ""} \subseteq Word
  BY WordsAssumption
<1> HIDE DEF name, agent
<1>3. CASE KindOf[r.src] = "skill"
  BY <1>3, MadeByCopy DEF NormalizeDeterministic
<1>4. CASE KindOf[r.src] = "command"
  <2> DEFINE dest == <<"skills">> \o name
  <2>1. PICK data \in TextsOf(r) : a = Artifact(r, "skill", dest, {<<"SKILL.md", data>>})
    BY <1>4 DEF NormalizeDeterministic, ToSkill, TextsOf, name
  <2>2. dest \in Seq(Word) /\ dest # <<>> /\ dest[1] = "skills" /\ "SKILL.md" \in Word
    BY <1>1, <1>2, Destination
  <2> HIDE DEF dest
  <2> QED BY <1>4, <2>1, <2>2, MadeOfText
<1>5. CASE KindOf[r.src] = "manual_memory"
  <2> DEFINE dest == <<"memory">> \o name \o <<agent>>
  <2>1. PICK data \in {Text(r), <<"memory", r.src>> \o Text(r)} :
          a = Artifact(r, "manual_memory", dest, {<<"", data>>})
    BY <1>5 DEF NormalizeDeterministic, ToMemory, Body, name, agent
  <2>2. "memory" \in Word /\ "" \in Word
    BY <1>2
  <2>3. dest \in Seq(Word) /\ dest # <<>> /\ dest[1] = "memory" /\ Len(dest) > 2
    BY <1>1, <2>2, Destination
  <2> HIDE DEF dest
  <2> QED BY <1>5, <2>1, <2>2, <2>3, MadeOfText DEF TextsOf
<1>6. CASE KindOf[r.src] = "session"
  <2> DEFINE dest == <<"sessions">> \o name \o <<agent>>
  <2>1. a = Artifact(r, "session", dest, {<<"", Text(r)>>})
    BY <1>6 DEF NormalizeDeterministic, ToSession, Body, name, agent
  <2>2. dest \in Seq(Word) /\ dest # <<>> /\ dest[1] = "sessions" /\ "" \in Word
    BY <1>1, <1>2, Destination
  <2> HIDE DEF dest
  <2> QED BY <1>6, <2>1, <2>2, MadeOfText DEF TextsOf
<1>7. CASE KindOf[r.src] = "rules"
  <2> DEFINE dest == <<"rules">> \o name \o <<agent>>
  <2>1. a = Artifact(r, "rules", dest, {<<"", Text(r)>>})
    BY <1>7 DEF NormalizeDeterministic, ToRule, Body, name, agent
  <2>2. dest \in Seq(Word) /\ dest # <<>> /\ dest[1] = "rules" /\ "" \in Word
    BY <1>1, <1>2, Destination
  <2> HIDE DEF dest
  <2> QED BY <1>7, <2>1, <2>2, MadeOfText DEF TextsOf
<1>8. CASE KindOf[r.src] = "auto_memory"
  <2> DEFINE first == <<"cache", agent, "memory">>
             dest == first \o name
  <2>1. a = Artifact(r, "auto_memory", dest, {<<"", Text(r)>>})
    BY <1>8 DEF NormalizeDeterministic, ToCache, Body, name, agent
  <2>2. first \in Seq(Word) /\ first # <<>> /\ first[1] = "cache"
    BY <1>1, <1>2, SeveralWords
  <2> HIDE DEF first
  <2>3. dest \in Seq(Word) /\ dest # <<>> /\ dest[1] = "cache" /\ "" \in Word
    BY <1>1, <1>2, <2>2, Longer
  <2> HIDE DEF dest
  <2> QED BY <1>8, <2>1, <2>3, MadeOfText DEF TextsOf
<1> QED
  BY <1>3, <1>4, <1>5, <1>6, <1>7, <1>8 DEF NormalizeDeterministic

LEMMA MadeByDecision ==
  ASSUME NEW records, RecordsOK(records), NEW r \in records, KindOf[r.src] # "skill",
         NEW d, d.kind \in Importing, d.name \in Seq(Word), d.agent \in Word
  PROVE  Made(FromDecision(d, r), r, records)
<1> DEFINE name == NameIn(d, r)
           agent == Agent(r)
           a == FromDecision(d, r)
<1>1. name \in Seq(Word) /\ Len(name) >= 1 /\ agent \in Word
  <2>1. NameOf[r.src] \in Seq(Word) /\ Len(NameOf[r.src]) >= 1 /\ agent \in Word
    BY NamesAreWords DEF RecordsOK
  <2>2. d.name # <<>> => Len(d.name) \in Nat \ {0}
    BY EmptySeq
  <2>3. d.name # <<>> => Len(d.name) >= 1
    BY <2>2
  <2> QED BY <2>1, <2>3 DEF NameIn
<1>2. {"rules", "overlays", "RULES.md", "skills", "SKILL.md", "memory", "sessions", "undated",
       ""} \subseteq Word
  BY WordsAssumption
<1> HIDE DEF name, agent
<1>4. CASE d.kind = "common_rule"
  <2> DEFINE dest == <<"rules">> \o name \o <<agent>>
  <2>1. a = Artifact(r, "rules", dest, {<<"", Text(r)>>})
    BY <1>4 DEF FromDecision, Body, name, agent
  <2>2. dest \in Seq(Word) /\ dest # <<>> /\ dest[1] = "rules" /\ "" \in Word
    BY <1>1, <1>2, Destination
  <2> HIDE DEF dest
  <2> QED BY <2>1, <2>2, MadeOfText DEF TextsOf
<1>5. CASE d.kind = "agent_overlay"
  <2> DEFINE for == IF d.agent = "" THEN agent ELSE d.agent
             dest == <<"overlays", for, "RULES.md">>
  <2>1. a = Artifact(r, "rules", dest, {<<"", Text(r)>>})
    BY <1>5 DEF FromDecision, Body, agent
  <2>2. for \in Word BY <1>1
  <2> HIDE DEF for
  <2>3. dest \in Seq(Word) /\ dest # <<>> /\ dest[1] = "overlays" /\ "" \in Word
    BY <1>2, <2>2, SeveralWords
  <2> HIDE DEF dest
  <2> QED BY <2>1, <2>3, MadeOfText DEF TextsOf
<1>6. CASE d.kind = "skill"
  <2> DEFINE dest == <<"skills">> \o name
  <2>1. a = Artifact(r, "skill", dest, {<<"SKILL.md", <<"skill">> \o Text(r)>>})
    BY <1>6 DEF FromDecision, name
  <2>2. dest \in Seq(Word) /\ dest # <<>> /\ dest[1] = "skills" /\ "SKILL.md" \in Word
    BY <1>1, <1>2, Destination
  <2> HIDE DEF dest
  <2> QED BY <2>1, <2>2, MadeOfText DEF TextsOf
<1>7. CASE d.kind = "manual_memory"
  <2> DEFINE dest == <<"memory">> \o name \o <<agent>>
  <2>1. a = Artifact(r, "manual_memory", dest, {<<"", <<"memory", r.src>> \o Text(r)>>})
    BY <1>7 DEF FromDecision, Body, name, agent
  <2>2. "memory" \in Word /\ "" \in Word
    BY <1>2
  <2>3. dest \in Seq(Word) /\ dest # <<>> /\ dest[1] = "memory" /\ Len(dest) > 2
    BY <1>1, <2>2, Destination
  <2> HIDE DEF dest
  <2> QED BY <2>1, <2>2, <2>3, MadeOfText DEF TextsOf
<1>8. CASE d.kind = "session_context"
  <2> DEFINE first == <<"sessions", "undated">>
             between == first \o name
             last == <<agent>>
             dest == between \o last
  <2>1. a = Artifact(r, "session", dest, {<<"", Text(r)>>})
    BY <1>8 DEF FromDecision, Body, name, agent
  <2>2. first \in Seq(Word) /\ first # <<>> /\ first[1] = "sessions" /\ last \in Seq(Word)
    BY <1>1, <1>2, SeveralWords
  <2> HIDE DEF first, last
  <2>3. between \in Seq(Word) /\ between # <<>> /\ between[1] = "sessions"
    BY <1>1, <2>2, Longer
  <2> HIDE DEF between
  <2>4. dest \in Seq(Word) /\ dest # <<>> /\ dest[1] = "sessions" /\ "" \in Word
    BY <1>2, <2>2, <2>3, Longer
  <2> HIDE DEF dest
  <2> QED BY <2>1, <2>4, MadeOfText DEF TextsOf
<1> QED BY <1>4, <1>5, <1>6, <1>7, <1>8 DEF Importing

-------------------------------------------------------------------------------
(* What is verified and what is screened.                                    *)

LEMMA KeptByMore ==
  ASSUME NEW r, NEW A, NEW B, A \subseteq B, Kept(r, A)
  PROVE  Kept(r, B)
BY DEF Kept

\* Duplicates are dropped and decisions added; unless two of them disagree, all
\* that the records hold is in what is left.
LEMMA Verified ==
  ASSUME NEW records, RecordsOK(records), NeutralOK(records), NEW decisions,
         DecisionsOK(decisions), NEW cache, NEW now,
         NormalizedBatch(records, cache).conflicts = {},
         Combined(NormalizedBatch(records, cache).artifacts,
                  Classified(records, [decisions |-> decisions], now).artifacts).conflicts = {}
  PROVE  LET A == Combined(NormalizedBatch(records, cache).artifacts,
                           Classified(records, [decisions |-> decisions], now).artifacts).artifacts
         IN  /\ Sound(A, records) /\ Covered(A, records)
             /\ \A a, b \in A : a.dest = b.dest => a = b
<1> DEFINE D == UNION {NormalizeDeterministic(r, cache) : r \in records}
           C == Classified(records, [decisions |-> decisions], now).artifacts
           B == Batch(D).artifacts
           A == Batch(B \cup C).artifacts
<1>1. ASSUME NEW a \in D PROVE \E r \in records : Made(a, r, records)
  BY MadeDeterministic
<1>2. ASSUME NEW a \in C PROVE \E r \in records : Made(a, r, records)
  <2>1. PICK p \in Decided(records, [decisions |-> decisions]) :
          a = FromDecision(p[1], p[2]) /\ p[1].kind \in Importing /\ ~DecisionFails(p[2], now)
    BY DEF Classified
  <2>2. p[1] \in decisions /\ p[2] \in records
    BY DEF Decided
  <2>3. KindOf[p[2].src] # "skill"
    BY <2>1 DEF DecisionFails
  <2>4. p[1].name \in Seq(Word) /\ p[1].agent \in Word
    BY <2>2 DEF DecisionsOK
  <2> QED BY <2>1, <2>2, <2>3, <2>4, MadeByDecision
<1>3. \A a \in D \cup C : a.src \in Nat
  BY <1>1, <1>2 DEF Made, Placed
<1>4. /\ NormalizedBatch(records, cache) = Batch(D)
      /\ Combined(B, C) = Batch(B \cup C)
  BY DEF NormalizedBatch, Combined
<1> HIDE DEF C, D
<1>5. Batch(D).conflicts = {} /\ Batch(B \cup C).conflicts = {}
  BY <1>4 DEF C
<1>6. B \subseteq D /\ \A a \in D : \E b \in B : b.dest = a.dest /\ b.files = a.files
  BY <1>3, <1>5, BatchKeepsOne
<1> HIDE DEF B
<1>7. \A a \in B \cup C : a.src \in Nat
  BY <1>3, <1>6
<1>8. /\ A \subseteq B \cup C
      /\ \A a \in B \cup C : \E b \in A : b.dest = a.dest /\ b.files = a.files
      /\ \A a, b \in A : a.dest = b.dest => a = b
  BY <1>5, <1>7, BatchKeepsOne
<1> HIDE DEF A
<1>9. \A a \in A : \E r \in records : Made(a, r, records)
  BY <1>1, <1>2, <1>6, <1>8
<1>10. Sound(A, records)
  BY <1>9 DEF Sound, Made
<1>11. ASSUME NEW r \in records, r.src \notin InNeutral,
              KindOf[r.src] = "skill" \/ \E a \in A : Identity(a) = Identity(r)
       PROVE  \E a \in A : Kept(r, Outputs(a))
  <2>1. CASE KindOf[r.src] = "skill"
    <3>1. CopiedSkill(r) \in D
      BY <2>1 DEF D, NormalizeDeterministic
    <3>2. Kept(r, Outputs(CopiedSkill(r)))
      BY <1>11, <2>1, MadeByCopy DEF Made
    <3>3. PICK b \in A : b.dest = CopiedSkill(r).dest /\ b.files = CopiedSkill(r).files
      BY <1>6, <1>8, <3>1
    <3>4. Outputs(b) = Outputs(CopiedSkill(r))
      BY <3>3 DEF Outputs
    <3> QED BY <3>2, <3>4
  <2>2. ASSUME NEW a \in A, Identity(a) = Identity(r) PROVE Kept(r, Outputs(a))
    <3>1. PICK q \in records : Made(a, q, records) BY <1>9
    <3>2. Identity(q) = Identity(r) BY <2>2, <3>1 DEF Made
    <3>3. q.src = r.src BY <3>2 DEF Identity
    <3>4. q = r BY <3>3 DEF RecordsOK
    <3> QED BY <1>11, <3>1, <3>4 DEF Made
  <2> QED BY <1>11, <2>1, <2>2
<1>12. Covered(A, records)
  <2>1. ASSUME NEW a \in A PROVE Outputs(a) \subseteq AllOutputs(A)
    BY DEF AllOutputs
  <2> QED BY <1>11, <2>1, KeptByMore DEF Covered
<1> QED BY <1>4, <1>8, <1>10, <1>12 DEF A, B, C

\* The index has a path of its own.
LEMMA DesiredOnce ==
  ASSUME NEW A, NEW records, Sound(A, records),
         \A a, b \in A : a.dest = b.dest => a = b
  PROVE  /\ OneEach(Desired(A))
         /\ \A o \in Desired(A) : PathOK(o[1]) /\ Sourced(o, records)
         /\ AllOutputs(A) \subseteq Desired(A)
<1> DEFINE I == Desired(A) \ AllOutputs(A)
<1>1. PICK index : /\ I \subseteq {<<IndexPath, index>>} /\ index[1] = "index"
  <2>1. MemoryIndex(Memories(A), work.importedAt)[1] = "index"
    BY DEF MemoryIndex
  <2> QED BY <2>1 DEF Desired
<1>2. \A o \in I : o[1] = IndexPath /\ o[2] = index
  BY <1>1
<1>3. ASSUME NEW a \in A, NEW o \in Outputs(a)
      PROVE  PathOK(o[1]) /\ o[1] # IndexPath /\ Sourced(o, records)
  <2>1. Placed(a) /\ Sourced(o, records)
    BY DEF Sound
  <2>2. PICK f \in a.files : o = <<IF f[1] = "" THEN a.dest ELSE Append(a.dest, f[1]), f[2]>>
    BY DEF Outputs
  <2>3. o[1] = IF f[1] = "" THEN a.dest ELSE Append(a.dest, f[1])
    BY <2>2
  <2> QED BY <2>1, <2>3, OutputPath
<1>4. PathOK(IndexPath)
  <2>1. {"memory", "IMPORTED"} \subseteq Word BY WordsAssumption
  <2>2. IndexPath \in Seq(Word) /\ IndexPath # <<>> /\ IndexPath[1] = "memory"
    BY <2>1, SeveralWords DEF IndexPath
  <2> QED BY <2>2 DEF PathOK
<1>5. ASSUME NEW o \in I PROVE PathOK(o[1]) /\ Sourced(o, records)
  <2>1. ~Imported(o[2]) BY <1>1, <1>2 DEF Imported
  <2> QED BY <1>2, <1>4, <2>1 DEF Sourced
<1>6. ASSUME NEW a \in A, NEW b \in A, NEW o \in Outputs(a), NEW q \in Outputs(b), o[1] = q[1]
      PROVE  o = q
  BY <1>6, OutputsDiffer DEF Sound
<1>7. ASSUME NEW o \in I, NEW q \in I PROVE o = q
  BY <1>1
<1>8. /\ \A o \in Desired(A) : o \in I \/ \E a \in A : o \in Outputs(a)
      /\ AllOutputs(A) \subseteq Desired(A)
  BY DEF AllOutputs, Desired
<1> HIDE DEF I
<1>9. OneEach(Desired(A))
  <2>1. ASSUME NEW o \in Desired(A), NEW q \in Desired(A), o[1] = q[1] PROVE o = q
    <3>1. CASE o \in I /\ q \in I BY <1>7, <3>1
    <3>2. CASE o \in I /\ q \notin I BY <1>2, <1>3, <1>8, <2>1, <3>2
    <3>3. CASE o \notin I /\ q \in I BY <1>2, <1>3, <1>8, <2>1, <3>3
    <3>4. CASE o \notin I /\ q \notin I
      <4>1. PICK a \in A : o \in Outputs(a) BY <1>8, <3>4
      <4>2. PICK b \in A : q \in Outputs(b) BY <1>8, <3>4
      <4> QED BY <1>6, <2>1, <4>1, <4>2
    <3> QED BY <3>1, <3>2, <3>3, <3>4
  <2> QED BY <2>1 DEF OneEach
<1>10. \A o \in Desired(A) : PathOK(o[1]) /\ Sourced(o, records)
  BY <1>3, <1>5, <1>8
<1> QED BY <1>8, <1>9, <1>10

-------------------------------------------------------------------------------
(* The steps again.                                                          *)

LEMMA InitImports == Init => ImportInv
BY DEF Init, ImportInv, WorkOK, PlanOK, Planning

\* The names of the files in a skill directory of the scope tell them apart.
LEMMA NeutralDirectory ==
  ASSUME \A p \in DOMAIN neutral : PathOK(p), NEW s \in InNeutral, NeutralSkill(s) # Absent
  PROVE  Directory(NeutralSkill(s))
<1> DEFINE dest == <<"skills">> \o NameOf[s]
           inside == {p \in DOMAIN neutral : Len(p) = Len(dest) + 1
                                             /\ SubSeq(p, 1, Len(dest)) = dest}
           c == NeutralSkill(s)
<1>1. dest \in Seq(Word) /\ dest[1] = "skills" /\ Len(dest) \in Nat /\ Len(dest) >= 1
  <2>1. NameOf[s] \in Seq(Word) /\ Len(NameOf[s]) >= 1
    <3>1. s \in Sources BY AgentsAssumption
    <3>2. NameOf[s] \in Seq(Word) /\ NameOf[s] # <<>> BY <3>1, NamesAssumption
    <3>3. Len(NameOf[s]) \in Nat \ {0} BY <3>2, EmptySeq
    <3> QED BY <3>2, <3>3
  <2>2. dest \in Seq(Word) /\ dest[1] = "skills" /\ Len(dest) >= 2
    BY <2>1, WordsAssumption, Destination
  <2>3. Len(dest) \in Nat BY <2>2, LenProperties
  <2> HIDE DEF dest
  <2> QED BY <2>2, <2>3
<1>2. c.files = {<<p[Len(p)], neutral[p]>> : p \in inside}
  BY DEF NeutralSkill
<1> HIDE DEF dest, c
<1>3. ASSUME NEW p \in inside
      PROVE  /\ p \in Seq(Word) /\ Len(p) = Len(dest) + 1 /\ p[Len(p)] \in Word /\ p[Len(p)] # ""
             /\ \A i \in 1 .. Len(dest) : p[i] = dest[i]
  <2>1. p \in Seq(Word) /\ PathOK(p) /\ Len(p) = Len(dest) + 1 /\ SubSeq(p, 1, Len(dest)) = dest
    BY DEF PathOK
  <2>2. Len(p) \in 1 .. Len(p) /\ \A i \in 1 .. Len(dest) : i \in 1 .. Len(p)
    BY <1>1, <2>1
  <2>3. p[Len(p)] \in Word /\ \A i \in 1 .. Len(dest) : p[i] \in Word
    BY <2>1, <2>2, ElementOfSeq
  <2>4. \A i \in 1 .. Len(dest) : SubSeq(p, 1, Len(dest))[i] = p[i]
    <3>1. \A i \in 1 .. Len(dest) - 1 + 1 : SubSeq(p, 1, Len(dest))[i] = p[1 + i - 1]
      BY <1>1, <2>3, SubSeqProperties
    <3> QED BY <1>1, <3>1
  <2>5. p[1] = "skills"
    BY <1>1, <2>1, <2>4
  <2> QED BY <2>1, <2>3, <2>4, <2>5 DEF PathOK
<1>4. ASSUME NEW p \in inside, NEW q \in inside, p[Len(p)] = q[Len(q)]
      PROVE  p = q
  <2>1. /\ p \in Seq(Word) /\ q \in Seq(Word) /\ Len(p) = Len(q)
        /\ \A i \in 1 .. Len(dest) : p[i] = q[i]
        /\ Len(p) = Len(dest) + 1
    BY <1>3
  <2>2. \A i \in 1 .. Len(p) : p[i] = q[i]
    <3>1. \A i \in 1 .. Len(p) : i \in 1 .. Len(dest) \/ i = Len(p) BY <1>1, <2>1
    <3> QED BY <1>4, <2>1, <3>1
  <2> QED BY <2>1, <2>2, SeqEqual
<1> HIDE DEF inside
<1>5. ASSUME NEW f \in c.files
      PROVE  \E p \in inside : f = <<p[Len(p)], neutral[p]>> /\ f[1] = p[Len(p)]
  BY <1>2
<1>6. ASSUME NEW f \in c.files PROVE f = <<f[1], f[2]>> /\ f[1] \in Word \ {""}
  <2>1. PICK p \in inside : f = <<p[Len(p)], neutral[p]>> BY <1>5
  <2>2. f[1] = p[Len(p)] /\ f[2] = neutral[p] BY <2>1
  <2> QED BY <1>3, <2>1, <2>2
<1>7. \A f, g \in c.files : f[1] = g[1] => f = g
  BY <1>4, <1>5
<1> QED BY <1>6, <1>7 DEF Directory, c

LEMMA ScanNeutral ==
  ASSUME \A p \in DOMAIN neutral : PathOK(p)
  PROVE  NeutralOK(ScannedRecords)
<1>1. ASSUME NEW r \in ScannedRecords, r.src \in InNeutral PROVE Directory(r.sha)
  <2>1. PICK s \in Sources : r = Record(s, Now[s]) /\ Now[s] # Absent
    BY DEF ScannedRecords
  <2>2. r.src = s /\ r.sha = Now[s] BY <2>1 DEF Record
  <2>3. r.sha = NeutralSkill(s) BY <1>1, <2>2 DEF Now
  <2> QED BY <1>1, <2>1, <2>2, <2>3, NeutralDirectory
<1> QED BY <1>1 DEF NeutralOK

LEMMA DocumentImports ==
  ASSUME SourceInv, ImportInv,
         \/ Scan \/ (\E cache \in Caches : Normalize(cache))
         \/ ClassifyRequest \/ Respond \/ ValidateResponse
  PROVE  ImportInv'
<1>1. /\ UNCHANGED <<neutral, plan, pc, touched>> /\ pc = "idle"
      /\ inventory' = inventory \/ inventory' = ScannedRecords
  BY DEF Scan, Normalize, ClassifyRequest, Respond, ValidateResponse, scope, notes, documents
<1>2. inventory' # None => NeutralOK(inventory')
  BY <1>1, ScanNeutral DEF ImportInv
<1>3. WorkOK' /\ PlanOK'
  BY <1>1 DEF ImportInv, WorkOK, PlanOK, ToImport, InScope, Planning
<1>4. response' # None => DecisionsOK(response'.decisions)
  <2>1. CASE Respond
    <3>1. PICK ids \in SUBSET Answerable : \E choice \in [ids -> Options] :
            response' = [request |-> request,
                         decisions |-> {Decision(i, choice[i][1], choice[i][2], choice[i][3]) :
                                          i \in ids}]
      BY <2>1 DEF Respond
    <3>2. PICK choice \in [ids -> Options] :
            response' = [request |-> request,
                         decisions |-> {Decision(i, choice[i][1], choice[i][2], choice[i][3]) :
                                          i \in ids}]
      BY <3>1
    <3>3. ASSUME NEW d \in response'.decisions
          PROVE  d.kind \in DecisionKinds /\ d.name \in Seq(Word) /\ d.agent \in Word
      <4>1. PICK i \in ids : d = Decision(i, choice[i][1], choice[i][2], choice[i][3])
        BY <3>2
      <4>2. PICK o \in Options : o = choice[i] OBVIOUS
      <4> QED BY <4>1, <4>2, OptionsAssumption DEF Decision
    <3> QED BY <3>2, <3>3 DEF DecisionsOK
  <2>2. CASE UNCHANGED response
    BY <2>2 DEF ImportInv
  <2> QED
    BY <2>1, <2>2
       DEF Scan, Normalize, ClassifyRequest, ValidateResponse, notes, documents
<1> QED BY <1>1, <1>2, <1>3, <1>4 DEF ImportInv

LEMMA PlanImports ==
  ASSUME SourceInv, ImportInv,
         NEW targets, NEW importedAt, NEW replaceNative, NEW cache, NEW answered \in BOOLEAN,
         Plan(targets, importedAt, replaceNative, cache, answered)
  PROVE  ImportInv'
<1> DEFINE decisions == IF answered THEN response.decisions ELSE {}
<1>1. /\ UNCHANGED <<neutral, inventory, response, plan, touched>>
      /\ pc = "idle" /\ pc' = "verify"
      /\ CallFields \subseteq DOMAIN work' /\ work'.decisions = decisions
  BY DEF Plan, Goto, scope, documents, CallFields
<1>2. DecisionsOK(decisions)
  <2>1. CASE answered
    BY <2>1 DEF Plan, ImportInv
  <2>2. CASE ~answered
    BY <2>2 DEF DecisionsOK
  <2> QED BY <2>1, <2>2
<1> HIDE DEF decisions
<1>3. WorkOK'
  BY <1>1, <1>2 DEF WorkOK
<1>4. PlanOK'
  BY <1>1 DEF ImportInv, PlanOK, ToImport, InScope
<1> QED BY <1>1, <1>3, <1>4 DEF ImportInv

LEMMA VerifyImports == ASSUME SourceInv, ImportInv, Verify PROVE ImportInv'
<1> DEFINE batch == NormalizedBatch(inventory, work.cache)
           classified == Classified(inventory, [decisions |-> work.decisions], Now)
           combined == Combined(batch.artifacts, classified.artifacts)
           tampered == normalized # batch
<1>1. /\ UNCHANGED <<neutral, inventory, response, plan, touched>>
      /\ pc = "verify" /\ pc' = "screen" /\ inventory # None
  BY DEF Verify, Goto, scope, documents, notes, SourceInv, Flow, Planning
<1>2. CallFields \subseteq DOMAIN work /\ DecisionsOK(work.decisions)
  BY <1>1 DEF ImportInv, WorkOK, Planning
<1>3. work' = [work EXCEPT
        !.artifacts = {a \in combined.artifacts :
                         Identity(a) \notin IF tampered THEN {Identity(b) : b \in batch.artifacts}
                                            ELSE {}},
        !.conflicts = {<<"destination", d>> : d \in batch.conflicts \cup combined.conflicts}
                      \cup classified.conflicts
                      \cup {<<"tampered", 0>> : t \in {tampered} \cap {TRUE}}]
  BY DEF Verify
<1> HIDE DEF batch, classified, combined, tampered
<1>4. /\ CallFields \subseteq DOMAIN work' /\ work'.decisions = work.decisions
  BY <1>2, <1>3 DEF CallFields
<1>5. ASSUME work'.conflicts = {}
      PROVE  /\ batch.conflicts = {} /\ combined.conflicts = {}
             /\ work'.artifacts = combined.artifacts
  <2>1. /\ {<<"destination", d>> : d \in batch.conflicts \cup combined.conflicts} = {}
        /\ {<<"tampered", 0>> : t \in {tampered} \cap {TRUE}} = {}
    BY <1>2, <1>3, <1>5 DEF CallFields
  <2>2. batch.conflicts \cup combined.conflicts = {}
    BY <2>1
  <2>3. ~tampered
    BY <2>1 DEF tampered
  <2>4. work'.artifacts = {a \in combined.artifacts :
                             Identity(a) \notin IF tampered
                                                THEN {Identity(b) : b \in batch.artifacts} ELSE {}}
    BY <1>2, <1>3 DEF CallFields
  <2> QED BY <2>2, <2>3, <2>4
<1>6. ASSUME work'.conflicts = {}
      PROVE  /\ Sound(work'.artifacts, inventory) /\ Covered(work'.artifacts, inventory)
             /\ \A a, b \in work'.artifacts : a.dest = b.dest => a = b
  <2>1. RecordsOK(inventory) /\ NeutralOK(inventory)
    BY <1>1 DEF SourceInv, ImportInv
  <2> QED
    BY <1>2, <1>5, <1>6, <2>1, Verified DEF batch, classified, combined
<1>7. WorkOK'
  BY <1>1, <1>2, <1>4, <1>6 DEF WorkOK
<1>8. PlanOK'
  BY <1>1 DEF ImportInv, PlanOK, ToImport, InScope
<1> QED BY <1>1, <1>7, <1>8 DEF ImportInv

LEMMA ScreenImports == ASSUME SourceInv, ImportInv, Screen PROVE ImportInv'
<1> DEFINE passed == {a \in work.artifacts : ~Withheld(a)}
           writes == {o \in Desired(passed) : Missing(o)}
           clashes == {o \in writes : o[1] \in DOMAIN neutral}
<1>1. /\ UNCHANGED <<neutral, inventory, response, plan, touched>>
      /\ pc = "screen" /\ pc' = "write" /\ inventory # None
  BY DEF Screen, Goto, scope, documents, notes, SourceInv, Flow, Planning
<1>2. CallFields \subseteq DOMAIN work /\ DecisionsOK(work.decisions)
  BY <1>1 DEF ImportInv, WorkOK, Planning
<1>3. work' = [work EXCEPT
        !.migrated = {Identity(a) : a \in passed},
        !.imports = writes \ clashes,
        !.conflicts = work.conflicts \cup {<<"sensitive", a.src>> : a \in work.artifacts \ passed}
                      \cup {<<"unmanaged", o[1]>> : o \in clashes},
        !.seen = neutral]
  BY <1>2 DEF Screen, CallFields
<1>4. /\ CallFields \subseteq DOMAIN work' /\ work'.decisions = work.decisions
      /\ work'.seen = neutral /\ work'.imports = writes \ clashes
      /\ work'.migrated = {Identity(a) : a \in passed}
      /\ work'.conflicts = work.conflicts
           \cup {<<"sensitive", a.src>> : a \in work.artifacts \ passed}
           \cup {<<"unmanaged", o[1]>> : o \in clashes}
  <2> HIDE DEF passed, writes, clashes
  <2> QED BY <1>2, <1>3 DEF CallFields
<1>5. ASSUME work'.conflicts = {}
      PROVE  passed = work.artifacts /\ clashes = {} /\ work.conflicts = {}
  <2>1. passed \subseteq work.artifacts OBVIOUS
  <2> HIDE DEF passed, clashes
  <2>2. /\ work.conflicts = {}
        /\ {<<"sensitive", a.src>> : a \in work.artifacts \ passed} = {}
        /\ {<<"unmanaged", o[1]>> : o \in clashes} = {}
    BY <1>4, <1>5
  <2>3. work.artifacts \ passed = {} /\ clashes = {} BY <2>2
  <2> QED BY <2>1, <2>2, <2>3
<1>6. ASSUME work'.conflicts = {}
      PROVE  /\ OneEach(work'.imports)
             /\ \A o \in work'.imports : PathOK(o[1]) /\ Sourced(o, inventory)
             /\ \A r \in inventory :
                  r.src \notin InNeutral /\ Identity(r) \in work'.migrated =>
                    Kept(r, work'.imports \cup InScope(neutral))
  <2>1. /\ Sound(passed, inventory) /\ Covered(passed, inventory)
        /\ \A a, b \in passed : a.dest = b.dest => a = b
    BY <1>1, <1>5, <1>6 DEF ImportInv, WorkOK, Planning
  <2>2. work'.imports \subseteq Desired(passed)
        /\ \A o \in Desired(passed) : o \in work'.imports \/ Holds(o[1], o[2])
    BY <1>4, <1>5, <1>6 DEF Missing
  <2> HIDE DEF passed
  <2>3. /\ OneEach(Desired(passed)) /\ AllOutputs(passed) \subseteq Desired(passed)
        /\ \A o \in Desired(passed) : PathOK(o[1]) /\ Sourced(o, inventory)
    BY <2>1, DesiredOnce
  <2>4. ASSUME NEW r \in inventory, r.src \notin InNeutral, Identity(r) \in work'.migrated
        PROVE  Kept(r, work'.imports \cup InScope(neutral))
    <3>1. Kept(r, AllOutputs(passed))
      BY <1>4, <2>1, <2>4 DEF Covered
    <3>2. ASSUME NEW f \in r.sha.files
          PROVE  \E o \in work'.imports \cup InScope(neutral) :
                   Imported(o[2]) /\ Origin(o[2]) = f[2] /\ (Abridged(r) \/ Whole(o[2]))
      <4>1. PICK o \in Desired(passed) :
              Imported(o[2]) /\ Origin(o[2]) = f[2] /\ (Abridged(r) \/ Whole(o[2]))
        BY <2>3, <3>1 DEF Kept
      <4>2. CASE o \in work'.imports BY <4>1, <4>2
      <4>3. CASE Holds(o[1], o[2])
        <5>1. <<o[1], neutral[o[1]]>> \in InScope(neutral) /\ neutral[o[1]] = o[2]
          BY <4>3 DEF Holds, InScope
        <5> QED BY <4>1, <5>1
      <4> QED BY <2>2, <4>2, <4>3
    <3> QED BY <3>2 DEF Kept
  <2> QED BY <2>2, <2>3, <2>4 DEF OneEach
<1> HIDE DEF passed, writes, clashes
<1>7. WorkOK'
  BY <1>1, <1>2, <1>4, <1>6 DEF WorkOK
<1>8. PlanOK'
  BY <1>1 DEF ImportInv, PlanOK, ToImport, InScope
<1> QED BY <1>1, <1>7, <1>8 DEF ImportInv

\* What a replacement takes was migrated, and is recorded or listed.
LEMMA TakenIsMigrated ==
  ASSUME NativeOK, RecordsOK(inventory), work.targets \in Targets, ForeignEntries = {}
  PROVE  /\ \A e \in Replacement.entries :
              e.expected # Absent =>
                \/ manifest # None /\ <<e.src, e.expected>> \in manifest
                \/ \E r \in inventory : r.src = e.src
         /\ \A r \in inventory :
              Takes(Replacement, r.src) => r.src \notin InNeutral /\ Identity(r) \in work.migrated
<1> DEFINE entries == Entries(work.targets)
           gone == {r \in inventory : Removable(r)}
<1>1. Replacement.entries = entries /\ Replacement.removes = UNION {Pieces(r) : r \in gone}
  BY DEF Replacement
<1>2. ASSUME NEW e \in entries
      PROVE  manifest # None /\ ~Foreign(e) /\ e.src \notin InNeutral
  <2>1. PICK a \in work.targets :
          /\ EntrypointOf[a] # 0
          /\ e = [src |-> EntrypointOf[a], expected |-> Now[EntrypointOf[a]],
                  content |-> Entrypoint(a)]
    BY DEF Entries
  <2>2. e.src \notin InNeutral
    BY <2>1, AgentsAssumption
  <2>3. work.targets # {} BY <2>1
  <2>4. manifest # None
    BY <2>3 DEF ForeignEntries
  <2>5. ForeignEntries = {<<"foreign", x.src>> : x \in {y \in entries : Foreign(y)}}
    BY <2>3, <2>4 DEF ForeignEntries
  <2>6. ~Foreign(e)
    <3>1. ASSUME Foreign(e) PROVE <<"foreign", e.src>> \in ForeignEntries BY <2>5, <3>1
    <3> QED BY <3>1
  <2> QED BY <2>2, <2>4, <2>6
<1> HIDE DEF entries
<1>3. ASSUME NEW e \in entries, e.expected # Absent
      PROVE  \/ manifest # None /\ <<e.src, e.expected>> \in manifest
             \/ \E r \in inventory : r.src = e.src /\ Identity(r) \in work.migrated
  BY <1>2, <1>3 DEF Foreign, Listed
<1>4. ASSUME NEW r \in gone, NEW p \in Pieces(r)
      PROVE  p[1] = r.src /\ r.src \notin InNeutral /\ Identity(r) \in work.migrated
  <2>1. PICK f : p = <<r.src, f[1], f[2]>> BY DEF Pieces
  <2>2. p[1] = r.src BY <2>1
  <2> QED BY <2>2 DEF Removable
<1>5. ASSUME NEW r \in inventory, Deleted(Replacement, r.src)
      PROVE  r.src \notin InNeutral /\ Identity(r) \in work.migrated
  <2>1. PICK p \in Replacement.removes : p[1] = r.src BY <1>5 DEF Deleted
  <2>2. PICK q \in gone : p \in Pieces(q) BY <1>1, <2>1
  <2>3. q.src = r.src /\ q \in inventory BY <1>4, <2>1, <2>2
  <2>4. q = r BY <2>3 DEF RecordsOK
  <2> QED BY <1>4, <2>2, <2>4
<1>6. ASSUME NEW r \in inventory, Overwritten(Replacement, r.src)
      PROVE  r.src \notin InNeutral /\ Identity(r) \in work.migrated
  <2>1. PICK e \in entries : e.src = r.src /\ e.expected # Absent
    BY <1>1, <1>6 DEF Overwritten
  <2>2. PICK q \in inventory : q.src = e.src /\ Identity(q) \in work.migrated
    BY <1>2, <2>1 DEF Foreign
  <2>3. q = r BY <2>1, <2>2 DEF RecordsOK
  <2> QED BY <1>2, <2>1, <2>2, <2>3
<1> QED BY <1>1, <1>3, <1>5, <1>6 DEF Takes

\* An outcome without conflicts replaces nothing, or what was migrated.
LEMMA OutcomeKeeps ==
  ASSUME SourceInv, Write, Outcome.conflicts = {}
  PROVE  /\ work.conflicts = {}
         /\ Outcome.manifest[1] = manifest
         /\ \A e \in Outcome.entries :
              e.expected # Absent =>
                \/ manifest # None /\ <<e.src, e.expected>> \in manifest
                \/ \E r \in inventory : r.src = e.src
         /\ \A r \in inventory :
              Takes(Outcome, r.src) => r.src \notin InNeutral /\ Identity(r) \in work.migrated
<1>1. NativeOK /\ RecordsOK(inventory) /\ work.targets \in Targets
  BY DEF SourceInv, Flow, TargetsOK, Write, Planning
<1> DEFINE conflicts == work.conflicts \cup UnmappedFields
<1>2. ASSUME NEW found, NEW blocked, Outcome = NoReplacement(found, blocked)
      PROVE  /\ Outcome.conflicts = found /\ Outcome.manifest[1] = manifest
             /\ Outcome.entries = {} /\ \A s : ~Takes(Outcome, s)
  BY <1>2 DEF NoReplacement, Takes, Deleted, Overwritten
<1>3. CASE ~work.replaceNative
  <2>1. Outcome = NoReplacement(work.conflicts, FALSE)
    BY <1>3 DEF Outcome
  <2>2. work.conflicts = {} BY <1>2, <2>1
  <2> QED BY <1>2, <2>1, <2>2
<1>4. CASE work.replaceNative /\ conflicts # {}
  <2>1. Outcome = NoReplacement(conflicts, TRUE)
    BY <1>4 DEF Outcome
  <2> QED BY <1>2, <1>4, <2>1
<1>5. CASE work.replaceNative /\ conflicts = {} /\ ForeignEntries # {}
  <2>1. Outcome = NoReplacement(ForeignEntries, TRUE)
    BY <1>5 DEF Outcome
  <2> QED BY <1>2, <1>5, <2>1
<1>6. CASE work.replaceNative /\ conflicts = {} /\ ForeignEntries = {}
  <2>1. Outcome = Replacement
    BY <1>6 DEF Outcome
  <2>2. Replacement.manifest[1] = manifest
    BY DEF Replacement
  <2> QED BY <1>1, <1>6, <2>1, <2>2, TakenIsMigrated
<1> QED BY <1>3, <1>4, <1>5, <1>6

LEMMA WriteImports == ASSUME SourceInv, ImportInv, Write PROVE ImportInv'
<1>1. /\ UNCHANGED <<neutral, inventory, response>>
      /\ pc = "write" /\ pc' = "idle" /\ inventory # None
      /\ touched' = (neutral # work.seen)
      /\ plan'.sources = inventory /\ plan'.imports = work.imports
      /\ plan'.replacement = Outcome
  BY DEF Write, Goto, scope, documents, SourceInv, Flow, Planning
<1>2. WorkOK'
  BY <1>1 DEF WorkOK, Planning
<1>3. ASSUME Outcome.conflicts = {}
      PROVE  /\ OneEach(work.imports)
             /\ \A o \in work.imports : PathOK(o[1]) /\ Sourced(o, inventory)
             /\ \A r \in inventory :
                  Takes(Outcome, r.src) => Kept(r, work.imports \cup InScope(work.seen))
  <2>1. work.conflicts = {} BY <1>3, OutcomeKeeps
  <2>2. /\ OneEach(work.imports)
        /\ \A o \in work.imports : PathOK(o[1]) /\ Sourced(o, inventory)
        /\ \A r \in inventory :
             r.src \notin InNeutral /\ Identity(r) \in work.migrated =>
               Kept(r, work.imports \cup InScope(work.seen))
    BY <1>1, <2>1 DEF ImportInv, WorkOK, Planning
  <2> QED BY <1>3, <2>2, OutcomeKeeps
<1>4. ASSUME Outcome.conflicts = {}
      PROVE  \A e \in Outcome.entries :
               e.expected # Absent =>
                 \/ Outcome.manifest[1] # None /\ <<e.src, e.expected>> \in Outcome.manifest[1]
                 \/ \E r \in inventory : r.src = e.src
  BY <1>4, OutcomeKeeps
<1>5. PlanOK'
  BY <1>1, <1>3, <1>4 DEF PlanOK, ToImport, InScope
<1> QED BY <1>1, <1>2, <1>5 DEF ImportInv

\* An import writes what it planned, and nothing that was there changes.
LEMMA ImportWrites ==
  ASSUME NEW writes, OneEach(writes), \A o \in writes : o[1] \notin DOMAIN neutral,
         NEW scoped, scoped = With(writes)
  PROVE  /\ DOMAIN scoped = DOMAIN neutral \cup {o[1] : o \in writes}
         /\ \A p \in DOMAIN neutral : scoped[p] = neutral[p]
         /\ \A o \in writes : scoped[o[1]] = o[2]
         /\ \A r : Kept(r, writes \cup InScope(neutral)) => Kept(r, InScope(scoped))
         /\ InScope(neutral) \subseteq InScope(scoped)
         /\ \A o \in writes : o = <<o[1], o[2]>> => o \in InScope(scoped)
<1>1. DOMAIN scoped = DOMAIN neutral \cup {o[1] : o \in writes}
  BY DEF With
<1>2. \A p \in DOMAIN neutral : scoped[p] = neutral[p]
  BY DEF With
<1>3. ASSUME NEW o \in writes PROVE scoped[o[1]] = o[2]
  <2>1. scoped[o[1]] = (CHOOSE q \in writes : q[1] = o[1])[2]
    BY DEF With
  <2>2. (CHOOSE q \in writes : q[1] = o[1]) = o
    BY DEF OneEach
  <2> QED BY <2>1, <2>2
<1>4. ASSUME NEW o \in writes \cup InScope(neutral)
      PROVE  \E q \in InScope(scoped) : q[2] = o[2]
  <2>1. ASSUME NEW p \in DOMAIN scoped
        PROVE  <<p, scoped[p]>> \in InScope(scoped) /\ <<p, scoped[p]>>[2] = scoped[p]
    BY DEF InScope
  <2>2. CASE o \in writes
    BY <1>1, <1>3, <2>1, <2>2
  <2>3. CASE o \in InScope(neutral)
    <3>1. PICK p \in DOMAIN neutral : o = <<p, neutral[p]>> BY <2>3 DEF InScope
    <3>2. o[2] = neutral[p] BY <3>1
    <3>3. p \in DOMAIN scoped /\ scoped[p] = o[2] BY <1>1, <1>2, <3>2
    <3>4. PICK q : q = <<p, scoped[p]>> OBVIOUS
    <3>5. q \in InScope(scoped) /\ q[2] = o[2] BY <2>1, <3>3, <3>4
    <3> QED BY <3>5
  <2> QED BY <2>2, <2>3
<1>5. ASSUME NEW r, Kept(r, writes \cup InScope(neutral))
      PROVE  Kept(r, InScope(scoped))
  <2>1. ASSUME NEW f \in r.sha.files
        PROVE  \E o \in InScope(scoped) :
                 Imported(o[2]) /\ Origin(o[2]) = f[2] /\ (Abridged(r) \/ Whole(o[2]))
    BY <1>4, <1>5 DEF Kept
  <2> QED BY <2>1 DEF Kept
<1>6. InScope(neutral) \subseteq InScope(scoped)
  <2> SUFFICES ASSUME NEW o \in InScope(neutral) PROVE o \in InScope(scoped)
    OBVIOUS
  <2>1. PICK p \in DOMAIN neutral : o = <<p, neutral[p]>> BY DEF InScope
  <2>2. p \in DOMAIN scoped /\ scoped[p] = neutral[p] BY <1>1, <1>2
  <2> QED BY <2>1, <2>2 DEF InScope
<1>7. ASSUME NEW o \in writes, o = <<o[1], o[2]>> PROVE o \in InScope(scoped)
  <2>1. PICK p, d : o = <<p, d>> /\ p = o[1] /\ d = o[2] BY <1>7
  <2>2. p \in DOMAIN scoped /\ scoped[p] = d BY <1>1, <1>3, <2>1
  <2> QED BY <2>1, <2>2 DEF InScope
<1> QED BY <1>1, <1>2, <1>3, <1>5, <1>6, <1>7

LEMMA ApplyImports ==
  ASSUME SourceInv, ImportInv, PlanFails \/ VerifySources \/ Import \/ VerifyAgain \/ Replace
  PROVE  ImportInv'
<1> DEFINE importing == /\ pc = "import" /\ plan # None
                        /\ \A o \in plan.imports : o[1] \notin DOMAIN neutral
                        /\ neutral' = With(plan.imports)
           waiting == /\ UNCHANGED neutral
                      /\ pc' \in {"replace", "remove"} => pc \in {"replace", "remove"}
<1>1. /\ UNCHANGED <<inventory, response, plan, touched>> /\ ~Planning'
      /\ importing \/ waiting
      /\ pc' \in {"import", "replace", "remove"} =>
           pc \in {"import", "replace", "remove"} \/ plan.replacement.conflicts = {}
  <2>1. CASE PlanFails
    BY <2>1 DEF PlanFails, Goto, Planning, scope, documents, notes
  <2>2. CASE VerifySources
    BY <2>2, Applying DEF VerifySources, Goto, scope, documents
  <2>3. CASE Import
    BY <2>3, Applying DEF Import, Stop, Finish, Goto, scope, documents, SourceInv, Flow
  <2>4. CASE VerifyAgain
    BY <2>4, Applying DEF VerifyAgain, Stop, Goto, scope, documents
  <2>5. CASE Replace
    BY <2>5, Applying DEF Replace, Stop, Finish, Goto, scope, documents
  <2> QED BY <2>1, <2>2, <2>3, <2>4, <2>5
<1>2. /\ inventory' # None => NeutralOK(inventory')
      /\ response' # None => DecisionsOK(response'.decisions)
      /\ pc' \in {"import", "replace", "remove"} => plan'.replacement.conflicts = {}
      /\ WorkOK'
  BY <1>1 DEF ImportInv, WorkOK
<1>3. CASE waiting
  <2>1. ASSUME NEW r, Kept(r, ToImport \cup InScope(neutral))
        PROVE  Kept(r, ToImport' \cup InScope(neutral)')
    <3>1. ToImport \cup InScope(neutral) \subseteq ToImport' \cup InScope(neutral)'
      BY <1>1, <1>3 DEF ToImport, InScope
    <3> QED BY <2>1, <3>1, KeptByMore
  <2>2. PlanOK' BY <1>1, <2>1 DEF ImportInv, PlanOK, ToImport
  <2> QED BY <1>2, <1>3, <2>2 DEF ImportInv
<1>4. CASE importing
  <2>1. /\ OneEach(plan.imports)
        /\ \A o \in plan.imports : PathOK(o[1]) /\ Sourced(o, plan.sources)
        /\ ~touched => \A r \in plan.sources :
                         Takes(plan.replacement, r.src) =>
                           Kept(r, plan.imports \cup InScope(neutral))
    BY <1>4 DEF ImportInv, PlanOK, ToImport
  <2>2. /\ DOMAIN neutral' = DOMAIN neutral \cup {o[1] : o \in plan.imports}
        /\ \A r : Kept(r, plan.imports \cup InScope(neutral)) => Kept(r, InScope(neutral'))
    BY <1>4, <2>1, ImportWrites
  <2>3. \A p \in DOMAIN neutral' : PathOK(p)
    BY <2>1, <2>2 DEF ImportInv
  <2>4. ~touched => \A r \in plan.sources :
                      Takes(plan.replacement, r.src) =>
                        \A A : Kept(r, A \cup InScope(neutral'))
    BY <2>1, <2>2 DEF Kept
  <2>5. PlanOK'
    BY <1>1, <2>4 DEF ImportInv, PlanOK, ToImport, InScope
  <2> QED BY <1>2, <2>3, <2>5 DEF ImportInv
<1> QED BY <1>1, <1>3, <1>4

LEMMA EditImports ==
  ASSUME ImportInv, \/ \E s \in Sources \ InNeutral : EditNative(s)
                    \/ \E p \in OwnPaths : EditNeutral(p)
                    \/ UNCHANGED vars
  PROVE  ImportInv'
<1>1. /\ UNCHANGED <<inventory, response, plan, pc, work>>
      /\ \/ UNCHANGED <<neutral, touched>>
         \/ touched' /\ \E p \in OwnPaths : DOMAIN neutral' \subseteq DOMAIN neutral \cup {p}
  BY DEF EditNative, EditNeutral, vars, scope, documents, notes
<1>2. \A p \in OwnPaths : PathOK(p)
  BY OptionsAssumption DEF PathOK
<1>3. \A p \in DOMAIN neutral' : PathOK(p)
  BY <1>1, <1>2 DEF ImportInv
<1>4. WorkOK' BY <1>1 DEF ImportInv, WorkOK, Planning
<1>5. PlanOK' BY <1>1 DEF ImportInv, PlanOK, ToImport, InScope
<1> QED BY <1>1, <1>3, <1>4, <1>5 DEF ImportInv

LEMMA ImportsKept == SourceInv /\ ImportInv /\ [Next]_vars => ImportInv'
<1> SUFFICES ASSUME SourceInv, ImportInv, [Next]_vars PROVE ImportInv'
  OBVIOUS
<1>1. ASSUME NEW targets \in Targets, NEW importedAt \in Times, NEW cache \in Caches,
             NEW replaceNative \in BOOLEAN, NEW answered \in BOOLEAN,
             Plan(targets, importedAt, replaceNative, cache, answered)
      PROVE  ImportInv'
  BY <1>1, PlanImports
<1> QED
  BY <1>1, DocumentImports, VerifyImports, ScreenImports, WriteImports, ApplyImports, EditImports
     DEF Next

LEMMA ImportInvariant == Spec => [](SourceInv /\ ImportInv)
BY InitImports, ImportsKept, InitSource, SourceKept, PTL DEF Spec

-------------------------------------------------------------------------------
(* What follows for imports and for what they make superfluous.              *)

\* A plan that can be applied writes one content to one path.  Decisions may bring
\* together what normalization kept apart, and they are grouped once more with it
\* (planner.py:460, build_migration_plan): whatever was decided, for any sources.
THEOREM OnePathOneContent == Spec => []OneWritePerPath
<1>1. ImportInv => OneWritePerPath
  BY DEF ImportInv, PlanOK, OneEach, OneWritePerPath
<1> QED BY <1>1, ImportInvariant, PTL

\* A file of a skill in the scope has the path that importing it would give it.
LEMMA InPlace ==
  ASSUME \A p \in DOMAIN neutral : PathOK(p), NEW s \in InNeutral, NeutralSkill(s) # Absent,
         NEW f \in NeutralSkill(s).files
  PROVE  /\ Append(<<"skills">> \o NameOf[s], f[1]) \in DOMAIN neutral
         /\ neutral[Append(<<"skills">> \o NameOf[s], f[1])] = f[2]
<1> DEFINE dest == <<"skills">> \o NameOf[s]
           inside == {p \in DOMAIN neutral : Len(p) = Len(dest) + 1
                                             /\ SubSeq(p, 1, Len(dest)) = dest}
<1>1. dest \in Seq(Word) /\ Len(dest) \in Nat
  <2>1. NameOf[s] \in Seq(Word) /\ Len(NameOf[s]) >= 1
    <3>1. s \in Sources BY AgentsAssumption
    <3>2. NameOf[s] \in Seq(Word) /\ NameOf[s] # <<>> BY <3>1, NamesAssumption
    <3>3. Len(NameOf[s]) \in Nat \ {0} BY <3>2, EmptySeq
    <3> QED BY <3>2, <3>3
  <2>2. dest \in Seq(Word)
    BY <2>1, WordsAssumption, Destination
  <2>3. Len(dest) \in Nat BY <2>2, LenProperties
  <2> HIDE DEF dest
  <2> QED BY <2>2, <2>3
<1>2. NeutralSkill(s).files = {<<p[Len(p)], neutral[p]>> : p \in inside}
  BY DEF NeutralSkill
<1> HIDE DEF dest
<1>3. PICK p \in inside : f = <<p[Len(p)], neutral[p]>>
  BY <1>2
<1>4. /\ p \in DOMAIN neutral /\ p \in Seq(Word) /\ f[1] = p[Len(p)] /\ f[2] = neutral[p]
      /\ Len(p) = Len(dest) + 1 /\ SubSeq(p, 1, Len(dest)) = dest
  BY <1>3 DEF PathOK
<1>5. /\ Len(p) \in 1 .. Len(p) /\ \A i \in 1 .. Len(dest) : i \in 1 .. Len(p)
  BY <1>1, <1>4
<1>6. p[Len(p)] \in Word /\ \A i \in 1 .. Len(dest) : p[i] \in Word
  BY <1>4, <1>5, ElementOfSeq
<1>7. \A i \in 1 .. Len(dest) : p[i] = dest[i]
  <2>1. \A i \in 1 .. Len(dest) - 1 + 1 : SubSeq(p, 1, Len(dest))[i] = p[1 + i - 1]
    BY <1>1, <1>6, SubSeqProperties
  <2> QED BY <1>1, <1>4, <2>1
<1>8. PICK w \in Word : w = p[Len(p)]
  BY <1>6
<1>9. /\ Append(dest, w) \in Seq(Word) /\ Len(Append(dest, w)) = Len(dest) + 1
      /\ \A i \in 1 .. Len(dest) : Append(dest, w)[i] = dest[i]
      /\ Append(dest, w)[Len(dest) + 1] = w
  BY <1>1, AppendProperties
<1>10. \A i \in 1 .. Len(p) : i \in 1 .. Len(dest) \/ i = Len(dest) + 1
  BY <1>1, <1>4
<1>11. \A i \in 1 .. Len(p) : p[i] = Append(dest, w)[i]
  BY <1>4, <1>7, <1>8, <1>9, <1>10
<1>12. p = Append(dest, w)
  BY <1>4, <1>9, <1>11, SeqEqual
<1> QED BY <1>4, <1>8, <1>12 DEF dest

LEMMA ImportedStep ==
  ASSUME SourceInv, ImportInv, [Next]_vars, edits' = edits,
         NEW p \in DOMAIN neutral' \ DOMAIN neutral, Imported(neutral'[p])
  PROVE  \E s \in Sources : verified[s] # Absent /\ Stems(neutral'[p], verified[s])
<1>1. /\ pc = "import" /\ neutral' = With(plan.imports)
      /\ \A o \in plan.imports : o[1] \notin DOMAIN neutral
  <2>1. Import BY NotTheUser
  <2> QED BY <2>1 DEF Import, Stop, scope
<1>2. plan # None /\ plan.replacement.conflicts = {}
  BY <1>1 DEF SourceInv, Flow, ImportInv
<1>3. OneEach(plan.imports) /\ \A o \in plan.imports : Sourced(o, plan.sources)
  BY <1>2 DEF ImportInv, PlanOK
<1>4. PICK o \in plan.imports : p = o[1] /\ neutral'[p] = o[2]
  <2> DEFINE writes == plan.imports
  <2>1. OneEach(writes) /\ (\A o \in writes : o[1] \notin DOMAIN neutral)
        /\ neutral' = With(writes)
    BY <1>1, <1>3
  <2> HIDE DEF writes
  <2>2. /\ DOMAIN neutral' = DOMAIN neutral \cup {o[1] : o \in writes}
        /\ \A o \in writes : neutral'[o[1]] = o[2]
    BY <2>1, ImportWrites
  <2> QED BY <2>2 DEF writes
<1>5. PICK r \in plan.sources : Stems(o[2], r.sha)
  BY <1>3, <1>4 DEF Sourced
<1>6. r.src \in Sources /\ r.sha # Absent /\ verified[r.src] = r.sha
  BY <1>1, <1>2 DEF SourceInv, RecordsOK, Hashed
<1> QED BY <1>4, <1>5, <1>6

\* What an import brings into the scope is a text that a native file, or a skill of
\* the scope, had when this apply hashed the sources (apply.py:70, _verify_sources),
\* whatever documents it was planned from.  What the user writes after that is not
\* noticed: that the text is still there when it is imported is not a theorem.
THEOREM ImportsAreCurrent == Spec => ImportsCurrent
<1>1. SourceInv /\ ImportInv /\ [Next]_vars =>
        [edits' = edits =>
           \A p \in DOMAIN neutral' \ DOMAIN neutral :
             Imported(neutral'[p]) =>
               \E s \in Sources : verified[s] # Absent /\ Stems(neutral'[p], verified[s])]_vars
  BY ImportedStep
<1> QED BY <1>1, ImportInvariant, PTL DEF Spec, ImportsCurrent

-------------------------------------------------------------------------------
(* What the planner has read.                                                *)

\* What normalization reads was verified, and is what it was unless it changed while
\* the planner ran.
Unshaken ==
  pc \in {"screen", "write"} =>
    \A r \in inventory :
      Read(r, work.cache) =>
        "unreadable" \notin r.sha.marks /\ (r.src \notin shaken => Now[r.src] = r.sha)

\* So a replacement takes what was imported, and nothing that came later.
Exact(records, rep, changed) ==
  \A r \in records :
    r.src \notin changed =>
      /\ \A p \in rep.removes : p[1] = r.src => <<p[2], p[3]>> \in r.sha.files
      /\ \A e \in rep.entries : e.src = r.src => e.expected = r.sha

ReadInv ==
  /\ Unshaken
  /\ plan # None => Exact(plan.sources, plan.replacement, plan.shaken)

LEMMA InitRead == Init => ReadInv
BY DEF Init, ReadInv, Unshaken

LEMMA VerifyRead == ASSUME SourceInv, ImportInv, ReadInv, Verify PROVE ReadInv'
<1>1. /\ UNCHANGED <<inventory, plan, native, neutral, shaken>> /\ pc = "verify"
      /\ \A r \in inventory : ~NormalizeFails(r, Now[r.src], work.cache)
      /\ \E a, b : work' = [work EXCEPT !.artifacts = a, !.conflicts = b]
  BY DEF Verify, scope, documents, notes
<1>2. "cache" \in DOMAIN work
  BY <1>1 DEF ImportInv, WorkOK, Planning, CallFields
<1>3. work'.cache = work.cache
  BY <1>1, <1>2, KeepsCall
<1>4. Now' = Now
  BY <1>1 DEF Now, NeutralSkill
<1>5. Unshaken'
  <2>1. \A r \in inventory : Read(r, work.cache) =>
          "unreadable" \notin r.sha.marks /\ Now[r.src] = r.sha
    BY <1>1 DEF NormalizeFails
  <2> QED BY <1>1, <1>3, <1>4, <2>1 DEF Unshaken
<1> QED BY <1>1, <1>5 DEF ReadInv

LEMMA ScreenRead == ASSUME SourceInv, ImportInv, ReadInv, Screen PROVE ReadInv'
<1>1. /\ UNCHANGED <<inventory, plan, native, neutral, shaken>> /\ pc = "screen"
      /\ \E a, b, c, d :
           work' = [work EXCEPT !.migrated = a, !.imports = b, !.conflicts = c, !.seen = d]
  BY DEF Screen, scope, documents, notes
<1>2. "cache" \in DOMAIN work
  BY <1>1 DEF ImportInv, WorkOK, Planning, CallFields
<1>3. work'.cache = work.cache
  BY <1>1, <1>2, KeepsCall
<1>4. Now' = Now
  BY <1>1 DEF Now, NeutralSkill
<1>5. Unshaken' BY <1>1, <1>3, <1>4 DEF ReadInv, Unshaken
<1> QED BY <1>1, <1>5 DEF ReadInv

\* A directory is listed as it is now, an entrypoint is expected as it is now: as
\* they were verified.
LEMMA WriteRead == ASSUME SourceInv, ReadInv, Write PROVE ReadInv'
<1>1. /\ pc = "write" /\ pc' = "idle" /\ RecordsOK(inventory) /\ work.targets \in Targets
      /\ plan'.sources = inventory /\ plan'.replacement = Outcome /\ plan'.shaken = shaken
  BY DEF Write, Goto, SourceInv, Flow, TargetsOK, Planning
<1>2. ASSUME NEW r \in inventory, r.src \notin shaken
      PROVE  /\ \A p \in Replacement.removes : p[1] = r.src => <<p[2], p[3]>> \in r.sha.files
             /\ \A e \in Replacement.entries : e.src = r.src => e.expected = r.sha
  <2>1. Read(r, work.cache) => Now[r.src] = r.sha
    BY <1>1, <1>2 DEF ReadInv, Unshaken
  <2>2. ASSUME NEW p \in Replacement.removes, p[1] = r.src PROVE <<p[2], p[3]>> \in r.sha.files
    <3>1. PICK q \in inventory : p \in Pieces(q) BY DEF Replacement
    <3>2. PICK f \in IF IsDirectory(q) THEN Now[q.src].files ELSE q.sha.files :
            p = <<q.src, f[1], f[2]>>
      BY <3>1 DEF Pieces
    <3>3. p[1] = q.src /\ p[2] = f[1] /\ p[3] = f[2] BY <3>2
    <3>4. q = r BY <1>1, <2>2, <3>3 DEF RecordsOK
    <3>5. IsDirectory(q) => Now[q.src] = r.sha BY <2>1, <3>4 DEF IsDirectory, Read
    <3>6. f \in r.sha.files BY <3>2, <3>4, <3>5
    <3>7. <<f[1], f[2]>> = f
      <4>1. CASE r.src \in InNeutral
        <5>1. r.src \notin InNeutral
          <6>1. PICK g \in inventory : Removable(g) /\ p \in Pieces(g) BY DEF Replacement
          <6>2. p[1] = g.src
            <7>1. PICK x, y : p = <<g.src, x, y>> BY <6>1 DEF Pieces
            <7> QED BY <7>1
          <6> QED BY <2>2, <6>1, <6>2 DEF Removable
        <5> QED BY <4>1, <5>1
      <4>2. CASE r.src \notin InNeutral
        <5>1. Authored(r.src, r.sha) BY <1>1, <4>2 DEF RecordsOK
        <5>2. PICK v : f = <<f[1], <<v>>>> BY <3>6, <5>1 DEF Authored
        <5>3. f[2] = <<v>> BY <5>2
        <5> QED BY <5>2, <5>3
      <4> QED BY <4>1, <4>2
    <3> QED BY <3>3, <3>6, <3>7
  <2>3. ASSUME NEW e \in Replacement.entries, e.src = r.src PROVE e.expected = r.sha
    <3>1. e \in Entries(work.targets) BY DEF Replacement
    <3>2. PICK a \in work.targets :
            /\ EntrypointOf[a] # 0 /\ e.src = EntrypointOf[a]
            /\ e.expected = Now[EntrypointOf[a]]
      BY <3>1 DEF Entries
    <3>3. KindOf[r.src] = "rules" BY <1>1, <2>3, <3>2, AgentsAssumption
    <3> QED BY <2>1, <2>3, <3>2, <3>3 DEF Read
  <2> QED BY <2>2, <2>3
<1>3. Exact(inventory, Outcome, shaken)
  <2>1. \A c, b : NoReplacement(c, b).removes = {} /\ NoReplacement(c, b).entries = {}
    BY DEF NoReplacement
  <2>2. Outcome = Replacement \/ \E c, b : Outcome = NoReplacement(c, b)
    BY DEF Outcome
  <2> QED BY <1>2, <2>1, <2>2 DEF Exact
<1>4. Unshaken' BY <1>1 DEF Unshaken
<1> QED BY <1>1, <1>3, <1>4 DEF ReadInv

LEMMA EditRead ==
  ASSUME SourceInv, ReadInv, \/ \E s \in Sources \ InNeutral : EditNative(s)
                             \/ \E p \in OwnPaths : EditNeutral(p)
  PROVE  ReadInv'
<1>1. UNCHANGED <<inventory, plan, pc, work>> /\ Shake
  BY DEF EditNative, EditNeutral, documents
<1>2. ASSUME pc \in {"screen", "write"}, NEW r \in inventory, r.src \notin shaken'
      PROVE  r.src \notin shaken /\ Now'[r.src] = Now[r.src]
  <2>1. r.src \in Sources BY <1>2 DEF SourceInv, Flow, Planning, RecordsOK
  <2>2. shaken' = shaken \cup {s \in Sources : Now'[s] # Now[s]}
    BY <1>1, <1>2 DEF Shake, Planning
  <2> QED BY <1>2, <2>1, <2>2
<1>3. Unshaken' BY <1>1, <1>2 DEF ReadInv, Unshaken
<1> QED BY <1>1, <1>3 DEF ReadInv

LEMMA ReadKept == SourceInv /\ ImportInv /\ ReadInv /\ [Next]_vars => ReadInv'
<1> SUFFICES ASSUME SourceInv, ImportInv, ReadInv, [Next]_vars PROVE ReadInv'
  OBVIOUS
<1>1. ASSUME UNCHANGED plan, pc' \notin {"screen", "write"} PROVE ReadInv'
  BY <1>1 DEF ReadInv, Unshaken
<1>2. ASSUME \/ Scan \/ \E cache \in Caches : Normalize(cache)
             \/ ClassifyRequest \/ Respond \/ ValidateResponse \/ PlanFails
      PROVE  ReadInv'
  <2>1. UNCHANGED plan /\ pc' = "idle"
    BY <1>2 DEF Scan, Normalize, ClassifyRequest, Respond, ValidateResponse, PlanFails, Goto
  <2> QED BY <1>1, <2>1
<1>3. ASSUME NEW targets, NEW importedAt, NEW cache, NEW replaceNative, NEW answered,
             Plan(targets, importedAt, replaceNative, cache, answered)
      PROVE  ReadInv'
  <2>1. UNCHANGED plan /\ pc' = "verify" BY <1>3 DEF Plan, Goto
  <2> QED BY <1>1, <2>1
<1>4. ASSUME VerifySources \/ Import \/ VerifyAgain \/ Replace PROVE ReadInv'
  <2>1. UNCHANGED plan /\ ~Planning' BY <1>4, Applying
  <2> QED BY <1>1, <2>1 DEF Planning
<1>5. CASE UNCHANGED vars
  <2>1. UNCHANGED <<inventory, plan, pc, work, native, neutral, shaken>>
    BY <1>5 DEF vars, scope, documents, notes
  <2>2. Now' = Now BY <2>1 DEF Now, NeutralSkill
  <2> QED BY <2>1, <2>2 DEF ReadInv, Unshaken
<1> QED
  BY <1>2, <1>3, <1>4, <1>5, VerifyRead, ScreenRead, WriteRead, EditRead DEF Next

LEMMA ReadInvariant == Spec => [](SourceInv /\ ImportInv /\ ReadInv)
BY ImportInvariant, InitRead, ReadKept, PTL DEF Spec

\* Who is taken from has a record, and what is taken is a piece of it.
LEMMA TakenStep ==
  ASSUME SourceInv, ImportInv, ReadInv, [Next]_vars, NEW s \in Sources, NEW f \in Taking(s),
         s \notin plan.shaken \/ native[s] = verified[s]
  PROVE  /\ pc = "remove" /\ plan # None
         /\ \E r \in plan.sources : /\ r.src = s /\ Takes(plan.replacement, s)
                                    /\ verified[s] = r.sha /\ f \in r.sha.files
<1> DEFINE rep == plan.replacement
<1>1. /\ native'[s] # native[s] /\ edits' = edits /\ native[s] # Absent
      /\ <<s, native[s]>> \notin Listed
      /\ f \in native[s].files \ IF native'[s] = Absent THEN {} ELSE native'[s].files
  BY DEF Taking
<1>2. pc = "remove" /\ ReplacementApproved /\ native' = AfterReplacement
  <2>1. Replace BY <1>1, NotTheUser
  <2> QED BY <1>1, <2>1 DEF Replace, Stop, scope
<1>3. /\ plan # None /\ rep.conflicts = {}
      /\ RecordsOK(plan.sources) /\ ReplacementOK(plan.sources, rep)
      /\ \A r \in plan.sources : verified[r.src] = r.sha
      /\ Exact(plan.sources, rep, plan.shaken)
  BY <1>2 DEF SourceInv, ImportInv, Flow, Hashed, ReadInv
<1>4. \A e \in rep.entries :
        e.expected # Absent =>
          \/ rep.manifest[1] # None /\ <<e.src, e.expected>> \in rep.manifest[1]
          \/ \E r \in plan.sources : r.src = e.src
  BY <1>3 DEF ImportInv, PlanOK
<1>5. ASSUME NEW e \in rep.entries, e.src = s
      PROVE  \E r \in plan.sources : /\ r.src = s /\ Takes(rep, s)
                                     /\ verified[s] = r.sha /\ f \in r.sha.files
  <2>1. s \notin InNeutral BY <1>3, <1>5, AgentsAssumption DEF ReplacementOK
  <2>2. e.expected = native[s] BY <1>2, <1>5, <2>1 DEF ReplacementApproved, Now
  <2>3. rep.manifest[1] = manifest BY <1>2 DEF ReplacementApproved
  <2>4. PICK r \in plan.sources : r.src = s BY <1>1, <1>4, <1>5, <2>2, <2>3 DEF Listed
  <2>5. Takes(rep, s) BY <1>1, <1>5, <2>2 DEF Takes, Overwritten
  <2>6. native[s] = r.sha BY <1>3, <1>5, <2>2, <2>4 DEF Exact
  <2> QED BY <1>1, <1>3, <2>4, <2>5, <2>6
<1>6. ASSUME Deleted(rep, s), Authored(s, native[s]),
             NEW left, left = native[s].files
                         \ {<<p[2], p[3]>> : p \in {q \in rep.removes : q[1] = s}},
             native'[s] = IF left = {} THEN Absent ELSE [native[s] EXCEPT !.files = left]
      PROVE  \E r \in plan.sources : /\ r.src = s /\ Takes(rep, s)
                                     /\ verified[s] = r.sha /\ f \in r.sha.files
  <2>1. PICK r \in plan.sources : r.src = s BY <1>3, <1>6 DEF Deleted, ReplacementOK
  <2>2. f \notin left
    <3>1. CASE left = {} BY <3>1
    <3>2. CASE left # {}
      <4>1. left \in SUBSET native[s].files BY <1>6
      <4>2. [native[s] EXCEPT !.files = left].files = left
        <5>1. native[s] = [files |-> native[s].files, marks |-> native[s].marks,
                           fields |-> native[s].fields]
          BY <1>6 DEF Authored
        <5> QED BY <5>1
      <4>3. native'[s] = [native[s] EXCEPT !.files = left] BY <1>6, <3>2
      <4>5. native'[s] # Absent => f \notin left BY <1>1, <4>2, <4>3
      <4>6. native'[s] # Absent BY <1>6, <4>1, <4>3 DEF Authored
      <4> QED BY <4>5, <4>6
    <3> QED BY <3>1, <3>2
  <2>3. PICK p \in rep.removes : p[1] = s /\ f = <<p[2], p[3]>> BY <1>1, <1>6, <2>2
  <2>4. CASE s \notin plan.shaken BY <1>3, <1>6, <2>1, <2>3, <2>4 DEF Exact, Takes
  <2>5. CASE native[s] = verified[s] BY <1>1, <1>3, <1>6, <2>1, <2>5 DEF Takes
  <2> QED BY <2>4, <2>5
<1> QED BY <1>1, <1>2, <1>3, <1>5, <1>6, Replacing

LEMMA LostStep ==
  ASSUME SourceInv, ImportInv, ReadInv, [Next]_vars, NEW s \in Sources, NEW f \in Taking(s),
         ~touched, s \notin plan.shaken \/ native[s] = verified[s]
  PROVE  Keeps(f, ~Abridged(Record(s, verified[s])))
<1>1. PICK r \in plan.sources : /\ r.src = s /\ Takes(plan.replacement, s)
                                /\ verified[s] = r.sha /\ f \in r.sha.files
  BY TakenStep
<1>2. pc = "remove" /\ plan # None BY TakenStep
<1>3. plan.replacement.conflicts = {} /\ r = Record(s, verified[s])
  BY <1>1, <1>2 DEF ImportInv, SourceInv, RecordsOK
<1>4. Kept(r, {} \cup InScope(neutral))
  BY <1>1, <1>2, <1>3 DEF ImportInv, PlanOK, ToImport
<1>5. PICK o \in InScope(neutral) :
        Imported(o[2]) /\ Origin(o[2]) = f[2] /\ (Abridged(r) \/ Whole(o[2]))
  BY <1>1, <1>4 DEF Kept
<1>6. PICK p \in DOMAIN neutral : o = <<p, neutral[p]>>
  BY DEF InScope
<1>7. o[2] = neutral[p] BY <1>6
<1> QED BY <1>3, <1>5, <1>7 DEF Keeps

\* What a replacement deletes or overwrites of the user's is in the neutral scope,
\* piece by piece, complete but for what the conversion of a command drops
\* (normalize.py:283): only what was migrated is removed (planner.py:671), an
\* entrypoint that is neither migrated nor listed is refused (planner.py:1025), and
\* the import has been written before.  Not so when the user changed the scope since
\* the preview, or a source both while the planner ran and after apply hashed it.
THEOREM NothingIsLost == Spec => NothingLost
<1>1. SourceInv /\ ImportInv /\ ReadInv /\ [Next]_vars =>
        [\A s \in Sources : \A f \in Taking(s) :
           ~touched /\ (s \notin plan.shaken \/ native[s] = verified[s]) =>
             Keeps(f, ~Abridged(Record(s, verified[s])))]_vars
  BY LostStep
<1> QED BY <1>1, ReadInvariant, PTL DEF Spec, NothingLost

-------------------------------------------------------------------------------
(* Nothing sensitive is planned.                                             *)

Shaped(a) == a = [src |-> a.src, sha |-> a.sha, kind |-> a.kind, dest |-> a.dest, files |-> a.files]

\* An artifact of a record, made from its text; unlike Made also when there are
\* conflicts, which change destinations.
Stemmed(a, records) ==
  /\ Shaped(a) /\ a.src \in Nat
  /\ \E r \in records :
       Identity(r) = Identity(a) /\ \A f \in a.files : Imported(f[2]) => Stems(f[2], r.sha)

\* The imports of what was made from records that redaction leaves as they are, or
\* from directories that changed while the planner ran.
Clean(imports, records, changed) ==
  \A o \in imports :
    Imported(o[2]) =>
      \E r \in records :
        /\ ~Sensitive(r.sha) \/ (IsDirectory(r) /\ r.src \in changed)
        /\ Stems(o[2], r.sha)

StemInv ==
  /\ pc = "screen" => \A a \in work.artifacts : Stemmed(a, inventory)
  /\ pc = "write" => Clean(work.imports, inventory, shaken)
  /\ plan # None => Clean(plan.imports, plan.sources, plan.shaken)

\* A batch gives artifacts other destinations, or drops them.
LEMMA BatchKeepsStems ==
  ASSUME NEW A, NEW records, \A a \in A : Stemmed(a, records)
  PROVE  \A b \in Batch(A).artifacts : Stemmed(b, records)
<1>1. ASSUME NEW d \in Destinations(A)
      PROVE  First(Group(A, d)) \in A
  <2>1. Group(A, d) # {} /\ \A a \in Group(A, d) : a.src \in Nat
    BY DEF Destinations, Group, Stemmed
  <2>2. First(Group(A, d)) \in Group(A, d)
    BY <2>1, FirstIsIn
  <2> QED BY <2>2 DEF Group
<1>2. ASSUME NEW G, NEW a \in A PROVE Stemmed(Renamed(A, G, a), records)
  <2>1. PICK dest : Renamed(A, G, a) = [a EXCEPT !.dest = dest]
    BY DEF Renamed
  <2> DEFINE b == [a EXCEPT !.dest = dest]
  <2>2. Stemmed(a, records) OBVIOUS
  <2>3. Shaped(a) BY <2>2 DEF Stemmed
  <2>4. /\ Shaped(b) /\ b.src = a.src /\ b.sha = a.sha /\ b.files = a.files
    BY <2>3 DEF Shaped
  <2> HIDE DEF b
  <2>5. Stemmed(b, records)
    BY <2>2, <2>4 DEF Stemmed, Identity
  <2> QED BY <2>1, <2>5 DEF b
<1>3. ASSUME NEW d \in Destinations(A), NEW b \in Resolved(A, d)
      PROVE  Stemmed(b, records)
  <2>1. b = First(Group(A, d)) \/ \E a \in Group(A, d) : b = Renamed(A, Group(A, d), a)
    BY DEF Resolved
  <2> QED BY <1>1, <1>2, <2>1 DEF Group
<1> QED BY <1>3 DEF Batch

LEMMA StemOfText ==
  ASSUME NEW records, RecordsOK(records), NEW r \in records, KindOf[r.src] # "skill",
         NEW kind, NEW dest, NEW child, NEW data \in TextsOf(r)
  PROVE  Stemmed(Artifact(r, kind, dest, {<<child, data>>}), records)
<1> DEFINE a == Artifact(r, kind, dest, {<<child, data>>})
<1>1. r.src \in Sources /\ r.src \notin InNeutral /\ Authored(r.src, r.sha)
  BY AgentsAssumption DEF RecordsOK
<1>2. PICK w : Text(r) = <<w>> /\ Text(r) \in Plain(r.sha)
  BY <1>1, OneText
<1>3. Origin(data) = <<w>>
  <2>1. data \in {<<w>>, <<"memory", r.src>> \o <<w>>, <<"command">> \o <<w>>,
                  <<"skill">> \o <<w>>, <<"abridged">> \o <<w>>}
    BY <1>2 DEF TextsOf
  <2>2. Origin(<<w>>) = <<w>> /\ Origin(<<"memory", r.src>> \o <<w>>) = <<w>>
    BY OriginOfText
  <2>3. \A x \in {"command", "skill", "abridged"} : Origin(<<x>> \o <<w>>) = <<w>>
    BY OriginOfText
  <2> QED BY <2>1, <2>2, <2>3
<1>4. /\ a.src = r.src /\ a.sha = r.sha /\ a.files = {<<child, data>>} /\ Shaped(a)
  BY DEF Artifact, Shaped
<1> HIDE DEF a
<1>5. ASSUME NEW f \in a.files PROVE Stems(f[2], r.sha)
  <2>1. f = <<child, data>> BY <1>4
  <2>2. f[2] = data BY <2>1
  <2> QED BY <1>2, <1>3, <2>2 DEF Stems
<1>6. r.src \in Nat BY <1>1, SourcesAssumption
<1> QED BY <1>4, <1>5, <1>6 DEF Stemmed, Identity, a

LEMMA StemOfSkill ==
  ASSUME NEW records, RecordsOK(records), NEW r \in records
  PROVE  Stemmed(CopiedSkill(r), records)
<1> DEFINE a == CopiedSkill(r)
<1>1. /\ a.src = r.src /\ a.sha = r.sha /\ a.files = r.sha.files /\ Shaped(a)
  BY DEF CopiedSkill, Artifact, Shaped
<1> HIDE DEF a
<1>2. r.src \in Nat BY SourcesAssumption DEF RecordsOK
<1>3. \A f \in a.files : Stems(f[2], r.sha)
  BY <1>1 DEF Stems, Plain
<1> QED BY <1>1, <1>2, <1>3 DEF Stemmed, Identity, a

\* Whatever becomes of a text, it goes into one file.
OfText(a, r) ==
  \E kind, dest, child : \E data \in TextsOf(r) : a = Artifact(r, kind, dest, {<<child, data>>})

LEMMA StemsOfText ==
  ASSUME NEW records, RecordsOK(records), NEW r \in records, KindOf[r.src] # "skill",
         NEW a, OfText(a, r)
  PROVE  Stemmed(a, records)
<1>1. PICK kind, dest, child :
        \E data \in TextsOf(r) : a = Artifact(r, kind, dest, {<<child, data>>})
  BY DEF OfText
<1>2. PICK data \in TextsOf(r) : a = Artifact(r, kind, dest, {<<child, data>>})
  BY <1>1
<1>3. Stemmed(Artifact(r, kind, dest, {<<child, data>>}), records)
  BY StemOfText
<1> QED BY <1>2, <1>3

LEMMA DeterministicStems ==
  ASSUME NEW records, RecordsOK(records), NEW r \in records, NEW cache,
         NEW a \in NormalizeDeterministic(r, cache)
  PROVE  Stemmed(a, records)
<1>1. CASE KindOf[r.src] = "skill"
  BY <1>1, StemOfSkill DEF NormalizeDeterministic
<1>2. CASE KindOf[r.src] # "skill"
  <2>1. KindOf[r.src] = "command" => OfText(ToSkill(r), r)
    <3>1. PICK data \in TextsOf(r) :
            \E dest : ToSkill(r) = Artifact(r, "skill", dest, {<<"SKILL.md", data>>})
      BY DEF ToSkill, TextsOf
    <3> QED BY <3>1 DEF OfText
  <2>2. OfText(ToMemory(r), r)
    <3>1. PICK data \in {Text(r), <<"memory", r.src>> \o Text(r)} :
            \E dest : ToMemory(r) = Artifact(r, "manual_memory", dest, {<<"", data>>})
      BY DEF ToMemory, Body
    <3>2. PICK dest : ToMemory(r) = Artifact(r, "manual_memory", dest, {<<"", data>>})
      BY <3>1
    <3> QED BY <3>2 DEF OfText, TextsOf
  <2>3. OfText(ToSession(r), r) /\ OfText(ToCache(r), r)
    BY DEF OfText, ToSession, ToCache, Body, TextsOf
  <2>4. OfText(ToRule(r, NameOf[r.src]), r)
    BY DEF OfText, ToRule, Body, TextsOf
  <2>5. \/ a \in {ToMemory(r), ToSession(r), ToRule(r, NameOf[r.src]), ToCache(r)}
        \/ KindOf[r.src] = "command" /\ a = ToSkill(r)
    BY <1>2 DEF NormalizeDeterministic
  <2>6. OfText(a, r)
    BY <2>1, <2>2, <2>3, <2>4, <2>5
  <2> QED BY <1>2, <2>6, StemsOfText
<1> QED BY <1>1, <1>2

LEMMA DecisionStems ==
  ASSUME NEW records, RecordsOK(records), NEW r \in records, KindOf[r.src] # "skill",
         NEW d, d.kind \in Importing
  PROVE  Stemmed(FromDecision(d, r), records)
<1>1. PICK kind, dest, files :
        /\ FromDecision(d, r) = Artifact(r, kind, dest, files)
        /\ files \in {{<<"SKILL.md", <<"skill">> \o Text(r)>>}, {<<"", Text(r)>>},
                      {<<"", <<"memory", r.src>> \o Text(r)>>}}
  <2>1. PICK files : /\ files = CASE d.kind = "skill" -> {<<"SKILL.md", <<"skill">> \o Text(r)>>}
                                   [] d.kind = "manual_memory" ->
                                        Body(<<"memory", r.src>> \o Text(r))
                                   [] OTHER -> Body(Text(r))
                     /\ \E kind, dest : FromDecision(d, r) = Artifact(r, kind, dest, files)
    <3> DEFINE files == CASE d.kind = "skill" -> {<<"SKILL.md", <<"skill">> \o Text(r)>>}
                          [] d.kind = "manual_memory" -> Body(<<"memory", r.src>> \o Text(r))
                          [] OTHER -> Body(Text(r))
    <3>1. \E kind, dest : FromDecision(d, r) = Artifact(r, kind, dest, files)
      BY DEF FromDecision
    <3> QED BY <3>1
  <2>2. files \in {{<<"SKILL.md", <<"skill">> \o Text(r)>>}, {<<"", Text(r)>>},
                   {<<"", <<"memory", r.src>> \o Text(r)>>}}
    BY <2>1 DEF Body
  <2> QED BY <2>1, <2>2
<1>2. OfText(FromDecision(d, r), r)
  BY <1>1 DEF OfText, TextsOf
<1> QED BY <1>2, StemsOfText

LEMMA InitStems == Init => StemInv
BY DEF Init, StemInv

LEMMA VerifyStems == ASSUME SourceInv, ImportInv, StemInv, Verify PROVE StemInv'
<1> DEFINE D == UNION {NormalizeDeterministic(r, work.cache) : r \in inventory}
           C == Classified(inventory, [decisions |-> work.decisions], Now).artifacts
           B == Batch(D).artifacts
           A == Batch(B \cup C).artifacts
<1>1. /\ UNCHANGED <<inventory, plan>>
      /\ pc = "verify" /\ pc' = "screen" /\ inventory # None
  BY DEF Verify, Goto, scope, documents, notes, SourceInv, Flow, Planning
<1>2. CallFields \subseteq DOMAIN work /\ RecordsOK(inventory)
  BY <1>1 DEF SourceInv, ImportInv, WorkOK, Planning
<1>3. ASSUME NEW a \in D PROVE Stemmed(a, inventory)
  BY <1>2, DeterministicStems
<1>4. ASSUME NEW a \in C PROVE Stemmed(a, inventory)
  <2>1. PICK p \in Decided(inventory, [decisions |-> work.decisions]) :
          a = FromDecision(p[1], p[2]) /\ p[1].kind \in Importing /\ ~DecisionFails(p[2], Now)
    BY DEF Classified
  <2>2. p[2] \in inventory
    BY DEF Decided
  <2>3. KindOf[p[2].src] # "skill"
    BY <2>1 DEF DecisionFails
  <2> QED BY <1>2, <2>1, <2>2, <2>3, DecisionStems
<1>5. work'.artifacts \subseteq A
  <2>1. /\ NormalizedBatch(inventory, work.cache) = Batch(D)
        /\ Combined(B, C) = Batch(B \cup C)
    BY DEF NormalizedBatch, Combined
  <2>2. PICK suspect, conflicts :
          work' = [work EXCEPT !.artifacts = {a \in Combined(B, C).artifacts :
                                                Identity(a) \notin suspect},
                               !.conflicts = conflicts]
    <3> HIDE DEF D
    <3> QED BY <2>1 DEF Verify
  <2> HIDE DEF A, B, C
  <2>3. work'.artifacts = {a \in Combined(B, C).artifacts : Identity(a) \notin suspect}
    BY <1>2, <2>2 DEF CallFields
  <2> QED BY <2>1, <2>3 DEF A
<1> HIDE DEF C, D
<1>6. \A b \in B : Stemmed(b, inventory)
  BY <1>3, BatchKeepsStems
<1> HIDE DEF B
<1>7. \A a \in A : Stemmed(a, inventory)
  <2>1. \A a \in B \cup C : Stemmed(a, inventory) BY <1>4, <1>6
  <2> QED BY <2>1, BatchKeepsStems
<1> QED BY <1>1, <1>5, <1>7 DEF StemInv

\* What passed the screen is not sensitive in its record either.
LEMMA ScreenStems == ASSUME SourceInv, ImportInv, ReadInv, StemInv, Screen PROVE StemInv'
<1> DEFINE passed == {a \in work.artifacts : ~Withheld(a)}
           writes == {o \in Desired(passed) : Missing(o)}
           clashes == {o \in writes : o[1] \in DOMAIN neutral}
<1>1. /\ UNCHANGED <<inventory, plan, shaken>>
      /\ pc = "screen" /\ pc' = "write" /\ inventory # None
  BY DEF Screen, Goto, documents, notes, SourceInv, Flow, Planning
<1>2. work'.imports = writes \ clashes
  <2>1. CallFields \subseteq DOMAIN work
    BY <1>1 DEF ImportInv, WorkOK, Planning
  <2>2. PICK migrated, conflicts :
          work' = [work EXCEPT !.migrated = migrated, !.imports = writes \ clashes,
                               !.conflicts = conflicts, !.seen = neutral]
    BY DEF Screen
  <2> HIDE DEF writes, clashes
  <2> QED BY <2>1, <2>2 DEF CallFields
<1>3. ASSUME NEW o \in work'.imports, Imported(o[2])
      PROVE  \E r \in inventory :
               /\ ~Sensitive(r.sha) \/ (IsDirectory(r) /\ r.src \in shaken)
               /\ Stems(o[2], r.sha)
  <2>1. o \in AllOutputs(passed)
    <3>1. o \in Desired(passed) BY <1>2
    <3>2. CASE o = <<IndexPath, MemoryIndex(Memories(passed), work.importedAt)>>
      <4>1. o[2] = MemoryIndex(Memories(passed), work.importedAt) BY <3>2
      <4> QED BY <1>3, <4>1 DEF MemoryIndex, Imported
    <3> QED BY <3>1, <3>2 DEF Desired
  <2>2. PICK a \in passed : o \in Outputs(a) BY <2>1 DEF AllOutputs
  <2>3. PICK f \in a.files : o[2] = f[2]
    <3>1. PICK f \in a.files : o = <<IF f[1] = "" THEN a.dest ELSE Append(a.dest, f[1]), f[2]>>
      BY <2>2 DEF Outputs
    <3>2. o[2] = f[2] BY <3>1
    <3> QED BY <3>2
  <2>4. Stemmed(a, inventory) /\ ~Withheld(a)
    BY <1>1, <2>2 DEF StemInv
  <2> HIDE DEF passed
  <2>5. PICK r \in inventory : Identity(r) = Identity(a) /\ Stems(o[2], r.sha)
    BY <1>3, <2>3, <2>4 DEF Stemmed
  <2>6. r.src = a.src /\ r.sha = a.sha
    BY <2>5 DEF Identity
  <2>7. CASE KindOf[a.src] # "skill"
    BY <2>4, <2>5, <2>6, <2>7 DEF Withheld, IsDirectory
  <2>8. CASE KindOf[a.src] = "skill" /\ a.src \notin shaken
    <3>1. "unreadable" \notin r.sha.marks /\ Now[a.src] = r.sha
      BY <1>1, <2>6, <2>8 DEF ReadInv, Unshaken, Read
    <3>2. ~Replaced(r.sha) /\ "blocked" \notin r.sha.marks
      BY <2>4, <2>8, <3>1 DEF Withheld, IsDirectory
    <3> QED BY <2>5, <3>1, <3>2 DEF Sensitive, NoText
  <2>9. CASE KindOf[a.src] = "skill" /\ a.src \in shaken
    BY <2>5, <2>6, <2>9 DEF IsDirectory
  <2> QED BY <2>7, <2>8, <2>9
<1> HIDE DEF passed, writes, clashes
<1>4. Clean(work'.imports, inventory, shaken)
  BY <1>3 DEF Clean
<1> QED BY <1>1, <1>4 DEF StemInv

\* Who edits a directory while the planner runs excepts it.
LEMMA EditStems ==
  ASSUME StemInv, \/ \E s \in Sources \ InNeutral : EditNative(s)
                  \/ \E p \in OwnPaths : EditNeutral(p)
                  \/ UNCHANGED vars
  PROVE  StemInv'
<1>1. UNCHANGED <<inventory, plan, pc, work>> /\ shaken \subseteq shaken'
  BY DEF EditNative, EditNeutral, Shake, vars, scope, documents, notes
<1>2. \A imports, records : Clean(imports, records, shaken) => Clean(imports, records, shaken')
  BY <1>1 DEF Clean
<1> QED BY <1>1, <1>2 DEF StemInv

LEMMA StemsKept == SourceInv /\ ImportInv /\ ReadInv /\ StemInv /\ [Next]_vars => StemInv'
<1> SUFFICES ASSUME SourceInv, ImportInv, ReadInv, StemInv, [Next]_vars PROVE StemInv'
  OBVIOUS
<1>1. ASSUME \/ Scan \/ \E cache \in Caches : Normalize(cache)
             \/ ClassifyRequest \/ Respond \/ ValidateResponse
      PROVE  StemInv'
  <2>1. UNCHANGED <<plan, pc>> /\ pc = "idle"
    BY <1>1 DEF Scan, Normalize, ClassifyRequest, Respond, ValidateResponse, documents
  <2> QED BY <2>1 DEF StemInv
<1>2. ASSUME NEW targets, NEW importedAt, NEW cache, NEW replaceNative, NEW answered,
             Plan(targets, importedAt, replaceNative, cache, answered)
      PROVE  StemInv'
  <2>1. UNCHANGED <<inventory, plan>> /\ pc' = "verify"
    BY <1>2 DEF Plan, Goto, documents
  <2> QED BY <2>1 DEF StemInv
<1>3. CASE Write
  <2>1. /\ UNCHANGED inventory /\ pc = "write" /\ pc' = "idle"
        /\ plan'.sources = inventory /\ plan'.imports = work.imports
        /\ plan'.shaken = shaken
    BY <1>3 DEF Write, Goto, documents
  <2> QED BY <2>1 DEF StemInv
<1>4. ASSUME PlanFails \/ VerifySources \/ Import \/ VerifyAgain \/ Replace PROVE StemInv'
  <2>1. UNCHANGED plan /\ ~Planning'
    BY <1>4, Applying DEF PlanFails, Goto, Planning
  <2> QED BY <2>1 DEF StemInv, Planning
<1> QED
  BY <1>1, <1>2, <1>3, <1>4, VerifyStems, ScreenStems, EditStems DEF Next

\* What a plan imports was made from sources in which redaction finds nothing
\* (_sensitive_source_reason, planner.py:1228), conflicts or not: a file counts as
\* the inventory hashed it, a directory as it is when it is screened, which is what
\* the inventory hashed unless that directory is edited between the planner's reads.
THEOREM NothingSensitiveIsPlanned == Spec => []SensitiveNotPlanned
<1>1. StemInv => SensitiveNotPlanned
  BY DEF StemInv, Clean, SensitiveNotPlanned
<1> QED
  BY <1>1, InitStems, StemsKept, ReadInvariant, PTL DEF Spec

-------------------------------------------------------------------------------
(* A migration that is repeated.                                             *)

Natives(records) == {r \in records : r.src \notin InNeutral}
Neutrals(records) == {r \in records : r.src \in InNeutral}

\* What becomes of records, and of decisions, before anything is grouped.
Forms(records, cache) == UNION {NormalizeDeterministic(r, cache) : r \in records}
Chosen(decisions) ==
  {FromDecision(d, Record(d.id[1], d.id[2])) : d \in {e \in decisions : e.kind \in Importing}}

\* The memories that are left when nothing is in conflict.
Firsts(A) == {First(Group(A, d)) : d \in Destinations(A)}
Remembered(records, decisions, cache) ==
  Firsts(Firsts(Memories(Forms(records, cache))) \cup Memories(Chosen(decisions)))

\* The files that a migration wants in the scope, those apart that are there
\* because they are its sources.
Wanted(records, decisions, cache, importedAt) ==
  LET memories == Remembered(records, decisions, cache)
  IN  AllOutputs(Forms(records, cache) \cup Chosen(decisions))
      \cup IF memories = {} THEN {} ELSE {<<IndexPath, MemoryIndex(memories, importedAt)>>}

Copies(records) == AllOutputs({CopiedSkill(r) : r \in Neutrals(records)})

WorkWants == Wanted(Natives(inventory), work.decisions, work.cache, work.importedAt)

Objectionable == {"tampered", "destination", "undecided", "outside", "sensitive"}

\* The planner at work: what is not in the scope is imported, or something else is
\* in its place.
WorkQuiet ==
  /\ pc = "screen" /\ work.conflicts = {} =>
       /\ AllOutputs(work.artifacts) =
            AllOutputs(Forms(Natives(inventory), work.cache) \cup Chosen(work.decisions))
            \cup Copies(inventory)
       /\ Memories(work.artifacts) = Remembered(Natives(inventory), work.decisions, work.cache)
  /\ pc = "screen" => \A c \in work.conflicts : c[1] \in Objectionable
  /\ pc = "write" /\ (\A c \in work.conflicts : c[1] \notin Objectionable) =>
       \E clashes :
         /\ (WorkWants \cup Copies(inventory)) \ InScope(work.seen) = work.imports \cup clashes
         /\ work.conflicts = {<<"unmanaged", o[1]>> : o \in clashes}
  /\ pc \in {"screen", "write"} /\ done # None => Copies(inventory) \subseteq InScope(neutral)
  /\ pc = "write" /\ done # None => work.seen = neutral

QuietInv ==
  /\ done # None =>
       Wanted(done.native, done.decisions, done.cache, done.importedAt) \subseteq InScope(neutral)
  /\ plan # None /\ plan.replacement.conflicts = {} /\ ~touched =>
       Wanted(Natives(plan.sources), plan.decisions, plan.cache, plan.importedAt)
         \subseteq ToImport \cup InScope(neutral)
  /\ WorkQuiet

LEMMA FormSource ==
  ASSUME NEW r, NEW cache, NEW a \in NormalizeDeterministic(r, cache)
  PROVE  a.src = r.src
BY DEF NormalizeDeterministic, CopiedSkill, ToSkill, ToMemory, ToSession, ToRule, ToCache, Artifact

LEMMA ChosenSource ==
  ASSUME NEW d, NEW r
  PROVE  FromDecision(d, r).src = r.src
BY DEF FromDecision, Artifact

\* Without a conflict, grouping changes no file, and what it leaves of the memories
\* depends on the memories alone.
LEMMA BatchQuiet ==
  ASSUME NEW A, \A a \in A : a.src \in Nat, Batch(A).conflicts = {}
  PROVE  /\ AllOutputs(Batch(A).artifacts) = AllOutputs(A)
         /\ Memories(Batch(A).artifacts) = Firsts(Memories(A))
         /\ Batch(A).artifacts \subseteq A
<1> DEFINE M == Memories(A)
<1>1. /\ Batch(A).artifacts \subseteq A
      /\ \A a \in A : \E b \in Batch(A).artifacts : b.dest = a.dest /\ b.files = a.files
  BY BatchKeepsOne
<1>2. AllOutputs(Batch(A).artifacts) = AllOutputs(A)
  <2>1. ASSUME NEW a \in A PROVE \E b \in Batch(A).artifacts : Outputs(b) = Outputs(a)
    BY <1>1 DEF Outputs
  <2> QED BY <1>1, <2>1 DEF AllOutputs
<1>3. ASSUME NEW d \in Destinations(A)
      PROVE  /\ First(Group(A, d)) \in Group(A, d) /\ Resolved(A, d) = {First(Group(A, d))}
             /\ \A a, b \in Group(A, d) : a.kind = b.kind
  <2>1. Group(A, d) # {} /\ \A a \in Group(A, d) : a.src \in Nat
    BY DEF Destinations, Group
  <2>2. Agreed(Group(A, d)) BY DEF Batch
  <2>3. \A a, b \in Group(A, d) : a.kind = b.kind BY <2>2 DEF Agreed, Substance
  <2> QED BY <2>1, <2>2, <2>3, FirstIsIn DEF Resolved
<1>4. Batch(A).artifacts = {First(Group(A, d)) : d \in Destinations(A)}
  BY <1>3 DEF Batch
<1>5. Destinations(M) \subseteq Destinations(A) BY DEF Destinations, Memories
<1>6. ASSUME NEW d \in Destinations(A), NEW m \in Group(A, d), m.kind = "manual_memory"
      PROVE  Group(A, d) = Group(M, d) /\ d \in Destinations(M)
  <2>1. \A a \in Group(A, d) : a.kind = "manual_memory" BY <1>3, <1>6
  <2> QED BY <1>6, <2>1 DEF Group, Memories, Destinations
<1>7. ASSUME NEW b \in Memories(Batch(A).artifacts) PROVE b \in Firsts(M)
  <2>1. b \in Batch(A).artifacts /\ b.kind = "manual_memory" BY DEF Memories
  <2>2. PICK d \in Destinations(A) : b = First(Group(A, d)) BY <1>4, <2>1
  <2>3. Group(A, d) = Group(M, d) /\ d \in Destinations(M) BY <1>3, <1>6, <2>1, <2>2
  <2> QED BY <2>2, <2>3 DEF Firsts
<1>8. ASSUME NEW b \in Firsts(M) PROVE b \in Memories(Batch(A).artifacts)
  <2>1. PICK d \in Destinations(M) : b = First(Group(M, d)) BY DEF Firsts
  <2>2. PICK m \in M : m.dest = d BY <2>1 DEF Destinations
  <2>3. m \in Group(A, d) /\ m.kind = "manual_memory" /\ d \in Destinations(A)
    BY <1>5, <2>1, <2>2 DEF Memories, Group
  <2>4. Group(A, d) = Group(M, d) BY <1>6, <2>3
  <2>5. b \in Group(A, d) /\ b \in Batch(A).artifacts BY <1>3, <1>4, <2>1, <2>3, <2>4
  <2>6. b.kind = "manual_memory" BY <1>3, <2>3, <2>5
  <2> QED BY <2>5, <2>6 DEF Memories
<1> HIDE DEF M
<1>9. Memories(Batch(A).artifacts) = Firsts(M) BY <1>7, <1>8
<1> QED BY <1>1, <1>2, <1>9 DEF M

\* Without a conflict every decision is on a record, and none is refused.
LEMMA ClassifiedAll ==
  ASSUME NEW records, RecordsOK(records), NEW decisions, NEW now,
         Classified(records, [decisions |-> decisions], now).conflicts = {}
  PROVE  Classified(records, [decisions |-> decisions], now).artifacts = Chosen(decisions)
<1> DEFINE all == Decided(records, [decisions |-> decisions])
           C == Classified(records, [decisions |-> decisions], now).artifacts
<1>1. all = {p \in decisions \X records : p[1].id = Identity(p[2])} BY DEF Decided
<1>2. /\ C = {FromDecision(p[1], p[2]) :
               p \in {q \in all : q[1].kind \in Importing /\ ~DecisionFails(q[2], now)}}
      /\ {<<"undecided", p[2].src>> :
            p \in {q \in all : \/ q[1].kind = "conflict"
                               \/ q[1].kind \in Importing /\ DecisionFails(q[2], now)}} = {}
      /\ {<<"outside", d.id[1]>> :
            d \in {e \in decisions : e.id \notin {Identity(r) : r \in records}}} = {}
  BY DEF Classified
<1> HIDE DEF all, C
<1>3. \A q \in all : q[1].kind \in Importing => ~DecisionFails(q[2], now) BY <1>2
<1>4. \A d \in decisions : \E r \in records : d.id = Identity(r) BY <1>2
<1>5. ASSUME NEW d \in decisions, NEW r \in records, d.id = Identity(r)
      PROVE  r = Record(d.id[1], d.id[2])
  <2>1. r = Record(r.src, r.sha) BY DEF RecordsOK
  <2>2. d.id[1] = r.src /\ d.id[2] = r.sha BY <1>5 DEF Identity
  <2> QED BY <2>1, <2>2
<1>6. ASSUME NEW a \in C PROVE a \in Chosen(decisions)
  <2>1. PICK p \in all : a = FromDecision(p[1], p[2]) /\ p[1].kind \in Importing BY <1>2
  <2>2. p[1] \in decisions /\ p[2] \in records /\ p[1].id = Identity(p[2]) BY <1>1
  <2>3. p[2] = Record(p[1].id[1], p[1].id[2]) BY <1>5, <2>2
  <2> QED BY <2>1, <2>2, <2>3 DEF Chosen
<1>7. ASSUME NEW a \in Chosen(decisions) PROVE a \in C
  <2>1. PICK d \in decisions : d.kind \in Importing /\ a = FromDecision(d, Record(d.id[1], d.id[2]))
    BY DEF Chosen
  <2>2. PICK r \in records : d.id = Identity(r) BY <1>4
  <2>3. PICK p : p = <<d, r>> OBVIOUS
  <2>4. p \in all /\ p[1] = d /\ p[2] = r BY <1>1, <2>2, <2>3
  <2>5. r = Record(d.id[1], d.id[2]) BY <1>5, <2>2
  <2>6. a = FromDecision(p[1], p[2]) /\ p[1].kind \in Importing /\ ~DecisionFails(p[2], now)
    BY <1>3, <2>1, <2>4, <2>5
  <2> QED BY <1>2, <2>4, <2>6
<1> QED BY <1>6, <1>7 DEF C

\* The sources of an inventory are numbered.
LEMMA ChosenNumbered ==
  ASSUME NEW records, RecordsOK(records), NEW decisions,
         \A d \in decisions : \E r \in records : d.id = Identity(r)
  PROVE  \A a \in Chosen(decisions) : a.src \in Nat
<1> TAKE a \in Chosen(decisions)
<1>1. PICK d \in decisions : a = FromDecision(d, Record(d.id[1], d.id[2])) BY DEF Chosen
<1>2. PICK r \in records : d.id = Identity(r) BY <1>1
<1>3. d.id[1] = r.src /\ r.src \in Sources BY <1>2 DEF Identity, RecordsOK
<1>4. a.src = Record(d.id[1], d.id[2]).src BY <1>1, ChosenSource
<1>5. a.src = r.src BY <1>3, <1>4 DEF Record
<1> QED BY <1>3, <1>5, SourcesAssumption

\* A neutral skill becomes a copy of itself, and no memory.
LEMMA FormsApart ==
  ASSUME NEW records, RecordsOK(records), NEW cache
  PROVE  /\ AllOutputs(Forms(records, cache)) =
              AllOutputs(Forms(Natives(records), cache)) \cup Copies(records)
         /\ Memories(Forms(records, cache)) = Memories(Forms(Natives(records), cache))
         /\ \A a \in Forms(records, cache) : a.src \in Nat
<1> DEFINE K == {CopiedSkill(r) : r \in Neutrals(records)}
<1>1. ASSUME NEW r \in Neutrals(records) PROVE NormalizeDeterministic(r, cache) = {CopiedSkill(r)}
  <2>1. KindOf[r.src] = "skill" BY AgentsAssumption DEF Neutrals
  <2> QED BY <2>1 DEF NormalizeDeterministic
<1>2. Natives(records) \cup Neutrals(records) = records BY DEF Natives, Neutrals
<1>3. Forms(records, cache) = Forms(Natives(records), cache) \cup K
  <2>1. \A a : a \in Forms(records, cache) <=>
                 \E r \in Natives(records) \cup Neutrals(records) : a \in NormalizeDeterministic(r, cache)
    BY <1>2 DEF Forms
  <2>2. \A a : a \in Forms(Natives(records), cache) <=>
                 \E r \in Natives(records) : a \in NormalizeDeterministic(r, cache)
    BY DEF Forms
  <2>3. \A a : a \in K <=> \E r \in Neutrals(records) : a \in NormalizeDeterministic(r, cache)
    BY <1>1
  <2> QED BY <2>1, <2>2, <2>3
<1>4. \A a \in K : a.kind # "manual_memory" BY DEF CopiedSkill, Artifact
<1>5. AllOutputs(K) = Copies(records) BY DEF Copies
<1>6. \A a \in Forms(records, cache) : a.src \in Nat
  <2> TAKE a \in Forms(records, cache)
  <2>1. PICK r \in records : a \in NormalizeDeterministic(r, cache) BY DEF Forms
  <2>2. a.src = r.src BY <2>1, FormSource
  <2> QED BY <2>2, SourcesAssumption DEF RecordsOK
<1> HIDE DEF K
<1>7. AllOutputs(Forms(Natives(records), cache) \cup K) =
        AllOutputs(Forms(Natives(records), cache)) \cup AllOutputs(K)
  BY DEF AllOutputs
<1>8. Memories(Forms(Natives(records), cache) \cup K) = Memories(Forms(Natives(records), cache))
  BY <1>4 DEF Memories
<1> QED BY <1>3, <1>5, <1>6, <1>7, <1>8

\* What the planner has verified depends on the native files and the decisions,
\* and on the skills that are in the neutral scope already.
LEMMA VerifiedWants ==
  ASSUME NEW records, RecordsOK(records), NEW decisions, NEW cache, NEW now,
         NormalizedBatch(records, cache).conflicts = {},
         Classified(records, [decisions |-> decisions], now).conflicts = {},
         Combined(NormalizedBatch(records, cache).artifacts,
                  Classified(records, [decisions |-> decisions], now).artifacts).conflicts = {},
         NEW A, A = Combined(NormalizedBatch(records, cache).artifacts,
                             Classified(records, [decisions |-> decisions], now).artifacts).artifacts
  PROVE  /\ AllOutputs(A) = AllOutputs(Forms(Natives(records), cache) \cup Chosen(decisions))
                            \cup Copies(records)
         /\ Memories(A) = Remembered(Natives(records), decisions, cache)
<1> DEFINE D == Forms(records, cache)
           C == Chosen(decisions)
           B == Batch(D).artifacts
<1>1. NormalizedBatch(records, cache) = Batch(D) BY DEF NormalizedBatch, Forms
<1>2. Classified(records, [decisions |-> decisions], now).artifacts = C BY ClassifiedAll
<1>3. /\ Batch(D).conflicts = {} /\ Batch(B \cup C).conflicts = {}
      /\ A = Batch(B \cup C).artifacts
  BY <1>1, <1>2 DEF Combined
<1>4. \A d \in decisions : \E r \in records : d.id = Identity(r)
  <2>1. {<<"outside", d.id[1]>> :
           d \in {e \in decisions : e.id \notin {Identity(r) : r \in records}}} = {}
    BY DEF Classified
  <2> QED BY <2>1
<1>5. \A a \in D \cup C : a.src \in Nat BY <1>4, FormsApart, ChosenNumbered
<1> HIDE DEF D, C
<1>6. /\ AllOutputs(B) = AllOutputs(D) /\ Memories(B) = Firsts(Memories(D)) /\ B \subseteq D
  BY <1>3, <1>5, BatchQuiet
<1> HIDE DEF B
<1>7. \A a \in B \cup C : a.src \in Nat BY <1>5, <1>6
<1>8. AllOutputs(A) = AllOutputs(B \cup C) /\ Memories(A) = Firsts(Memories(B \cup C))
  BY <1>3, <1>7, BatchQuiet
<1>9. /\ AllOutputs(B \cup C) = AllOutputs(B) \cup AllOutputs(C)
      /\ Memories(B \cup C) = Memories(B) \cup Memories(C)
  BY DEF AllOutputs, Memories
<1>10. /\ AllOutputs(D) = AllOutputs(Forms(Natives(records), cache)) \cup Copies(records)
       /\ Memories(D) = Memories(Forms(Natives(records), cache))
  BY FormsApart DEF D
<1>11. AllOutputs(Forms(Natives(records), cache) \cup C) =
         AllOutputs(Forms(Natives(records), cache)) \cup AllOutputs(C)
  BY DEF AllOutputs
<1>12. AllOutputs(A) = AllOutputs(Forms(Natives(records), cache) \cup C) \cup Copies(records)
  BY <1>6, <1>8, <1>9, <1>10, <1>11
<1>13. Memories(A) = Remembered(Natives(records), decisions, cache)
  BY <1>6, <1>8, <1>9, <1>10 DEF Remembered, C
<1> QED BY <1>12, <1>13 DEF C

\* A file to be written is a path and what goes there.
LEMMA OutputPairs ==
  ASSUME NEW A, NEW o \in AllOutputs(A)
  PROVE  o = <<o[1], o[2]>>
<1>1. PICK a \in A : o \in Outputs(a) BY DEF AllOutputs
<1>2. PICK f \in a.files : o = <<IF f[1] = "" THEN a.dest ELSE Append(a.dest, f[1]), f[2]>>
  BY <1>1 DEF Outputs
<1>3. PICK x, y : o = <<x, y>> BY <1>2
<1> QED BY <1>3

LEMMA WantedPairs ==
  ASSUME NEW records, NEW decisions, NEW cache, NEW importedAt,
         NEW o \in Wanted(records, decisions, cache, importedAt)
  PROVE  o = <<o[1], o[2]>>
<1>1. ASSUME NEW x, NEW y, o = <<x, y>> PROVE o = <<o[1], o[2]>>
  BY <1>1
<1> QED BY <1>1, OutputPairs DEF Wanted

LEMMA CopyPairs ==
  ASSUME NEW records, NEW o \in Copies(records)
  PROVE  o = <<o[1], o[2]>>
BY OutputPairs DEF Copies

LEMMA HeldInScope ==
  ASSUME NEW o, o = <<o[1], o[2]>>
  PROVE  Holds(o[1], o[2]) <=> o \in InScope(neutral)
<1>1. ASSUME Holds(o[1], o[2]) PROVE o \in InScope(neutral)
  BY <1>1 DEF Holds, InScope
<1>2. ASSUME o \in InScope(neutral) PROVE Holds(o[1], o[2])
  <2>1. PICK p \in DOMAIN neutral : o = <<p, neutral[p]>> BY <1>2 DEF InScope
  <2>2. o[1] = p /\ o[2] = neutral[p] BY <2>1
  <2> QED BY <2>1, <2>2 DEF Holds
<1> QED BY <1>1, <1>2

\* A neutral skill that is as the inventory hashed it is where its copy would go.
LEMMA CopiesInPlace ==
  ASSUME \A p \in DOMAIN neutral : PathOK(p), NEW records, RecordsOK(records), NeutralOK(records),
         \A r \in records : r.src \in InNeutral => NeutralSkill(r.src) = r.sha
  PROVE  Copies(records) \subseteq InScope(neutral)
<1> SUFFICES ASSUME NEW o \in Copies(records) PROVE o \in InScope(neutral)
  OBVIOUS
<1>1. PICK r \in Neutrals(records) : o \in Outputs(CopiedSkill(r)) BY DEF Copies, AllOutputs
<1>2. r \in records /\ r.src \in InNeutral /\ r.sha # Absent /\ NeutralSkill(r.src) = r.sha
  BY DEF Neutrals, RecordsOK
<1>3. CopiedSkill(r).dest = <<"skills">> \o NameOf[r.src] /\ CopiedSkill(r).files = r.sha.files
  BY DEF CopiedSkill, Artifact
<1>4. PICK f \in r.sha.files :
        o = <<IF f[1] = "" THEN CopiedSkill(r).dest ELSE Append(CopiedSkill(r).dest, f[1]), f[2]>>
  BY <1>1, <1>3 DEF Outputs
<1>5. f[1] # "" BY <1>2 DEF NeutralOK, Directory
<1>6. PICK p : p = Append(<<"skills">> \o NameOf[r.src], f[1]) OBVIOUS
<1>7. o = <<p, f[2]>> BY <1>3, <1>4, <1>5, <1>6
<1>8. p \in DOMAIN neutral /\ neutral[p] = f[2] BY <1>2, <1>6, InPlace
<1> QED BY <1>7, <1>8 DEF InScope

LEMMA InitQuiet == Init => QuietInv
BY DEF Init, QuietInv, WorkQuiet

LEMMA VerifyQuiet == ASSUME SourceInv, ImportInv, QuietInv, Verify PROVE QuietInv'
<1> DEFINE batch == NormalizedBatch(inventory, work.cache)
           classified == Classified(inventory, [decisions |-> work.decisions], Now)
           combined == Combined(batch.artifacts, classified.artifacts)
           tampered == normalized # batch
           suspect == IF tampered THEN {Identity(a) : a \in batch.artifacts} ELSE {}
<1>1. /\ UNCHANGED <<neutral, inventory, plan, touched, done>>
      /\ pc = "verify" /\ pc' = "screen" /\ inventory # None
      /\ \A r \in inventory : ~NormalizeFails(r, Now[r.src], work.cache)
  BY DEF Verify, Goto, scope, documents, notes, SourceInv, Flow, Planning
<1>2. CallFields \subseteq DOMAIN work /\ RecordsOK(inventory) /\ NeutralOK(inventory)
  BY <1>1 DEF ImportInv, WorkOK, Planning, SourceInv
<1>3. work' = [work EXCEPT
        !.artifacts = {a \in combined.artifacts : Identity(a) \notin suspect},
        !.conflicts = {<<"destination", d>> : d \in batch.conflicts \cup combined.conflicts}
                      \cup classified.conflicts
                      \cup {<<"tampered", 0>> : t \in {tampered} \cap {TRUE}}]
  BY DEF Verify
<1>4. \A c \in classified.conflicts : c[1] \in {"undecided", "outside"} BY DEF Classified
<1> HIDE DEF batch, classified, combined, tampered, suspect
<1>5. /\ work'.artifacts = {a \in combined.artifacts : Identity(a) \notin suspect}
      /\ work'.conflicts = {<<"destination", d>> : d \in batch.conflicts \cup combined.conflicts}
                           \cup classified.conflicts
                           \cup {<<"tampered", 0>> : t \in {tampered} \cap {TRUE}}
      /\ work'.decisions = work.decisions /\ work'.cache = work.cache
  BY <1>2, <1>3 DEF CallFields
<1>6. \A c \in work'.conflicts : c[1] \in Objectionable BY <1>4, <1>5 DEF Objectionable
<1>7. ASSUME work'.conflicts = {}
      PROVE  /\ AllOutputs(work'.artifacts) =
                  AllOutputs(Forms(Natives(inventory), work.cache) \cup Chosen(work.decisions))
                  \cup Copies(inventory)
             /\ Memories(work'.artifacts) = Remembered(Natives(inventory), work.decisions, work.cache)
  <2>1. /\ {<<"destination", d>> : d \in batch.conflicts \cup combined.conflicts} = {}
        /\ {<<"tampered", 0>> : t \in {tampered} \cap {TRUE}} = {}
        /\ classified.conflicts = {}
    BY <1>5, <1>7
  <2>2. batch.conflicts = {} /\ combined.conflicts = {} BY <2>1
  <2>3. ~tampered BY <2>1 DEF tampered
  <2>4. suspect = {} BY <2>3 DEF suspect
  <2>5. work'.artifacts = combined.artifacts BY <1>5, <2>4
  <2> QED BY <1>2, <2>1, <2>2, <2>5, VerifiedWants DEF batch, classified, combined
<1>8. Copies(inventory) \subseteq InScope(neutral)
  <2>1. ASSUME NEW r \in inventory, r.src \in InNeutral PROVE NeutralSkill(r.src) = r.sha
    <3>1. KindOf[r.src] = "skill" /\ r.src \in Sources BY <2>1, AgentsAssumption
    <3>2. Now[r.src] = r.sha BY <1>1, <3>1 DEF NormalizeFails, Read
    <3> QED BY <2>1, <3>1, <3>2 DEF Now
  <2> QED BY <1>2, <2>1, CopiesInPlace DEF ImportInv
<1>9. WorkQuiet'
  <2>1. Copies(inventory)' = Copies(inventory) /\ InScope(neutral)' = InScope(neutral)
        /\ Natives(inventory)' = Natives(inventory)
    BY <1>1 DEF Copies, Neutrals, Natives, InScope
  <2> QED BY <1>1, <1>5, <1>6, <1>7, <1>8, <2>1 DEF WorkQuiet
<1>10. InScope(neutral)' = InScope(neutral) /\ ToImport' = ToImport
  BY <1>1 DEF InScope, ToImport
<1> QED BY <1>1, <1>9, <1>10 DEF QuietInv

LEMMA ScreenQuiet == ASSUME SourceInv, ImportInv, QuietInv, Screen PROVE QuietInv'
<1> DEFINE passed == {a \in work.artifacts : ~Withheld(a)}
           writes == {o \in Desired(passed) : Missing(o)}
           clashes == {o \in writes : o[1] \in DOMAIN neutral}
           wants == WorkWants \cup Copies(inventory)
<1>1. /\ UNCHANGED <<neutral, inventory, plan, touched, done>>
      /\ pc = "screen" /\ pc' = "write"
  BY DEF Screen, Goto, scope, documents, notes
<1>2. CallFields \subseteq DOMAIN work BY <1>1 DEF ImportInv, WorkOK, Planning
<1>3. work' = [work EXCEPT
        !.migrated = {Identity(a) : a \in passed},
        !.imports = writes \ clashes,
        !.conflicts = work.conflicts \cup {<<"sensitive", a.src>> : a \in work.artifacts \ passed}
                      \cup {<<"unmanaged", o[1]>> : o \in clashes},
        !.seen = neutral]
  BY <1>2 DEF Screen, CallFields
<1>4. /\ work'.decisions = work.decisions /\ work'.cache = work.cache
      /\ work'.importedAt = work.importedAt
      /\ work'.seen = neutral /\ work'.imports = writes \ clashes
      /\ work'.conflicts = work.conflicts
           \cup {<<"sensitive", a.src>> : a \in work.artifacts \ passed}
           \cup {<<"unmanaged", o[1]>> : o \in clashes}
  <2> HIDE DEF passed, writes, clashes
  <2> QED BY <1>2, <1>3 DEF CallFields
<1>5. WorkWants' = WorkWants /\ Copies(inventory)' = Copies(inventory)
  BY <1>1, <1>4 DEF WorkWants, Copies, Neutrals, Natives
<1>6. ASSUME \A c \in work'.conflicts : c[1] \notin Objectionable
      PROVE  /\ wants \ InScope(neutral) = (writes \ clashes) \cup clashes
             /\ work'.conflicts = {<<"unmanaged", o[1]>> : o \in clashes}
  <2>1. work.conflicts = {}
    <3>1. \A c \in work.conflicts : c[1] \in Objectionable BY <1>1 DEF QuietInv, WorkQuiet
    <3>2. work.conflicts \subseteq work'.conflicts
      <4> HIDE DEF passed, clashes
      <4> QED BY <1>4
    <3> QED BY <1>6, <3>1, <3>2
  <2>2. {<<"sensitive", a.src>> : a \in work.artifacts \ passed} = {}
    <3> HIDE DEF passed, clashes
    <3>1. ASSUME NEW a \in work.artifacts \ passed PROVE FALSE
      <4>1. PICK c : c = <<"sensitive", a.src>> OBVIOUS
      <4>2. c \in work'.conflicts /\ c[1] \in Objectionable BY <1>4, <4>1 DEF Objectionable
      <4> QED BY <1>6, <4>2
    <3> QED BY <3>1
  <2>3. passed = work.artifacts
    <3>1. passed \subseteq work.artifacts OBVIOUS
    <3> HIDE DEF passed
    <3> QED BY <2>2, <3>1
  <2>4. /\ AllOutputs(passed) =
             AllOutputs(Forms(Natives(inventory), work.cache) \cup Chosen(work.decisions))
             \cup Copies(inventory)
        /\ Memories(passed) = Remembered(Natives(inventory), work.decisions, work.cache)
    BY <1>1, <2>1, <2>3 DEF QuietInv, WorkQuiet
  <2> HIDE DEF passed
  <2>5. Desired(passed) = wants BY <2>4 DEF Desired, WorkWants, Wanted
  <2>6. \A o \in wants : o = <<o[1], o[2]>> BY WantedPairs, CopyPairs DEF WorkWants
  <2> HIDE DEF wants
  <2>7. \A o \in wants : Missing(o) <=> o \notin InScope(neutral)
    BY <2>6, HeldInScope DEF Missing
  <2>8. writes = wants \ InScope(neutral) BY <2>5, <2>7
  <2>9. clashes \subseteq writes OBVIOUS
  <2> HIDE DEF writes, clashes
  <2>10. work'.conflicts = {<<"unmanaged", o[1]>> : o \in clashes} BY <1>4, <2>1, <2>2
  <2> QED BY <2>8, <2>9, <2>10
<1> HIDE DEF passed, writes, clashes
<1>7. WorkQuiet'
  <2>1. InScope(neutral)' = InScope(neutral) /\ InScope(work'.seen) = InScope(neutral)
    BY <1>1, <1>4 DEF InScope
  <2>2. done' # None => Copies(inventory)' \subseteq InScope(neutral)'
    BY <1>1, <1>5, <2>1 DEF QuietInv, WorkQuiet
  <2>3. ASSUME \A c \in work'.conflicts : c[1] \notin Objectionable
        PROVE  \E x : /\ (WorkWants' \cup Copies(inventory)') \ InScope(work'.seen)
                           = work'.imports \cup x
                      /\ work'.conflicts = {<<"unmanaged", o[1]>> : o \in x}
    BY <1>4, <1>5, <1>6, <2>1, <2>3
  <2> QED BY <1>1, <1>4, <2>2, <2>3 DEF WorkQuiet
<1>8. InScope(neutral)' = InScope(neutral) /\ ToImport' = ToImport
  BY <1>1 DEF InScope, ToImport
<1> QED BY <1>1, <1>7, <1>8 DEF QuietInv

\* What the planner reports contains its own conflicts, and adds some about what
\* cannot be replaced.
LEMMA OutcomeConflicts ==
  /\ work.conflicts \subseteq Outcome.conflicts
  /\ \A c \in Outcome.conflicts \ work.conflicts : c[1] \in {"unmapped", "manifest", "foreign"}
<1> DEFINE conflicts == work.conflicts \cup UnmappedFields
<1>1. \A c \in UnmappedFields \cup ForeignEntries : c[1] \in {"unmapped", "manifest", "foreign"}
  BY DEF UnmappedFields, ForeignEntries
<1>2. \A c, b : NoReplacement(c, b).conflicts = c BY DEF NoReplacement
<1>3. Replacement.conflicts = {} BY DEF Replacement
<1>4. CASE ~work.replaceNative
  <2>1. Outcome = NoReplacement(work.conflicts, FALSE) BY <1>4 DEF Outcome
  <2> QED BY <1>2, <2>1
<1>5. CASE work.replaceNative /\ conflicts # {}
  <2>1. Outcome = NoReplacement(conflicts, TRUE) BY <1>5 DEF Outcome
  <2> QED BY <1>1, <1>2, <2>1
<1>6. CASE work.replaceNative /\ conflicts = {} /\ ForeignEntries # {}
  <2>1. Outcome = NoReplacement(ForeignEntries, TRUE) BY <1>6 DEF Outcome
  <2>2. work.conflicts = {} BY <1>6
  <2> QED BY <1>1, <1>2, <2>1, <2>2
<1>7. CASE work.replaceNative /\ conflicts = {} /\ ForeignEntries = {}
  <2>1. Outcome = Replacement BY <1>7 DEF Outcome
  <2>2. work.conflicts = {} BY <1>7
  <2> QED BY <1>3, <2>1, <2>2
<1>8. \/ ~work.replaceNative
      \/ work.replaceNative /\ conflicts # {}
      \/ work.replaceNative /\ conflicts = {} /\ ForeignEntries # {}
      \/ work.replaceNative /\ conflicts = {} /\ ForeignEntries = {}
  OBVIOUS
<1> HIDE DEF conflicts
<1> QED BY <1>4, <1>5, <1>6, <1>7, <1>8

LEMMA WriteQuiet == ASSUME SourceInv, ImportInv, QuietInv, Write PROVE QuietInv'
<1>1. /\ UNCHANGED <<neutral, inventory, done>>
      /\ pc = "write" /\ pc' = "idle"
      /\ touched' = (neutral # work.seen)
      /\ plan'.sources = inventory /\ plan'.imports = work.imports
      /\ plan'.decisions = work.decisions /\ plan'.cache = work.cache
      /\ plan'.importedAt = work.importedAt /\ plan'.replacement = Outcome
  BY DEF Write, Goto, scope, documents
<1>2. ASSUME Outcome.conflicts = {}, neutral = work.seen
      PROVE  WorkWants \subseteq work.imports \cup InScope(neutral)
  <2>1. work.conflicts = {} BY <1>2, OutcomeConflicts
  <2>2. PICK clashes :
          /\ (WorkWants \cup Copies(inventory)) \ InScope(work.seen) = work.imports \cup clashes
          /\ work.conflicts = {<<"unmanaged", o[1]>> : o \in clashes}
    BY <1>1, <2>1 DEF QuietInv, WorkQuiet
  <2>3. clashes = {} BY <2>1, <2>2
  <2> QED BY <1>2, <2>2, <2>3
<1>3. Wanted(Natives(plan'.sources), plan'.decisions, plan'.cache, plan'.importedAt) = WorkWants
  BY <1>1 DEF WorkWants
<1>4. InScope(neutral)' = InScope(neutral) BY <1>1 DEF InScope
<1>5. WorkQuiet' BY <1>1 DEF WorkQuiet
<1>6. ToImport' = plan'.imports BY <1>1 DEF ToImport
<1> QED BY <1>1, <1>2, <1>3, <1>4, <1>5, <1>6 DEF QuietInv

\* What was planned is in the scope when it has been imported.
LEMMA ApplyQuiet ==
  ASSUME SourceInv, ImportInv, QuietInv, VerifySources \/ Import \/ VerifyAgain \/ Replace
  PROVE  QuietInv'
<1> DEFINE wants == Wanted(Natives(plan.sources), plan.decisions, plan.cache, plan.importedAt)
           importing == /\ pc = "import" /\ \A o \in plan.imports : o[1] \notin DOMAIN neutral
                        /\ neutral' = With(plan.imports)
           waiting == /\ UNCHANGED neutral
                      /\ pc' \in {"replace", "remove"} => pc \in {"replace", "remove"}
<1>1. UNCHANGED <<plan, touched>> /\ ~Planning' /\ plan # None
  BY Applying DEF VerifySources, Import, VerifyAgain, Replace, SourceInv, Flow
<1>2. \/ importing /\ (UNCHANGED done \/ Applied)
      \/ waiting /\ (UNCHANGED done \/ (Applied /\ pc = "remove"))
  <2>1. CASE VerifySources
    BY <2>1 DEF VerifySources, Goto, scope
  <2>2. CASE Import
    BY <2>2 DEF Import, Stop, Finish, Goto, scope
  <2>3. CASE VerifyAgain
    BY <2>3 DEF VerifyAgain, Stop, Goto, scope
  <2>4. CASE Replace
    BY <2>4 DEF Replace, Stop, Finish, Goto, scope
  <2> QED BY <2>1, <2>2, <2>3, <2>4
<1>3. plan.replacement.conflicts = {} /\ ~touched => wants \subseteq ToImport \cup InScope(neutral)
  BY <1>1 DEF QuietInv
<1>4. pc \in {"import", "remove"} => plan.replacement.conflicts = {}
  BY DEF ImportInv
<1>5. wants' = wants BY <1>1
<1>6. \A o \in wants : o = <<o[1], o[2]>> BY WantedPairs
<1>7. Applied =>
        (done' # None =>
           /\ ~touched
           /\ Wanted(done.native, done.decisions, done.cache, done.importedAt)' = wants)
  <2>1. ASSUME Applied, done' # None
        PROVE  /\ ~touched
               /\ done'.native = Natives(plan.sources) /\ done'.decisions = plan.decisions
               /\ done'.cache = plan.cache /\ done'.importedAt = plan.importedAt
    BY <2>1 DEF Applied, Natives
  <2> QED BY <2>1
<1>8. WorkQuiet' BY <1>1 DEF WorkQuiet, Planning
<1> HIDE DEF wants
<1>9. CASE waiting /\ (UNCHANGED done \/ (Applied /\ pc = "remove"))
  <2>1. InScope(neutral)' = InScope(neutral) BY <1>9 DEF InScope
  <2>2. ToImport \subseteq ToImport' BY <1>1, <1>9 DEF ToImport
  <2>3. CASE UNCHANGED done
    BY <1>1, <1>3, <1>5, <1>8, <2>1, <2>2, <2>3 DEF QuietInv, wants
  <2>4. CASE Applied /\ pc = "remove"
    <3>1. ~touched => wants \subseteq InScope(neutral)
      BY <1>3, <1>4, <2>4 DEF ToImport
    <3> QED BY <1>1, <1>3, <1>5, <1>7, <1>8, <2>1, <2>2, <2>4, <3>1 DEF QuietInv, wants
  <2> QED BY <1>9, <2>3, <2>4
<1>10. CASE importing /\ (UNCHANGED done \/ Applied)
  <2>1. OneEach(plan.imports) BY <1>1, <1>4, <1>10 DEF ImportInv, PlanOK
  <2>2. InScope(neutral)' = InScope(With(plan.imports)) BY <1>10 DEF InScope
  <2>3. /\ InScope(neutral) \subseteq InScope(neutral)'
        /\ \A o \in wants : o \in plan.imports => o \in InScope(neutral)'
    BY <1>6, <1>10, <2>1, <2>2, ImportWrites
  <2>4. ~touched => wants \subseteq InScope(neutral)'
    BY <1>3, <1>4, <1>10, <2>3 DEF ToImport
  <2>5. ~touched' => wants' \subseteq ToImport' \cup InScope(neutral)'
    BY <1>1, <1>5, <2>4
  <2>6. done' # None =>
          Wanted(done.native, done.decisions, done.cache, done.importedAt)'
            \subseteq InScope(neutral)'
    <3>1. CASE UNCHANGED done BY <2>3, <3>1 DEF QuietInv
    <3>2. CASE Applied BY <1>7, <2>4, <3>2
    <3> QED BY <1>10, <3>1, <3>2
  <2> QED BY <1>1, <1>8, <2>5, <2>6 DEF QuietInv, wants
<1> QED BY <1>2, <1>9, <1>10

LEMMA QuietKept == SourceInv /\ ImportInv /\ QuietInv /\ [Next]_vars => QuietInv'
<1> SUFFICES ASSUME SourceInv, ImportInv, QuietInv, [Next]_vars PROVE QuietInv'
  OBVIOUS
<1>1. ASSUME UNCHANGED <<neutral, plan, done, touched>>,
             pc \notin {"replace", "remove"}, pc' \in {"idle", "verify"}
      PROVE  QuietInv'
  <2>1. InScope(neutral)' = InScope(neutral) /\ ToImport' = ToImport
    BY <1>1 DEF InScope, ToImport
  <2>2. WorkQuiet' BY <1>1 DEF WorkQuiet
  <2> QED BY <1>1, <2>1, <2>2 DEF QuietInv
<1>2. ASSUME \/ Scan \/ \E cache \in Caches : Normalize(cache)
             \/ ClassifyRequest \/ Respond \/ ValidateResponse \/ PlanFails
      PROVE  QuietInv'
  <2>1. /\ UNCHANGED <<neutral, plan, done, touched>>
        /\ pc \notin {"replace", "remove"} /\ pc' = "idle"
    BY <1>2 DEF Scan, Normalize, ClassifyRequest, Respond, ValidateResponse, PlanFails, Goto,
                scope, notes, documents
  <2> QED BY <1>1, <2>1
<1>3. ASSUME NEW targets, NEW importedAt, NEW cache, NEW replaceNative, NEW answered,
             Plan(targets, importedAt, replaceNative, cache, answered)
      PROVE  QuietInv'
  <2>1. /\ UNCHANGED <<neutral, plan, done, touched>>
        /\ pc \notin {"replace", "remove"} /\ pc' = "verify"
    BY <1>3 DEF Plan, Goto, scope
  <2> QED BY <1>1, <2>1
<1>4. ASSUME UNCHANGED <<neutral, plan, done, touched, pc, work, inventory>> PROVE QuietInv'
  <2>1. /\ InScope(neutral)' = InScope(neutral) /\ Copies(inventory)' = Copies(inventory)
        /\ WorkWants' = WorkWants /\ ToImport' = ToImport
    BY <1>4 DEF InScope, Copies, Neutrals, Natives, WorkWants, ToImport
  <2>2. WorkQuiet' BY <1>4, <2>1 DEF QuietInv, WorkQuiet
  <2> QED BY <1>4, <2>1, <2>2 DEF QuietInv
<1>5. ASSUME NEW s \in Sources \ InNeutral, EditNative(s) PROVE QuietInv'
  BY <1>4, <1>5 DEF EditNative, documents
<1>6. CASE UNCHANGED vars BY <1>4, <1>6 DEF vars, scope, documents, notes
<1>7. ASSUME NEW p \in OwnPaths, EditNeutral(p) PROVE QuietInv'
  <2>1. touched' /\ done' = None /\ UNCHANGED <<plan, pc, work, inventory>>
    BY <1>7 DEF EditNeutral, documents
  <2>2. Copies(inventory)' = Copies(inventory) /\ WorkWants' = WorkWants
    BY <2>1 DEF Copies, Neutrals, Natives, WorkWants
  <2>3. WorkQuiet' BY <2>1, <2>2 DEF QuietInv, WorkQuiet
  <2> QED BY <2>1, <2>3 DEF QuietInv
<1> QED
  BY <1>2, <1>3, <1>5, <1>6, <1>7, VerifyQuiet, ScreenQuiet, WriteQuiet, ApplyQuiet DEF Next

\* The plan of a migration that was applied, made again from the same native files,
\* decisions and time, has nothing to import and meets no file that is not its own
\* (_destination_operations, planner.py:541; normalize.py:309): whatever was scanned,
\* edited and planned in between, and whichever skills the scope has by then.
THEOREM RepeatedMigrationIsQuiet == Spec => RepeatedIsQuiet
<1> DEFINE Quiet == Repeated /\ plan.importedAt = done.importedAt /\ Objections = {} =>
                      plan.imports = {} /\ Unmanaged = {}
<1>1. SourceInv /\ ImportInv /\ QuietInv /\ Write => Quiet'
  <2> SUFFICES ASSUME SourceInv, ImportInv, QuietInv, Write,
                      Repeated', plan'.importedAt = done'.importedAt, Objections' = {}
               PROVE  plan'.imports = {} /\ Unmanaged' = {}
    OBVIOUS
  <2>1. /\ UNCHANGED <<neutral, inventory, done>> /\ pc = "write"
        /\ plan'.sources = inventory /\ plan'.imports = work.imports
        /\ plan'.decisions = work.decisions /\ plan'.cache = work.cache
        /\ plan'.importedAt = work.importedAt /\ plan'.replacement = Outcome
    BY DEF Write, scope, documents
  <2>2. /\ done # None /\ Natives(inventory) = done.native
        /\ work.decisions = done.decisions /\ work.cache = done.cache
        /\ work.importedAt = done.importedAt
    BY <2>1 DEF Repeated, Natives
  <2>3. \A c \in work.conflicts : c[1] \notin Objectionable
    BY <2>1, OutcomeConflicts DEF Objections, Objectionable
  <2>4. PICK clashes :
          /\ (WorkWants \cup Copies(inventory)) \ InScope(work.seen) = work.imports \cup clashes
          /\ work.conflicts = {<<"unmanaged", o[1]>> : o \in clashes}
    BY <2>1, <2>3 DEF QuietInv, WorkQuiet
  <2>5. WorkWants \subseteq InScope(neutral) BY <2>2 DEF QuietInv, WorkWants
  <2>6. Copies(inventory) \subseteq InScope(neutral) /\ work.seen = neutral
    BY <2>1, <2>2 DEF QuietInv, WorkQuiet
  <2>7. work.imports = {} /\ clashes = {} BY <2>4, <2>5, <2>6
  <2>8. work.conflicts = {} BY <2>4, <2>7
  <2>9. \A p : <<"unmanaged", p>> \notin Outcome.conflicts
    <3> SUFFICES ASSUME NEW p, <<"unmanaged", p>> \in Outcome.conflicts PROVE FALSE
      OBVIOUS
    <3>1. PICK c : c = <<"unmanaged", p>> /\ c[1] = "unmanaged" OBVIOUS
    <3> QED BY <2>8, <3>1, OutcomeConflicts
  <2> QED BY <2>1, <2>7, <2>9 DEF Unmanaged
<1> HIDE DEF Quiet
<1>2. SourceInv /\ ImportInv /\ QuietInv /\ [Next]_vars => [Write => Quiet']_vars
  BY <1>1
<1>3. RepeatedIsQuiet <=> [][Write => Quiet']_vars BY DEF RepeatedIsQuiet, Quiet
<1> QED BY <1>2, <1>3, ImportInvariant, InitQuiet, QuietKept, PTL DEF Spec
===============================================================================
