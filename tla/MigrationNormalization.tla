------------------------ MODULE MigrationNormalization ------------------------
(***************************************************************************)
(* migration/normalize.py: what becomes of one native file in the neutral  *)
(* scope, and what happens when several of them want the same destination. *)
(* Pure operators; MigrationPlanner runs them.                             *)
(*                                                                         *)
(* Native files are numbered in the order of (agent, relative path), the   *)
(* order in which the code breaks ties.  A name is a sequence of words: a  *)
(* suffix adds a word, so "notes-from-claude" and the memory "notes" of    *)
(* claude are the same destination, as they are in the code.  The digest   *)
(* of a content is the content.                                            *)
(***************************************************************************)
EXTENDS Integers, Sequences, FiniteSets

CONSTANTS
  Sources,    \* native files and skill directories, numbered
  AgentOf,    \* the agent a source belongs to
  KindOf,     \* the kind its inventory root declares
  NameOf,     \* the words of its name
  Absent      \* what is read where nothing is

Kinds == {"rules", "manual_memory", "auto_memory", "session", "skill", "command",
          "subagent_prompt", "unknown", "settings", "permissions", "hooks", "mcp"}

ASSUME SourcesAssumption ==
  /\ Sources \subseteq Nat \ {0} /\ IsFiniteSet(Sources)
  /\ KindOf \in [Sources -> Kinds]

Word == STRING

\* The words of the layout; the provers do not see that a string is one.
ASSUME WordsAssumption ==
  {"rules", "overlays", "RULES.md", "skills", "SKILL.md", "memory", "sessions", "undated",
   "cache", "IMPORTED", ""} \subseteq Word

\* A name that cannot become a slug raises, so no name is empty.
ASSUME NamesAssumption ==
  /\ NameOf \in [Sources -> Seq(Word) \ {<<>>}]
  /\ AgentOf \in [Sources -> Word]

(* A content is a record: files is a set of <<child, data>>, with the child  *)
(* "" for a plain file; data is a tuple that ends in the user's own text;    *)
(* marks is what the code can tell by reading: "shared", "frontmatter" and   *)
(* "paths" for text (for a command: more frontmatter than a short            *)
(* description, and paths of its agent), "unreadable" for bytes or a skill   *)
(* that cannot be imported, "secret", "quoted" and "blocked" for what        *)
(* redaction finds.                                                          *)
Plain(c) == {f[2] : f \in c.files}

Body(data) == {<<"", data>>}

\* ArtifactRecord: a source and the content the inventory hashed.
Record(s, c) == [src |-> s, sha |-> c]

Artifact(r, kind, dest, files) ==
  [src |-> r.src, sha |-> r.sha, kind |-> kind, dest |-> dest, files |-> files]

\* The identity that the planner compares: agent and path, and the digest.
Identity(x) == <<x.src, x.sha>>

-------------------------------------------------------------------------------
(* One record.                                                               *)

Agent(r) == AgentOf[r.src]
Text(r) == CHOOSE d \in Plain(r.sha) : TRUE

\* The conversion of a command drops everything in its frontmatter but a short
\* description, and rewrites the paths of the agent.  Commands that differ in no more
\* than that are the same skill in the code, and two here.
Abridged(r) == KindOf[r.src] = "command" /\ r.sha.marks \cap {"frontmatter", "paths"} # {}

ToSkill(r) ==
  Artifact(r, "skill", <<"skills">> \o NameOf[r.src],
           {<<"SKILL.md", <<IF Abridged(r) THEN "abridged" ELSE "command">> \o Text(r)>>})

CopiedSkill(r) == Artifact(r, "skill", <<"skills">> \o NameOf[r.src], r.sha.files)

\* A memory that has frontmatter is taken as it is; the others are told apart by
\* the provenance that is put before them.
ToMemory(r) ==
  Artifact(r, "manual_memory", <<"memory">> \o NameOf[r.src] \o <<Agent(r)>>,
           Body(IF "frontmatter" \in r.sha.marks THEN Text(r)
                ELSE <<"memory", r.src>> \o Text(r)))

ToSession(r) ==
  Artifact(r, "session", <<"sessions">> \o NameOf[r.src] \o <<Agent(r)>>, Body(Text(r)))

ToRule(r, name) == Artifact(r, "rules", <<"rules">> \o name \o <<Agent(r)>>, Body(Text(r)))

ToCache(r) ==
  Artifact(r, "auto_memory", <<"cache", Agent(r), "memory">> \o NameOf[r.src], Body(Text(r)))

\* The kinds normalize_deterministic reads, and so verifies.
Read(r, cache) ==
  \/ KindOf[r.src] \in {"skill", "command", "manual_memory", "session", "rules"}
  \/ KindOf[r.src] = "auto_memory" /\ cache

\* It raises: the source is gone, is not what the inventory hashed, or cannot be
\* taken.
NormalizeFails(r, now, cache) ==
  \/ now = Absent
  \/ Read(r, cache) /\ (now # r.sha \/ "unreadable" \in r.sha.marks)

\* At most one artifact; no artifact means that the source is not imported.
NormalizeDeterministic(r, cache) ==
  CASE KindOf[r.src] = "skill" -> {CopiedSkill(r)}
    [] KindOf[r.src] = "command" -> {ToSkill(r)}
    [] KindOf[r.src] = "manual_memory" -> {ToMemory(r)}
    [] KindOf[r.src] = "session" -> {ToSession(r)}
    [] KindOf[r.src] = "rules" /\ "shared" \in r.sha.marks -> {ToRule(r, NameOf[r.src])}
    [] KindOf[r.src] = "auto_memory" /\ cache -> {ToCache(r)}
    [] OTHER -> {}

-------------------------------------------------------------------------------
(* Collisions.                                                               *)

Group(A, d) == {a \in A : a.dest = d}

\* Kind and files: what makes two artifacts interchangeable.
Substance(a) == <<a.kind, a.files>>

Agreed(G) == \A a, b \in G : Substance(a) = Substance(b)

First(G) == CHOOSE a \in G : \A b \in G : a.src <= b.src

\* The suffix of the agent, and if that destination is taken, of the digest too.
\* `occupied` holds every destination of the batch, and what was renamed before.
Renamed(A, G, a) ==
  LET plain == Append(a.dest, Agent(a))
      before == {b \in G \ {First(G)} : Agent(b) = Agent(a) /\ b.src < a.src}
      taken == before # {} \/ \E b \in A : b.dest = plain
  IN  [a EXCEPT !.dest = IF taken THEN plain \o <<"#", a.sha>> ELSE plain]

\* Slip: a source with another content is taken for a duplicate.
FirstWins(A, d) == {First(Group(A, d))}

Resolved(A, d) ==
  LET G == Group(A, d)
  IN  IF Agreed(G) THEN {First(G)}
      ELSE {First(G)} \cup {Renamed(A, G, a) : a \in G \ {First(G)}}

Destinations(A) == {a.dest : a \in A}

Batch(A) ==
  [artifacts |-> UNION {Resolved(A, d) : d \in Destinations(A)},
   conflicts |-> {d \in Destinations(A) : ~Agreed(Group(A, d))},
   duplicates |-> {[dest |-> d, origins |-> {Identity(a) : a \in Group(A, d)}] :
                     d \in {e \in Destinations(A) :
                              Agreed(Group(A, e)) /\ Cardinality(Group(A, e)) > 1}}]

\* `migrate normalize`, and the planner again.
NormalizedBatch(records, cache) ==
  Batch(UNION {NormalizeDeterministic(r, cache) : r \in records})

\* Where the files of an artifact go.
Outputs(a) ==
  {<<IF f[1] = "" THEN a.dest ELSE Append(a.dest, f[1]), f[2]>> : f \in a.files}

AllOutputs(A) == UNION {Outputs(a) : a \in A}

\* memory/IMPORTED.md: one line for every memory, and the time of the import.
IndexPath == <<"memory", "IMPORTED">>
Memories(A) == {a \in A : a.kind = "manual_memory"}
MemoryIndex(A, importedAt) ==
  <<"index", importedAt, {<<a.dest, a.src, a.sha>> : a \in A}>>
=============================================================================
