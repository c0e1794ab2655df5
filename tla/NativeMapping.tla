----------------------------- MODULE NativeMapping -----------------------------
(***************************************************************************)
(* migration/mappings.py and the mappers of the Claude and Codex adapters: *)
(* what a field of an agent's settings becomes for another agent.  Pure    *)
(* operators.  A settings content has fields; "object" in its marks says   *)
(* that the file parses to an object, and "blocked" and "unreadable" that  *)
(* it is not looked at.                                                    *)
(***************************************************************************)
EXTENDS MigrationClassification

CONSTANT PartnerOf    \* the one agent that an agent's settings can be mapped to

Native == {"settings", "permissions", "hooks", "mcp"}

Blockers == {"unsupported", "manual", "sensitive_skip"}
Statuses == Blockers \cup {"partial", "exact"}

\* A field: what it is about; for a server whether its shape is valid, whether it
\* carries credentials, and whether it has fields that no target knows.
Field(about, valid, credentials, extra) ==
  [about |-> about, valid |-> valid, credentials |-> credentials, extra |-> extra]

ServerStatus(f) ==
  CASE ~f.valid -> "unsupported"
    [] f.valid /\ f.credentials -> "manual"
    [] f.valid /\ ~f.credentials /\ f.extra -> "partial"
    [] OTHER -> "exact"

ClaudeStatus(f) ==
  CASE f.about = "server" -> ServerStatus(f)
    [] f.about = "hooks" -> "unsupported"
    [] OTHER -> "manual"

CodexStatus(f) ==
  CASE f.about = "server" -> ServerStatus(f)
    [] f.about = "policy" -> "manual"
    [] OTHER -> "unsupported"

FieldStatus(agent, f) == IF agent = "claude" THEN ClaudeStatus(f) ELSE CodexStatus(f)

\* The statuses of one record for one target.
Mapped(r, target) ==
  CASE NoText(r.sha) -> {"sensitive_skip"}
    [] ~NoText(r.sha) /\ ("object" \notin r.sha.marks \/ target # PartnerOf[Agent(r)]) ->
         {"unsupported"}
    [] OTHER -> IF r.sha.fields = {} THEN {"exact"}
                ELSE {FieldStatus(Agent(r), f) : f \in r.sha.fields}

NativeRecords(records) == {r \in records : KindOf[r.src] \in Native}

\* It raises for a source the inventory did not hash.
MappingFails(records, now) == \E r \in NativeRecords(records) : now[r.src] # r.sha

\* An agent is not mapped to itself.
Pairs(records, targets) ==
  {p \in NativeRecords(records) \X targets : p[2] # Agent(p[1])}

\* What keeps the native files of the scope from being replaced.
Unmapped(records, targets) ==
  {p \in Pairs(records, targets) : Mapped(p[1], p[2]) \cap Blockers # {}}
=============================================================================
