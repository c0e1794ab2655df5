------------------------ MODULE MigrationClassification ------------------------
(***************************************************************************)
(* migration/classification.py and redaction.py: the files whose kind says *)
(* too little are shown, redacted, to an agent, whose decisions are checked *)
(* against the request before they become artifacts.                       *)
(***************************************************************************)
EXTENDS MigrationNormalization

Ambiguous == {"rules", "subagent_prompt", "unknown"}

Importing == {"common_rule", "agent_overlay", "skill", "manual_memory", "session_context"}
Leaving == {"unsupported", "sensitive_skip", "native_setting"}
DecisionKinds == Importing \cup Leaving \cup {"conflict"}

-------------------------------------------------------------------------------
(* Redaction.                                                                *)

\* No text survives: bytes, a key or a bearer token.
NoText(c) == "unreadable" \in c.marks \/ "blocked" \in c.marks

\* The text survives and something in it was replaced.
Replaced(c) == c.marks \cap {"secret", "quoted"} # {}

Sensitive(c) == NoText(c) \/ Replaced(c)

Redacted(c) == IF Replaced(c) THEN {<<"redacted">> \o d : d \in Plain(c)} ELSE Plain(c)

\* redact_text over its own output: the placeholder inside quotes is not
\* recognised, so a quoted secret is found again.
FoundAgain(c) == "quoted" \in c.marks

-------------------------------------------------------------------------------
(* The request.                                                              *)

Shown(r) == KindOf[r.src] \in Ambiguous /\ ~NoText(r.sha)

\* redact_artifact raises for a source the inventory did not hash.
RequestFails(records, now) ==
  \E r \in records : KindOf[r.src] \in Ambiguous /\ now[r.src] # r.sha

Request(records) ==
  [adapters |-> {Agent(r) : r \in records},
   artifacts |-> {[id |-> Identity(r), text |-> Redacted(r.sha), again |-> FoundAgain(r.sha)] :
                    r \in {x \in records : Shown(x)}}]

Ids(request) == {a.id : a \in request.artifacts}

\* ClassificationRequest.from_json, used by `migrate validate-response` only.
Reloads(request) == \A a \in request.artifacts : ~a.again

-------------------------------------------------------------------------------
(* The response.                                                             *)

Decision(id, kind, name, agent) == [id |-> id, kind |-> kind, name |-> name, agent |-> agent]

\* Slip: a response to another request is accepted.
AnyRequest(response, request) ==
  \A d \in response.decisions : d.agent \in request.adapters \cup {""}

\* Without artifacts in the request, decisions for any artifact pass.
Valid(response, request) ==
  LET expected == Ids(request)
      decided == {d.id : d \in response.decisions}
  IN  /\ response.request = request
      /\ expected = {} \/ decided \subseteq expected
      /\ expected \subseteq decided
      /\ Cardinality(decided) = Cardinality(response.decisions)
      /\ request.adapters # {} =>
           \A d \in response.decisions : d.agent \in request.adapters \cup {""}

-------------------------------------------------------------------------------
(* Decisions become artifacts; only the planner does this.                   *)

NameIn(d, r) == IF d.name = <<>> THEN NameOf[r.src] ELSE d.name

FromDecision(d, r) ==
  LET name == NameIn(d, r)
      dest == CASE d.kind = "common_rule" -> <<"rules">> \o name \o <<Agent(r)>>
                [] d.kind = "agent_overlay" ->
                     <<"overlays", IF d.agent = "" THEN Agent(r) ELSE d.agent, "RULES.md">>
                [] d.kind = "skill" -> <<"skills">> \o name
                [] d.kind = "manual_memory" -> <<"memory">> \o name \o <<Agent(r)>>
                [] d.kind = "session_context" -> <<"sessions", "undated">> \o name \o <<Agent(r)>>
      files == CASE d.kind = "skill" -> {<<"SKILL.md", <<"skill">> \o Text(r)>>}
                 [] d.kind = "manual_memory" -> Body(<<"memory", r.src>> \o Text(r))
                 [] OTHER -> Body(Text(r))
      kind == CASE d.kind \in {"common_rule", "agent_overlay"} -> "rules"
                [] d.kind = "skill" -> "skill"
                [] d.kind = "manual_memory" -> "manual_memory"
                [] d.kind = "session_context" -> "session"
  IN  Artifact(r, kind, dest, files)

Decided(records, response) ==
  {p \in response.decisions \X records : p[1].id = Identity(p[2])}

\* The source is a directory, changed, or holds something redaction would touch.
DecisionFails(r, now) == KindOf[r.src] = "skill" \/ Sensitive(r.sha) \/ now[r.src] # r.sha

Classified(records, response, now) ==
  [artifacts |-> {FromDecision(p[1], p[2]) :
                    p \in {q \in Decided(records, response) :
                             q[1].kind \in Importing /\ ~DecisionFails(q[2], now)}},
   conflicts |-> {<<"undecided", p[2].src>> :
                    p \in {q \in Decided(records, response) :
                             \/ q[1].kind = "conflict"
                             \/ q[1].kind \in Importing /\ DecisionFails(q[2], now)}}
                 \cup {<<"outside", d.id[1]>> :
                         d \in {e \in response.decisions :
                                  e.id \notin {Identity(r) : r \in records}}}]
=============================================================================
