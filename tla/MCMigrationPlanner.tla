-------------------------- MODULE MCMigrationPlanner --------------------------
(* Small instances of MigrationPlanner.  Claude has its instructions (1), a  *)
(* command (2), a memory (3), a memory of its own making (4), a session (5), *)
(* settings (6) and a skill (7); Codex finds the skill in the neutral scope  *)
(* (8) and has settings (9).  The command and the skill have one name.       *)
EXTENDS MigrationPlanner

TextFile(t, marks) == [files |-> Body(<<t>>), marks |-> marks, fields |-> {}]
SkillDirectory(t, marks) == [files |-> {<<"SKILL.md", <<t>>>>}, marks |-> marks, fields |-> {}]
SettingsFile(fields) == [files |-> Body(<<"s">>), marks |-> {"object"}, fields |-> fields]
EntryFile(overlay) ==
  [files |-> Body(<<"entry", "claude", overlay>>), marks |-> {}, fields |-> {}]

MCAgentOf == [s \in Sources |-> IF s <= 7 THEN "claude" ELSE "codex"]
MCKindOf ==
  [s \in Sources |->
     <<"rules", "command", "manual_memory", "auto_memory", "session", "settings",
       "skill", "skill", "settings">>[s]]
MCNameOf ==
  [s \in Sources |->
     <<<<"claude">>, <<"foo">>, <<"notes">>, <<"notes">>, <<"log">>, <<"settings">>,
       <<"foo">>, <<"foo">>, <<"config">>>>[s]]
MCPartnerOf == [claude |-> "codex", codex |-> "claude"]
MCEntrypointOf == [claude |-> IF 1 \in Sources THEN 1 ELSE 0, codex |-> 0]
MCInNeutral == {8} \cap Sources

\* What is there at the start, and what the user may put there instead.
Beginning ==
  <<TextFile("r", {}), TextFile("c", {}), TextFile("n", {}), TextFile("a", {}),
    TextFile("l", {}), SettingsFile({}), SkillDirectory("k", {}), Absent,
    SettingsFile({Field("server", TRUE, FALSE, FALSE)})>>

Host(files, listed) ==
  [native |-> [s \in Sources |-> IF s \in files THEN Beginning[s] ELSE Absent],
   manifest |-> listed]

\* A scope without and with a manifest, one whose manifest lists the entrypoint,
\* and one with the older kinds of files.
MCHosts ==
  {Host({1, 3, 6, 7}, {}), Host({1, 3, 6, 7}, None), Host({2, 4}, {}),
   Host({5, 9}, {})} \cup
  {[Host({1, 3, 6, 7}, {<<1, EntryFile(FALSE)>>}) EXCEPT !.native[1] = EntryFile(FALSE)]}
MCHost == {Host(Sources, {})}

MCVariants ==
  [s \in Sources |->
     <<{TextFile("r2", {"shared"}), TextFile("r3", {"blocked"})}, {TextFile("c2", {"paths"})},
       {TextFile("n2", {"secret"})}, {}, {},
       {SettingsFile({Field("server", TRUE, TRUE, FALSE)})},
       {SkillDirectory("k2", {"secret"})}, {}, {SettingsFile({Field("policy", TRUE, FALSE, FALSE)})}>>[s]]

\* <<kind, name, agent>>
MCOptions == {<<"agent_overlay", <<>>, "claude">>, <<"manual_memory", <<"notes">>, "">>}
MCOverlayOption == {<<"agent_overlay", <<>>, "claude">>}

MCClaude == {{"claude"}}
MCOnce == {1}
MCTwice == {1, 2}
MCNoCache == {FALSE}
MCOwnPaths == {<<"skills", "foo", "SKILL.md">>, <<"skills", "foo", "notes.md">>}
MCNoPaths == {}
MCOwn == {<<"own">>, <<"key">>}
MCOwnMarks == [data \in {<<"key">>} |-> {"secret"}]
===============================================================================
