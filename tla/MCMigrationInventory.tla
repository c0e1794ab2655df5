------------------------- MODULE MCMigrationInventory -------------------------
(* A small instance of MigrationInventory: an adapter whose roots lie in each *)
(* other, and the skills of the neutral scope, among them the manager's own.  *)
EXTENDS MigrationInventory

MCNames == {"..", ".agents", ".gem", "SKILL.md", "all", "bar", "foo", "note", "ref", "rules", "skills"}
MCRank ==
  [n \in MCNames |->
     CASE n = ".." -> 0 [] n = ".agents" -> 1 [] n = ".gem" -> 2 [] n = "SKILL.md" -> 3 [] n = "all" -> 4
       [] n = "bar" -> 5 [] n = "foo" -> 6 [] n = "note" -> 7 [] n = "ref" -> 8
       [] n = "rules" -> 9 [] n = "skills" -> 10]

Declared(order, agent, kind, path) ==
  [agent |-> agent, kind |-> kind, path |-> path, recursive |-> TRUE,
   matches |-> MCNames, order |-> order]

Skills == <<".agents", "skills">>

MCRoots ==
  {Declared(1, "codex", "skill", Skills), Declared(2, "gem", "unknown", <<".gem">>),
   Declared(3, "gem", "manual_memory", <<".gem", "all">>),
   Declared(4, "gem", "settings", <<".gem", "note">>), Declared(5, "gem", "rules", <<".gem", "rules">>)}
MCNeutralRoots == {<<".agents">>}
MCGenerated == {<<Skills \o <<"foo", "SKILL.md">>, 1>>, <<Skills \o <<"foo", "ref">>, 1>>}

\* The places where the trees differ, and where the user edits.
MCVariants ==
  (<<".gem", "all">> :> {None, Link(<<".gem", "rules">>), Link(<<".gem">>), Link(<<"..", "note">>)}) @@
  (<<".gem", "note">> :> {File(2), Link(<<".gem", "rules", "note">>), Other}) @@
  (<<".gem", "rules", "note">> :> {None, File(3)}) @@
  (Skills \o <<"foo", "ref">> :> {File(1), File(4)}) @@
  (Skills \o <<"bar">> :> {None, Link(Skills \o <<"foo">>), Link(Skills)})

Fixed ==
  (<<".agents">> :> Dir) @@ (Skills :> Dir) @@ (Skills \o <<"foo">> :> Dir) @@
  (Skills \o <<"foo", "SKILL.md">> :> File(1)) @@ (<<".gem">> :> Dir) @@ (<<".gem", "rules">> :> Dir)

Beginnings == {f \in [DOMAIN MCVariants -> UNION {MCVariants[p] : p \in DOMAIN MCVariants}] :
                 \A p \in DOMAIN MCVariants : f[p] \in MCVariants[p]}

MCTrees == {f @@ Fixed : f \in Beginnings}
===============================================================================
