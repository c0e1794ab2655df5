------------------------------ MODULE MCSetupPlan ------------------------------
(* Small instances of SetupPlan: the rules, the memory index and a skill     *)
(* with its wrapper; an ignore file of the project.                           *)
EXTENDS SetupPlan, TLC

CONSTANTS rules, memory, head, aux, wrapper, ignore,
          skill, claude, codex, v1, v2, w1, w2, n1, n2, u, ub, first, second

Kinds ==
  [p \in Paths |-> CASE p = rules -> "canonical" [] p = memory -> "seeded"
                     [] p = ignore -> "merged" [] OTHER -> "generated"]

InSkill == [p \in Paths |-> IF p \in {head, aux, wrapper} THEN skill ELSE Always]
SkillFiles == [p \in Paths |-> IF p \in {head, aux} THEN head ELSE NoSkill]
CoreFiles == Paths \cap {rules, memory}

\* The wrappers w1 and w2 name the home, n1 and n2 are their normal forms.
Normal == [c \in Contents |-> CASE c = w1 -> n1 [] c = w2 -> n2 [] OTHER -> c]

\* Of the user's ignore file the managed block makes ub.
Block == [layout \in Layouts |-> [d \in Data |-> CASE d \in {Absent, Empty} -> v1
                                                   [] d = u -> ub [] OTHER -> d]]

\* Release 1, and release 2 with new rules and new wrappers.
Changes ==
  [r \in Releases |-> [layout \in Layouts |-> [p \in Paths |->
     CASE p = rules -> IF r = 1 THEN v1 ELSE v2
       [] p = wrapper -> IF r = 1 THEN w1 ELSE w2
       [] OTHER -> v1]]]

\* One layout is like another, and one plan file.
Symmetry == Permutations(Layouts) \cup Permutations(Slots)

\* Release 2 has dropped a file of the skill.
Drops ==
  [r \in Releases |-> [layout \in Layouts |-> [p \in Paths |->
     IF r = 2 /\ p = aux THEN Absent ELSE v1]]]
===============================================================================
