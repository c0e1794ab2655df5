-------------------------- MODULE MigrationInventory --------------------------
(***************************************************************************)
(* migration/inventory.py: `migrate scan` finds the native files of every  *)
(* agent below the roots its adapter declares, while the user may edit     *)
(* them.  Roots may lie in each other and symbolic links may lead from one *)
(* to another, so that the same file is met several times.                 *)
(*                                                                         *)
(* A path is a sequence of names below the base of the scope; a path that  *)
(* begins with ".." is outside.  A link leads to a path without links.     *)
(***************************************************************************)
EXTENDS Integers, SequencesExt

CONSTANTS
  Names, Rank,     \* the names in the tree, and their order
  Roots,           \* what the adapters declare: [agent, kind, path, recursive, matches, order]
  NeutralRoots,
  Generated,       \* the manifest: <<path, data>> of the manager's own files
  Trees,           \* the trees at the start
  Variants,        \* what the user may put at a path
  MaxDepth,        \* no path in a tree is longer (links count as one name)
  MaxEdits

\* A path is a sequence of names, and so is what a link leads to.
LinksTyped(n) == n.type = "link" => n.to \in Seq(Names)

ASSUME TreesAssumption ==
  /\ \A t \in Trees : \A p \in DOMAIN t : p \in Seq(Names) /\ LinksTyped(t[p])
  /\ \A p \in DOMAIN Variants : \A n \in Variants[p] : LinksTyped(n)

ASSUME BoundsAssumption == IsFiniteSet(Roots) /\ MaxDepth \in Nat /\ MaxEdits \in Nat

VARIABLES
  tree,            \* path -> node
  owned,           \* the manager's files, as the scan began
  queue, root,     \* the roots to come, and the present one
  stack, visited,  \* the directories to come and the resolved ones seen, in a root
  found,           \* candidates of the present root
  seen,            \* <<agent, resolved path>> of every candidate so far
  artifacts, warnings, pc,
  edits, changed   \* number of edits; paths edited since the scan began

walk == <<stack, visited, found>>
vars == <<tree, owned, queue, root, walk, seen, artifacts, warnings, pc, edits, changed>>

-------------------------------------------------------------------------------
(* The file system.                                                          *)

None == [type |-> "none"]
Dir == [type |-> "dir"]
File(d) == [type |-> "file", data |-> d]
Link(p) == [type |-> "link", to |-> p]
Other == [type |-> "other"]

At(p) == IF p \in DOMAIN tree THEN tree[p] ELSE IF p = <<>> THEN Dir ELSE None

Followed == [q \in Seq(Names) |-> IF At(q).type = "link" THEN At(q).to ELSE q]

\* Path.resolve(strict=False)
Resolve(p) ==
  LET upto[i \in 0 .. Len(p)] == IF i = 0 THEN <<>> ELSE Followed[Append(upto[i - 1], p[i])]
  IN  upto[Len(p)]

Inside(p) == p = <<>> \/ p[1] # ".."

Node(p) == At(Resolve(p))
IsFile(p) == Node(p).type = "file"
IsDir(p) == Node(p).type = "dir"
IsLink(p) == p # <<>> /\ At(Append(Resolve(Front(p)), Last(p))).type = "link"
Exists(p) == Node(p).type # "none" \/ IsLink(p)

Children(p) ==
  LET here == Resolve(p)
  IN  {Append(p, n) : n \in {x \in Names : At(Append(here, x)).type # "none"}}

\* The order of paths, name by name.
Before(p, q) ==
  \E i \in 1 .. Len(p) + 1 :
    /\ i <= Len(q)
    /\ \A j \in 1 .. i - 1 : p[j] = q[j]
    /\ i <= Len(p) => Rank[p[i]] < Rank[q[i]]

Ordered(S) == SetToSortSeq(S, Before)

-------------------------------------------------------------------------------
(* Skill directories.                                                        *)

\* Everything below a directory, as far as links lead.
Below(p) ==
  LET reach[n \in 0 .. MaxDepth] ==
        IF n = 0 THEN {p}
        ELSE UNION {Children(q) : q \in {x \in reach[n - 1] : IsDir(x) /\ Inside(Resolve(x))}}
  IN  UNION {reach[n] : n \in 1 .. MaxDepth}

HasSkill(p) == LET f == Append(p, "SKILL.md") IN IsFile(f) /\ Inside(Resolve(f))

\* _hash_directory does not take a directory that it meets twice, or a link out.
SafeDirectory(p) ==
  LET dirs == {q \in Below(p) : IsDir(q)} \cup {p}
  IN  /\ \A q \in Below(p) : Inside(Resolve(q)) /\ (IsFile(q) \/ IsDir(q))
      /\ \A q, r \in dirs : Resolve(q) = Resolve(r) => q = r

Files(p) == {q \in Below(p) : IsFile(q)}

Digest(p) ==
  IF IsDir(p)
  THEN {<<SubSeq(q, Len(p) + 1, Len(q)), Node(q).data>> : q \in Files(p)}
  ELSE {<<<<>>, Node(p).data>>}

-------------------------------------------------------------------------------
(* The manager's own files.                                                  *)

\* No link on the way, and the content is what the manifest says.
ManagerOwned ==
  {g[1] : g \in {x \in Generated : Resolve(x[1]) = x[1] /\ IsFile(x[1]) /\ Node(x[1]).data = x[2]}}

Drifted ==
  {<<"drift", g[1]>> : g \in {x \in Generated :
     Resolve(x[1]) = x[1] /\ IsFile(x[1]) /\ Node(x[1]).data # x[2]}}

\* Slip: skill directories are not looked into.
FileOwned(p) == IsFile(p) /\ Resolve(p) \in owned

\* A skill directory is the manager's when all of its files are.
CandidateOwned(p) ==
  \/ IsFile(p) /\ Resolve(p) \in owned
  \/ /\ IsDir(p) /\ ~IsLink(p)
     /\ \A q \in Below(p) : ~IsLink(q) /\ Inside(Resolve(q)) /\ (IsFile(q) \/ IsDir(q))
     /\ Files(p) # {}
     /\ \A q \in Files(p) : Resolve(q) \in owned

-------------------------------------------------------------------------------
(* The scan.                                                                 *)

\* Slip: shallow roots come first.
ByAgent(r, s) == Len(r.path) < Len(s.path) \/ (Len(r.path) = Len(s.path) /\ r.order < s.order)

\* Deep roots come first; r.order is the order of (agent, scope, label).
RootBefore(r, s) == Len(r.path) > Len(s.path) \/ (Len(r.path) = Len(s.path) /\ r.order < s.order)

\* The roots, sorted: there is one such sequence, since no two have the same place.
Sorted == {q \in [1 .. Cardinality(Roots) -> Roots] :
             \A i, j \in DOMAIN q : i < j => RootBefore(q[i], q[j])}

Begin ==
  /\ pc = "idle"
  /\ owned' = ManagerOwned
  /\ warnings' = Drifted
  /\ queue' \in Sorted
  /\ pc' = "roots"
  /\ seen' = {} /\ artifacts' = {} /\ changed' = {}
  /\ UNCHANGED <<tree, root, walk, edits>>

Warn(w) == warnings' = warnings \cup {w}

\* _root_candidates: a root that is a file is its own candidate.
OpenRoot ==
  /\ pc = "roots" /\ queue # <<>>
  /\ LET r == Head(queue)
     IN  /\ root' = r /\ queue' = Tail(queue)
         /\ visited' = {}
         /\ CASE ~Exists(r.path) ->
                   pc' = "roots" /\ stack' = <<>> /\ found' = {} /\ UNCHANGED warnings
              [] Exists(r.path) /\ ~Inside(Resolve(r.path)) ->
                   pc' = "roots" /\ stack' = <<>> /\ found' = {} /\ Warn(<<"escapes", r.path>>)
              [] IsFile(r.path) /\ Inside(Resolve(r.path)) ->
                   pc' = "record" /\ stack' = <<>> /\ found' = {r.path} /\ UNCHANGED warnings
              [] IsDir(r.path) /\ Inside(Resolve(r.path)) ->
                   pc' = "walk" /\ stack' = <<r.path>> /\ found' = {} /\ UNCHANGED warnings
              [] OTHER ->
                   pc' = "roots" /\ stack' = <<>> /\ found' = {} /\ Warn(<<"irregular", r.path>>)
  /\ UNCHANGED <<tree, owned, seen, artifacts, edits, changed>>

\* Slip: a directory that was met before stays on the stack.
Kept(s) == IF Resolve(Last(s)) \in visited THEN s ELSE Front(s)

Popped(s) == Front(s)

\* _matching_files: directories are pushed in order, so the last one is next.
WalkFiles(p) ==
  LET bad == {q \in Children(p) : ~Inside(Resolve(q))}
      dirs == {q \in Children(p) \ bad : IsDir(q)}
      files == {q \in Children(p) \ bad : IsFile(q)}
  IN  /\ found' = found \cup {q \in files : Last(q) \in root.matches}
      /\ stack' = Popped(stack) \o IF root.recursive THEN Ordered(dirs) ELSE <<>>
      /\ warnings' = warnings \cup {<<"escapes", q>> : q \in bad}
                     \cup {<<"irregular", q>> : q \in Children(p) \ (bad \cup dirs \cup files)}

\* _skill_directories: a skill is not searched for skills.
WalkSkills(p) ==
  LET deeper == p = root.path \/ root.recursive
  IN  /\ UNCHANGED warnings
      /\ IF p # root.path /\ HasSkill(p)
         THEN found' = found \cup {p} /\ stack' = Popped(stack)
         ELSE /\ UNCHANGED found
              /\ stack' = Popped(stack) \o
                          IF deeper THEN Reverse(Ordered({q \in Children(p) : IsDir(q)})) ELSE <<>>

Walk ==
  /\ pc = "walk" /\ stack # <<>>
  /\ LET p == Last(stack)
     IN  CASE ~Inside(Resolve(p)) ->
                stack' = Popped(stack) /\ Warn(<<"escapes", p>>) /\ UNCHANGED <<visited, found>>
           [] Inside(Resolve(p)) /\ Resolve(p) \in visited ->
                stack' = Popped(stack) /\ UNCHANGED <<visited, found, warnings>>
           [] Inside(Resolve(p)) /\ Resolve(p) \notin visited /\ ~IsDir(p) ->
                /\ visited' = visited \cup {Resolve(p)}
                /\ stack' = Popped(stack) /\ Warn(<<"unreadable", p>>) /\ UNCHANGED found
           [] OTHER ->
                /\ visited' = visited \cup {Resolve(p)}
                /\ IF root.kind = "skill" THEN WalkSkills(p) ELSE WalkFiles(p)
  /\ UNCHANGED <<tree, owned, queue, root, seen, artifacts, pc, edits, changed>>

EndWalk ==
  /\ pc = "walk" /\ stack = <<>>
  /\ pc' = "record"
  /\ UNCHANGED <<tree, owned, queue, root, walk, seen, artifacts, warnings, edits, changed>>

\* Slip: a file is known by the path it was found at.
ByPath(agent, p) == <<agent, p>>

Identity(agent, p) == <<agent, Resolve(p)>>

RecordOf(p) ==
  [agent |-> root.agent, kind |-> root.kind, path |-> p, resolved |-> Resolve(p),
   digest |-> Digest(p), neutral |-> \E n \in NeutralRoots : IsPrefix(n, Resolve(p))]

\* One candidate; it is seen even when it is not recorded.
Record ==
  /\ pc = "record" /\ found # {}
  /\ LET p == CHOOSE x \in found : \A y \in found \ {x} : Before(x, y)
         id == Identity(root.agent, p)
     IN  /\ found' = found \ {p}
         /\ seen' = seen \cup {id}
         /\ IF id \in seen \/ CandidateOwned(p) THEN UNCHANGED <<artifacts, warnings>>
            ELSE IF IsFile(p) \/ (IsDir(p) /\ Inside(Resolve(p)) /\ SafeDirectory(p))
            THEN artifacts' = artifacts \cup {RecordOf(p)} /\ UNCHANGED warnings
            ELSE Warn(<<"unsafe", p>>) /\ UNCHANGED artifacts
  /\ UNCHANGED <<tree, owned, queue, root, stack, visited, pc, edits, changed>>

EndRoot ==
  /\ pc = "record" /\ found = {}
  /\ pc' = "roots"
  /\ UNCHANGED <<tree, owned, queue, root, walk, seen, artifacts, warnings, edits, changed>>

Finish ==
  /\ pc = "roots" /\ queue = <<>>
  /\ pc' = "done"
  /\ UNCHANGED <<tree, owned, queue, root, walk, seen, artifacts, warnings, edits, changed>>

\* Another `migrate scan`.
Again ==
  /\ pc = "done" /\ edits < MaxEdits
  /\ pc' = "idle"
  /\ UNCHANGED <<tree, owned, queue, root, walk, seen, artifacts, warnings, edits, changed>>

Edit(p) ==
  /\ edits < MaxEdits /\ edits' = edits + 1
  /\ \E n \in Variants[p] \ {At(p)} : tree' = [tree EXCEPT ![p] = n]
  /\ changed' = changed \cup {p}
  /\ UNCHANGED <<owned, queue, root, walk, seen, artifacts, warnings, pc>>

-------------------------------------------------------------------------------

Init ==
  /\ tree \in Trees
  /\ owned = {} /\ queue = <<>> /\ root = None
  /\ stack = <<>> /\ visited = {} /\ found = {} /\ seen = {}
  /\ artifacts = {} /\ warnings = {} /\ pc = "idle" /\ edits = 0 /\ changed = {}

Scanning == Begin \/ OpenRoot \/ Walk \/ EndWalk \/ Record \/ EndRoot \/ Finish

Next == Scanning \/ Again \/ \E p \in DOMAIN Variants : Edit(p)

Spec == Init /\ [][Next]_vars /\ WF_vars(Scanning)

-------------------------------------------------------------------------------
(* Properties.                                                               *)

\* What a root leads to, by the tree alone.
Reached(r) ==
  IF ~Exists(r.path) \/ ~Inside(Resolve(r.path)) THEN {}
  ELSE IF IsFile(r.path) THEN {r.path}
  ELSE {p \in Below(r.path) :
          /\ Inside(Resolve(p))
          /\ r.recursive \/ Len(p) = Len(r.path) + 1
          /\ IF r.kind # "skill" THEN IsFile(p) /\ Last(p) \in r.matches
             ELSE /\ IsDir(p) /\ HasSkill(p) /\ Resolve(p) # r.path
                  /\ ~ \E i \in Len(r.path) + 1 .. Len(p) - 1 : HasSkill(SubSeq(p, 1, i))}

\* A file or skill that is the manager's, by the manifest and the tree.
Managed(f) ==
  IF At(f).type = "dir" THEN \A q \in Files(f) : q \in ManagerOwned ELSE f \in ManagerOwned

Deeper(r, s) == Len(r.path) > Len(s.path) \/ (Len(r.path) = Len(s.path) /\ r.order < s.order)

\* The deepest root that leads to a file says what it is.
Expected ==
  LET reached == [r \in Roots |-> {Resolve(p) : p \in Reached(r)}]
  IN  UNION {{<<r.agent, r.kind, f, Digest(f)>> :
                f \in {x \in reached[r] :
                  /\ ~Managed(x)
                  /\ At(x).type = "dir" => SafeDirectory(x)
                  /\ ~ \E s \in Roots : s.agent = r.agent /\ Deeper(s, r) /\ x \in reached[s]}}
             : r \in Roots}

TypeOK ==
  /\ pc \in {"idle", "roots", "walk", "record", "done"}
  /\ \A i \in DOMAIN queue : queue[i] \in Roots
  /\ pc \in {"walk", "record"} => root \in Roots
  /\ pc # "walk" => stack = <<>>
  /\ \A a \in artifacts : <<a.agent, a.resolved>> \in seen
  /\ edits \in 0 .. MaxEdits

\* A scan during which nothing was edited finds every file that some root leads
\* to and no other, with the kind of the deepest root, whatever links there are.
ScanIsComplete ==
  pc = "done" /\ changed = {} =>
    {<<a.agent, a.kind, a.resolved, a.digest>> : a \in {x \in artifacts : ~Managed(x.resolved)}} = Expected

\* One file is one record of an agent, also when links move during the scan.
OneRecordPerFile ==
  \A a, b \in artifacts : a.agent = b.agent /\ a.resolved = b.resolved => a = b

\* Not what the manager wrote, reached by no link and with no link below it, unless
\* it was touched since the scan began.
NotManagers(a) ==
  LET pieces == {<<a.resolved \o d[1], d[2]>> : d \in a.digest} IN
  /\ a.path = a.resolved /\ pieces # {} /\ pieces \subseteq Generated
  /\ \A q \in Below(a.path) : ~IsLink(q)
  => \E p \in pieces : p[1] \in changed

\* What the manager wrote, and nobody touched since the scan began, is not taken
\* for the user's; nor is a skill of its own that no link renames and that the user
\* put no link into.
ManagedLeftOut == [][\A a \in artifacts' \ artifacts : NotManagers(a)]_vars

\* A scan ends, though links lead in circles.
ScanEnds == pc = "idle" ~> pc = "done"
===============================================================================
