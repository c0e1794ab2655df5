----------------------- MODULE MigrationInventoryProofs -----------------------
(* Theorems about MigrationInventory, for every tree, every set of roots,    *)
(* every link between them and every number of edits during the scan.        *)
EXTENDS MigrationInventory, FiniteSetTheorems, NaturalsInduction, WellFoundedInduction, TLAPS

\* What is recorded was seen: the scan never forgets what it recorded.
RecordedIsSeen == \A a \in artifacts : <<a.agent, a.resolved>> \in seen

\* A file is recorded only when it was not seen, so no second record of it exists.
Once == RecordedIsSeen /\ OneRecordPerFile

LEMMA InitOnce == Init => Once
BY DEF Init, Once, RecordedIsSeen, OneRecordPerFile

\* The candidates of a root are recorded under the agent of the root, at the path
\* the links lead to; that is what `seen` remembers.
LEMMA NewRecord ==
  ASSUME NEW p
  PROVE  /\ RecordOf(p).agent = root.agent
         /\ RecordOf(p).resolved = Resolve(p)
         /\ Identity(root.agent, p) = <<RecordOf(p).agent, RecordOf(p).resolved>>
BY DEF RecordOf, Identity

\* Recording one candidate.
LEMMA RecordOnce == Once /\ Record => Once'
<1> SUFFICES ASSUME Once, Record PROVE Once'
  OBVIOUS
<1>1. PICK p : LET id == Identity(root.agent, p) IN
        /\ seen' = seen \cup {id}
        /\ \/ artifacts' = artifacts
           \/ id \notin seen /\ artifacts' = artifacts \cup {RecordOf(p)}
  <2> DEFINE c == CHOOSE x \in found : \A y \in found \ {x} : Before(x, y)
  <2>1. seen' = seen \cup {Identity(root.agent, c)}
    BY DEF Record
  <2>2. \/ artifacts' = artifacts
        \/ /\ Identity(root.agent, c) \notin seen
           /\ artifacts' = artifacts \cup {RecordOf(c)}
    BY DEF Record
  <2> HIDE DEF c
  <2> QED BY <2>1, <2>2
<1>2. CASE artifacts' = artifacts
  BY <1>1, <1>2 DEF Once, RecordedIsSeen, OneRecordPerFile
<1>3. CASE /\ Identity(root.agent, p) \notin seen
           /\ artifacts' = artifacts \cup {RecordOf(p)}
  <2>1. seen' = seen \cup {Identity(root.agent, p)}
    BY <1>1
  <2>2. RecordedIsSeen'
    BY <1>3, <2>1, NewRecord DEF Once, RecordedIsSeen
  <2>3. \A a \in artifacts : ~(a.agent = RecordOf(p).agent /\ a.resolved = RecordOf(p).resolved)
    BY <1>3, NewRecord DEF Once, RecordedIsSeen
  <2>4. OneRecordPerFile'
    BY <1>3, <2>3 DEF Once, OneRecordPerFile
  <2> QED BY <2>2, <2>4 DEF Once
<1> QED BY <1>1, <1>2, <1>3

\* Every other step leaves the records alone, or begins a new scan.
LEMMA NextOnce == Once /\ [Next]_vars => Once'
<1> SUFFICES ASSUME Once, [Next]_vars PROVE Once'
  OBVIOUS
<1> USE DEF Once, RecordedIsSeen, OneRecordPerFile
<1>1. CASE Begin BY <1>1 DEF Begin
<1>2. CASE OpenRoot BY <1>2 DEF OpenRoot
<1>3. CASE Walk BY <1>3 DEF Walk
<1>4. CASE EndWalk BY <1>4 DEF EndWalk
<1>5. CASE Record BY <1>5, RecordOnce
<1>6. CASE EndRoot BY <1>6 DEF EndRoot
<1>7. CASE Finish BY <1>7 DEF Finish
<1>8. CASE Again BY <1>8 DEF Again
<1>9. ASSUME NEW p \in DOMAIN Variants, Edit(p) PROVE Once' BY <1>9 DEF Edit
<1>10. CASE UNCHANGED vars BY <1>10 DEF vars
<1> QED BY <1>1, <1>2, <1>3, <1>4, <1>5, <1>6, <1>7, <1>8, <1>9, <1>10 DEF Next, Scanning

\* One file is one record of an agent (scan_migration_inventory, inventory.py:64),
\* whatever roots lie in each other and wherever links lead, also when the user
\* moves them during the scan.
THEOREM RecordedOnce == Spec => []OneRecordPerFile
<1>1. Once => OneRecordPerFile BY DEF Once
<1> QED BY InitOnce, NextOnce, <1>1, PTL DEF Spec

-------------------------------------------------------------------------------
(* Induction, over a set of numbers.                                         *)

LEMMA NaturalsByStep ==
  ASSUME NEW T, 0 \in T, \A n \in Nat : n \in T => n + 1 \in T
  PROVE  \A n \in Nat : n \in T
<1> DEFINE R == {p \in Nat \X Nat : p[1] < p[2]}
           S == Nat \ T
<1>1. IsWellFoundedOn(R, Nat)
  BY NatLessThanWellFounded DEF OpToRel
<1> SUFFICES ASSUME S # {} PROVE FALSE
  OBVIOUS
<1>2. PICK n \in S : \A m \in S : <<m, n>> \notin R
  <2> HIDE DEF R
  <2> QED BY <1>1, WFMin
<1>3. n # 0 /\ n - 1 \in Nat /\ <<n - 1, n>> \in R
  BY <1>2
<1>4. n - 1 \in T
  BY <1>2, <1>3
<1>5. (n - 1) + 1 \in T
  BY <1>3, <1>4
<1> QED BY <1>2, <1>5

-------------------------------------------------------------------------------
(* Resolving a path: the names are followed one by one.                      *)

\* f is the path as far as the first i names lead, for every i.
Leads(f, p) ==
  f = [i \in 0 .. Len(p) |-> IF i = 0 THEN <<>> ELSE Followed[Append(f[i - 1], p[i])]]

LEMMA LeadsExists ==
  ASSUME NEW p, Len(p) \in Nat
  PROVE  \E f : Leads(f, p)
<1> DEFINE Upto(f, n) ==
             f = [i \in 0 .. n |-> IF i = 0 THEN <<>> ELSE Followed[Append(f[i - 1], p[i])]]
           T == {n \in Nat : \E f : Upto(f, n)}
<1>1. 0 \in T
  <2>1. Upto([i \in 0 .. 0 |-> <<>>], 0) OBVIOUS
  <2> QED BY <2>1
<1>2. ASSUME NEW n \in Nat, n \in T PROVE n + 1 \in T
  <2>1. PICK f : Upto(f, n) BY <1>2
  <2> DEFINE g == [i \in 0 .. n + 1 |-> IF i = n + 1 THEN Followed[Append(f[n], p[n + 1])] ELSE f[i]]
  <2>2. \A i \in 0 .. n : g[i] = f[i] OBVIOUS
  <2>3. \A i \in 0 .. n + 1 :
          g[i] = IF i = 0 THEN <<>> ELSE Followed[Append(g[i - 1], p[i])]
    <3> TAKE i \in 0 .. n + 1
    <3>1. CASE i = n + 1
      <4>1. g[n] = f[n] /\ i # 0 /\ i - 1 = n BY <2>2, <3>1
      <4> QED BY <3>1, <4>1
    <3>2. CASE i # n + 1
      <4>1. i \in 0 .. n BY <3>2
      <4>2. f[i] = IF i = 0 THEN <<>> ELSE Followed[Append(f[i - 1], p[i])]
        BY <2>1, <4>1
      <4>3. i # 0 => g[i - 1] = f[i - 1] BY <2>2, <4>1
      <4> QED BY <2>2, <4>1, <4>2, <4>3
    <3> QED BY <3>1, <3>2
  <2>4. g = [i \in 0 .. n + 1 |-> g[i]] OBVIOUS
  <2> HIDE DEF g
  <2>5. Upto(g, n + 1) BY <2>3, <2>4
  <2> QED BY <2>5
<1> HIDE DEF T
<1>3. Len(p) \in T BY <1>1, <1>2, NaturalsByStep
<1> QED BY <1>3 DEF T, Leads

LEMMA ResolveLeads ==
  ASSUME NEW p, Len(p) \in Nat
  PROVE  \E f : Leads(f, p) /\ Resolve(p) = f[Len(p)]
<1> DEFINE upto[i \in 0 .. Len(p)] ==
             IF i = 0 THEN <<>> ELSE Followed[Append(upto[i - 1], p[i])]
<1>1. Resolve(p) = upto[Len(p)] BY DEF Resolve
<1>2. \E f : f = [i \in 0 .. Len(p) |-> IF i = 0 THEN <<>> ELSE Followed[Append(f[i - 1], p[i])]]
  BY LeadsExists DEF Leads
<1>3. Leads(upto, p)
  BY <1>2, Zenon DEF Leads
<1> QED BY <1>1, <1>3

LEMMA LeadsAt ==
  ASSUME NEW p, Len(p) \in Nat, NEW f, Leads(f, p)
  PROVE  /\ f[0] = <<>>
         /\ \A i \in 1 .. Len(p) : f[i] = Followed[Append(f[i - 1], p[i])]
<1>1. \A i \in 0 .. Len(p) : f[i] = IF i = 0 THEN <<>> ELSE Followed[Append(f[i - 1], p[i])]
  BY DEF Leads
<1> QED BY <1>1

\* Paths are sequences of names, and so is what links lead to.
TreeTyped == \A p \in DOMAIN tree : p \in Seq(Names) /\ LinksTyped(tree[p])

LEMMA FollowedTyped ==
  ASSUME TreeTyped, NEW q \in Seq(Names)
  PROVE  /\ Followed[q] = IF At(q).type = "link" THEN At(q).to ELSE q
         /\ Followed[q] \in Seq(Names)
<1>1. Followed[q] = IF At(q).type = "link" THEN At(q).to ELSE q BY DEF Followed
<1>2. At(q).type = "link" => At(q) = tree[q] /\ q \in DOMAIN tree BY DEF At, Dir, None
<1> QED BY <1>1, <1>2 DEF TreeTyped, LinksTyped

LEMMA LeadsTyped ==
  ASSUME TreeTyped, NEW p \in Seq(Names), NEW f, Leads(f, p)
  PROVE  \A i \in 0 .. Len(p) : f[i] \in Seq(Names)
<1> DEFINE T == {n \in Nat : n <= Len(p) => f[n] \in Seq(Names)}
<1>1. 0 \in T
  <2>1. Len(p) \in Nat /\ <<>> \in Seq(Names) OBVIOUS
  <2>2. f[0] = <<>> BY <2>1, LeadsAt
  <2> QED BY <2>1, <2>2
<1>2. ASSUME NEW n \in Nat, n \in T PROVE n + 1 \in T
  <2>1. SUFFICES ASSUME n + 1 <= Len(p) PROVE f[n + 1] \in Seq(Names) OBVIOUS
  <2>2. n + 1 \in 1 .. Len(p) /\ (n + 1) - 1 = n /\ n <= Len(p) /\ Len(p) \in Nat BY <2>1
  <2>3. f[n + 1] = Followed[Append(f[(n + 1) - 1], p[n + 1])] BY <2>2, LeadsAt
  <2>4. f[(n + 1) - 1] \in Seq(Names) /\ p[n + 1] \in Names BY <1>2, <2>2
  <2>5. Append(f[(n + 1) - 1], p[n + 1]) \in Seq(Names) BY <2>4
  <2> QED BY <2>3, <2>5, FollowedTyped
<1> HIDE DEF T
<1>3. \A n \in Nat : n \in T BY <1>1, <1>2, NaturalsByStep
<1> QED BY <1>3 DEF T

\* One more name is followed from where the path has led to.
LEMMA ResolveAppend ==
  ASSUME TreeTyped, NEW p \in Seq(Names), NEW n \in Names
  PROVE  /\ Resolve(p) \in Seq(Names)
         /\ Resolve(Append(p, n)) = Followed[Append(Resolve(p), n)]
<1> DEFINE r == Append(p, n)
<1>1. /\ r \in Seq(Names) /\ Len(r) = Len(p) + 1 /\ r[Len(r)] = n
      /\ Len(p) \in Nat /\ Len(r) \in Nat
      /\ \A i \in 1 .. Len(p) : r[i] = p[i]
  OBVIOUS
<1> HIDE DEF r
<1>2. PICK f : Leads(f, p) /\ Resolve(p) = f[Len(p)] BY ResolveLeads
<1>3. PICK g : Leads(g, r) /\ Resolve(r) = g[Len(r)] BY <1>1, ResolveLeads
<1> DEFINE T == {i \in Nat : i <= Len(p) => g[i] = f[i]}
<1>4. 0 \in T BY <1>1, <1>2, <1>3, LeadsAt
<1>5. ASSUME NEW i \in Nat, i \in T PROVE i + 1 \in T
  <2>1. SUFFICES ASSUME i + 1 <= Len(p) PROVE g[i + 1] = f[i + 1] OBVIOUS
  <2>2. i + 1 \in 1 .. Len(p) /\ i + 1 \in 1 .. Len(r) /\ (i + 1) - 1 = i BY <1>1, <2>1
  <2>3. f[i + 1] = Followed[Append(f[i], p[i + 1])] BY <1>2, <2>2, LeadsAt
  <2>4. g[i + 1] = Followed[Append(g[(i + 1) - 1], r[i + 1])] BY <1>1, <1>3, <2>2, LeadsAt
  <2> QED BY <1>1, <1>5, <2>2, <2>3, <2>4
<1> HIDE DEF T
<1>6. \A i \in Nat : i \in T BY <1>4, <1>5, NaturalsByStep
<1>7. g[Len(p)] = f[Len(p)] BY <1>6, <1>1 DEF T
<1>8. Len(r) \in 1 .. Len(r) /\ Len(r) - 1 = Len(p) BY <1>1
<1>9. g[Len(r)] = Followed[Append(g[Len(p)], n)] BY <1>1, <1>3, <1>8, LeadsAt
<1>10. f[Len(p)] \in Seq(Names)
  <2>1. Len(p) \in 0 .. Len(p) BY <1>1
  <2> QED BY <1>2, <2>1, LeadsTyped
<1> QED BY <1>2, <1>3, <1>7, <1>9, <1>10 DEF r

\* What is in the tree lies below directories: no path of the file system goes on
\* behind a file or a link.
WellFormed ==
  \A p \in DOMAIN tree : tree[p].type # "none" =>
    \A i \in 1 .. Len(p) - 1 : At(SubSeq(p, 1, i)).type = "dir"

\* A place in the tree that is no link is where its path leads to.
LEMMA PhysicalPath ==
  ASSUME TreeTyped, WellFormed, NEW p \in Seq(Names), p # <<>>,
         At(p).type # "none", At(p).type # "link"
  PROVE  Resolve(p) = p
<1>1. Len(p) \in Nat /\ Len(p) # 0 OBVIOUS
<1>2. PICK f : Leads(f, p) /\ Resolve(p) = f[Len(p)] BY <1>1, ResolveLeads
<1>3. p \in DOMAIN tree /\ tree[p] = At(p) BY DEF At, None
<1>4. \A i \in 1 .. Len(p) - 1 : At(SubSeq(p, 1, i)).type = "dir" BY <1>3 DEF WellFormed
<1>5. SubSeq(p, 1, Len(p)) = p OBVIOUS
<1>6. \A i \in 1 .. Len(p) : At(SubSeq(p, 1, i)).type # "link"
  <2> TAKE i \in 1 .. Len(p)
  <2>1. CASE i = Len(p) BY <1>5, <2>1
  <2>2. CASE i # Len(p)
    <3>1. i \in 1 .. Len(p) - 1 BY <1>1, <2>2
    <3> QED BY <1>4, <3>1
  <2> QED BY <2>1, <2>2
<1> DEFINE T == {i \in Nat : i <= Len(p) => f[i] = SubSeq(p, 1, i)}
<1>7. 0 \in T
  <2>1. SubSeq(p, 1, 0) = <<>> OBVIOUS
  <2> QED BY <1>1, <1>2, <2>1, LeadsAt
<1>8. ASSUME NEW i \in Nat, i \in T PROVE i + 1 \in T
  <2>1. SUFFICES ASSUME i + 1 <= Len(p) PROVE f[i + 1] = SubSeq(p, 1, i + 1) OBVIOUS
  <2>2. i + 1 \in 1 .. Len(p) /\ (i + 1) - 1 = i BY <2>1
  <2>3. f[i + 1] = Followed[Append(f[i], p[i + 1])] BY <1>1, <1>2, <2>2, LeadsAt
  <2>4. f[i] = SubSeq(p, 1, i) BY <1>8, <2>1
  <2>5. Append(SubSeq(p, 1, i), p[i + 1]) = SubSeq(p, 1, i + 1) BY <2>1
  <2>6. SubSeq(p, 1, i + 1) \in Seq(Names) BY <2>1
  <2>7. At(SubSeq(p, 1, i + 1)).type # "link" BY <1>6, <2>2
  <2> QED BY <2>3, <2>4, <2>5, <2>6, <2>7, FollowedTyped
<1> HIDE DEF T
<1>9. \A i \in Nat : i \in T BY <1>7, <1>8, NaturalsByStep
<1>10. f[Len(p)] = SubSeq(p, 1, Len(p)) BY <1>1, <1>9 DEF T
<1> QED BY <1>2, <1>5, <1>10

-------------------------------------------------------------------------------
(* What is below a directory.                                                *)

\* f has the paths that n steps lead to, for every n.
Reaches(f, p) ==
  f = [n \in 0 .. MaxDepth |->
         IF n = 0 THEN {p}
         ELSE UNION {Children(q) : q \in {x \in f[n - 1] : IsDir(x) /\ Inside(Resolve(x))}}]

LEMMA ReachesExists ==
  ASSUME NEW p
  PROVE  \E f : Reaches(f, p)
<1> DEFINE Onward(S) == UNION {Children(q) : q \in {x \in S : IsDir(x) /\ Inside(Resolve(x))}}
           Upto(f, n) == f = [i \in 0 .. n |-> IF i = 0 THEN {p} ELSE Onward(f[i - 1])]
           T == {n \in Nat : \E f : Upto(f, n)}
<1>5. MaxDepth \in T => \E f : Reaches(f, p) BY DEF Reaches
<1> HIDE DEF Onward
<1>1. 0 \in T
  <2>1. Upto([i \in 0 .. 0 |-> {p}], 0) OBVIOUS
  <2> QED BY <2>1
<1>2. ASSUME NEW n \in Nat, n \in T PROVE n + 1 \in T
  <2>1. PICK f : Upto(f, n) BY <1>2
  <2> DEFINE g == [i \in 0 .. n + 1 |-> IF i = n + 1 THEN Onward(f[n]) ELSE f[i]]
  <2>2. \A i \in 0 .. n : g[i] = f[i] OBVIOUS
  <2>3. \A i \in 0 .. n + 1 : g[i] = IF i = 0 THEN {p} ELSE Onward(g[i - 1])
    <3> TAKE i \in 0 .. n + 1
    <3>1. CASE i = n + 1
      <4>1. g[n] = f[n] /\ i # 0 /\ i - 1 = n BY <2>2, <3>1
      <4> QED BY <3>1, <4>1
    <3>2. CASE i # n + 1
      <4>1. i \in 0 .. n BY <3>2
      <4>2. f[i] = IF i = 0 THEN {p} ELSE Onward(f[i - 1]) BY <2>1, <4>1
      <4>3. i # 0 => g[i - 1] = f[i - 1] BY <2>2, <4>1
      <4> QED BY <2>2, <4>1, <4>2, <4>3
    <3> QED BY <3>1, <3>2
  <2>4. g = [i \in 0 .. n + 1 |-> g[i]] OBVIOUS
  <2> HIDE DEF g
  <2>5. Upto(g, n + 1) BY <2>3, <2>4
  <2> QED BY <2>5
<1> HIDE DEF T
<1>3. MaxDepth \in T BY <1>1, <1>2, NaturalsByStep, BoundsAssumption
<1> QED BY <1>3, <1>5

LEMMA BelowReaches ==
  ASSUME NEW p
  PROVE  \E f : Reaches(f, p) /\ Below(p) = UNION {f[n] : n \in 1 .. MaxDepth}
<1> DEFINE reach[n \in 0 .. MaxDepth] ==
             IF n = 0 THEN {p}
             ELSE UNION {Children(q) : q \in {x \in reach[n - 1] : IsDir(x) /\ Inside(Resolve(x))}}
<1>1. Below(p) = UNION {reach[n] : n \in 1 .. MaxDepth} BY DEF Below
<1>2. \E f : f = [n \in 0 .. MaxDepth |->
                    IF n = 0 THEN {p}
                    ELSE UNION {Children(q) : q \in {x \in f[n - 1] : IsDir(x) /\ Inside(Resolve(x))}}]
  BY ReachesExists DEF Reaches
<1>3. Reaches(reach, p) BY <1>2, Zenon DEF Reaches
<1> QED BY <1>1, <1>3

\* In a tree without links below p, what is below p is where its path leads to,
\* and its path goes on behind p.
LEMMA BelowPhysical ==
  ASSUME TreeTyped, NEW p \in Seq(Names), Resolve(p) = p,
         \A q \in Below(p) : ~IsLink(q), NEW q \in Below(p)
  PROVE  /\ Resolve(q) = q
         /\ p \o SubSeq(q, Len(p) + 1, Len(q)) = q
<1>1. PICK f : Reaches(f, p) /\ Below(p) = UNION {f[n] : n \in 1 .. MaxDepth} BY BelowReaches
<1>2. /\ f[0] = {p}
      /\ \A n \in 1 .. MaxDepth :
           f[n] = UNION {Children(x) : x \in {y \in f[n - 1] : IsDir(y) /\ Inside(Resolve(y))}}
  <2>1. \A n \in 0 .. MaxDepth :
          f[n] = IF n = 0 THEN {p}
                 ELSE UNION {Children(x) : x \in {y \in f[n - 1] : IsDir(y) /\ Inside(Resolve(y))}}
    BY <1>1 DEF Reaches
  <2>2. 0 \in 0 .. MaxDepth /\ \A n \in 1 .. MaxDepth : n \in 0 .. MaxDepth /\ n # 0
    BY BoundsAssumption
  <2>3. f[0] = {p} BY <2>1, <2>2
  <2> QED BY <2>1, <2>2, <2>3
<1> DEFINE Physical(x) == x \in Seq(Names) /\ Len(x) >= Len(p) /\ SubSeq(x, 1, Len(p)) = p /\ Resolve(x) = x
           T == {n \in Nat : n <= MaxDepth => \A x \in f[n] : Physical(x)}
<1>3. 0 \in T
  <2>1. Physical(p) OBVIOUS
  <2> HIDE DEF Physical
  <2> QED BY <1>2, <2>1
<1>4. ASSUME NEW n \in Nat, n \in T PROVE n + 1 \in T
  <2>1. SUFFICES ASSUME n + 1 <= MaxDepth, NEW x \in f[n + 1] PROVE Physical(x) OBVIOUS
  <2>2. n + 1 \in 1 .. MaxDepth /\ (n + 1) - 1 = n BY <2>1, BoundsAssumption
  <2>3. PICK y \in f[n] : x \in Children(y) BY <1>2, <2>1, <2>2
  <2>4. Physical(y)
    <3> HIDE DEF Physical
    <3> QED BY <1>4, <2>1, <2>2, BoundsAssumption
  <2>5. PICK m \in Names : x = Append(y, m) BY <2>3 DEF Children
  <2>6. x \in Below(p) BY <1>1, <2>1, <2>2
  <2>7. x \in Seq(Names) /\ x # <<>> /\ Front(x) = y /\ Last(x) = m
    <3>1. y \in Seq(Names) BY <2>4
    <3>2. /\ x \in Seq(Names) /\ Len(x) = Len(y) + 1 /\ x[Len(x)] = m
          /\ \A i \in 1 .. Len(y) : x[i] = y[i]
      BY <2>5, <3>1
    <3>3. SubSeq(x, 1, Len(x) - 1) = y BY <2>5, <3>1, <3>2
    <3> QED BY <3>2, <3>3 DEF Front, Last
  <2>8. At(x).type # "link"
    <3>1. ~IsLink(x) BY <2>6
    <3> QED BY <2>4, <2>5, <2>7, <3>1 DEF IsLink
  <2>9. Resolve(x) = x
    <3>1. y \in Seq(Names) /\ Resolve(y) = y BY <2>4
    <3>2. Resolve(Append(y, m)) = Followed[Append(y, m)] BY <3>1, ResolveAppend
    <3>3. Followed[x] = x BY <2>7, <2>8, FollowedTyped
    <3> QED BY <2>5, <3>2, <3>3
  <2>10. Len(x) >= Len(p) /\ SubSeq(x, 1, Len(p)) = p BY <2>4, <2>5
  <2> QED BY <2>7, <2>9, <2>10
<1> HIDE DEF T
<1>5. \A n \in Nat : n \in T BY <1>3, <1>4, NaturalsByStep
<1>6. PICK n \in 1 .. MaxDepth : q \in f[n] BY <1>1
<1>7. Physical(q) BY <1>5, <1>6, BoundsAssumption DEF T
<1>8. p \o SubSeq(q, Len(p) + 1, Len(q)) = q
  <2> DEFINE s == SubSeq(q, Len(p) + 1, Len(q))
             r == SubSeq(q, 1, Len(p))
  <2>1. q \in Seq(Names) /\ Len(p) \in Nat /\ Len(q) >= Len(p) /\ r = p BY <1>7
  <2>2. /\ s \in Seq(Names) /\ Len(s) = Len(q) - Len(p)
        /\ \A i \in 1 .. Len(s) : s[i] = q[i + Len(p)]
    BY <2>1
  <2>3. \A i \in 1 .. Len(p) : p[i] = q[i]
    <3>1. \A i \in 1 .. Len(p) : r[i] = q[i] BY <2>1
    <3> QED BY <2>1, <3>1
  <2> HIDE DEF s, r
  <2>4. /\ p \o s \in Seq(Names) /\ Len(p \o s) = Len(q)
        /\ \A i \in 1 .. Len(p) : (p \o s)[i] = p[i]
        /\ \A i \in Len(p) + 1 .. Len(q) : (p \o s)[i] = s[i - Len(p)]
    BY <2>1, <2>2
  <2>5. \A i \in 1 .. Len(q) : (p \o s)[i] = q[i]
    <3> TAKE i \in 1 .. Len(q)
    <3>1. CASE i <= Len(p) BY <2>1, <2>3, <2>4, <3>1
    <3>2. CASE i > Len(p)
      <4>1. i \in Len(p) + 1 .. Len(q) /\ i - Len(p) \in 1 .. Len(s) BY <2>1, <2>2, <3>2
      <4>2. s[i - Len(p)] = q[(i - Len(p)) + Len(p)] BY <2>2, <4>1
      <4>3. (i - Len(p)) + Len(p) = i BY <2>1
      <4> QED BY <2>4, <4>1, <4>2, <4>3
    <3>3. i \in Nat /\ Len(p) \in Nat BY <2>1
    <3>4. i <= Len(p) \/ i > Len(p) BY <3>3
    <3> QED BY <3>1, <3>2, <3>4
  <2> QED BY <2>1, <2>4, <2>5 DEF s
<1> QED BY <1>7, <1>8

-------------------------------------------------------------------------------
(* What the manager wrote.                                                   *)

\* What the manifest lists with the content that is there, and nobody edited since
\* the scan began, the scan knows for the manager's.
OwnedKnown ==
  pc \in {"roots", "walk", "record"} =>
    \A g \in Generated :
      /\ g[1] \notin changed /\ At(g[1]).type = "file" /\ At(g[1]).data = g[2]
      => g[1] \in owned

ManagedInv == TreeTyped /\ OwnedKnown

LEMMA InitManaged == Init => ManagedInv
BY TreesAssumption DEF Init, ManagedInv, TreeTyped, OwnedKnown

LEMMA NextManaged == ManagedInv /\ WellFormed /\ [Next]_vars => ManagedInv'
<1> SUFFICES ASSUME ManagedInv, WellFormed, [Next]_vars PROVE ManagedInv'
  OBVIOUS
<1>1. UNCHANGED tree => TreeTyped' /\ \A p : At(p)' = At(p)
  BY DEF ManagedInv, TreeTyped, At
<1>2. CASE Begin
  <2>1. UNCHANGED tree /\ owned' = ManagerOwned BY <1>2 DEF Begin
  <2>2. ASSUME NEW g \in Generated, At(g[1]).type = "file", At(g[1]).data = g[2]
        PROVE  g[1] \in ManagerOwned
    <3>1. Resolve(g[1]) = g[1]
      <4>1. CASE g[1] = <<>>
        <5>1. Len(g[1]) \in Nat /\ Len(g[1]) = 0 BY <4>1
        <5>2. PICK f : Leads(f, g[1]) /\ Resolve(g[1]) = f[Len(g[1])] BY <5>1, ResolveLeads
        <5> QED BY <4>1, <5>1, <5>2, LeadsAt
      <4>2. CASE g[1] # <<>>
        <5>1. g[1] \in DOMAIN tree BY <2>2, <4>2 DEF At, None, Dir
        <5>2. g[1] \in Seq(Names) BY <5>1 DEF ManagedInv, TreeTyped
        <5> QED BY <2>2, <4>2, <5>2, PhysicalPath DEF ManagedInv
      <4> QED BY <4>1, <4>2
    <3>2. IsFile(g[1]) /\ Node(g[1]).data = g[2] BY <2>2, <3>1 DEF IsFile, Node
    <3> QED BY <3>1, <3>2 DEF ManagerOwned
  <2>3. OwnedKnown' BY <1>1, <2>1, <2>2 DEF OwnedKnown
  <2> QED BY <1>1, <2>1, <2>3 DEF ManagedInv
<1>3. ASSUME UNCHANGED <<tree, owned, changed>>,
             pc' \in {"roots", "walk", "record"} => pc \in {"roots", "walk", "record"}
      PROVE  ManagedInv'
  BY <1>1, <1>3 DEF ManagedInv, OwnedKnown
<1>4. CASE OpenRoot BY <1>3, <1>4 DEF OpenRoot
<1>5. CASE Walk BY <1>3, <1>5 DEF Walk
<1>6. CASE EndWalk BY <1>3, <1>6 DEF EndWalk
<1>7. CASE Record BY <1>3, <1>7 DEF Record
<1>8. CASE EndRoot BY <1>3, <1>8 DEF EndRoot
<1>9. CASE Finish BY <1>3, <1>9 DEF Finish
<1>10. CASE Again BY <1>3, <1>10 DEF Again
<1>11. ASSUME NEW p \in DOMAIN Variants, Edit(p) PROVE ManagedInv'
  <2>1. PICK n \in Variants[p] : tree' = [tree EXCEPT ![p] = n] BY <1>11 DEF Edit
  <2>2. LinksTyped(n) BY <2>1, TreesAssumption
  <2>3. DOMAIN tree' = DOMAIN tree /\ \A q \in DOMAIN tree : tree'[q] = IF q = p THEN n ELSE tree[q]
    BY <2>1
  <2>4. TreeTyped' BY <2>2, <2>3 DEF ManagedInv, TreeTyped
  <2>5. \A q : q # p => At(q)' = At(q) BY <2>3 DEF At
  <2>6. changed' = changed \cup {p} /\ UNCHANGED <<owned, pc>> BY <1>11 DEF Edit
  <2>7. OwnedKnown' BY <2>5, <2>6 DEF ManagedInv, OwnedKnown
  <2> QED BY <2>4, <2>7 DEF ManagedInv
<1>12. CASE UNCHANGED vars BY <1>3, <1>12 DEF vars
<1> QED BY <1>2, <1>4, <1>5, <1>6, <1>7, <1>8, <1>9, <1>10, <1>11, <1>12 DEF Next, Scanning

\* A candidate whose files are all the manager's, with no link to or below it, is
\* recognised (_candidate_is_manager_owned).
LEMMA OwnIsRecognised ==
  ASSUME ManagedInv, WellFormed, pc = "record", NEW p, Resolve(p) = p,
         IsFile(p) \/ (IsDir(p) /\ Inside(Resolve(p)) /\ SafeDirectory(p)),
         \A q \in Below(p) : ~IsLink(q), Digest(p) # {},
         \A d \in Digest(p) : <<p \o d[1], d[2]>> \in Generated /\ p \o d[1] \notin changed
  PROVE  CandidateOwned(p)
<1>1. p \in Seq(Names)
  <2>1. At(p).type # "none" BY DEF IsFile, IsDir, Node
  <2>2. p \in DOMAIN tree \/ p = <<>> BY <2>1 DEF At, None
  <2>3. <<>> \in Seq(Names) OBVIOUS
  <2> QED BY <2>2, <2>3 DEF ManagedInv, TreeTyped
<1>2. ASSUME NEW d, NEW q, q = p \o d[1], d \in Digest(p), At(q).type = "file", At(q).data = d[2]
      PROVE  q \in owned
  <2>1. PICK g \in Generated : g = <<q, d[2]>> BY <1>2
  <2>2. g[1] = q /\ g[2] = d[2] BY <2>1
  <2> QED BY <1>2, <2>2 DEF ManagedInv, OwnedKnown
<1>3. CASE IsFile(p)
  <2>1. ~IsDir(p) BY <1>3 DEF IsFile, IsDir
  <2> DEFINE d == <<<<>>, Node(p).data>>
  <2>2. d \in Digest(p) BY <2>1 DEF Digest
  <2>3. d[1] = <<>> /\ d[2] = Node(p).data OBVIOUS
  <2>4. p \o d[1] = p BY <1>1, <2>3
  <2>5. At(p).type = "file" /\ At(p).data = d[2] BY <1>3, <2>3 DEF IsFile, Node
  <2> HIDE DEF d
  <2>6. p \in owned BY <1>2, <2>2, <2>4, <2>5
  <2> QED BY <1>3, <2>6 DEF CandidateOwned
<1>4. CASE ~IsFile(p)
  <2>1. IsDir(p) /\ Inside(Resolve(p)) /\ SafeDirectory(p) BY <1>4
  <2>2. Digest(p) = {<<SubSeq(q, Len(p) + 1, Len(q)), Node(q).data>> : q \in Files(p)}
    BY <2>1 DEF Digest
  <2>3. Files(p) # {} BY <2>2
  <2>4. \A q \in Below(p) : ~IsLink(q) /\ Inside(Resolve(q)) /\ (IsFile(q) \/ IsDir(q))
    BY <2>1 DEF SafeDirectory
  <2>5. ~IsLink(p)
    <3>1. SUFFICES ASSUME p # <<>> PROVE At(Append(Resolve(Front(p)), Last(p))).type # "link"
      BY DEF IsLink
    <3> DEFINE k == Len(p) - 1
    <3>2. k \in Nat /\ Len(p) = k + 1 /\ Front(p) = SubSeq(p, 1, k) /\ Front(p) \in Seq(Names)
          /\ Last(p) = p[k + 1]
      BY <1>1, <3>1 DEF Front, Last
    <3>3. Append(Front(p), Last(p)) = p BY <1>1, <3>1, <3>2
    <3>4. At(p).type = "dir" BY <2>1 DEF IsDir, Node
    <3>5. Resolve(Front(p)) = Front(p)
      <4>1. CASE Front(p) = <<>>
        <5>1. Len(Front(p)) \in Nat /\ Len(Front(p)) = 0 BY <4>1
        <5>2. PICK f : Leads(f, Front(p)) /\ Resolve(Front(p)) = f[Len(Front(p))]
          BY <5>1, ResolveLeads
        <5> QED BY <4>1, <5>1, <5>2, LeadsAt
      <4>2. CASE Front(p) # <<>>
        <5>1. k # 0 BY <3>2, <4>2
        <5>2. p \in DOMAIN tree /\ tree[p].type # "none" BY <3>1, <3>4 DEF At, None, Dir
        <5>3. k \in 1 .. Len(p) - 1 BY <3>2, <5>1
        <5>4. At(Front(p)).type = "dir" BY <3>2, <5>2, <5>3 DEF WellFormed
        <5> QED BY <3>2, <4>2, <5>4, PhysicalPath DEF ManagedInv
      <4> QED BY <4>1, <4>2
    <3> QED BY <3>3, <3>4, <3>5
  <2>6. ASSUME NEW q \in Files(p) PROVE Resolve(q) \in owned
    <3>1. q \in Below(p) /\ IsFile(q) BY <2>6 DEF Files
    <3>2. Resolve(q) = q /\ p \o SubSeq(q, Len(p) + 1, Len(q)) = q
      BY <1>1, <3>1, BelowPhysical DEF ManagedInv
    <3> DEFINE d == <<SubSeq(q, Len(p) + 1, Len(q)), Node(q).data>>
    <3>3. d \in Digest(p) BY <2>2
    <3>4. d[1] = SubSeq(q, Len(p) + 1, Len(q)) /\ d[2] = Node(q).data OBVIOUS
    <3>5. At(q).type = "file" /\ At(q).data = d[2] BY <3>1, <3>2, <3>4 DEF IsFile, Node
    <3> HIDE DEF d
    <3>6. q = p \o d[1] BY <3>2, <3>4
    <3> QED BY <1>2, <3>2, <3>3, <3>5, <3>6
  <2> QED BY <2>1, <2>3, <2>4, <2>5, <2>6 DEF CandidateOwned
<1> QED BY <1>3, <1>4

LEMMA RecordLeavesOut ==
  ASSUME ManagedInv, WellFormed, Record
  PROVE  \A a \in artifacts' \ artifacts : NotManagers(a)
<1> DEFINE p == CHOOSE x \in found : \A y \in found \ {x} : Before(x, y)
<1>1. /\ pc = "record"
      /\ \/ artifacts' = artifacts
         \/ /\ artifacts' = artifacts \cup {RecordOf(p)} /\ ~CandidateOwned(p)
            /\ IsFile(p) \/ (IsDir(p) /\ Inside(Resolve(p)) /\ SafeDirectory(p))
  BY DEF Record
<1> HIDE DEF p
<1>2. SUFFICES ASSUME NEW a, a = RecordOf(p), ~CandidateOwned(p),
                      IsFile(p) \/ (IsDir(p) /\ Inside(Resolve(p)) /\ SafeDirectory(p))
               PROVE  NotManagers(a)
  BY <1>1
<1>3. a.path = p /\ a.resolved = Resolve(p) /\ a.digest = Digest(p) BY <1>2 DEF RecordOf
<1> DEFINE pieces == {<<a.resolved \o d[1], d[2]>> : d \in a.digest}
<1>4. SUFFICES ASSUME a.path = a.resolved, pieces # {}, pieces \subseteq Generated,
                      \A q \in Below(a.path) : ~IsLink(q),
                      \A x \in pieces : x[1] \notin changed
               PROVE  FALSE
  BY DEF NotManagers
<1>5. Digest(p) # {} BY <1>3, <1>4
<1>6. ASSUME NEW d \in Digest(p)
      PROVE  <<p \o d[1], d[2]>> \in Generated /\ p \o d[1] \notin changed
  <2>1. PICK x \in pieces : x = <<p \o d[1], d[2]>> BY <1>3, <1>4
  <2>2. x[1] = p \o d[1] BY <2>1
  <2> QED BY <1>4, <2>1, <2>2
<1>7. Resolve(p) = p /\ \A q \in Below(p) : ~IsLink(q) BY <1>3, <1>4
<1>8. CandidateOwned(p) BY <1>1, <1>2, <1>5, <1>6, <1>7, OwnIsRecognised
<1> QED BY <1>2, <1>8

LEMMA NextLeavesOut ==
  ManagedInv /\ WellFormed /\ [Next]_vars => [\A a \in artifacts' \ artifacts : NotManagers(a)]_vars
<1> SUFFICES ASSUME ManagedInv, WellFormed, [Next]_vars, NEW a \in artifacts' \ artifacts
             PROVE  NotManagers(a)
  OBVIOUS
<1>1. CASE Record BY <1>1, RecordLeavesOut
<1>2. artifacts' \subseteq artifacts \/ Record
  <2>1. \A p \in DOMAIN Variants : Edit(p) => artifacts' = artifacts BY DEF Edit
  <2> QED BY <2>1 DEF Next, Scanning, Begin, OpenRoot, Walk, EndWalk, EndRoot, Finish, Again, vars
<1> QED BY <1>1, <1>2

\* What the manager wrote and nobody touched is not taken for the user's, for every
\* tree, set of roots and edit during the scan: files, and skills of which all
\* files are listed, reached without a link (inventory.py:442).
THEOREM ManagedIsLeftOut == Spec /\ []WellFormed => ManagedLeftOut
<1>1. Spec /\ []WellFormed => []ManagedInv
  BY InitManaged, NextManaged, PTL DEF Spec
<1>2. Spec /\ []WellFormed => [][\A a \in artifacts' \ artifacts : NotManagers(a)]_vars
  BY <1>1, NextLeavesOut, PTL DEF Spec
<1> QED BY <1>2 DEF ManagedLeftOut

-------------------------------------------------------------------------------
(* Types.                                                                    *)

TypedInv == TypeOK /\ queue \in Seq(Roots)

LEMMA InitTyped == Init => TypedInv
<1> SUFFICES ASSUME Init PROVE TypedInv OBVIOUS
<1>1. queue = <<>> /\ <<>> \in Seq(Roots) /\ DOMAIN queue = {} BY DEF Init
<1> QED BY <1>1, BoundsAssumption DEF Init, TypedInv, TypeOK

LEMMA NextTyped == TypedInv /\ Once /\ [Next]_vars => TypedInv'
<1> SUFFICES ASSUME TypedInv, Once, [Next]_vars PROVE TypedInv'
  OBVIOUS
<1>1. \A q \in Seq(Roots) : \A i \in DOMAIN q : q[i] \in Roots OBVIOUS
<1>2. (\A a \in artifacts : <<a.agent, a.resolved>> \in seen)'
  BY NextOnce DEF Once, RecordedIsSeen
<1> USE DEF TypedInv, TypeOK
<1>3. CASE Begin
  <2>1. Cardinality(Roots) \in Nat BY BoundsAssumption, FS_CardinalityType
  <2>2. queue' \in [1 .. Cardinality(Roots) -> Roots] BY <1>3 DEF Begin, Sorted
  <2>3. queue' \in Seq(Roots) BY <2>1, <2>2
  <2> QED BY <1>1, <1>2, <1>3, <2>3 DEF Begin, walk
<1>4. CASE OpenRoot
  <2>1. root' = Head(queue) /\ queue' = Tail(queue) /\ queue # <<>> BY <1>4 DEF OpenRoot
  <2>2. root' \in Roots /\ queue' \in Seq(Roots) BY <2>1
  <2>3. \/ pc' \in {"roots", "record"} /\ stack' = <<>>
        \/ pc' = "walk"
    BY <1>4 DEF OpenRoot
  <2>4. UNCHANGED edits BY <1>4 DEF OpenRoot
  <2> QED BY <1>1, <1>2, <2>2, <2>3, <2>4
<1>5. CASE Walk BY <1>2, <1>5 DEF Walk
<1>6. CASE EndWalk BY <1>2, <1>6 DEF EndWalk, walk
<1>7. CASE Record BY <1>2, <1>7 DEF Record
<1>8. CASE EndRoot BY <1>2, <1>8 DEF EndRoot, walk
<1>9. CASE Finish BY <1>2, <1>9 DEF Finish, walk
<1>10. CASE Again BY <1>2, <1>10 DEF Again, walk
<1>11. ASSUME NEW p \in DOMAIN Variants, Edit(p) PROVE TypedInv'
  <2>1. edits < MaxEdits /\ edits' = edits + 1 BY <1>11 DEF Edit
  <2>2. edits' \in 0 .. MaxEdits BY <2>1, BoundsAssumption
  <2> QED BY <1>2, <1>11, <2>2 DEF Edit, walk
<1>12. CASE UNCHANGED vars BY <1>2, <1>12 DEF vars, walk
<1> QED BY <1>3, <1>4, <1>5, <1>6, <1>7, <1>8, <1>9, <1>10, <1>11, <1>12 DEF Next, Scanning

\* A scan works on declared roots only, keeps no directory when it leaves a root, and
\* forgets nothing that it recorded (scan_migration_inventory, inventory.py:49).
THEOREM TypeCorrect == Spec => []TypeOK
<1>1. TypedInv => TypeOK BY DEF TypedInv
<1> QED BY <1>1, InitTyped, NextTyped, InitOnce, NextOnce, PTL DEF Spec
===============================================================================
