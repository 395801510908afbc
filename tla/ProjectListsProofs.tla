------------------------- MODULE ProjectListsProofs -------------------------
(***************************************************************************)
(* What syncs of the project lists never do, for any number of machines,   *)
(* projects, chats and sections, any folders, answers and mappings, and    *)
(* any bounds: projects of a list that stand apart here stay apart, and    *)
(* while nothing is killed or held back no list undoes what a person chose *)
(* after it was merged.                                                    *)
(***************************************************************************)
EXTENDS ProjectLists, WellFoundedInduction, FiniteSetTheorems, TLAPS

-----------------------------------------------------------------------------
(* The project lists: what the helpers return. *)

\* A function with one value set.
LEMMA WithParts == ASSUME NEW f, NEW a, NEW b
                   PROVE  /\ DOMAIN With(f, a, b) = DOMAIN f \cup {a} /\ With(f, a, b)[a] = b
                          /\ \A x \in DOMAIN f : x # a => With(f, a, b)[x] = f[x]
  BY DEF With

\* A function over another.
LEMMA OverParts == ASSUME NEW g, NEW f
                   PROVE  /\ DOMAIN Over(g, f) = DOMAIN f \cup DOMAIN g
                          /\ \A x \in DOMAIN g : Over(g, f)[x] = g[x]
                          /\ \A x \in DOMAIN f \ DOMAIN g : Over(g, f)[x] = f[x]
  BY DEF Over

\* A set of one has its member.
LEMMA OnlyOne == ASSUME NEW S, Cardinality(S) = 1 PROVE The(S) \in S
<1>1. S # {}
  BY FS_EmptySet
<1>2. QED
  BY <1>1 DEF The

\* Some number of a set is the least.
LEMMA LeastNumber == ASSUME NEW T, T \subseteq Nat, T # {} PROVE \E x \in T : \A y \in T : x <= y
<1>1. PICK x \in T : \A y \in T : <<y, x>> \notin OpToRel(<, Nat)
  BY WFMin, NatLessThanWellFounded
<1>2. \A y \in T : ~(y < x)
  BY <1>1 DEF OpToRel
<1>3. QED
  BY <1>2

\* A function on a part of S.
LEMMA PartialParts == ASSUME NEW S, NEW T, NEW f
                      PROVE  f \in Partial(S, T) <=>
                                /\ DOMAIN f \subseteq S /\ f = [x \in DOMAIN f |-> f[x]]
                                /\ \A x \in DOMAIN f : f[x] \in T
<1>1. ASSUME f \in Partial(S, T)
      PROVE  DOMAIN f \subseteq S /\ f = [x \in DOMAIN f |-> f[x]] /\ \A x \in DOMAIN f : f[x] \in T
  <2>1. PICK D \in SUBSET S : f \in [D -> T]
    BY <1>1 DEF Partial
  <2>2. QED
    BY <2>1
<1>2. ASSUME DOMAIN f \subseteq S, f = [x \in DOMAIN f |-> f[x]], \A x \in DOMAIN f : f[x] \in T
      PROVE  f \in Partial(S, T)
  <2>1. f \in [DOMAIN f -> T]
    BY <1>2
  <2>2. QED
    BY <1>2, <2>1 DEF Partial
<1>3. QED
  BY <1>1, <1>2

\* So is one of its kind, with one more value.
LEMMA WithPartial == ASSUME NEW S, NEW T, NEW f \in Partial(S, T), NEW a \in S, NEW b \in T
                     PROVE  With(f, a, b) \in Partial(S, T)
<1>1. /\ DOMAIN f \subseteq S
      /\ \A x \in DOMAIN f : f[x] \in T
  BY PartialParts
<1>2. /\ DOMAIN With(f, a, b) \subseteq S /\ With(f, a, b) = [x \in DOMAIN With(f, a, b) |-> With(f, a, b)[x]]
      /\ \A x \in DOMAIN With(f, a, b) : With(f, a, b)[x] \in T
  BY <1>1 DEF With
<1>3. QED
  BY <1>2, PartialParts

\* A list that can be read.
LEMMA ReadableParts == ASSUME TypeOK, NEW m \in Machines, NEW p \in Readable(m)
                       PROVE  p \in Others(m) /\ p \in Machines /\ seen[m][p] \in Publications
                              /\ seen[m][p].content \in Contents
  BY DEF Readable, Others, TypeOK, Publications

\* What the rules make of a folder.
LEMMA MapRootTyped ==
    ASSUME NEW rules, rules \subseteq Rules, NEW m, NEW p, NEW path \in Paths, NEW r, r = MapRoot(rules, m, p, path)
    PROVE  \/ r.why \in {"mapped", "same"} /\ r.at \in Paths
           \/ r.why \in {"ambiguous", "unplaced"} /\ r.at = None
<1> DEFINE best == {Target(x, path) : x \in Longest({x \in rules : x.peer = p /\ Covers(x, path)})}
<1>1. best \subseteq Paths
  <2>1. \A x \in Rules : Target(x, path) \in Paths
    BY DEF Target, Rules, Paths
  <2>2. QED
    BY <2>1 DEF Longest
<1>2. r = OneOf(best, m, path)
  BY DEF MapRoot
<1> HIDE DEF best
<1>3. CASE Cardinality(best) = 1
  <2>1. r = [at |-> The(best), why |-> "mapped"] /\ The(best) \in best
    BY <1>2, <1>3, OnlyOne DEF OneOf
  <2>2. QED
    BY <1>1, <2>1
<1>4. CASE Cardinality(best) # 1 /\ Cardinality(best) > 1
  <2>1. ~(best = {})
    BY <1>4, FS_EmptySet
  <2>2. r = [at |-> None, why |-> "ambiguous"]
    BY <1>2, <1>4, <2>1 DEF OneOf
  <2>3. QED
    BY <2>2
<1>5. CASE Cardinality(best) # 1 /\ ~(Cardinality(best) > 1) /\ best = {} /\ Native(m, path)
  <2>1. r = [at |-> path, why |-> "same"]
    BY <1>2, <1>5 DEF OneOf
  <2>2. QED
    BY <2>1
<1>6. CASE Cardinality(best) # 1 /\ ~(Cardinality(best) > 1) /\ ~(best = {} /\ Native(m, path))
  <2>1. r = [at |-> None, why |-> "unplaced"]
    BY <1>2, <1>6 DEF OneOf
  <2>2. QED
    BY <2>1
<1>7. QED
  BY <1>3, <1>4, <1>5, <1>6

\* Where an item stands: the project is here by its id, found by its folder, added, or left alone.
Decided(rules, m, p, i, here, root, item, at) ==
    \/ /\ item.kind = "placed" /\ item.to = i /\ item.root = at /\ at # None
       /\ i \in DOMAIN here /\ FollowsAPlace(m, here[i], root, at)
    \/ /\ item.kind = "matched" /\ item.to \in DOMAIN here /\ item.root = here[item.to]
       /\ item.to = i \/ i \notin Collapsing(rules, m, p)
    \/ /\ item.kind = "add" /\ item.to = i /\ i \notin DOMAIN here /\ i \notin Collapsing(rules, m, p)
       /\ item.root = root \/ (item.root = at /\ MapRoot(rules, m, p, root).why \notin {"ambiguous", "unplaced"})
    \/ item.kind \in {"skipped", "ambiguous"} /\ item.to = None

\* A merge decides every project so.
LEMMA MergeOneParts ==
    ASSUME NEW rules, NEW m, NEW p, NEW i, NEW here, NEW root, NEW item, NEW at,
           item = MergeOne(rules, m, p, i, here, root), at = MapRoot(rules, m, p, root).at
    PROVE  Decided(rules, m, p, i, here, root, item, at)
<1> USE DEF Decided
<1> DEFINE mapped == MapRoot(rules, m, p, root)
           unclear == i \in Collapsing(rules, m, p)
           target == IF mapped.why = "unplaced" THEN root ELSE mapped.at
           found == Candidates(m, i, root, target, here, mapped.why)
<1>1. item = Decide(m, i, here, root, mapped, unclear) /\ at = mapped.at
  BY DEF MergeOne
<1>2. found \subseteq DOMAIN here
  BY DEF Candidates
<1> HIDE DEF mapped, unclear
<1>3. CASE i \in DOMAIN here /\ mapped.at # None /\ FollowsAPlace(m, here[i], root, mapped.at)
  <2>1. item = Item("placed", i, mapped.at)
    BY <1>1, <1>3 DEF Decide
  <2>2. QED
    BY <1>1, <1>3, <2>1 DEF Item
<1>4. CASE i \in DOMAIN here /\ ~(mapped.at # None /\ FollowsAPlace(m, here[i], root, mapped.at))
  <2>1. item = Item("matched", i, here[i])
    BY <1>1, <1>4 DEF Decide
  <2>2. QED
    BY <1>1, <1>4, <2>1 DEF Item
<1>5. CASE i \notin DOMAIN here /\ i \in places[m].skipped
  <2>1. item = Item("skipped", None, root)
    BY <1>1, <1>5 DEF Decide
  <2>2. QED
    BY <2>1 DEF Item
<1>6. CASE i \notin DOMAIN here /\ i \notin places[m].skipped /\ (mapped.why = "ambiguous" \/ unclear)
  <2>1. item = Item("ambiguous", None, root)
    BY <1>1, <1>6 DEF Decide
  <2>2. QED
    BY <2>1 DEF Item
<1>7. CASE i \notin DOMAIN here /\ i \notin places[m].skipped /\ ~(mapped.why = "ambiguous" \/ unclear)
  <2>1. item = Found(i, here, found, root, target)
    BY <1>1, <1>7 DEF Decide
  <2>2. i \notin Collapsing(rules, m, p)
    BY <1>7 DEF unclear
  <2> HIDE DEF found, target
  <2>3. CASE Cardinality(found) = 1
    <3>1. item = Item("matched", The(found), here[The(found)]) /\ The(found) \in found
      BY <2>1, <2>3, OnlyOne DEF Found
    <3>2. QED
      BY <1>2, <2>2, <3>1 DEF Item
  <2>4. CASE Cardinality(found) # 1 /\ Cardinality(found) > 1
    <3>1. item = Item("ambiguous", None, root)
      BY <2>1, <2>4 DEF Found
    <3>2. QED
      BY <3>1 DEF Item
  <2>5. CASE Cardinality(found) # 1 /\ ~(Cardinality(found) > 1)
    <3>1. item = Item("add", i, target)
      BY <2>1, <2>5 DEF Found
    <3>2. QED
      BY <1>1, <1>7, <2>2, <3>1 DEF Item, target, mapped
  <2>6. QED
    BY <2>3, <2>4, <2>5
<1>8. QED
  BY <1>3, <1>4, <1>5, <1>6, <1>7

-----------------------------------------------------------------------------
(* The merge of one list goes by its projects, one after the other. *)

\* The decisions for the first n projects of a list.
ProjectsUpTo(rules, m, p, here, g, n) ==
    g = [i \in 0..n |-> IF i = 0 THEN [projects |-> here, items |-> Nowhere]
                        ELSE TakeProject(rules, m, p, g[i - 1], i)]

\* The loop is defined: a shortest one that is not could be continued.
LEMMA ProjectsLoop ==
    ASSUME NEW rules, NEW m, NEW p, NEW here
    PROVE  \E g : ProjectsUpTo(rules, m, p, here, g, LastProject) /\ MergeProjects(rules, m, p, here) = g[LastProject]
<1> DEFINE Run(g, n) == ProjectsUpTo(rules, m, p, here, g, n)
           Start == [projects |-> here, items |-> Nowhere]
           T == {n \in Nat : ~\E g : Run(g, n)}
<1>1. T = {}
  <2>1. SUFFICES ASSUME T # {} PROVE FALSE
    OBVIOUS
  <2>2. PICK n \in T : \A k \in T : n <= k
    BY <2>1, LeastNumber
  <2>3. n # 0
    <3>1. Run([i \in 0..0 |-> Start], 0)
      BY DEF ProjectsUpTo
    <3>2. QED
      BY <2>2, <3>1
  <2>4. n \in Nat /\ n - 1 \in Nat /\ n - 1 \notin T
    BY <2>2, <2>3
  <2>5. PICK g : Run(g, n - 1)
    BY <2>4
  <2> DEFINE h == [i \in 0..n |-> IF i = n THEN TakeProject(rules, m, p, g[n - 1], n) ELSE g[i]]
  <2>6. Run(h, n)
    <3>1. \A i \in 0..(n - 1) : g[i] = IF i = 0 THEN Start ELSE TakeProject(rules, m, p, g[i - 1], i)
      BY <2>5 DEF ProjectsUpTo
    <3>2. \A i \in 0..n : h[i] = IF i = 0 THEN Start ELSE TakeProject(rules, m, p, h[i - 1], i)
      BY <2>3, <2>4, <3>1
    <3>3. QED
      BY <3>2 DEF ProjectsUpTo
  <2>7. QED
    BY <2>2, <2>6
<1>2. \E g : Run(g, LastProject)
  BY <1>1, ProjectAssumption
<1> DEFINE G == CHOOSE g : Run(g, LastProject)
<1>3. Run(G, LastProject)
  BY <1>2
<1>4. MergeProjects(rules, m, p, here) = G[LastProject]
  BY DEF MergeProjects, ProjectsUpTo
<1>5. QED
  BY <1>3, <1>4

\* A project that was not here with its folder before: added, or moved to a folder there is.
NewHere(m, base, projects, k) == k \notin DOMAIN base \/ (projects[k] \in disk[m] /\ base[k] \notin disk[m])
\* Projects are added; one that stood here keeps its folder, or moves to its place.
Grown(m, base, projects) ==
    /\ DOMAIN base \subseteq DOMAIN projects
    /\ \A k \in DOMAIN base : projects[k] = base[k] \/ NewHere(m, base, projects, k)
\* What was decided for a project of the list stands when the others are decided.
ItemStands(rules, m, p, base, acc, i) ==
    LET item == acc.items[i]
    IN /\ item.kind \in {"add", "placed"} => item.to = i /\ i \in DOMAIN acc.projects /\ NewHere(m, base, acc.projects, i)
       /\ item.to # None =>
             /\ item.to \in DOMAIN acc.projects
             /\ item.to = i \/ i \notin Collapsing(rules, m, p)
             /\ \/ item.root = acc.projects[item.to]
                \/ item.to \in DOMAIN acc.items /\ acc.items[item.to].kind = "placed"
\* What holds after the first n projects of a list.
ListInv(rules, m, p, base, acc, n) ==
    /\ acc.projects \in Partial(Projects, Paths) /\ Grown(m, base, acc.projects)
    /\ DOMAIN acc.items \subseteq DOMAIN seen[m][p].content.projects \cap (1..n)
    /\ \A i \in DOMAIN acc.items : ItemStands(rules, m, p, base, acc, i)

\* One more project of the list.
LEMMA ProjectTaken ==
    ASSUME TypeOK, NEW rules, rules \subseteq Rules, NEW m \in Machines, NEW p \in Readable(m), NEW base, NEW acc,
           NEW n \in Nat, n # 0, ListInv(rules, m, p, base, acc, n - 1)
    PROVE  ListInv(rules, m, p, base, TakeProject(rules, m, p, acc, n), n)
<1> DEFINE roots == seen[m][p].content.projects
           at == MapRoot(rules, m, p, roots[n]).at
           item == MergeOne(rules, m, p, n, acc.projects, roots[n])
           new == Taking(acc, n, item)
<1>1. CASE n \notin DOMAIN roots
  <2>1. TakeProject(rules, m, p, acc, n) = acc
    BY <1>1 DEF TakeProject
  <2>2. QED
    BY <2>1 DEF ListInv
<1>2. CASE n \in DOMAIN roots
  <2>1. TakeProject(rules, m, p, acc, n) = new
    BY <1>2 DEF TakeProject
  <2>2. \/ /\ item.kind = "placed" /\ item.to = n /\ item.root = at /\ at # None
           /\ n \in DOMAIN acc.projects /\ FollowsAPlace(m, acc.projects[n], roots[n], at)
        \/ /\ item.kind = "matched" /\ item.to \in DOMAIN acc.projects /\ item.root = acc.projects[item.to]
           /\ item.to = n \/ n \notin Collapsing(rules, m, p)
        \/ /\ item.kind = "add" /\ item.to = n /\ n \notin DOMAIN acc.projects /\ n \notin Collapsing(rules, m, p)
           /\ item.root = roots[n] \/ (item.root = at /\ MapRoot(rules, m, p, roots[n]).why \notin {"ambiguous", "unplaced"})
        \/ item.kind \in {"skipped", "ambiguous"} /\ item.to = None
    <3>1. Decided(rules, m, p, n, acc.projects, roots[n], item, at)
      BY MergeOneParts
    <3> HIDE DEF item, at, roots
    <3>2. QED
      BY <3>1 DEF Decided
  <2>11. roots[n] \in Paths /\ n \in Projects
    <3>1. roots \in Partial(Projects, Paths)
      BY ReadableParts DEF Contents
    <3>2. QED
      BY <1>2, <3>1, PartialParts
  <2>12. item.kind \in {"add", "placed"} => item.root \in Paths
    <3>1. \/ MapRoot(rules, m, p, roots[n]).why \in {"mapped", "same"} /\ at \in Paths
          \/ MapRoot(rules, m, p, roots[n]).why \in {"ambiguous", "unplaced"} /\ at = None
      BY <2>11, MapRootTyped
    <3> HIDE DEF item, at
    <3>2. QED
      BY <2>2, <2>11, <3>1
  <2> HIDE DEF item, at
  <2>3. /\ new.items = With(acc.items, n, item)
        /\ new.projects = IF item.kind \in {"add", "placed"} THEN With(acc.projects, n, item.root) ELSE acc.projects
    BY DEF Taking
  <2> HIDE DEF new
  <2>7. /\ DOMAIN new.items = DOMAIN acc.items \cup {n} /\ new.items[n] = item
        /\ \A i \in DOMAIN acc.items : i # n /\ new.items[i] = acc.items[i]
    <3>1. n \notin DOMAIN acc.items
      BY DEF ListInv
    <3>2. QED
      BY <2>3, <3>1 DEF With
  <2>8. DOMAIN new.items \subseteq DOMAIN roots \cap (1..n)
    BY <1>2, <2>7 DEF ListInv
  <2>9. \A i \in DOMAIN acc.items : ItemStands(rules, m, p, base, acc, i)
    BY DEF ListInv
  <2>10. Grown(m, base, acc.projects) /\ acc.projects \in Partial(Projects, Paths)
    BY DEF ListInv
  <2>4. CASE item.kind \notin {"add", "placed"}
    <3>1. new.projects = acc.projects
      BY <2>3, <2>4
    <3>2. \A i \in DOMAIN acc.items : ItemStands(rules, m, p, base, new, i)
      BY <2>7, <2>9, <3>1 DEF ItemStands
    <3>3. ItemStands(rules, m, p, base, new, n)
      BY <2>2, <2>4, <2>7, <3>1 DEF ItemStands
    <3>4. \A i \in DOMAIN new.items : ItemStands(rules, m, p, base, new, i)
      BY <2>7, <3>2, <3>3
    <3>5. Grown(m, base, new.projects) /\ new.projects \in Partial(Projects, Paths)
      BY <2>10, <3>1
    <3>6. QED
      BY <2>1, <2>8, <3>4, <3>5 DEF ListInv
  <2>5. CASE item.kind \in {"add", "placed"}
    <3>1. /\ DOMAIN new.projects = DOMAIN acc.projects \cup {n} /\ new.projects[n] = item.root
          /\ \A k \in DOMAIN acc.projects : k # n => new.projects[k] = acc.projects[k]
      BY <2>3, <2>5 DEF With
    <3>2. item.to = n
      BY <2>2, <2>5
    <3>3. NewHere(m, base, new.projects, n)
      BY <2>2, <2>5, <2>10, <3>1 DEF NewHere, Grown, FollowsAPlace
    <3>4. \A i \in DOMAIN acc.items : ItemStands(rules, m, p, base, new, i)
      <4>1. SUFFICES ASSUME NEW i \in DOMAIN acc.items PROVE ItemStands(rules, m, p, base, new, i)
        OBVIOUS
      <4>2. ItemStands(rules, m, p, base, acc, i) /\ i # n /\ new.items[i] = acc.items[i]
        BY <2>7, <2>9
      <4>3. CASE acc.items[i].to = n
        <5>1. acc.items[i].kind \in {"add", "placed"} => FALSE
          BY <4>2, <4>3 DEF ItemStands
        <5>2. acc.items[i].to # None => item.kind = "placed"
          BY <2>2, <2>5, <4>2, <4>3 DEF ItemStands
        <5>3. QED
          BY <2>7, <3>1, <4>2, <4>3, <5>1, <5>2 DEF ItemStands
      <4>4. CASE acc.items[i].to # n
        BY <2>7, <3>1, <4>2, <4>4 DEF ItemStands, NewHere
      <4>5. QED
        BY <4>3, <4>4
    <3>5. ItemStands(rules, m, p, base, new, n)
      BY <2>7, <3>1, <3>2, <3>3 DEF ItemStands
    <3>9. new.projects \in Partial(Projects, Paths)
      BY <2>3, <2>5, <2>10, <2>11, <2>12, WithPartial
    <3>6. Grown(m, base, new.projects)
      BY <2>10, <3>1, <3>3 DEF Grown, NewHere
    <3>7. \A i \in DOMAIN new.items : ItemStands(rules, m, p, base, new, i)
      BY <2>7, <3>4, <3>5
    <3>8. QED
      BY <2>1, <2>8, <3>6, <3>7, <3>9 DEF ListInv
  <2>6. QED
    BY <2>1, <2>4, <2>5
<1>3. QED
  BY <1>1, <1>2

\* So it stands when the list is merged, whatever was here.
LEMMA ListMerged ==
    ASSUME TypeOK, NEW rules, rules \subseteq Rules, NEW m \in Machines, NEW p \in Readable(m), NEW base,
           NEW here \in Partial(Projects, Paths), Grown(m, base, here)
    PROVE  ListInv(rules, m, p, base, MergeProjects(rules, m, p, here), LastProject)
<1>1. PICK g : ProjectsUpTo(rules, m, p, here, g, LastProject) /\ MergeProjects(rules, m, p, here) = g[LastProject]
  BY ProjectsLoop
<1>2. /\ g[0] = [projects |-> here, items |-> Nowhere]
      /\ \A i \in 1..LastProject : g[i] = TakeProject(rules, m, p, g[i - 1], i)
  BY <1>1, ProjectAssumption DEF ProjectsUpTo
<1> DEFINE T == {i \in 0..LastProject : ~ListInv(rules, m, p, base, g[i], i)}
<1>3. T = {}
  <2>1. SUFFICES ASSUME T # {} PROVE FALSE
    OBVIOUS
  <2>6. T \subseteq Nat
    BY ProjectAssumption
  <2>2. PICK n \in T : \A k \in T : n <= k
    BY <2>1, <2>6, LeastNumber
  <2>3. CASE n = 0
    <3>1. Nowhere = [x \in {} |-> None] /\ DOMAIN g[0].items = {} /\ g[0].projects = here
      BY <1>2 DEF Nowhere
    <3>2. ListInv(rules, m, p, base, g[0], 0)
      BY <3>1 DEF ListInv
    <3>3. QED
      BY <2>2, <2>3, <3>2
  <2>4. CASE n # 0
    <3>1. n \in Nat /\ n - 1 \in 0..LastProject /\ n \in 1..LastProject
      BY <2>2, <2>4, ProjectAssumption
    <3>2. ListInv(rules, m, p, base, g[n - 1], n - 1)
      BY <2>2, <3>1
    <3>3. ListInv(rules, m, p, base, g[n], n)
      BY <1>2, <2>4, <3>1, <3>2, ProjectTaken
    <3>4. QED
      BY <2>2, <3>3
  <2>5. QED
    BY <2>3, <2>4
<1>4. QED
  BY <1>1, <1>3, ProjectAssumption

\* Of one list, what differs there and stands here where the rules put it is not made one project.
ApartIn(items, folders, roots) ==
    \A i, j \in DOMAIN items :
        /\ roots[i] # roots[j] /\ items[i].to = items[j].to
        /\ items[i].to # None /\ folders[i] # None /\ items[i].root = folders[i]
        /\ items[j].to # None /\ folders[j] # None /\ items[j].root = folders[j]
        => \E k \in DOMAIN items : k = items[i].to /\ items[k].kind = "placed"

\* So the property holds of one list.
LEMMA ListApart ==
    ASSUME NEW rules, NEW m, NEW p, NEW base, NEW acc, NEW folders, NEW roots,
           ListInv(rules, m, p, base, acc, LastProject), roots = seen[m][p].content.projects,
           folders = [i \in DOMAIN roots |-> MapRoot(rules, m, p, roots[i]).at]
    PROVE  ApartIn(acc.items, folders, roots)
<1>1. SUFFICES ASSUME NEW i \in DOMAIN acc.items, NEW j \in DOMAIN acc.items, roots[i] # roots[j],
                      acc.items[i].to = acc.items[j].to, acc.items[i].to # None,
                      folders[i] # None, acc.items[i].root = folders[i],
                      folders[j] # None, acc.items[j].root = folders[j],
                      ~\E k \in DOMAIN acc.items : k = acc.items[i].to /\ acc.items[k].kind = "placed"
               PROVE  FALSE
  BY DEF ApartIn
<1>2. i \in DOMAIN roots /\ j \in DOMAIN roots
  BY DEF ListInv
<1>3. ItemStands(rules, m, p, base, acc, i) /\ ItemStands(rules, m, p, base, acc, j)
  BY DEF ListInv
<1>4. acc.items[i].root = acc.projects[acc.items[i].to] /\ acc.items[j].root = acc.projects[acc.items[i].to]
  BY <1>1, <1>3 DEF ItemStands
<1>5. folders[i] = folders[j] /\ folders[i] # None
  BY <1>1, <1>4
<1>6. i \in Collapsing(rules, m, p) /\ j \in Collapsing(rules, m, p)
  BY <1>1, <1>2, <1>5 DEF Collapsing
<1>7. acc.items[i].to = i /\ acc.items[j].to = j
  BY <1>1, <1>3, <1>6 DEF ItemStands
<1>8. QED
  BY <1>1, <1>7

-----------------------------------------------------------------------------
(* Order, pins, bindings and sections of one list keep their types. *)

\* The elements of the first n that are in S.
OnlyUpTo(seq, S, g, n) ==
    g = [k \in 0..n |-> IF k = 0 THEN <<>> ELSE IF seq[k] \in S THEN Append(g[k - 1], seq[k]) ELSE g[k - 1]]
\* The elements of a sequence that are in S are one.
LEMMA OnlyTyped == ASSUME NEW T, NEW S, NEW seq \in Seq(T) PROVE Only(seq, S) \in Seq(T \cap S)
<1> DEFINE Run(g, n) == OnlyUpTo(seq, S, g, n)
           P == {n \in Nat : n <= Len(seq) => \E g : Run(g, n) /\ g[n] \in Seq(T \cap S)}
           Q == Nat \ P
<1>1. Len(seq) \in Nat /\ \A k \in 1..Len(seq) : seq[k] \in T
  OBVIOUS
<1>2. Q = {}
  <2>1. SUFFICES ASSUME Q # {} PROVE FALSE
    OBVIOUS
  <2>2. PICK n \in Q : \A k \in Q : n <= k
    BY <2>1, LeastNumber
  <2>3. n \in Nat /\ n <= Len(seq) /\ ~\E g : Run(g, n) /\ g[n] \in Seq(T \cap S)
    BY <2>2
  <2>4. n # 0
    <3> DEFINE h == [k \in 0..0 |-> <<>>]
    <3>1. Run(h, 0) /\ h[0] \in Seq(T \cap S)
      BY DEF OnlyUpTo
    <3>2. QED
      BY <2>3, <3>1
  <2>5. n - 1 \in Nat /\ n - 1 \notin Q /\ n - 1 <= Len(seq) /\ n \in 1..Len(seq)
    BY <1>1, <2>2, <2>3, <2>4
  <2>6. PICK g : Run(g, n - 1) /\ g[n - 1] \in Seq(T \cap S)
    BY <2>5
  <2> DEFINE next == IF seq[n] \in S THEN Append(g[n - 1], seq[n]) ELSE g[n - 1]
             h == [k \in 0..n |-> IF k = n THEN next ELSE g[k]]
  <2>7. h[n] \in Seq(T \cap S)
    BY <1>1, <2>3, <2>5, <2>6
  <2>8. Run(h, n)
    <3>1. \A k \in 0..(n - 1) : g[k] = IF k = 0 THEN <<>> ELSE IF seq[k] \in S THEN Append(g[k - 1], seq[k]) ELSE g[k - 1]
      BY <2>6 DEF OnlyUpTo
    <3>2. \A k \in 0..n : h[k] = IF k = 0 THEN <<>> ELSE IF seq[k] \in S THEN Append(h[k - 1], seq[k]) ELSE h[k - 1]
      BY <2>4, <2>5, <3>1
    <3>3. QED
      BY <3>2 DEF OnlyUpTo
  <2>9. QED
    BY <2>3, <2>7, <2>8
<1>3. PICK g : Run(g, Len(seq)) /\ g[Len(seq)] \in Seq(T \cap S)
  BY <1>1, <1>2
<1> DEFINE G == CHOOSE f : Run(f, Len(seq))
<1>4. Run(G, Len(seq))
  BY <1>3
<1>5. Only(seq, S) = G[Len(seq)]
  BY DEF Only, OnlyUpTo
<1>6. G[Len(seq)] = g[Len(seq)]
  <2> HIDE DEF G
  <2>1. SUFFICES ASSUME {k \in 0..Len(seq) : G[k] # g[k]} # {} PROVE FALSE
    BY <1>1
  <2> DEFINE D == {k \in 0..Len(seq) : G[k] # g[k]}
  <2>2. D \subseteq Nat /\ D # {}
    BY <2>1
  <2>3. PICK n \in D : \A k \in D : n <= k
    BY <2>2, LeastNumber
  <2>4. CASE n = 0
    BY <1>1, <1>3, <1>4, <2>3, <2>4 DEF OnlyUpTo
  <2>5. CASE n # 0
    <3>1. n - 1 \in 0..Len(seq) /\ n \in 0..Len(seq) /\ G[n - 1] = g[n - 1]
      BY <1>1, <2>3, <2>5
    <3>2. G[n] = g[n]
      BY <1>3, <1>4, <2>5, <3>1 DEF OnlyUpTo
    <3>3. QED
      BY <2>3, <3>2
  <2>6. QED
    BY <2>4, <2>5
<1>7. QED
  BY <1>3, <1>5, <1>6

\* A sequence without its repetitions is of the same kind.
LEMMA UniqueTyped == ASSUME NEW T, NEW seq \in Seq(T) PROVE Unique(seq) \in Seq(T)
<1> DEFINE all == [k \in 1..Len(seq) |-> k]
           S == {k \in 1..Len(seq) : \A j \in 1..(k - 1) : seq[j] # seq[k]}
           first == Only(all, S)
<1>1. all \in Seq(1..Len(seq))
  OBVIOUS
<1>2. first \in Seq((1..Len(seq)) \cap S)
  BY <1>1, OnlyTyped
<1> HIDE DEF first
<1>3. Len(first) \in Nat /\ \A n \in 1..Len(first) : first[n] \in 1..Len(seq)
  BY <1>2
<1>4. [n \in 1..Len(first) |-> seq[first[n]]] \in Seq(T)
  BY <1>3
<1>5. QED
  BY <1>4 DEF Unique, first

\* What a list becomes: its projects are projects here.
LEMMA OrderTyped ==
    ASSUME NEW order \in Seq(Projects), NEW list \in Contents, NEW items, NEW fresh,
           \A i \in DOMAIN Translate(items) : Translate(items)[i] \in Projects
    PROVE  MergeOrder(order, list, items, fresh) \in Seq(Projects)
<1> DEFINE trans == Translate(items)
           known == Only(list.order, DOMAIN trans)
           theirs == Unique([k \in 1..Len(known) |-> trans[known[k]]])
           new == Only(InOrder, {i \in SettledNow(items) : i \notin ToSet(order)})
<1>1. theirs \in Seq(Projects)
  <2>1. known \in Seq(Projects \cap DOMAIN trans)
    BY OnlyTyped DEF Contents
  <2> HIDE DEF known, trans
  <2>2. Len(known) \in Nat /\ \A k \in 1..Len(known) : known[k] \in DOMAIN trans
    BY <2>1
  <2>3. [k \in 1..Len(known) |-> trans[known[k]]] \in Seq(Projects)
    BY <2>2 DEF trans
  <2>4. QED
    BY <2>3, UniqueTyped
<1>2. new \in Seq(Projects)
  <2>1. InOrder \in Seq(Projects)
    BY ProjectAssumption DEF InOrder, Projects
  <2> DEFINE S == {i \in SettledNow(items) : i \notin ToSet(order)}
  <2>2. new = Only(InOrder, S)
    OBVIOUS
  <2> HIDE DEF S, new
  <2>3. Only(InOrder, S) \in Seq(Projects \cap S)
    BY <2>1, OnlyTyped
  <2>4. QED
    BY <2>2, <2>3
<1>3. Only(order, Projects \ ToSet(theirs)) \in Seq(Projects)
  <2> DEFINE S == Projects \ ToSet(theirs)
  <2>1. Only(order, Projects \ ToSet(theirs)) = Only(order, S)
    OBVIOUS
  <2> HIDE DEF S, theirs
  <2>2. Only(order, S) \in Seq(Projects \cap S)
    BY OnlyTyped
  <2>3. QED
    BY <2>1, <2>2
<1>4. QED
  BY <1>1, <1>2, <1>3 DEF MergeOrder

\* What is pinned is a project there is.
LEMMA PinsTyped ==
    ASSUME NEW P, NEW pinned, pinned \subseteq P, NEW list, NEW items, NEW fresh,
           \A i \in DOMAIN Translate(items) : Translate(items)[i] \in P
    PROVE  MergePins(pinned, list, items, fresh) \subseteq P
<1> DEFINE trans == Translate(items)
<1>1. \A i \in DOMAIN trans : trans[i] \in P
  OBVIOUS
<1> HIDE DEF trans
<1>2. {trans[i] : i \in list.pinned \cap DOMAIN trans} \cup (pinned \ Range(trans)) \subseteq P
  BY <1>1
<1>3. MergePins(pinned, list, items, fresh) \in {{trans[i] : i \in list.pinned \cap DOMAIN trans} \cup (pinned \ Range(trans)), pinned}
  BY DEF MergePins, trans
<1>4. QED
  BY <1>2, <1>3

\* The sections after the first n of the list.
SectionsUpTo(sections, list, trans, fresh, g, n) ==
    g = [s \in 0..n |-> IF s = 0 THEN sections ELSE TakeSection(g[s - 1], list, trans, fresh, s)]

\* One more section.
LEMMA SectionTaken ==
    ASSUME NEW acc \in Partial(Sections, SUBSET Items), NEW list \in Contents, NEW trans, NEW fresh, NEW s \in Sections,
           \A i \in DOMAIN trans : trans[i] \in Projects
    PROVE  TakeSection(acc, list, trans, fresh, s) \in Partial(Sections, SUBSET Items)
<1> DEFINE ours(key) == key[1] = "chat" \/ key[2] \in DOMAIN trans
           translated(key) == IF key[1] = "chat" THEN key ELSE Key("project", trans[key[2]])
           peerKnows(key) == key[1] = "project" /\ key[2] \in Range(trans)
           offered == {translated(key) : key \in {k \in list.sections[s] : ours(k)}}
           kept == IF s \in DOMAIN acc THEN {k \in acc[s] : ~peerKnows(k)} ELSE {}
           put == IF fresh THEN offered ELSE offered \ UNION Range(acc)
           rest == [o \in DOMAIN acc |-> acc[o] \ put]
<1>1. CASE s \notin DOMAIN list.sections \/ (s \in DOMAIN acc /\ ~fresh)
  BY <1>1 DEF TakeSection
<1>2. CASE ~(s \notin DOMAIN list.sections \/ (s \in DOMAIN acc /\ ~fresh))
  <2>1. DOMAIN acc \subseteq Sections /\ \A o \in DOMAIN acc : acc[o] \subseteq Items
    BY PartialParts
  <2>2. list.sections[s] \subseteq Items
    <3>1. list.sections \in Partial(Sections, SUBSET Items)
      BY DEF Contents
    <3>2. QED
      BY <1>2, <3>1, PartialParts
  <2>3. \A key \in Items : ours(key) => translated(key) \in Items
    BY DEF Items, Key
  <2>4. offered \subseteq Items
    BY <2>2, <2>3
  <2>5. put \subseteq Items /\ kept \subseteq Items
    BY <2>1, <2>4
  <2> HIDE DEF put, kept
  <2>6. rest \in Partial(Sections, SUBSET Items)
    <3>1. DOMAIN rest \subseteq Sections /\ rest = [o \in DOMAIN rest |-> rest[o]] /\ \A o \in DOMAIN rest : rest[o] \in SUBSET Items
      BY <2>1
    <3> HIDE DEF rest
    <3>2. QED
      BY <3>1, PartialParts
  <2>7. TakeSection(acc, list, trans, fresh, s) = With(rest, s, put \cup kept)
    BY <1>2 DEF TakeSection, put, kept
  <2> HIDE DEF rest
  <2>8. QED
    BY <2>5, <2>6, <2>7, WithPartial
<1>3. QED
  BY <1>1, <1>2

\* All of them.
LEMMA SectionsTyped ==
    ASSUME NEW sections \in Partial(Sections, SUBSET Items), NEW list \in Contents, NEW items, NEW fresh,
           \A i \in DOMAIN Translate(items) : Translate(items)[i] \in Projects
    PROVE  MergeSections(sections, list, items, fresh) \in Partial(Sections, SUBSET Items)
<1> DEFINE trans == Translate(items)
           Typed == Partial(Sections, SUBSET Items)
           Run(g, n) == SectionsUpTo(sections, list, trans, fresh, g, n)
           Q == {n \in Nat : n <= LastSection /\ ~\E g : Run(g, n)}
<1>1. Q = {}
  <2>1. SUFFICES ASSUME Q # {} PROVE FALSE
    OBVIOUS
  <2>2. PICK n \in Q : \A k \in Q : n <= k
    BY <2>1, LeastNumber
  <2>3. n # 0
    <3>1. Run([k \in 0..0 |-> sections], 0)
      BY DEF SectionsUpTo
    <3>2. QED
      BY <2>2, <3>1
  <2>4. n \in Nat /\ n - 1 \in Nat /\ n - 1 \notin Q /\ n <= LastSection /\ n - 1 <= LastSection
    BY <2>2, <2>3, ProjectAssumption
  <2>5. PICK g : Run(g, n - 1)
    BY <2>4
  <2> DEFINE h == [k \in 0..n |-> IF k = n THEN TakeSection(g[n - 1], list, trans, fresh, n) ELSE g[k]]
  <2>6. Run(h, n)
    <3>1. \A k \in 0..(n - 1) : g[k] = IF k = 0 THEN sections ELSE TakeSection(g[k - 1], list, trans, fresh, k)
      BY <2>5 DEF SectionsUpTo
    <3>2. \A k \in 0..n : h[k] = IF k = 0 THEN sections ELSE TakeSection(h[k - 1], list, trans, fresh, k)
      BY <2>3, <2>4, <3>1
    <3>3. QED
      BY <3>2 DEF SectionsUpTo
  <2>7. QED
    BY <2>2, <2>4, <2>6
<1>2. \E g : Run(g, LastSection)
  BY <1>1, ProjectAssumption
<1> DEFINE G == CHOOSE g : Run(g, LastSection)
<1>3. Run(G, LastSection)
  BY <1>2
<1>4. MergeSections(sections, list, items, fresh) = G[LastSection]
  BY DEF MergeSections, SectionsUpTo
<1> HIDE DEF G
<1>5. G[0] = sections /\ \A s \in Sections : G[s] = TakeSection(G[s - 1], list, trans, fresh, s)
  BY <1>3, ProjectAssumption DEF SectionsUpTo, Sections
<1> DEFINE T == {s \in 0..LastSection : G[s] \notin Typed}
<1>6. T = {}
  <2>1. SUFFICES ASSUME T # {} PROVE FALSE
    OBVIOUS
  <2>2. T \subseteq Nat
    BY ProjectAssumption
  <2>3. PICK s \in T : \A k \in T : s <= k
    BY <2>1, <2>2, LeastNumber
  <2>4. s # 0
    BY <1>5, <2>3
  <2>5. s \in Sections /\ s - 1 \in 0..LastSection
    BY <2>3, <2>4, ProjectAssumption DEF Sections
  <2>6. G[s - 1] \in Typed
    <3> HIDE DEF T
    <3>1. s - 1 \notin T
      BY <2>3, <2>5, ProjectAssumption DEF Sections
    <3>2. QED
      BY <2>5, <3>1 DEF T
  <2> HIDE DEF trans
  <2>7. \A i \in DOMAIN trans : trans[i] \in Projects
    BY DEF trans
  <2>8. G[s] \in Typed
    <3>1. TakeSection(G[s - 1], list, trans, fresh, s) \in Typed
      BY <2>5, <2>6, <2>7, SectionTaken
    <3>2. G[s] = TakeSection(G[s - 1], list, trans, fresh, s)
      BY <1>5, <2>5
    <3>3. QED
      BY <3>1, <3>2
  <2>9. QED
    BY <2>3, <2>8
<1>7. G[LastSection] \in Typed
  <2>1. LastSection \in 0..LastSection
    BY ProjectAssumption
  <2> HIDE DEF T
  <2>3. LastSection \notin T
    BY <1>6
  <2>2. QED
    BY <2>1, <2>3 DEF T
<1>8. QED
  BY <1>4, <1>7

-----------------------------------------------------------------------------
(* The merge of all lists goes by the lists, one after the other. *)

\* The merge of the first n lists: the news of each machine, then the others.
ListsUpTo(m, rules, g, n) ==
    g = [k \in 0..n |-> IF k = 0 THEN [s |-> state[m], items |-> Nowhere] ELSE TakeList(rules, m, g[k - 1], k)]

\* This loop is defined, too.
LEMMA ListsLoop ==
    ASSUME NEW rules, NEW m
    PROVE  \E g : ListsUpTo(m, rules, g, 2 * LastMachine) /\ Merged(m, rules) = g[2 * LastMachine]
<1> DEFINE Run(g, n) == ListsUpTo(m, rules, g, n)
           Start == [s |-> state[m], items |-> Nowhere]
           T == {n \in Nat : ~\E g : Run(g, n)}
<1>1. T = {}
  <2>1. SUFFICES ASSUME T # {} PROVE FALSE
    OBVIOUS
  <2>2. PICK n \in T : \A k \in T : n <= k
    BY <2>1, LeastNumber
  <2>3. n # 0
    <3>1. Run([k \in 0..0 |-> Start], 0)
      BY DEF ListsUpTo
    <3>2. QED
      BY <2>2, <3>1
  <2>4. n \in Nat /\ n - 1 \in Nat /\ n - 1 \notin T
    BY <2>2, <2>3
  <2>5. PICK g : Run(g, n - 1)
    BY <2>4
  <2> DEFINE h == [k \in 0..n |-> IF k = n THEN TakeList(rules, m, g[n - 1], n) ELSE g[k]]
  <2>6. Run(h, n)
    <3>1. \A k \in 0..(n - 1) : g[k] = IF k = 0 THEN Start ELSE TakeList(rules, m, g[k - 1], k)
      BY <2>5 DEF ListsUpTo
    <3>2. \A k \in 0..n : h[k] = IF k = 0 THEN Start ELSE TakeList(rules, m, h[k - 1], k)
      BY <2>3, <2>4, <3>1
    <3>3. QED
      BY <3>2 DEF ListsUpTo
  <2>7. QED
    BY <2>2, <2>6
<1>2. 2 * LastMachine \in Nat
  BY ProjectAssumption
<1>3. \E g : Run(g, 2 * LastMachine)
  BY <1>1, <1>2
<1> DEFINE G == CHOOSE g : Run(g, 2 * LastMachine)
<1>4. Run(G, 2 * LastMachine)
  BY <1>3
<1>5. Merged(m, rules) = G[2 * LastMachine]
  BY DEF Merged, ListsUpTo
<1>6. QED
  BY <1>4, <1>5

\* Where the rules put the folders of a list.
FoldersOf(rules, m, p) ==
    [i \in DOMAIN seen[m][p].content.projects |-> MapRoot(rules, m, p, seen[m][p].content.projects[i]).at]
\* A chat stays where it was, goes where a list not taken yet has it, or into a project that is new.
Moved(m, s, c) ==
    \/ s.binding[c] = state[m].binding[c]
    \/ \E p \in Pending(m) : seen[m][p].content.binding[c] # None
    \/ s.binding[c] \in DOMAIN s.projects /\ NewHere(m, state[m].projects, s.projects, s.binding[c])
\* What holds after each list.
PlanInv(rules, m, acc) ==
    /\ acc.s \in States /\ Consistent(acc.s) /\ acc.s.out = state[m].out /\ Grown(m, state[m].projects, acc.s.projects)
    /\ DOMAIN acc.items \subseteq Readable(m)
    /\ \A p \in DOMAIN acc.items : \A i \in DOMAIN Translate(acc.items[p]) : Translate(acc.items[p])[i] \in DOMAIN acc.s.projects
    /\ \A p \in DOMAIN acc.items : ApartIn(acc.items[p], FoldersOf(rules, m, p), seen[m][p].content.projects)
    /\ \A c \in Chats : Moved(m, acc.s, c) /\ (acc.s.binding[c] = None => state[m].binding[c] = None)

\* One more list.
LEMMA ListTaken ==
    ASSUME TypeOK, NEW rules, rules \subseteq Rules, NEW m \in Machines, NEW p \in Readable(m), NEW acc,
           PlanInv(rules, m, acc)
    PROVE  PlanInv(rules, m, MergeList(rules, m, acc, p))
<1> DEFINE merged == MergeProjects(rules, m, p, acc.s.projects)
           list == seen[m][p].content
           fresh == p \in Pending(m)
           new == MergeList(rules, m, acc, p)
           trans == Translate(merged.items)
           base == state[m].projects
<1>1. /\ new.items = With(acc.items, p, merged.items) /\ new.s.projects = merged.projects
      /\ new.s.out = acc.s.out /\ new.s.binding = MergeBinding(acc.s.binding, list, merged.items, fresh)
  BY DEF MergeList, MergeRest
<1>2. Grown(m, base, acc.s.projects) /\ Grown(m, acc.s.projects, acc.s.projects)
      /\ acc.s \in States /\ acc.s.projects \in Partial(Projects, Paths) /\ Consistent(acc.s)
  BY DEF PlanInv, Grown, States
<1>3. ListInv(rules, m, p, base, merged, LastProject) /\ ListInv(rules, m, p, acc.s.projects, merged, LastProject)
  BY <1>2, ListMerged
<1> HIDE DEF merged, new
<1>4. Grown(m, base, merged.projects) /\ Grown(m, acc.s.projects, merged.projects)
  BY <1>3 DEF ListInv
<1>5. \A q \in DOMAIN new.items : ApartIn(new.items[q], FoldersOf(rules, m, q), seen[m][q].content.projects)
  <2>1. ApartIn(merged.items, FoldersOf(rules, m, p), list.projects)
    BY <1>3, ListApart DEF FoldersOf
  <2>2. \A q \in DOMAIN acc.items : ApartIn(acc.items[q], FoldersOf(rules, m, q), seen[m][q].content.projects)
    BY DEF PlanInv
  <2>3. QED
    BY <1>1, <2>1, <2>2 DEF With
<1>6. DOMAIN new.items \subseteq Readable(m)
  BY <1>1 DEF PlanInv, With
<1>7. /\ \A i \in DOMAIN trans : trans[i] # None /\ trans[i] \in DOMAIN merged.projects /\ i \in Projects
      /\ \A i \in DOMAIN trans \cap SettledNow(merged.items) : NewHere(m, base, merged.projects, trans[i])
  <2>1. /\ DOMAIN trans = {i \in DOMAIN merged.items : merged.items[i].to # None}
        /\ \A i \in DOMAIN trans : trans[i] = merged.items[i].to
    BY DEF Translate, Restrict
  <2>2. \A i \in DOMAIN merged.items : i \in Projects /\ ItemStands(rules, m, p, base, merged, i)
    BY <1>3 DEF ListInv, Projects
  <2> HIDE DEF trans, base
  <2>3. QED
    BY <2>1, <2>2 DEF ItemStands, SettledNow
<1>8. ASSUME NEW c \in Chats
      PROVE  Moved(m, new.s, c) /\ (new.s.binding[c] = None => state[m].binding[c] = None)
  <2>1. Moved(m, acc.s, c) /\ (acc.s.binding[c] = None => state[m].binding[c] = None)
    BY DEF PlanInv
  <2> DEFINE wins == /\ list.binding[c] \in DOMAIN trans
                     /\ fresh \/ (list.binding[c] \in SettledNow(merged.items) /\ acc.s.binding[c] = None)
  <2>2. new.s.binding[c] = IF wins THEN trans[list.binding[c]] ELSE acc.s.binding[c]
    BY <1>1 DEF MergeBinding
  <2>3. CASE wins
    <3>1. new.s.binding[c] # None
      BY <1>7, <2>2, <2>3
    <3>2. CASE fresh
      <4>1. list.binding[c] # None
        BY <1>7, <2>3, NoneAssumption
      <4>2. QED
        BY <3>1, <3>2, <4>1 DEF Moved
    <3>3. CASE ~fresh
      BY <1>1, <1>7, <2>2, <2>3, <3>1, <3>3 DEF Moved
    <3>4. QED
      BY <3>2, <3>3
  <2>4. CASE ~wins
    <3>1. new.s.binding[c] = acc.s.binding[c]
      BY <2>2, <2>4
    <3>2. ASSUME acc.s.binding[c] \in DOMAIN acc.s.projects, NewHere(m, base, acc.s.projects, acc.s.binding[c])
          PROVE  acc.s.binding[c] \in DOMAIN merged.projects /\ NewHere(m, base, merged.projects, acc.s.binding[c])
      BY <1>4, <3>2 DEF Grown, NewHere
    <3>3. QED
      BY <1>1, <2>1, <3>1, <3>2 DEF Moved
  <2>5. QED
    BY <2>3, <2>4
<1>9. new.s.out = state[m].out
  BY <1>1 DEF PlanInv
<1>11. list \in Contents /\ merged.projects \in Partial(Projects, Paths) /\ DOMAIN merged.projects \subseteq Projects
  BY <1>3, ReadableParts, PartialParts DEF ListInv
<1>12. \A i \in DOMAIN trans : trans[i] \in Projects
  BY <1>7, <1>11
<1>13. new.s = [projects |-> merged.projects, out |-> acc.s.out,
                order |-> MergeOrder(acc.s.order, list, merged.items, fresh),
                pinned |-> MergePins(acc.s.pinned, list, merged.items, fresh),
                binding |-> MergeBinding(acc.s.binding, list, merged.items, fresh),
                sections |-> MergeSections(acc.s.sections, list, merged.items, fresh)]
  BY DEF new, MergeList, MergeRest, merged
<1>14. DOMAIN acc.s.projects \subseteq DOMAIN merged.projects
  BY <1>4 DEF Grown
<1>15. new.s.order \in Seq(Projects)
  BY <1>2, <1>11, <1>12, <1>13, OrderTyped DEF States
<1>16. new.s.pinned \subseteq DOMAIN merged.projects
  <2>1. acc.s.pinned \subseteq DOMAIN merged.projects
    BY <1>2, <1>14 DEF Consistent
  <2>2. MergePins(acc.s.pinned, list, merged.items, fresh) \subseteq DOMAIN merged.projects
    BY <1>7, <2>1, PinsTyped
  <2>3. QED
    BY <1>13, <2>2
<1>17. new.s.binding \in [Chats -> DOMAIN merged.projects \cup {None}]
  <2>1. \A c \in Chats : acc.s.binding[c] \in DOMAIN merged.projects \cup {None}
    BY <1>2, <1>14 DEF Consistent
  <2> HIDE DEF trans
  <2>2. MergeBinding(acc.s.binding, list, merged.items, fresh) \in [Chats -> DOMAIN merged.projects \cup {None}]
    BY <1>7, <2>1 DEF MergeBinding, trans
  <2>3. QED
    BY <1>13, <2>2
<1>18. new.s.sections \in Partial(Sections, SUBSET Items)
  <2>1. acc.s.sections \in Partial(Sections, SUBSET Items)
    BY <1>2 DEF States
  <2>2. MergeSections(acc.s.sections, list, merged.items, fresh) \in Partial(Sections, SUBSET Items)
    BY <1>11, <1>12, <2>1, SectionsTyped
  <2>3. QED
    BY <1>13, <2>2
<1>19. new.s \in States /\ Consistent(new.s)
  <2>1. new.s.out \in SUBSET Chats
    BY <1>1, <1>2 DEF States
  <2>2. new.s.projects = merged.projects
    BY <1>1
  <2>3. new.s = [projects |-> new.s.projects, out |-> new.s.out, order |-> new.s.order, pinned |-> new.s.pinned,
                 binding |-> new.s.binding, sections |-> new.s.sections]
    BY <1>13
  <2>4. \A c \in Chats : new.s.binding[c] \in DOMAIN new.s.projects \cup {None}
    BY <1>17, <2>2
  <2>5. new.s.binding \in [Chats -> Projects \cup {None}]
    BY <1>11, <1>17
  <2>6. QED
    BY <1>11, <1>15, <1>16, <1>18, <2>1, <2>2, <2>3, <2>4, <2>5 DEF States, Consistent
<1>20. ASSUME NEW q \in DOMAIN new.items, NEW i \in DOMAIN Translate(new.items[q])
       PROVE  Translate(new.items[q])[i] \in DOMAIN new.s.projects
  <2>1. CASE q = p
    BY <1>1, <1>7, <1>20, <2>1 DEF With
  <2>2. CASE q # p
    <3>1. q \in DOMAIN acc.items /\ new.items[q] = acc.items[q]
      BY <1>1, <2>2 DEF With
    <3>2. Translate(acc.items[q])[i] \in DOMAIN acc.s.projects
      BY <1>20, <3>1 DEF PlanInv
    <3>3. QED
      BY <1>1, <1>14, <3>1, <3>2
  <2>3. QED
    BY <2>1, <2>2
<1>10. QED
  BY <1>1, <1>4, <1>5, <1>6, <1>8, <1>9, <1>19, <1>20 DEF PlanInv, new

\* What the rules are made of.
LEMMA RulesTyped == ASSUME TypeOK, NEW m \in Machines PROVE PathRules(m) \subseteq Rules
<1>1. \A o \in Machines : ToldHere(o) \subseteq Rules
  BY DEF TypeOK, ToldHere
<1>2. ToldThere(m) \subseteq Rules
  BY <1>1 DEF ToldThere, Rules, Rule, Others
<1>3. Joined(m) \subseteq Rules
  BY <1>1 DEF Joined, JoinedBy, Rules, Rule, Others
<1>4. ProjectRules(m) \subseteq Rules
  <2>1. SUFFICES ASSUME NEW x \in ProjectRules(m) PROVE x \in Rules
    OBVIOUS
  <2>1a. PICK p \in Readable(m) : \E j \in DOMAIN seen[m][p].content.projects \cap DOMAIN state[m].projects :
                x = Rule(p, seen[m][p].content.projects[j], state[m].projects[j], FALSE)
    BY DEF ProjectRules
  <2>2. PICK j \in DOMAIN seen[m][p].content.projects \cap DOMAIN state[m].projects :
                x = Rule(p, seen[m][p].content.projects[j], state[m].projects[j], FALSE)
    BY <2>1a
  <2>3. seen[m][p].content.projects \in Partial(Projects, Paths) /\ state[m].projects \in Partial(Projects, Paths)
    BY ReadableParts DEF Contents, TypeOK, States
  <2>4. seen[m][p].content.projects[j] \in Paths /\ state[m].projects[j] \in Paths
    BY <2>3, PartialParts
  <2>5. QED
    BY <2>2, <2>4, ReadableParts DEF Rules, Rule
<1>5. ConfigRules[m] \subseteq Rules
  BY WorldAssumption
<1>6. QED
  BY <1>1, <1>2, <1>3, <1>4, <1>5 DEF PathRules

\* So every plan is of this kind.
LEMMA AllMerged ==
    ASSUME TypeOK, NEW rules, rules \subseteq Rules, NEW m \in Machines
    PROVE  PlanInv(rules, m, Merged(m, rules))
<1>1. PICK g : ListsUpTo(m, rules, g, 2 * LastMachine) /\ Merged(m, rules) = g[2 * LastMachine]
  BY ListsLoop
<1> DEFINE N == 2 * LastMachine
<1>2. N \in Nat
  BY ProjectAssumption
<1> HIDE DEF N
<1>3. /\ g[0] = [s |-> state[m], items |-> Nowhere]
      /\ \A k \in 1..N : g[k] = TakeList(rules, m, g[k - 1], k)
  BY <1>1, <1>2 DEF ListsUpTo, N
<1> DEFINE T == {k \in 0..N : ~PlanInv(rules, m, g[k])}
<1>4. T = {}
  <2>1. SUFFICES ASSUME T # {} PROVE FALSE
    OBVIOUS
  <2>6. T \subseteq Nat
    BY <1>2
  <2>2. PICK n \in T : \A k \in T : n <= k
    BY <2>1, <2>6, LeastNumber
  <2>3. CASE n = 0
    <3>1. DOMAIN g[0].items = {} /\ g[0].s = state[m]
      BY <1>3 DEF Nowhere
    <3>2. state[m] \in States /\ Consistent(state[m])
      BY DEF TypeOK
    <3>3. PlanInv(rules, m, g[0])
      BY <3>1, <3>2 DEF PlanInv, Moved, Grown
    <3>4. QED
      BY <2>2, <2>3, <3>3
  <2>4. CASE n # 0
    <3>1. n \in Nat /\ n - 1 \in 0..N /\ n \in 1..N
      BY <1>2, <2>2, <2>4
    <3>2. PlanInv(rules, m, g[n - 1])
      BY <2>2, <3>1
    <3> DEFINE p == IF n <= LastMachine THEN n ELSE n - LastMachine
    <3>3. g[n] = g[n - 1] \/ (p \in Readable(m) /\ g[n] = MergeList(rules, m, g[n - 1], p))
      BY <1>3, <3>1 DEF TakeList
    <3> HIDE DEF p
    <3>4. PlanInv(rules, m, g[n])
      BY <3>2, <3>3, ListTaken
    <3>5. QED
      BY <2>2, <3>4
  <2>5. QED
    BY <2>3, <2>4
<1>5. N \in 0..N
  BY <1>2
<1>6. PlanInv(rules, m, g[N])
  <2>1. N \notin T
    BY <1>4
  <2>2. QED
    BY <1>5, <2>1
<1>7. QED
  BY <1>1, <1>6 DEF N

\* A chat stays, follows a list not taken yet, goes into a project that is new, or had none and may be bound.
GoesBy(base, next, taken, c) ==
    /\ \/ next.binding[c] = base.binding[c]
       \/ \E p \in DOMAIN taken : taken[p].binding[c] # None
       \/ ~(next.binding[c] \in DOMAIN base.projects /\ next.projects[next.binding[c]] = base.projects[next.binding[c]])
       \/ base.binding[c] = None /\ c \notin base.out
    /\ next.binding[c] = None => base.binding[c] = None

\* The plan, with the chats that a folder binds.
LEMMA PlanParts ==
    ASSUME TypeOK, NEW m \in Machines, NEW plan, plan = Merge(m)
    PROVE  /\ plan.next \in States /\ Consistent(plan.next) /\ plan.next.out = state[m].out
           /\ \A p \in DOMAIN plan.becomes :
                 p \in Machines /\ ApartIn(plan.becomes[p], plan.folders[p], seen[m][p].content.projects)
           /\ plan.taken = [p \in Pending(m) |-> seen[m][p].content]
           /\ \A c \in Chats : GoesBy(state[m], plan.next, plan.taken, c)
<1> DEFINE rules == PathRules(m)
           merged == Merged(m, rules)
           order == Only(merged.s.order, DOMAIN merged.s.projects)
<1>1. rules \subseteq Rules /\ PlanInv(rules, m, merged)
  BY RulesTyped, AllMerged
<1>2. /\ plan.next = [merged.s EXCEPT !.order = order, !.binding = BindByFolder(m, merged)]
      /\ plan.becomes = merged.items
      /\ plan.folders = [p \in Readable(m) |-> FoldersOf(rules, m, p)]
      /\ plan.taken = [p \in Pending(m) |-> seen[m][p].content]
  BY DEF Merge, MergeBy, MergedAll, WithPlanId, FoldersOf
<1> HIDE DEF rules
<1>3. merged.s \in States /\ Consistent(merged.s) /\ merged.s.out = state[m].out /\ order \in Seq(Projects)
  <2> HIDE DEF merged
  <2>1. merged.s \in States /\ Consistent(merged.s) /\ merged.s.out = state[m].out
    BY <1>1 DEF PlanInv
  <2>2. merged.s.order \in Seq(Projects)
    BY <2>1 DEF States
  <2>3. order \in Seq(Projects \cap DOMAIN merged.s.projects)
    BY <2>2, OnlyTyped
  <2>4. order \in Seq(Projects)
    BY <2>3
  <2>5. QED
    BY <2>1, <2>4
<1> HIDE DEF merged, order
<1>4. ASSUME NEW c \in Chats
      PROVE  LET b == BoundByFolder(m, merged, c)
             IN  b = None \/ (b \in DOMAIN merged.s.projects /\ merged.s.binding[c] = None /\ c \notin state[m].out)
  <2> DEFINE there(p) == FolderOf(Cwd[c], seen[m][p].content.projects)
             found == {Translate(merged.items[p])[The(there(p))] :
                         p \in {q \in DOMAIN merged.items : /\ Cardinality(there(q)) = 1
                                                            /\ there(q) \subseteq DOMAIN Translate(merged.items[q])}}
  <2>1. found \subseteq DOMAIN merged.s.projects
    <3>1. SUFFICES ASSUME NEW p \in DOMAIN merged.items, Cardinality(there(p)) = 1,
                          there(p) \subseteq DOMAIN Translate(merged.items[p])
                   PROVE  Translate(merged.items[p])[The(there(p))] \in DOMAIN merged.s.projects
      OBVIOUS
    <3>2. The(there(p)) \in DOMAIN Translate(merged.items[p])
      BY <3>1, OnlyOne
    <3>3. QED
      BY <1>1, <3>2 DEF PlanInv
  <2> HIDE DEF found
  <2>2. \/ BoundByFolder(m, merged, c) = None
        \/ /\ BoundByFolder(m, merged, c) = The(found) /\ Cardinality(found) = 1
           /\ merged.s.binding[c] = None /\ c \notin KeptApart(m)
    BY DEF BoundByFolder, found
  <2>3. Cardinality(found) = 1 => The(found) \in found
    BY OnlyOne
  <2>4. QED
    BY <2>1, <2>2, <2>3 DEF KeptApart
<1>5. /\ plan.next.projects = merged.s.projects /\ plan.next.out = merged.s.out /\ plan.next.order = order
      /\ plan.next.pinned = merged.s.pinned /\ plan.next.sections = merged.s.sections
      /\ plan.next.binding = BindByFolder(m, merged)
      /\ plan.next = [projects |-> plan.next.projects, order |-> plan.next.order, pinned |-> plan.next.pinned,
                      out |-> plan.next.out, binding |-> plan.next.binding, sections |-> plan.next.sections]
  BY <1>2, <1>3 DEF States
<1>6. \A c \in Chats : /\ plan.next.binding[c] = IF BoundByFolder(m, merged, c) # None THEN BoundByFolder(m, merged, c)
                                                   ELSE merged.s.binding[c]
                       /\ plan.next.binding[c] \in DOMAIN merged.s.projects \cup {None}
  BY <1>3, <1>4, <1>5 DEF BindByFolder, Consistent
<1>7. plan.next \in States /\ Consistent(plan.next)
  <2>1. DOMAIN merged.s.projects \subseteq Projects
    BY <1>3, PartialParts DEF States
  <2>2. plan.next.binding \in [Chats -> Projects \cup {None}]
    <3>1. plan.next.binding = [c \in Chats |-> plan.next.binding[c]]
      BY <1>5 DEF BindByFolder
    <3>2. QED
      BY <1>6, <2>1, <3>1
  <2>3. QED
    BY <1>3, <1>5, <1>6, <2>2 DEF States, Consistent
<1>8. \A p \in DOMAIN plan.becomes : p \in Machines /\ ApartIn(plan.becomes[p], plan.folders[p], seen[m][p].content.projects)
  BY <1>1, <1>2, ReadableParts DEF PlanInv
<1>9. ASSUME NEW c \in Chats PROVE GoesBy(state[m], plan.next, plan.taken, c)
  <2>1. Moved(m, merged.s, c) /\ (merged.s.binding[c] = None => state[m].binding[c] = None)
    BY <1>1 DEF PlanInv
  <2>2. CASE BoundByFolder(m, merged, c) # None
    BY <1>4, <1>6, <2>1, <2>2 DEF GoesBy
  <2>3. CASE BoundByFolder(m, merged, c) = None
    <3>1. plan.next.binding[c] = merged.s.binding[c]
      BY <1>6, <2>3
    <3>2. CASE \E p \in Pending(m) : seen[m][p].content.binding[c] # None
      BY <1>2, <2>1, <3>1, <3>2 DEF GoesBy
    <3>3. CASE NewHere(m, state[m].projects, merged.s.projects, merged.s.binding[c])
      BY <1>5, <2>1, <3>1, <3>3 DEF GoesBy, NewHere
    <3>4. QED
      BY <2>1, <3>1, <3>2, <3>3 DEF GoesBy, Moved
  <2>4. QED
    BY <2>2, <2>3
<1>10. QED
  BY <1>2, <1>3, <1>5, <1>7, <1>8, <1>9

-----------------------------------------------------------------------------
(* What holds of the syncs of all machines. *)

\* The functions and records of the state are functions and records.
Shape ==
    /\ run = [m \in Machines |-> run[m]]
    /\ \A m \in Machines :
          run[m] = [pc |-> run[m].pc, base |-> run[m].base, next |-> run[m].next, becomes |-> run[m].becomes,
                    folders |-> run[m].folders, taken |-> run[m].taken, editions |-> run[m].editions, own |-> run[m].own]
    /\ chosen = [m \in Machines |-> [c \in Chats |-> chosen[m][c]]]
    /\ applied = [m \in Machines |-> applied[m]]

\* A sync that began keeps all others out.
OneSync == \A m, n \in Machines : run[m].pc # "idle" /\ run[n].pc # "idle" => m = n

\* What a plan was made of stays what it was made of.
PlanHeld(m) ==
    run[m].pc = "commit" =>
        /\ \A p \in DOMAIN run[m].becomes :
              p \in Machines /\ ApartIn(run[m].becomes[p], run[m].folders[p], seen[m][p].content.projects)
        /\ run[m].next.out = run[m].base.out
        /\ \A c \in Chats : GoesBy(run[m].base, run[m].next, run[m].taken, c)

\* A sync holds what it read; what it takes is newer than what was merged here before.
RunReads(m) ==
    run[m].pc # "idle" =>
        /\ run[m].own = seen[m][m]
        /\ DOMAIN run[m].taken \subseteq Others(m) /\ DOMAIN run[m].editions = DOMAIN run[m].taken
        /\ run[m].taken = [p \in DOMAIN run[m].taken |-> run[m].taken[p]]
        /\ \A p \in DOMAIN run[m].taken :
              /\ seen[m][p] \in Publications
              /\ run[m].taken[p] = seen[m][p].content /\ run[m].editions[p] = seen[m][p].edition
              /\ spent.mishaps = 0 => run[m].editions[p] >= applied[m][p]
              /\ spent.mishaps = 0 /\ run[m].pc = "commit" => run[m].editions[p] > applied[m][p]

\* Lists of one edition have one content, and a copy is never newer than the list.
Numbered ==
    /\ \A p \in Machines : board[p].edition >= 1
    /\ \A m, p \in Machines : seen[m][p] # None =>
          /\ seen[m][p].edition <= board[p].edition
          /\ seen[m][p].edition = board[p].edition => seen[m][p].content = board[p].content
    /\ spent.mishaps = 0 => \A m \in Machines : seen[m][m] = board[m]

\* The content merged last is the one recorded as taken, or will be when the sync ends.
HeldAs(m) == IF run[m].pc = "publish" THEN Accepting(m) ELSE Accepted(m)
Knows(m) ==
    spent.mishaps = 0 => \A p \in Others(m) :
        /\ seen[m][p] = None => applied[m][p] = 0
        /\ seen[m][p] # None => applied[m][p] <= seen[m][p].edition
        /\ seen[m][p] # None /\ applied[m][p] = seen[m][p].edition => HeldAs(m)[p] = seen[m][p].content

\* A choice knows of nothing merged later, and a chat taken out is on the list of those.
ChoiceStands(m, c) ==
    chosen[m][c] # None =>
        /\ chosen[m][c].after \in [Others(m) -> Nat]
        /\ spent.mishaps = 0 => \A p \in Others(m) : chosen[m][c].after[p] <= applied[m][p]
        /\ state[m].binding[c] = None => c \in state[m].out

\* All of this together.
ListsInv ==
    /\ TypeOK /\ Shape /\ OneSync /\ Numbered
    /\ \A m \in Machines : PlanHeld(m) /\ RunReads(m) /\ Knows(m)
    /\ \A m \in Machines : \A c \in Chats : ChoiceStands(m, c)

\* What is published is of its kind.
LEMMA PublicationTyped ==
    ASSUME NEW s \in States, NEW accepted \in [Machines -> Contents \cup {None}], NEW edition \in Nat
    PROVE  Content(s) \in Contents /\ Publication(s, accepted, edition) \in Publications
<1>1. Content(s) \in Contents
  BY DEF Content, Contents, States
<1>2. s.out \in SUBSET Chats
  BY DEF States
<1>3. QED
  BY <1>1, <1>2 DEF Publication, Publications

\* At first nobody has read, told or chosen anything.
LEMMA ListsStart == Init => ListsInv
<1> SUFFICES ASSUME Init PROVE ListsInv
  OBVIOUS
<1> USE ProjectAssumption, NoneAssumption, WorldAssumption
<1>1. state \in [Machines -> States] /\ \A m \in Machines : Consistent(state[m])
  BY DEF Init
<1>2. NothingTaken \in [Machines -> Contents \cup {None}]
  BY DEF NothingTaken
<1>3. \A m \in Machines : board[m] \in Publications /\ board[m].edition = 1
  BY <1>1, <1>2, PublicationTyped DEF Init, Publication
<1>4. board \in [Machines -> Publications]
  BY <1>3 DEF Init
<1>5. seen \in [Machines -> [Machines -> Publications \cup {None}]]
  BY <1>3 DEF Init
<1>6. \A m \in Machines : run[m] = Idle /\ run[m].pc = "idle"
  BY DEF Init, Idle
<1>7. TypeOK
  <2>1. disk \in [Machines -> SUBSET Paths] /\ \A m \in Machines : \A path \in disk[m] : Native(m, path)
    BY DEF Init
  <2>2. places \in [Machines -> [told : SUBSET [rule : Rules, project : Projects \cup {None}], skipped : SUBSET Projects]]
    BY DEF Init
  <2>3. \A m \in Machines : applied[m] \in [Others(m) -> Nat]
    BY DEF Init
  <2>4. spent \in [events : 0..MaxEvents, mishaps : 0..MaxMishaps]
    BY DEF Init
  <2>5. QED
    BY <1>1, <1>4, <1>5, <1>6, <2>1, <2>2, <2>3, <2>4 DEF TypeOK, PCs
<1>8. Shape
  BY <1>6 DEF Init, Shape, Idle
<1>9. OneSync /\ \A m \in Machines : PlanHeld(m) /\ RunReads(m)
  BY <1>6 DEF OneSync, PlanHeld, RunReads
<1>10. \A m, p \in Machines : seen[m][p] = (IF p = m THEN board[m] ELSE None)
  BY DEF Init
<1>11. Numbered
  BY <1>3, <1>10 DEF Numbered
<1>12. \A m \in Machines : Knows(m)
  BY <1>10 DEF Knows, Init, Others
<1>13. \A m \in Machines : \A c \in Chats : ChoiceStands(m, c)
  BY DEF ChoiceStands, Init
<1>14. QED
  BY <1>7, <1>8, <1>9, <1>11, <1>12, <1>13 DEF ListsInv

\* What an event costs.
LEMMA SpendParts == ASSUME TypeOK, NEW what \in {"events", "mishaps"}, Spend(what)
                    PROVE  /\ spent' \in [events : 0..MaxEvents, mishaps : 0..MaxMishaps]
                           /\ spent'.mishaps = 0 => spent.mishaps = 0
                           /\ what = "mishaps" => spent'.mishaps # 0
  BY ProjectAssumption DEF TypeOK, Spend

\* Who writes no list and reads none changes nothing of this.
LEMMA ListsUntouched ==
    ASSUME ListsInv, UNCHANGED <<board, seen, run, applied>>, spent'.mishaps = 0 => spent.mishaps = 0, TypeOK',
           chosen' = [m \in Machines |-> [c \in Chats |-> chosen'[m][c]]],
           \A m \in Machines : \A c \in Chats : ChoiceStands(m, c)'
    PROVE  ListsInv'
<1>1. Shape'
  BY DEF ListsInv, Shape
<1>2. OneSync' /\ Numbered'
  BY DEF ListsInv, OneSync, Numbered
<1>3. \A m \in Machines : PlanHeld(m)'
  BY DEF ListsInv, PlanHeld
<1>4. \A m \in Machines : RunReads(m)'
  BY ZenonT(60) DEF ListsInv, RunReads
<1>5. \A m \in Machines : Knows(m)'
  BY DEF ListsInv, Knows, HeldAs, Accepting, Accepted
<1>6. QED
  BY <1>1, <1>2, <1>3, <1>4, <1>5 DEF ListsInv

\* Answers about folders.
LEMMA AnswersKeep == ASSUME ListsInv, Answers PROVE ListsInv'
<1> DEFINE Told == [rule : Rules, project : Projects \cup {None}]
<1>1. PICK m \in Machines, i \in Projects :
          Skip(m, i) \/ Forget(m, i) \/ \E here \in Folders, whole \in BOOLEAN : Place(m, i, here, whole)
  BY DEF Answers
<1>2. /\ UNCHANGED <<state, disk, board, seen, run, chosen, applied>> /\ Spend("events")
      /\ Known(m, i) # {}
  BY <1>1 DEF Skip, Forget, Place
<1>3. TypeOK /\ places \in [Machines -> [told : SUBSET Told, skipped : SUBSET Projects]]
  BY DEF ListsInv, TypeOK
<1>4. places' \in [Machines -> [told : SUBSET Told, skipped : SUBSET Projects]]
  <2>1. CASE Skip(m, i)
    BY <1>3, <2>1 DEF Skip
  <2>2. CASE Forget(m, i)
    BY <1>3, <2>2 DEF Forget
  <2>3. ASSUME NEW here \in Folders, NEW whole \in BOOLEAN, Place(m, i, here, whole)
        PROVE  places' \in [Machines -> [told : SUBSET Told, skipped : SUBSET Projects]]
    <3> DEFINE there == RootThere(m, i)
               alone == {[rule |-> Rule(p, there, here, FALSE), project |-> i] : p \in Known(m, i)}
               above == {[rule |-> Rule(p, there, here, TRUE), project |-> None] : p \in Known(m, i)}
               new == alone \cup (IF whole /\ there.name = here.name THEN above ELSE {})
    <3>1. here \in Paths /\ Known(m, i) \subseteq Machines
      BY <1>3, ReadableParts, ProjectAssumption DEF Known
    <3>2. there \in Paths
      <4>1. \E p \in Known(m, i) : there = seen[m][p].content.projects[i]
        <5> DEFINE p == CHOOSE q \in Known(m, i) : \A o \in Known(m, i) : q <= o
        <5>1. Known(m, i) \subseteq Nat
          BY <3>1, ProjectAssumption DEF Machines
        <5>2. \E q \in Known(m, i) : \A o \in Known(m, i) : q <= o
          BY <1>2, <5>1, LeastNumber
        <5>3. p \in Known(m, i)
          BY <5>2
        <5>4. QED
          BY <5>3 DEF RootThere
      <4>2. PICK p \in Known(m, i) : there = seen[m][p].content.projects[i]
        BY <4>1
      <4>3. seen[m][p].content.projects \in Partial(Projects, Paths) /\ i \in DOMAIN seen[m][p].content.projects
        BY <1>3, <4>2, ReadableParts DEF Known, Contents
      <4>4. seen[m][p].content.projects[i] \in Paths
        BY <4>3, PartialParts
      <4>5. QED
        BY <4>2, <4>4
    <3> HIDE DEF there
    <3>3. new \subseteq Told
      <4>1. \A p \in Known(m, i) : Rule(p, there, here, FALSE) \in Rules /\ Rule(p, there, here, TRUE) \in Rules
        BY <3>1, <3>2 DEF Rule, Rules
      <4>2. \A p \in Known(m, i) : /\ [rule |-> Rule(p, there, here, FALSE), project |-> i] \in Told
                                   /\ [rule |-> Rule(p, there, here, TRUE), project |-> None] \in Told
        BY <1>1, <4>1
      <4> HIDE DEF Told
      <4>3. alone \subseteq Told /\ above \subseteq Told
        BY <4>2
      <4>4. QED
        BY <4>3
    <3>4. places' = [places EXCEPT ![m].told = Replaced(@, new), ![m].skipped = @ \ {i}]
      BY <2>3 DEF Place, there
    <3> HIDE DEF new
    <3>5. Replaced(places[m].told, new) \subseteq Told
      BY <1>3, <3>3 DEF Replaced
    <3>6. QED
      BY <1>3, <3>4, <3>5
  <2>4. QED
    BY <1>1, <2>1, <2>2, <2>3
<1>5. spent' \in [events : 0..MaxEvents, mishaps : 0..MaxMishaps] /\ (spent'.mishaps = 0 => spent.mishaps = 0)
  BY <1>2, <1>3, SpendParts
<1>6. TypeOK'
  BY <1>2, <1>3, <1>4, <1>5 DEF TypeOK, Consistent, Native
<1>7. \A n \in Machines : \A c \in Chats : ChoiceStands(n, c)'
  BY <1>2, <1>5 DEF ListsInv, ChoiceStands
<1>8. chosen' = [n \in Machines |-> [c \in Chats |-> chosen'[n][c]]]
  BY <1>2 DEF ListsInv, Shape
<1>9. QED
  BY <1>2, <1>5, <1>6, <1>7, <1>8, ListsUntouched

\* A person's change in Codex: what is chosen stands with it.
LEMMA InCodexKeeps ==
    ASSUME ListsInv, NEW m \in Machines, NEW s \in States, Consistent(s), InCodex(m, s),
           chosen' = [n \in Machines |-> [c \in Chats |-> chosen'[n][c]]],
           \A n \in Machines \ {m} : chosen'[n] = chosen[n],
           \A c \in Chats : \/ chosen'[m][c] = None
                            \/ chosen'[m][c] = chosen[m][c] /\ s.binding[c] = state[m].binding[c] /\ s.out = state[m].out
                            \/ /\ chosen'[m][c] = [to |-> chosen'[m][c].to, after |-> applied[m]]
                               /\ s.binding[c] = None => c \in s.out
                            \/ /\ chosen'[m][c] = chosen[m][c] /\ s.binding[c] = state[m].binding[c]
                               /\ c \in s.out <=> c \in state[m].out
    PROVE  ListsInv'
<1>1. /\ UNCHANGED <<disk, board, seen, places, shown, run, applied>> /\ Spend("events")
      /\ state' = [state EXCEPT ![m] = s]
  BY DEF InCodex
<1>2. TypeOK
  BY DEF ListsInv
<1>3. spent' \in [events : 0..MaxEvents, mishaps : 0..MaxMishaps] /\ (spent'.mishaps = 0 => spent.mishaps = 0)
  BY <1>1, <1>2, SpendParts
<1>4. state' \in [Machines -> States] /\ \A n \in Machines : Consistent(state'[n])
  BY <1>1, <1>2 DEF TypeOK
<1>5. TypeOK'
  BY <1>1, <1>2, <1>3, <1>4 DEF TypeOK, Consistent, Native
<1>6. state'[m] = s /\ \A n \in Machines \ {m} : state'[n] = state[n]
  BY <1>1, <1>2 DEF TypeOK
<1>7. \A n \in Machines : \A c \in Chats : ChoiceStands(n, c)
  BY DEF ListsInv
<1>8. \A p \in Others(m) : applied[m][p] \in Nat
  BY <1>2 DEF TypeOK
<1>9. ASSUME NEW n \in Machines, NEW c \in Chats PROVE ChoiceStands(n, c)'
  <2>1. CASE n # m
    BY <1>1, <1>3, <1>6, <1>7, <2>1 DEF ChoiceStands
  <2>2. CASE n = m /\ chosen'[m][c] = chosen[m][c] /\ s.binding[c] = state[m].binding[c] /\ (c \in s.out <=> c \in state[m].out)
    BY <1>1, <1>3, <1>6, <1>7, <2>2 DEF ChoiceStands
  <2>3. CASE n = m /\ chosen'[m][c] = None
    BY <2>3 DEF ChoiceStands
  <2>4. CASE /\ n = m /\ chosen'[m][c] = [to |-> chosen'[m][c].to, after |-> applied[m]]
             /\ s.binding[c] = None => c \in s.out
    <3>1. chosen'[m][c].after = applied[m]
      BY <2>4
    <3>2. applied[m] \in [Others(m) -> Nat]
      BY <1>2 DEF TypeOK
    <3>3. \A p \in Others(m) : applied[m][p] <= applied[m][p]
      BY <1>8
    <3>4. QED
      BY <1>1, <1>6, <2>4, <3>1, <3>2, <3>3 DEF ChoiceStands
  <2>5. QED
    BY <2>1, <2>2, <2>3, <2>4
<1>10. QED
  BY <1>1, <1>3, <1>5, <1>9, ListsUntouched

\* Every change a person makes in Codex.
LEMMA CodexKeeps == ASSUME ListsInv, Codex PROVE ListsInv'
<1>1. /\ state \in [Machines -> States] /\ \A m \in Machines : Consistent(state[m])
      /\ disk \in [Machines -> SUBSET Paths]
      /\ chosen = [m \in Machines |-> [c \in Chats |-> chosen[m][c]]]
  BY DEF ListsInv, TypeOK, Shape
<1>2. ASSUME NEW m \in Machines, NEW i \in Projects, NEW path \in Paths, NewProject(m, i, path) PROVE ListsInv'
  <2> DEFINE s == [state[m] EXCEPT !.projects = With(@, i, path), !.order = <<i>> \o @]
  <2>1. InCodex(m, s) /\ chosen' = chosen
    BY <1>2 DEF NewProject
  <2>2. With(state[m].projects, i, path) \in Partial(Projects, Paths) /\ <<i>> \o state[m].order \in Seq(Projects)
    BY <1>1, WithPartial DEF States
  <2>3. s \in States
    BY <1>1, <2>2 DEF States
  <2>4. /\ s.projects = With(state[m].projects, i, path) /\ s.pinned = state[m].pinned
        /\ s.binding = state[m].binding /\ s.out = state[m].out
    BY <1>1 DEF States
  <2> HIDE DEF s
  <2>5. Consistent(s)
    <3>1. DOMAIN state[m].projects \subseteq DOMAIN s.projects
      BY <2>4 DEF With
    <3>2. QED
      BY <1>1, <2>4, <3>1 DEF Consistent
  <2>6. QED
    BY <1>1, <2>1, <2>3, <2>4, <2>5, InCodexKeeps
<1>3. ASSUME NEW m \in Machines, NEW i \in Projects, RemoveProject(m, i) PROVE ListsInv'
  <2> DEFINE s == [state[m] EXCEPT
                      !.projects = Restrict(@, DOMAIN @ \ {i}), !.order = Only(@, Projects \ {i}),
                      !.pinned = @ \ {i}, !.binding = [c \in Chats |-> IF @[c] = i THEN None ELSE @[c]],
                      !.sections = [o \in DOMAIN @ |-> @[o] \ {Key("project", i)}]]
             restricted == Restrict(state[m].projects, DOMAIN state[m].projects \ {i})
             bound == [c \in Chats |-> IF state[m].binding[c] = i THEN None ELSE state[m].binding[c]]
             lists == [o \in DOMAIN state[m].sections |-> state[m].sections[o] \ {Key("project", i)}]
             order == Only(state[m].order, Projects \ {i})
  <2>1. s = [state[m] EXCEPT !.projects = restricted, !.order = order, !.pinned = @ \ {i}, !.binding = bound,
                             !.sections = lists]
    OBVIOUS
  <2>2. InCodex(m, s) /\ chosen' = [chosen EXCEPT ![m] = [c \in Chats |-> IF state[m].binding[c] = i THEN None ELSE @[c]]]
    BY <1>3 DEF RemoveProject
  <2>3. restricted \in Partial(Projects, Paths) /\ DOMAIN restricted = DOMAIN state[m].projects \ {i}
    <3>1. state[m].projects \in Partial(Projects, Paths)
      BY <1>1 DEF States
    <3>2. DOMAIN state[m].projects \subseteq Projects /\ \A k \in DOMAIN state[m].projects : state[m].projects[k] \in Paths
      BY <3>1, PartialParts
    <3>3. restricted = [k \in DOMAIN state[m].projects \ {i} |-> state[m].projects[k]]
      BY DEF Restrict
    <3> HIDE DEF restricted
    <3>4. QED
      BY <3>2, <3>3, PartialParts
  <2>4. order \in Seq(Projects)
    <3>1. state[m].order \in Seq(Projects)
      BY <1>1 DEF States
    <3>2. Only(state[m].order, Projects \ {i}) \in Seq(Projects \cap (Projects \ {i}))
      BY <3>1, OnlyTyped
    <3>3. QED
      BY <3>2
  <2>5. bound \in [Chats -> Projects \cup {None}] /\ state[m].pinned \ {i} \in SUBSET Projects
    BY <1>1 DEF States
  <2>6. lists \in Partial(Sections, SUBSET Items)
    <3>1. state[m].sections \in Partial(Sections, SUBSET Items)
      BY <1>1 DEF States
    <3>2. DOMAIN state[m].sections \subseteq Sections /\ \A k \in DOMAIN state[m].sections : state[m].sections[k] \in SUBSET Items
      BY <3>1, PartialParts
    <3>3. \A k \in DOMAIN state[m].sections : state[m].sections[k] \ {Key("project", i)} \in SUBSET Items
      BY <3>2
    <3>4. DOMAIN lists = DOMAIN state[m].sections /\ lists = [k \in DOMAIN lists |-> lists[k]]
          /\ \A k \in DOMAIN lists : lists[k] \in SUBSET Items
      BY <3>3
    <3> HIDE DEF lists
    <3>5. QED
      BY <3>2, <3>4, PartialParts
  <2>7. \A c \in Chats : bound[c] = IF state[m].binding[c] = i THEN None ELSE state[m].binding[c]
    OBVIOUS
  <2>8. state[m].out \in SUBSET Chats
    BY <1>1 DEF States
  <2> HIDE DEF s, restricted, bound, lists, order
  <2>9. /\ s = [projects |-> restricted, order |-> order, pinned |-> state[m].pinned \ {i},
                out |-> state[m].out, binding |-> bound, sections |-> lists]
    BY <1>1, <2>1, ZenonT(60) DEF States
  <2>10. s \in States
    BY <2>3, <2>4, <2>5, <2>6, <2>9, <2>8 DEF States
  <2>11. Consistent(s)
    BY <1>1, <2>3, <2>9, <2>7 DEF Consistent
  <2>12. \A c \in Chats : \/ chosen'[m][c] = None
                          \/ chosen'[m][c] = chosen[m][c] /\ s.binding[c] = state[m].binding[c] /\ s.out = state[m].out
    <3>1. s.out = state[m].out /\ \A c \in Chats : s.binding[c] = IF state[m].binding[c] = i THEN None ELSE state[m].binding[c]
      BY <2>9, <2>7
    <3>2. \A c \in Chats : chosen'[m][c] = IF state[m].binding[c] = i THEN None ELSE chosen[m][c]
      BY <1>1, <2>2
    <3>3. SUFFICES ASSUME NEW c \in Chats
                   PROVE  \/ chosen'[m][c] = None
                          \/ chosen'[m][c] = chosen[m][c] /\ s.binding[c] = state[m].binding[c] /\ s.out = state[m].out
      OBVIOUS
    <3>4. CASE state[m].binding[c] = i
      BY <3>2, <3>4
    <3>5. CASE state[m].binding[c] # i
      BY <3>1, <3>2, <3>5
    <3>6. QED
      BY <3>4, <3>5
  <2>13. /\ chosen' = [n \in Machines |-> [c \in Chats |-> chosen'[n][c]]]
         /\ \A n \in Machines \ {m} : chosen'[n] = chosen[n]
    BY <1>1, <2>2
  <2>14. QED
    BY <2>2, <2>10, <2>11, <2>12, <2>13, InCodexKeeps
<1>4. ASSUME NEW m \in Machines, NEW c \in Chats, NEW i \in Projects, Bind(m, c, i) PROVE ListsInv'
  <2> DEFINE s == [state[m] EXCEPT !.binding[c] = i, !.out = @ \ {c}]
  <2>1. /\ InCodex(m, s) /\ i \in DOMAIN state[m].projects
        /\ chosen' = [chosen EXCEPT ![m][c] = [to |-> i, after |-> applied[m]]]
    BY <1>4 DEF Bind, Choose
  <2>2. /\ s \in States /\ s.projects = state[m].projects /\ s.pinned = state[m].pinned
        /\ s.binding = [state[m].binding EXCEPT ![c] = i] /\ s.out = state[m].out \ {c}
    BY <1>1 DEF States
  <2> HIDE DEF s
  <2>3. Consistent(s) /\ s.binding[c] = i /\ \A d \in Chats \ {c} : s.binding[d] = state[m].binding[d]
    BY <1>1, <2>1, <2>2 DEF Consistent, States
  <2>4. i # None
    BY NoneAssumption
  <2>5. /\ chosen' = [n \in Machines |-> [d \in Chats |-> chosen'[n][d]]]
        /\ \A n \in Machines \ {m} : chosen'[n] = chosen[n]
        /\ \A d \in Chats \ {c} : chosen'[m][d] = chosen[m][d]
        /\ chosen'[m][c] = [to |-> i, after |-> applied[m]]
    BY <1>1, <2>1
  <2>6. chosen'[m][c] = [to |-> chosen'[m][c].to, after |-> applied[m]]
    BY <2>5
  <2>7. \A d \in Chats : d \in s.out <=> d \in state[m].out \ {c}
    BY <2>2
  <2>8. \A d \in Chats : \/ /\ chosen'[m][d] = [to |-> chosen'[m][d].to, after |-> applied[m]]
                             /\ s.binding[d] # None
                          \/ /\ chosen'[m][d] = chosen[m][d] /\ s.binding[d] = state[m].binding[d]
                             /\ d \in s.out <=> d \in state[m].out
    BY <2>3, <2>4, <2>5, <2>6, <2>7
  <2>9. QED
    BY <2>1, <2>2, <2>3, <2>5, <2>8, InCodexKeeps
<1>5. ASSUME NEW m \in Machines, NEW c \in Chats, TakeOut(m, c) PROVE ListsInv'
  <2> DEFINE s == [state[m] EXCEPT !.binding[c] = None, !.out = @ \cup {c}]
  <2>1. InCodex(m, s) /\ chosen' = [chosen EXCEPT ![m][c] = [to |-> None, after |-> applied[m]]]
    BY <1>5 DEF TakeOut, Choose
  <2>2. /\ s \in States /\ s.projects = state[m].projects /\ s.pinned = state[m].pinned
        /\ s.binding = [state[m].binding EXCEPT ![c] = None] /\ s.out = state[m].out \cup {c}
    BY <1>1 DEF States
  <2> HIDE DEF s
  <2>3. Consistent(s) /\ \A d \in Chats \ {c} : s.binding[d] = state[m].binding[d]
    BY <1>1, <2>1, <2>2 DEF Consistent, States
  <2>5. /\ chosen' = [n \in Machines |-> [d \in Chats |-> chosen'[n][d]]]
        /\ \A n \in Machines \ {m} : chosen'[n] = chosen[n]
        /\ \A d \in Chats \ {c} : chosen'[m][d] = chosen[m][d]
        /\ chosen'[m][c] = [to |-> None, after |-> applied[m]]
    BY <1>1, <2>1
  <2>6. chosen'[m][c] = [to |-> chosen'[m][c].to, after |-> applied[m]]
    BY <2>5
  <2>7. c \in s.out /\ \A d \in Chats \ {c} : d \in s.out <=> d \in state[m].out
    BY <2>2
  <2>8. \A d \in Chats : \/ /\ chosen'[m][d] = [to |-> chosen'[m][d].to, after |-> applied[m]]
                             /\ d \in s.out
                          \/ /\ chosen'[m][d] = chosen[m][d] /\ s.binding[d] = state[m].binding[d]
                             /\ d \in s.out <=> d \in state[m].out
    BY <2>3, <2>5, <2>6, <2>7
  <2>9. QED
    BY <2>1, <2>2, <2>3, <2>5, <2>8, InCodexKeeps
<1>6. ASSUME NEW m \in Machines, NEW i \in Projects, Pin(m, i) PROVE ListsInv'
  <2> DEFINE order == IF i \in state[m].pinned THEN state[m].order ELSE <<i>> \o Only(state[m].order, Projects \ {i})
             s == [state[m] EXCEPT !.pinned = SymDiff(@, {i}),
                                   !.order = IF i \in state[m].pinned THEN @ ELSE <<i>> \o Only(@, Projects \ {i})]
  <2>1. InCodex(m, s) /\ i \in DOMAIN state[m].projects /\ chosen' = chosen
    BY <1>6 DEF Pin
  <2>2. order \in Seq(Projects)
    <3>1. state[m].order \in Seq(Projects)
      BY <1>1 DEF States
    <3>2. Only(state[m].order, Projects \ {i}) \in Seq(Projects \cap (Projects \ {i}))
      BY <3>1, OnlyTyped
    <3>3. Only(state[m].order, Projects \ {i}) \in Seq(Projects)
      BY <3>2
    <3>4. QED
      BY <3>1, <3>3
  <2> DEFINE pinned == SymDiff(state[m].pinned, {i})
  <2>3. s = [state[m] EXCEPT !.pinned = pinned, !.order = order]
    OBVIOUS
  <2>4. pinned \subseteq state[m].pinned \cup {i}
    BY DEF SymDiff
  <2> HIDE DEF s, order, pinned
  <2>5. /\ s.order = order /\ s.pinned = pinned /\ s.projects = state[m].projects
        /\ s.binding = state[m].binding /\ s.out = state[m].out /\ s.sections = state[m].sections
        /\ s = [projects |-> s.projects, order |-> s.order, pinned |-> s.pinned, out |-> s.out,
                binding |-> s.binding, sections |-> s.sections]
    BY <1>1, <2>3 DEF States
  <2>6. s.pinned \subseteq state[m].pinned \cup {i}
    BY <2>5, <2>4
  <2>7. s \in States
    BY <1>1, <2>2, <2>5, <2>6 DEF States
  <2>8. Consistent(s)
    BY <1>1, <2>1, <2>5, <2>6 DEF Consistent
  <2>9. QED
    BY <1>1, <2>1, <2>5, <2>7, <2>8, InCodexKeeps
<1>7. ASSUME NEW m \in Machines, NEW key \in Items, NEW t \in Sections, PutInSection(m, key, t) PROVE ListsInv'
  <2> DEFINE apart == [o \in DOMAIN state[m].sections |-> state[m].sections[o] \ {key}]
             lists == With(apart, t, {key} \cup IF t \in DOMAIN state[m].sections THEN state[m].sections[t] ELSE {})
             s == [state[m] EXCEPT
                     !.sections = With([o \in DOMAIN @ |-> @[o] \ {key}], t, {key} \cup IF t \in DOMAIN @ THEN @[t] ELSE {})]
  <2>1. InCodex(m, s) /\ chosen' = chosen
    BY <1>7 DEF PutInSection
  <2>2. DOMAIN state[m].sections \subseteq Sections /\ \A k \in DOMAIN state[m].sections : state[m].sections[k] \in SUBSET Items
    <3>1. state[m].sections \in Partial(Sections, SUBSET Items)
      BY <1>1 DEF States
    <3>2. QED
      BY <3>1, PartialParts
  <2>3. apart \in Partial(Sections, SUBSET Items)
    <3>1. \A k \in DOMAIN state[m].sections : state[m].sections[k] \ {key} \in SUBSET Items
      BY <2>2
    <3>2. DOMAIN apart = DOMAIN state[m].sections /\ apart = [k \in DOMAIN apart |-> apart[k]]
          /\ \A k \in DOMAIN apart : apart[k] \in SUBSET Items
      BY <3>1
    <3> HIDE DEF apart
    <3>3. QED
      BY <2>2, <3>2, PartialParts
  <2>4. lists \in Partial(Sections, SUBSET Items)
    <3>1. ({key} \cup IF t \in DOMAIN state[m].sections THEN state[m].sections[t] ELSE {}) \in SUBSET Items
      BY <2>2
    <3> HIDE DEF apart
    <3>2. QED
      BY <2>3, <3>1, WithPartial
  <2>5. s = [state[m] EXCEPT !.sections = lists]
    OBVIOUS
  <2> HIDE DEF s, lists, apart
  <2>6. /\ s.sections = lists /\ s.order = state[m].order /\ s.pinned = state[m].pinned /\ s.projects = state[m].projects
        /\ s.binding = state[m].binding /\ s.out = state[m].out
        /\ s = [projects |-> s.projects, order |-> s.order, pinned |-> s.pinned, out |-> s.out,
                binding |-> s.binding, sections |-> s.sections]
    BY <1>1, <2>5 DEF States
  <2>7. s \in States
    BY <1>1, <2>4, <2>6 DEF States
  <2>8. Consistent(s)
    BY <1>1, <2>6 DEF Consistent
  <2>9. QED
    BY <1>1, <2>1, <2>6, <2>7, <2>8, InCodexKeeps
<1>8. /\ \A i \in Projects : Key("project", i) \in Items
      /\ \A c \in Chats : Key("chat", c) \in Items
  BY DEF Key, Items
<1>9. QED
  BY <1>2, <1>3, <1>4, <1>5, <1>6, <1>7, <1>8 DEF Codex

\* Between two syncs the replicas may change.
LEMMA ReplicasKeep ==
    ASSUME ListsInv, BetweenSyncs, UNCHANGED <<state, disk, board, places, shown, run, chosen, applied>>,
           spent'.mishaps = 0 => spent.mishaps = 0, spent' \in [events : 0..MaxEvents, mishaps : 0..MaxMishaps],
           seen' \in [Machines -> [Machines -> Publications \cup {None}]], Numbered', \A m \in Machines : Knows(m)'
    PROVE  ListsInv'
<1>1. TypeOK'
  BY DEF ListsInv, TypeOK, Consistent, Native
<1>2. Shape' /\ OneSync'
  BY DEF ListsInv, Shape, OneSync
<1>3. \A m \in Machines : run'[m].pc = "idle"
  BY DEF BetweenSyncs
<1>4. \A m \in Machines : PlanHeld(m)' /\ RunReads(m)'
  BY <1>3 DEF PlanHeld, RunReads
<1>5. \A m \in Machines : \A c \in Chats : ChoiceStands(m, c)'
  BY DEF ListsInv, ChoiceStands
<1>6. QED
  BY <1>1, <1>2, <1>4, <1>5 DEF ListsInv

\* Folders that are made, and lists that the cloud client brings or holds back.
LEMMA WorldKeeps == ASSUME ListsInv, World PROVE ListsInv'
<1>1. TypeOK /\ Numbered /\ \A m \in Machines : Knows(m)
  BY DEF ListsInv
<1>2. ASSUME NEW m \in Machines, NEW path \in Folders, MakeFolder(m, path) PROVE ListsInv'
  <2>1. /\ UNCHANGED <<state, board, seen, places, shown, run, chosen, applied>> /\ Spend("events")
        /\ disk' = [disk EXCEPT ![m] = @ \cup {path}] /\ Native(m, path)
    BY <1>2 DEF MakeFolder
  <2>2. spent' \in [events : 0..MaxEvents, mishaps : 0..MaxMishaps] /\ (spent'.mishaps = 0 => spent.mishaps = 0)
    BY <1>1, <2>1, SpendParts
  <2>3. disk' \in [Machines -> SUBSET Paths] /\ \A n \in Machines : \A q \in disk'[n] : Native(n, q)
    BY <1>1, <2>1, ProjectAssumption DEF TypeOK
  <2>4. TypeOK'
    BY <1>1, <2>1, <2>2, <2>3 DEF TypeOK, Consistent, Native
  <2>5. \A n \in Machines : \A c \in Chats : ChoiceStands(n, c)'
    BY <2>1, <2>2 DEF ListsInv, ChoiceStands
  <2>6. chosen' = [n \in Machines |-> [c \in Chats |-> chosen'[n][c]]]
    BY <2>1 DEF ListsInv, Shape
  <2>7. QED
    BY <2>1, <2>2, <2>4, <2>5, <2>6, ListsUntouched
<1>3. ASSUME NEW m \in Machines, NEW p \in Machines, Deliver(m, p) PROVE ListsInv'
  <2>1. /\ UNCHANGED <<state, disk, board, places, shown, run, chosen, applied, spent>> /\ BetweenSyncs
        /\ seen' = [seen EXCEPT ![m][p] = board[p]] /\ seen[m][p] # board[p]
    BY <1>3 DEF Deliver
  <2>2. board[p] \in Publications /\ board[p] # None /\ board[p].edition \in Nat
    BY <1>1, NoneAssumption DEF TypeOK, Publications
  <2>3. seen' \in [Machines -> [Machines -> Publications \cup {None}]]
    BY <1>1, <2>1, <2>2 DEF TypeOK
  <2>4. /\ seen'[m][p] = board[p] /\ \A q \in Machines \ {p} : seen'[m][q] = seen[m][q]
        /\ \A n \in Machines \ {m} : seen'[n] = seen[n]
    BY <1>1, <2>1 DEF TypeOK
  <2>5. Numbered'
    BY <1>1, <2>1, <2>2, <2>4 DEF Numbered
  <2>6. ASSUME NEW n \in Machines PROVE Knows(n)'
    <3>1. CASE n # m
      BY <1>1, <2>1, <2>4, <3>1 DEF Knows, HeldAs, Accepting, Accepted
    <3>2. CASE n = m /\ spent.mishaps = 0
      <4>1. p # m
        BY <1>1, <2>1, <3>2 DEF Numbered
      <4>2. HeldAs(m)' = HeldAs(m)
        BY <2>1, <2>4, <4>1 DEF HeldAs, Accepting, Accepted
      <4>3. p \in Others(m) /\ applied[m][p] \in Nat
        BY <1>1, <4>1 DEF Others, TypeOK
      <4>4. seen[m][p] = None \/ seen[m][p].edition \in Nat
        BY <1>1 DEF TypeOK, Publications
      <4>5. applied[m][p] <= board[p].edition
        BY <1>1, <2>2, <3>2, <4>3, <4>4 DEF Knows, Numbered
      <4>6. applied[m][p] = board[p].edition => HeldAs(m)[p] = board[p].content
        <5>1. SUFFICES ASSUME applied[m][p] = board[p].edition PROVE HeldAs(m)[p] = board[p].content
          OBVIOUS
        <5>2. seen[m][p] # None
          BY <1>1, <3>2, <4>3, <5>1 DEF Knows, Numbered
        <5>3. applied[m][p] <= seen[m][p].edition /\ seen[m][p].edition <= board[p].edition
          BY <1>1, <3>2, <4>3, <5>2 DEF Knows, Numbered
        <5>4. seen[m][p].edition = board[p].edition
          BY <2>2, <4>4, <5>1, <5>2, <5>3
        <5>5. QED
          BY <1>1, <3>2, <4>3, <5>1, <5>2, <5>4 DEF Knows, Numbered
      <4>7. QED
        BY <1>1, <2>1, <2>2, <2>4, <3>2, <4>2, <4>5, <4>6 DEF Knows
    <3>3. CASE spent.mishaps # 0
      BY <2>1, <3>3 DEF Knows
    <3>4. QED
      BY <3>1, <3>2, <3>3
  <2>7. spent' \in [events : 0..MaxEvents, mishaps : 0..MaxMishaps] /\ (spent'.mishaps = 0 => spent.mishaps = 0)
    BY <1>1, <2>1 DEF TypeOK
  <2>8. QED
    BY <2>1, <2>3, <2>5, <2>6, <2>7, ReplicasKeep
<1>4. ASSUME NEW m \in Machines, NEW p \in Machines, HoldBack(m, p) PROVE ListsInv'
  <2>1. /\ UNCHANGED <<state, disk, board, places, shown, run, chosen, applied>> /\ BetweenSyncs
        /\ seen' = [seen EXCEPT ![m][p] = None] /\ Spend("mishaps")
    BY <1>4 DEF HoldBack
  <2>2. /\ spent' \in [events : 0..MaxEvents, mishaps : 0..MaxMishaps]
        /\ spent'.mishaps # 0
    BY <1>1, <2>1, SpendParts
  <2>3. seen' \in [Machines -> [Machines -> Publications \cup {None}]]
    BY <1>1, <2>1 DEF TypeOK
  <2>4. /\ seen'[m][p] = None /\ \A q \in Machines \ {p} : seen'[m][q] = seen[m][q]
        /\ \A n \in Machines \ {m} : seen'[n] = seen[n]
    BY <1>1, <2>1 DEF TypeOK
  <2>5. Numbered'
    BY <1>1, <2>1, <2>2, <2>4 DEF Numbered
  <2>6. \A n \in Machines : Knows(n)'
    BY <2>2 DEF Knows
  <2>7. QED
    BY <2>1, <2>2, <2>3, <2>5, <2>6, ReplicasKeep
<1>5. QED
  BY <1>2, <1>3, <1>4 DEF World

\* What a machine has accepted, and will have when its sync ends.
LEMMA AcceptedTyped ==
    ASSUME ListsInv, NEW m \in Machines
    PROVE  /\ Accepted(m) \in [Machines -> Contents \cup {None}]
           /\ run[m].pc # "idle" =>
                 /\ Accepting(m) \in [Machines -> Contents \cup {None}]
                 /\ \A p \in DOMAIN run[m].taken : Accepting(m)[p] = seen[m][p].content
                 /\ \A p \in Machines \ DOMAIN run[m].taken : Accepting(m)[p] = Accepted(m)[p]
<1>1. TypeOK /\ RunReads(m)
  BY DEF ListsInv
<1>2. seen[m][m] = None \/ seen[m][m] \in Publications
  BY <1>1 DEF TypeOK
<1>3. Accepted(m) \in [Machines -> Contents \cup {None}]
  BY <1>2 DEF Accepted, AcceptedIn, NothingTaken, Publications
<1>4. ASSUME run[m].pc # "idle"
      PROVE  /\ Accepting(m) \in [Machines -> Contents \cup {None}]
             /\ \A p \in DOMAIN run[m].taken : Accepting(m)[p] = seen[m][p].content
             /\ \A p \in Machines \ DOMAIN run[m].taken : Accepting(m)[p] = Accepted(m)[p]
  <2>1. Accepting(m) = Over(run[m].taken, Accepted(m))
    BY <1>1, <1>4 DEF Accepting, Accepted, RunReads
  <2>2. DOMAIN run[m].taken \subseteq Machines /\ DOMAIN Accepted(m) = Machines
    BY <1>1, <1>3, <1>4 DEF RunReads, Others
  <2>3. \A p \in DOMAIN run[m].taken : run[m].taken[p] = seen[m][p].content /\ seen[m][p].content \in Contents
    BY <1>1, <1>4 DEF RunReads, Publications
  <2>4. Accepting(m) = [p \in Machines |-> Accepting(m)[p]]
    BY <2>1, <2>2 DEF Over
  <2>5. /\ \A p \in DOMAIN run[m].taken : Accepting(m)[p] = run[m].taken[p]
        /\ \A p \in Machines \ DOMAIN run[m].taken : Accepting(m)[p] = Accepted(m)[p]
    <3> DEFINE g == run[m].taken
               f == Accepted(m)
    <3>1. Accepting(m) = Over(g, f) /\ DOMAIN f = Machines
      BY <2>1, <2>2
    <3> HIDE DEF g, f
    <3>2. /\ \A p \in DOMAIN g : Over(g, f)[p] = g[p]
          /\ \A p \in DOMAIN f \ DOMAIN g : Over(g, f)[p] = f[p]
      BY OverParts, ZenonT(60)
    <3>3. /\ \A p \in DOMAIN g : Accepting(m)[p] = g[p]
          /\ \A p \in Machines \ DOMAIN g : Accepting(m)[p] = f[p]
      BY <3>1, <3>2
    <3>4. QED
      BY <3>3 DEF g, f
  <2>6. \A p \in Machines : Accepting(m)[p] \in Contents \cup {None}
    BY <1>3, <2>3, <2>5
  <2>7. QED
    BY <2>3, <2>4, <2>5, <2>6
<1>5. QED
  BY <1>3, <1>4

\* The editions merged, with those of this sync.
LEMMA AppliedTyped ==
    ASSUME ListsInv, NEW m \in Machines, run[m].pc # "idle", applied' = [applied EXCEPT ![m] = Over(run[m].editions, @)]
    PROVE  /\ \A n \in Machines : applied'[n] \in [Others(n) -> Nat]
           /\ applied' = [n \in Machines |-> applied'[n]]
           /\ \A n \in Machines \ {m} : applied'[n] = applied[n]
           /\ \A p \in DOMAIN run[m].taken : applied'[m][p] = seen[m][p].edition
           /\ \A p \in Others(m) \ DOMAIN run[m].taken : applied'[m][p] = applied[m][p]
           /\ spent.mishaps = 0 => \A p \in Others(m) : applied[m][p] <= applied'[m][p]
<1>1. TypeOK /\ RunReads(m) /\ Shape
  BY DEF ListsInv
<1>2. /\ applied' = [n \in Machines |-> applied'[n]] /\ \A n \in Machines \ {m} : applied'[n] = applied[n]
      /\ applied'[m] = Over(run[m].editions, applied[m])
  BY <1>1 DEF Shape
<1>3. /\ DOMAIN run[m].taken \subseteq Others(m) /\ DOMAIN run[m].editions = DOMAIN run[m].taken
      /\ \A p \in DOMAIN run[m].taken : run[m].editions[p] = seen[m][p].edition /\ seen[m][p].edition \in Nat
  BY <1>1 DEF RunReads, Publications
<1>4. applied[m] \in [Others(m) -> Nat]
  BY <1>1 DEF TypeOK
<1>5. /\ \A p \in DOMAIN run[m].taken : applied'[m][p] = run[m].editions[p]
      /\ \A p \in Others(m) \ DOMAIN run[m].taken : applied'[m][p] = applied[m][p]
      /\ applied'[m] = [p \in Others(m) |-> applied'[m][p]]
  <2> DEFINE g == run[m].editions
             f == applied[m]
             h == applied'[m]
  <2>1. h = Over(g, f) /\ DOMAIN f = Others(m) /\ DOMAIN g \subseteq Others(m) /\ DOMAIN g = DOMAIN run[m].taken
    BY <1>2, <1>3, <1>4
  <2> HIDE DEF g, f, h
  <2>2. /\ \A p \in DOMAIN g : Over(g, f)[p] = g[p]
        /\ \A p \in DOMAIN f \ DOMAIN g : Over(g, f)[p] = f[p]
    BY OverParts
  <2>3. Over(g, f) = [p \in Others(m) |-> Over(g, f)[p]]
    BY <2>1 DEF Over
  <2>4. /\ \A p \in DOMAIN run[m].taken : h[p] = g[p]
        /\ \A p \in Others(m) \ DOMAIN run[m].taken : h[p] = f[p]
    BY <2>1, <2>2
  <2>5. h = [p \in Others(m) |-> h[p]]
    BY <2>1, <2>3
  <2>6. QED
    BY <2>4, <2>5 DEF g, f, h
<1>7. \A p \in Others(m) : applied'[m][p] \in Nat
  BY <1>3, <1>4, <1>5
<1>8. \A n \in Machines : applied'[n] \in [Others(n) -> Nat]
  <2>1. applied'[m] \in [Others(m) -> Nat]
    BY <1>5, <1>7
  <2>2. QED
    BY <1>1, <1>2, <2>1 DEF TypeOK
<1>9. spent.mishaps = 0 => \A p \in Others(m) : applied[m][p] <= applied'[m][p]
  BY <1>1, <1>3, <1>4, <1>5 DEF RunReads
<1>10. QED
  BY <1>2, <1>3, <1>5, <1>8, <1>9

\* A sync that ends leaves none behind.
LEMMA SyncEnds ==
    ASSUME ListsInv, NEW m \in Machines, run[m].pc # "idle", run' = [run EXCEPT ![m] = Idle]
    PROVE  /\ \A n \in Machines : run'[n].pc = "idle"
           /\ OneSync' /\ \A n \in Machines : PlanHeld(n)' /\ RunReads(n)'
           /\ run' = [n \in Machines |-> run'[n]]
           /\ \A n \in Machines :
                run'[n] = [pc |-> run'[n].pc, base |-> run'[n].base, next |-> run'[n].next, becomes |-> run'[n].becomes,
                           folders |-> run'[n].folders, taken |-> run'[n].taken, editions |-> run'[n].editions,
                           own |-> run'[n].own]
<1>1. Shape /\ OneSync
  BY DEF ListsInv
<1>2. run'[m] = Idle /\ \A n \in Machines \ {m} : run'[n] = run[n]
  BY <1>1 DEF Shape
<1>3. \A n \in Machines : run'[n].pc = "idle"
  BY <1>1, <1>2 DEF OneSync, Idle
<1>4. \A n \in Machines :
        run'[n] = [pc |-> run'[n].pc, base |-> run'[n].base, next |-> run'[n].next, becomes |-> run'[n].becomes,
                   folders |-> run'[n].folders, taken |-> run'[n].taken, editions |-> run'[n].editions,
                   own |-> run'[n].own]
  <2>1. Idle = [pc |-> Idle.pc, base |-> Idle.base, next |-> Idle.next, becomes |-> Idle.becomes,
                folders |-> Idle.folders, taken |-> Idle.taken, editions |-> Idle.editions, own |-> Idle.own]
    BY DEF Idle
  <2>2. QED
    BY <1>1, <1>2, <2>1 DEF Shape
<1>5. run' = [n \in Machines |-> run'[n]]
  BY <1>1 DEF Shape
<1>6. OneSync' /\ \A n \in Machines : PlanHeld(n)' /\ RunReads(n)'
  BY <1>3 DEF OneSync, PlanHeld, RunReads
<1>7. QED
  BY <1>3, <1>4, <1>5, <1>6

\* A preview changes what is shown only, and a changed plan is no longer shown.
LEMMA ShownKeeps == ASSUME ListsInv, NEW m \in Machines, Preview(m) \/ PlanChanged(m) PROVE ListsInv'
<1>1. UNCHANGED <<state, disk, board, seen, places, run, chosen, applied, spent>>
  BY DEF Preview, PlanChanged
<1>2. TypeOK'
  BY <1>1 DEF ListsInv, TypeOK, Consistent, Native
<1>3. \A n \in Machines : \A c \in Chats : ChoiceStands(n, c)'
  BY <1>1 DEF ListsInv, ChoiceStands
<1>4. chosen' = [n \in Machines |-> [c \in Chats |-> chosen'[n][c]]]
  BY <1>1 DEF ListsInv, Shape
<1>5. QED
  BY <1>1, <1>2, <1>3, <1>4, ListsUntouched

\* The program is killed.
LEMMA CrashKeeps == ASSUME ListsInv, NEW m \in Machines, Crash(m) PROVE ListsInv'
<1>1. /\ UNCHANGED <<state, disk, board, seen, places, chosen, applied>> /\ Spend("mishaps")
      /\ run[m].pc # "idle" /\ run' = [run EXCEPT ![m] = Idle]
  BY DEF Crash
<1>2. TypeOK /\ Numbered
  BY DEF ListsInv
<1>3. spent' \in [events : 0..MaxEvents, mishaps : 0..MaxMishaps] /\ spent'.mishaps # 0
  BY <1>1, <1>2, SpendParts
<1>4. \A n \in Machines : run'[n].pc = "idle"
  BY <1>1, SyncEnds
<1>5. TypeOK'
  BY <1>1, <1>2, <1>3, <1>4 DEF TypeOK, Consistent, Native, PCs
<1>6. Shape'
  <2>1. Shape
    BY DEF ListsInv
  <2>2. /\ chosen' = [n \in Machines |-> [c \in Chats |-> chosen'[n][c]]]
        /\ applied' = [n \in Machines |-> applied'[n]]
    BY <1>1, <2>1 DEF Shape
  <2>3. /\ run' = [n \in Machines |-> run'[n]]
        /\ \A n \in Machines :
              run'[n] = [pc |-> run'[n].pc, base |-> run'[n].base, next |-> run'[n].next, becomes |-> run'[n].becomes,
                         folders |-> run'[n].folders, taken |-> run'[n].taken, editions |-> run'[n].editions,
                         own |-> run'[n].own]
    BY <1>1, SyncEnds
  <2>4. QED
    BY <2>2, <2>3 DEF Shape
<1>7. Numbered' /\ \A n \in Machines : Knows(n)'
  BY <1>1, <1>2, <1>3 DEF Numbered, Knows
<1>8. \A n \in Machines : \A c \in Chats : ChoiceStands(n, c)'
  BY <1>1, <1>3 DEF ListsInv, ChoiceStands
<1>9. QED
  BY <1>1, <1>5, <1>6, <1>7, <1>8, SyncEnds DEF ListsInv

\* A commit that finds the state moved ends the sync.
LEMMA RefusedKeeps == ASSUME ListsInv, NEW m \in Machines, CommitRefused(m) PROVE ListsInv'
<1>1. /\ UNCHANGED <<state, disk, board, seen, places, chosen, applied, spent>>
      /\ run[m].pc = "commit" /\ run' = [run EXCEPT ![m] = Idle]
  BY DEF CommitRefused
<1>2. TypeOK /\ Shape /\ Numbered
  BY DEF ListsInv
<1>3. \A n \in Machines : run'[n].pc = "idle"
  BY <1>1, SyncEnds
<1>4. TypeOK'
  BY <1>1, <1>2, <1>3 DEF TypeOK, Consistent, Native, PCs
<1>5. Shape'
  <2>1. Shape
    BY DEF ListsInv
  <2>2. /\ chosen' = [n \in Machines |-> [c \in Chats |-> chosen'[n][c]]]
        /\ applied' = [n \in Machines |-> applied'[n]]
    BY <1>1, <2>1 DEF Shape
  <2>3. /\ run' = [n \in Machines |-> run'[n]]
        /\ \A n \in Machines :
              run'[n] = [pc |-> run'[n].pc, base |-> run'[n].base, next |-> run'[n].next, becomes |-> run'[n].becomes,
                         folders |-> run'[n].folders, taken |-> run'[n].taken, editions |-> run'[n].editions,
                         own |-> run'[n].own]
    BY <1>1, SyncEnds
  <2>4. QED
    BY <2>2, <2>3 DEF Shape
<1>6. Numbered'
  BY <1>1, <1>2 DEF Numbered
<1>7. ASSUME NEW n \in Machines PROVE Knows(n)'
  <2>1. run[n].pc # "publish"
    BY <1>1 DEF ListsInv, OneSync
  <2>2. HeldAs(n)' = HeldAs(n)
    BY <1>1, <1>3, <2>1 DEF HeldAs, Accepted
  <2>3. QED
    BY <1>1, <2>2 DEF ListsInv, Knows
<1>8. \A n \in Machines : \A c \in Chats : ChoiceStands(n, c)'
  BY <1>1 DEF ListsInv, ChoiceStands
<1>9. QED
  BY <1>1, <1>4, <1>5, <1>6, <1>7, <1>8, SyncEnds DEF ListsInv

\* A sync that begins reads everything it uses.
LEMMA BeginKeeps == ASSUME ListsInv, NEW m \in Machines, Begin(m) PROVE ListsInv'
<1>1. UNCHANGED <<state, disk, board, seen, places, shown, chosen, applied, spent>> /\ BetweenSyncs
  BY DEF Begin
<1>2. TypeOK /\ Shape /\ Numbered
  BY DEF ListsInv
<1>3. PICK plan :
        /\ plan = Merge(m)
        /\ LET start == [Idle EXCEPT !.taken = plan.taken, !.own = seen[m][m],
                                     !.editions = [p \in DOMAIN plan.taken |-> seen[m][p].edition]]
           IN  run' = [run EXCEPT ![m] =
                         IF plan.next = state[m] THEN [start EXCEPT !.pc = "publish"]
                         ELSE [start EXCEPT !.pc = "commit", !.base = state[m], !.next = plan.next,
                                            !.becomes = plan.becomes, !.folders = plan.folders]]
  BY DEF Begin
<1> DEFINE editions == [p \in DOMAIN plan.taken |-> seen[m][p].edition]
<1>4. \A n \in Machines \ {m} : run'[n] = run[n] /\ run[n].pc = "idle"
  BY <1>1, <1>2, <1>3 DEF Shape, BetweenSyncs
<1>5. DOMAIN editions = DOMAIN plan.taken /\ \A p \in DOMAIN plan.taken : editions[p] = seen[m][p].edition
  OBVIOUS
<1>6. run' = [run EXCEPT ![m] =
                IF plan.next = state[m] THEN [[Idle EXCEPT !.taken = plan.taken, !.own = seen[m][m], !.editions = editions]
                                                EXCEPT !.pc = "publish"]
                ELSE [[Idle EXCEPT !.taken = plan.taken, !.own = seen[m][m], !.editions = editions]
                        EXCEPT !.pc = "commit", !.base = state[m], !.next = plan.next,
                               !.becomes = plan.becomes, !.folders = plan.folders]]
  BY <1>3
<1> HIDE DEF editions
<1>7. \/ run'[m] = [pc |-> "publish", base |-> None, next |-> None, becomes |-> None, folders |-> None,
                    taken |-> plan.taken, editions |-> editions, own |-> seen[m][m]]
      \/ run'[m] = [pc |-> "commit", base |-> state[m], next |-> plan.next, becomes |-> plan.becomes,
                    folders |-> plan.folders, taken |-> plan.taken, editions |-> editions, own |-> seen[m][m]]
  BY <1>2, <1>6 DEF Shape, Idle
<1>8. /\ run'[m].pc \in {"commit", "publish"} /\ run'[m].taken = plan.taken /\ run'[m].editions = editions
      /\ run'[m].own = seen[m][m]
      /\ run'[m].pc = "commit" => /\ run'[m].base = state[m] /\ run'[m].next = plan.next
                                  /\ run'[m].becomes = plan.becomes /\ run'[m].folders = plan.folders
  BY <1>7
<1>9. /\ plan.next \in States /\ Consistent(plan.next) /\ plan.next.out = state[m].out
      /\ \A p \in DOMAIN plan.becomes :
            p \in Machines /\ ApartIn(plan.becomes[p], plan.folders[p], seen[m][p].content.projects)
      /\ plan.taken = [p \in Pending(m) |-> seen[m][p].content]
      /\ \A c \in Chats : GoesBy(state[m], plan.next, plan.taken, c)
  BY <1>2, <1>3, PlanParts
<1>10. TypeOK'
  <2>1. \A n \in Machines : /\ run'[n].pc \in PCs
                            /\ run'[n].pc = "commit" => run'[n].next \in States /\ Consistent(run'[n].next)
    BY <1>4, <1>8, <1>9 DEF PCs
  <2>2. QED
    BY <1>1, <1>2, <2>1 DEF TypeOK, Consistent, Native
<1>11. Shape'
  <2>1. run' = [n \in Machines |-> run'[n]]
    BY <1>2, <1>3 DEF Shape
  <2>2. run'[m] = [pc |-> run'[m].pc, base |-> run'[m].base, next |-> run'[m].next, becomes |-> run'[m].becomes,
                   folders |-> run'[m].folders, taken |-> run'[m].taken, editions |-> run'[m].editions,
                   own |-> run'[m].own]
    BY <1>7
  <2>3. QED
    BY <1>1, <1>2, <1>4, <2>1, <2>2 DEF Shape
<1>12. OneSync'
  BY <1>4 DEF OneSync
<1>13. Numbered'
  BY <1>1, <1>2 DEF Numbered
<1>14. ASSUME NEW n \in Machines PROVE PlanHeld(n)'
  <2>1. CASE n # m
    BY <1>4, <2>1 DEF PlanHeld
  <2>2. CASE n = m
    BY <1>1, <1>8, <1>9, <2>2 DEF PlanHeld
  <2>3. QED
    BY <2>1, <2>2
<1>15. DOMAIN plan.taken = Pending(m) /\ \A p \in Pending(m) : plan.taken[p] = seen[m][p].content
  BY <1>9
<1>16. \A p \in Pending(m) : /\ p \in Others(m) /\ seen[m][p] # None /\ seen[m][p] \in Publications
                             /\ Accepted(m)[p] # seen[m][p].content
  BY <1>2 DEF Pending, Readable, Taken, TypeOK, Others
<1>17. HeldAs(m) = Accepted(m) /\ Knows(m)
  BY <1>1 DEF HeldAs, BetweenSyncs, ListsInv
<1>18. \A p \in Pending(m) : spent.mishaps = 0 => seen[m][p].edition > applied[m][p]
  <2>1. \A p \in Pending(m) : seen[m][p].edition \in Nat /\ applied[m][p] \in Nat
    BY <1>2, <1>16 DEF TypeOK, Publications
  <2>2. QED
    BY <1>16, <1>17, <2>1 DEF Knows
<1>19. ASSUME NEW n \in Machines PROVE RunReads(n)'
  <2>1. CASE n # m
    BY <1>4, <2>1 DEF RunReads
  <2>2. CASE n = m
    <3>1. \A p \in Pending(m) : seen[m][p].edition \in Nat /\ applied[m][p] \in Nat
      BY <1>2, <1>16 DEF TypeOK, Publications
    <3>2. \A p \in Pending(m) : spent.mishaps = 0 => seen[m][p].edition >= applied[m][p]
      BY <1>18, <3>1
    <3>3. plan.taken = [p \in DOMAIN plan.taken |-> plan.taken[p]]
      BY <1>9
    <3>4. QED
      BY <1>1, <1>5, <1>8, <1>15, <1>16, <1>18, <2>2, <3>2, <3>3 DEF RunReads
  <2>3. QED
    BY <2>1, <2>2
<1>20. ASSUME NEW n \in Machines PROVE Knows(n)'
  <2>1. CASE n # m
    <3>1. HeldAs(n)' = HeldAs(n)
      BY <1>1, <1>4, <2>1 DEF HeldAs, Accepted
    <3>2. Knows(n)
      BY DEF ListsInv
    <3>3. QED
      BY <1>1, <3>1, <3>2 DEF Knows
  <2>2. CASE n = m
    <3>1. \A p \in Others(m) : \/ HeldAs(m)'[p] = Accepted(m)[p]
                               \/ p \in Pending(m) /\ HeldAs(m)'[p] = seen[m][p].content
      <4>1. CASE run'[m].pc = "commit"
        BY <1>1, <4>1 DEF HeldAs, Accepted
      <4>2. CASE run'[m].pc = "publish"
        <5> DEFINE g == plan.taken
                   f == Accepted(m)
        <5>1. HeldAs(m)' = Over(g, f)
          BY <1>1, <1>8, <4>2 DEF HeldAs, Accepting, Accepted
        <5>2. DOMAIN f = Machines /\ DOMAIN g = Pending(m) /\ \A p \in Pending(m) : g[p] = seen[m][p].content
          BY <1>15, AcceptedTyped
        <5> HIDE DEF g, f
        <5>3. /\ \A p \in DOMAIN g : Over(g, f)[p] = g[p]
              /\ \A p \in DOMAIN f \ DOMAIN g : Over(g, f)[p] = f[p]
          BY OverParts, ZenonT(60)
        <5>4. \A p \in Others(m) : \/ Over(g, f)[p] = f[p]
                                   \/ p \in Pending(m) /\ Over(g, f)[p] = seen[m][p].content
          BY <5>2, <5>3 DEF Others
        <5>5. QED
          BY <5>1, <5>4 DEF f
      <4>3. QED
        BY <1>8, <4>1, <4>2
    <3>2. \A p \in Others(m) : HeldAs(m)[p] = seen[m][p].content => HeldAs(m)'[p] = seen[m][p].content
      BY <1>17, <3>1
    <3>3. QED
      BY <1>1, <1>17, <2>2, <3>2 DEF Knows
  <2>3. QED
    BY <2>1, <2>2
<1>21. \A n \in Machines : \A c \in Chats : ChoiceStands(n, c)'
  BY <1>1 DEF ListsInv, ChoiceStands
<1>22. QED
  BY <1>10, <1>11, <1>12, <1>13, <1>14, <1>19, <1>20, <1>21 DEF ListsInv

\* A commit makes the plan the state.
LEMMA CommitKeeps == ASSUME ListsInv, NEW m \in Machines, Commit(m) PROVE ListsInv'
<1>1. /\ UNCHANGED <<disk, board, seen, places, shown, chosen, spent>>
      /\ run[m].pc = "commit" /\ state[m] = run[m].base
      /\ state' = [state EXCEPT ![m] = run[m].next]
      /\ run' = [run EXCEPT ![m] = [run[m] EXCEPT !.pc = "publish", !.base = None, !.next = None,
                                                  !.becomes = None, !.folders = None]]
      /\ applied' = [applied EXCEPT ![m] = Over(run[m].editions, @)]
  BY DEF Commit, Unmoved
<1>2. TypeOK /\ Shape /\ Numbered /\ OneSync /\ PlanHeld(m) /\ RunReads(m) /\ Knows(m)
  BY DEF ListsInv
<1>3. /\ run'[m] = [pc |-> "publish", base |-> None, next |-> None, becomes |-> None, folders |-> None,
                    taken |-> run[m].taken, editions |-> run[m].editions, own |-> run[m].own]
      /\ run' = [n \in Machines |-> run'[n]]
      /\ \A n \in Machines \ {m} : run'[n] = run[n]
  <2> DEFINE r == run[m]
             after == [r EXCEPT !.pc = "publish", !.base = None, !.next = None, !.becomes = None, !.folders = None]
  <2>1. r = [pc |-> r.pc, base |-> r.base, next |-> r.next, becomes |-> r.becomes, folders |-> r.folders,
             taken |-> r.taken, editions |-> r.editions, own |-> r.own]
    BY <1>2 DEF Shape
  <2>2. run' = [run EXCEPT ![m] = after]
    BY <1>1
  <2> HIDE DEF r
  <2> DEFINE fields == [pc |-> r.pc, base |-> r.base, next |-> r.next, becomes |-> r.becomes, folders |-> r.folders,
                        taken |-> r.taken, editions |-> r.editions, own |-> r.own]
  <2>3. after = [pc |-> "publish", base |-> None, next |-> None, becomes |-> None, folders |-> None,
                 taken |-> r.taken, editions |-> r.editions, own |-> r.own]
    <3>1. r = fields
      BY <2>1
    <3> HIDE DEF fields
    <3>2. after = [fields EXCEPT !.pc = "publish", !.base = None, !.next = None, !.becomes = None, !.folders = None]
      BY <3>1
    <3> HIDE DEF after
    <3>3. QED
      BY <3>2 DEF fields
  <2> HIDE DEF after
  <2>4. run'[m] = after /\ run' = [n \in Machines |-> run'[n]] /\ \A n \in Machines \ {m} : run'[n] = run[n]
    BY <1>2, <2>2 DEF Shape
  <2>5. QED
    BY <2>3, <2>4 DEF r
<1>4. \A n \in Machines \ {m} : run[n].pc = "idle"
  BY <1>1, <1>2 DEF OneSync
<1>5. /\ state'[m] = run[m].next /\ run[m].next \in States /\ Consistent(run[m].next)
      /\ \A n \in Machines \ {m} : state'[n] = state[n]
  BY <1>1, <1>2 DEF TypeOK
<1>6. /\ \A n \in Machines : applied'[n] \in [Others(n) -> Nat]
      /\ applied' = [n \in Machines |-> applied'[n]]
      /\ \A n \in Machines \ {m} : applied'[n] = applied[n]
      /\ \A p \in DOMAIN run[m].taken : applied'[m][p] = seen[m][p].edition
      /\ \A p \in Others(m) \ DOMAIN run[m].taken : applied'[m][p] = applied[m][p]
      /\ spent.mishaps = 0 => \A p \in Others(m) : applied[m][p] <= applied'[m][p]
  BY <1>1, AppliedTyped
<1>7. TypeOK'
  <2>1. state' \in [Machines -> States] /\ \A n \in Machines : Consistent(state'[n])
    BY <1>1, <1>2, <1>5 DEF TypeOK
  <2>2. \A n \in Machines : run'[n].pc \in PCs /\ run'[n].pc # "commit"
    BY <1>3, <1>4 DEF PCs
  <2>3. QED
    BY <1>1, <1>2, <1>6, <2>1, <2>2 DEF TypeOK, Consistent, Native
<1>8. Shape'
  <2>1. run'[m] = [pc |-> run'[m].pc, base |-> run'[m].base, next |-> run'[m].next, becomes |-> run'[m].becomes,
                   folders |-> run'[m].folders, taken |-> run'[m].taken, editions |-> run'[m].editions,
                   own |-> run'[m].own]
    BY <1>3
  <2>2. QED
    BY <1>1, <1>2, <1>3, <1>6, <2>1 DEF Shape
<1>9. OneSync' /\ Numbered'
  BY <1>1, <1>2, <1>3, <1>4 DEF OneSync, Numbered
<1>10. \A n \in Machines : PlanHeld(n)'
  BY <1>3, <1>4 DEF PlanHeld
<1>11. ASSUME NEW n \in Machines PROVE RunReads(n)'
  <2>1. CASE n # m
    BY <1>3, <1>4, <2>1 DEF RunReads
  <2>2. CASE n = m
    <3>1. \A p \in DOMAIN run[m].taken : seen[m][p].edition \in Nat
      BY <1>1, <1>2 DEF RunReads, Publications
    <3>2. QED
      BY <1>1, <1>2, <1>3, <1>6, <2>2, <3>1 DEF RunReads
  <2>3. QED
    BY <2>1, <2>2
<1>12. ASSUME NEW n \in Machines PROVE Knows(n)'
  <2>1. CASE n # m
    <3>1. HeldAs(n)' = HeldAs(n)
      BY <1>1, <1>3, <1>4, <2>1 DEF HeldAs, Accepted
    <3>2. Knows(n)
      BY DEF ListsInv
    <3>3. QED
      BY <1>1, <1>6, <2>1, <3>1, <3>2 DEF Knows
  <2>2. CASE n = m
    <3>1. HeldAs(m)' = Accepting(m)
      BY <1>3 DEF HeldAs, Accepting
    <3>2. /\ \A p \in DOMAIN run[m].taken : Accepting(m)[p] = seen[m][p].content
          /\ \A p \in Machines \ DOMAIN run[m].taken : Accepting(m)[p] = Accepted(m)[p]
      BY <1>1, AcceptedTyped
    <3>3. HeldAs(m) = Accepted(m)
      BY <1>1 DEF HeldAs
    <3>4. ASSUME NEW p \in Others(m), spent.mishaps = 0
          PROVE  /\ seen[m][p] = None => applied'[m][p] = 0
                 /\ seen[m][p] # None => applied'[m][p] <= seen[m][p].edition
                 /\ seen[m][p] # None /\ applied'[m][p] = seen[m][p].edition => Accepting(m)[p] = seen[m][p].content
      <4>1. CASE p \in DOMAIN run[m].taken
        <5>1. seen[m][p] \in Publications /\ seen[m][p] # None /\ seen[m][p].edition \in Nat
          BY <1>1, <1>2, <4>1, NoneAssumption DEF RunReads, Publications
        <5>2. QED
          BY <1>6, <3>2, <4>1, <5>1
      <4>2. CASE p \notin DOMAIN run[m].taken
        BY <1>2, <1>6, <3>2, <3>3, <3>4, <4>2 DEF Knows, Others
      <4>3. QED
        BY <4>1, <4>2
    <3>5. QED
      BY <1>1, <2>2, <3>1, <3>4 DEF Knows
  <2>3. QED
    BY <2>1, <2>2
<1>13. ASSUME NEW n \in Machines, NEW c \in Chats PROVE ChoiceStands(n, c)'
  <2>1. ChoiceStands(n, c)
    BY DEF ListsInv
  <2>2. CASE n # m
    BY <1>1, <1>5, <1>6, <2>1, <2>2 DEF ChoiceStands
  <2>3. CASE n = m
    <3>1. ASSUME chosen[m][c] # None PROVE run[m].next.binding[c] = None => c \in run[m].next.out
      BY <1>1, <1>2, <2>1, <2>3, <3>1 DEF PlanHeld, GoesBy, ChoiceStands
    <3>2. ASSUME chosen[m][c] # None, spent.mishaps = 0, NEW p \in Others(m)
          PROVE  chosen[m][c].after[p] <= applied'[m][p]
      <4>1. chosen[m][c].after[p] \in Nat /\ applied[m][p] \in Nat /\ applied'[m][p] \in Nat
        BY <1>2, <1>6, <2>1, <2>3, <3>2 DEF ChoiceStands, TypeOK
      <4>2. chosen[m][c].after[p] <= applied[m][p] /\ applied[m][p] <= applied'[m][p]
        BY <1>6, <2>1, <2>3, <3>2 DEF ChoiceStands
      <4>3. QED
        BY <4>1, <4>2
    <3>3. QED
      BY <1>1, <1>5, <2>1, <2>3, <3>1, <3>2 DEF ChoiceStands
  <2>4. QED
    BY <2>2, <2>3
<1>14. QED
  BY <1>7, <1>8, <1>9, <1>10, <1>11, <1>12, <1>13 DEF ListsInv

\* A sync ends with the list it publishes, or finds it published.
LEMMA PublishKeeps == ASSUME ListsInv, NEW m \in Machines, Publish(m) PROVE ListsInv'
<1> DEFINE changed == Content(state[m]) # board[m].content
           edition == board[m].edition + IF changed THEN 1 ELSE 0
           new == Publication(state[m], Accepting(m), edition)
<1>1. /\ UNCHANGED <<state, disk, places, chosen, spent>> /\ run[m].pc = "publish"
      /\ IF new = run[m].own THEN UNCHANGED <<board, seen>>
         ELSE board' = [board EXCEPT ![m] = new] /\ seen' = [seen EXCEPT ![m][m] = new]
      /\ applied' = [applied EXCEPT ![m] = Over(run[m].editions, @)]
      /\ run' = [run EXCEPT ![m] = Idle]
  BY DEF Publish
<1>2. TypeOK /\ Shape /\ Numbered /\ RunReads(m) /\ Knows(m)
  BY DEF ListsInv
<1>3. /\ \A n \in Machines : run'[n].pc = "idle"
      /\ OneSync' /\ \A n \in Machines : PlanHeld(n)' /\ RunReads(n)'
      /\ run' = [n \in Machines |-> run'[n]]
  BY <1>1, SyncEnds
<1>4. /\ \A n \in Machines : applied'[n] \in [Others(n) -> Nat]
      /\ applied' = [n \in Machines |-> applied'[n]]
      /\ \A n \in Machines \ {m} : applied'[n] = applied[n]
      /\ \A p \in DOMAIN run[m].taken : applied'[m][p] = seen[m][p].edition
      /\ \A p \in Others(m) \ DOMAIN run[m].taken : applied'[m][p] = applied[m][p]
      /\ spent.mishaps = 0 => \A p \in Others(m) : applied[m][p] <= applied'[m][p]
  BY <1>1, AppliedTyped
<1>5. /\ Accepting(m) \in [Machines -> Contents \cup {None}]
      /\ \A p \in DOMAIN run[m].taken : Accepting(m)[p] = seen[m][p].content
      /\ \A p \in Machines \ DOMAIN run[m].taken : Accepting(m)[p] = Accepted(m)[p]
  BY <1>1, AcceptedTyped
<1>6. board[m] \in Publications /\ board[m].edition \in Nat /\ state[m] \in States
  BY <1>2 DEF TypeOK, Publications
<1>7. /\ edition \in Nat /\ edition >= board[m].edition
      /\ edition = board[m].edition => Content(state[m]) = board[m].content
  BY <1>6
<1> HIDE DEF edition, changed
<1>8. new \in Publications
  BY <1>5, <1>6, <1>7, PublicationTyped
<1>9. new.content = Content(state[m]) /\ new.accepted = Accepting(m) /\ new.edition = edition
  BY DEF Publication
<1> HIDE DEF new
<1>10. new # None
  BY <1>8, NoneAssumption
<1>11. /\ seen'[m][m] = new
       /\ \A p \in Others(m) : seen'[m][p] = seen[m][p]
       /\ \A n \in Machines \ {m} : seen'[n] = seen[n]
       /\ board' \in [Machines -> Publications]
       /\ seen' \in [Machines -> [Machines -> Publications \cup {None}]]
  <2>1. CASE new = run[m].own
    BY <1>1, <1>2, <2>1 DEF RunReads, TypeOK, Others
  <2>2. CASE new # run[m].own
    <3>1. board' = [board EXCEPT ![m] = new] /\ seen' = [seen EXCEPT ![m][m] = new]
      BY <1>1, <2>2
    <3>2. board' \in [Machines -> Publications] /\ seen' \in [Machines -> [Machines -> Publications \cup {None}]]
      BY <1>2, <1>8, <3>1 DEF TypeOK
    <3>3. seen'[m][m] = new /\ \A p \in Others(m) : seen'[m][p] = seen[m][p]
      BY <1>2, <3>1 DEF TypeOK, Others
    <3>4. \A n \in Machines \ {m} : seen'[n] = seen[n]
      BY <1>2, <3>1 DEF TypeOK
    <3>5. QED
      BY <3>2, <3>3, <3>4
  <2>3. QED
    BY <2>1, <2>2
<1>12. TypeOK'
  BY <1>1, <1>2, <1>3, <1>4, <1>11 DEF TypeOK, Consistent, Native, PCs
<1>13. Shape'
  <2>1. \A n \in Machines :
          run'[n] = [pc |-> run'[n].pc, base |-> run'[n].base, next |-> run'[n].next, becomes |-> run'[n].becomes,
                     folders |-> run'[n].folders, taken |-> run'[n].taken, editions |-> run'[n].editions,
                     own |-> run'[n].own]
    BY <1>1, SyncEnds
  <2>2. QED
    BY <1>1, <1>2, <1>3, <1>4, <2>1 DEF Shape
<1>14. Numbered'
  <2>1. CASE new = run[m].own
    BY <1>1, <1>2, <2>1 DEF Numbered
  <2>2. CASE new # run[m].own
    <3>1. /\ board'[m] = new /\ \A p \in Machines \ {m} : board'[p] = board[p]
      BY <1>1, <1>2, <2>2 DEF TypeOK
    <3>2. \A p \in Machines : board'[p].edition >= 1
      BY <1>2, <1>6, <1>7, <1>9, <3>1 DEF Numbered
    <3>3. ASSUME NEW n \in Machines, NEW p \in Machines, seen'[n][p] # None
          PROVE  /\ seen'[n][p].edition <= board'[p].edition
                 /\ seen'[n][p].edition = board'[p].edition => seen'[n][p].content = board'[p].content
      <4>1. CASE n = m /\ p = m
        BY <1>7, <1>9, <1>11, <3>1, <4>1
      <4>2. CASE p # m
        BY <1>2, <1>11, <3>1, <3>3, <4>2 DEF Numbered, Others
      <4>3. CASE n # m /\ p = m
        <5>1. seen'[n][p] = seen[n][m] /\ seen[n][m] # None /\ seen[n][m].edition \in Nat
          BY <1>2, <1>11, <3>3, <4>3 DEF TypeOK, Publications
        <5>2. /\ seen[n][m].edition <= board[m].edition
              /\ seen[n][m].edition = board[m].edition => seen[n][m].content = board[m].content
          BY <1>2, <5>1 DEF Numbered
        <5>3. QED
          BY <1>6, <1>7, <1>9, <3>1, <4>3, <5>1, <5>2
      <4>4. QED
        BY <4>1, <4>2, <4>3
    <3>4. spent'.mishaps = 0 => \A n \in Machines : seen'[n][n] = board'[n]
      BY <1>1, <1>2, <1>11, <3>1 DEF Numbered
    <3>5. QED
      BY <3>2, <3>3, <3>4 DEF Numbered
  <2>3. QED
    BY <2>1, <2>2
<1>15. ASSUME NEW n \in Machines PROVE Knows(n)'
  <2>1. CASE n # m
    <3>1. run[n].pc # "publish"
      BY <1>1, <2>1 DEF ListsInv, OneSync
    <3>2. HeldAs(n)' = HeldAs(n)
      BY <1>3, <1>11, <2>1, <3>1 DEF HeldAs, Accepted
    <3>3. Knows(n)
      BY DEF ListsInv
    <3>4. QED
      BY <1>1, <1>4, <1>11, <2>1, <3>2, <3>3 DEF Knows
  <2>2. CASE n = m
    <3>1. HeldAs(m)' = Accepting(m)
      BY <1>3, <1>9, <1>10, <1>11 DEF HeldAs, Accepted, AcceptedIn
    <3>2. HeldAs(m) = Accepting(m)
      BY <1>1 DEF HeldAs
    <3>3. ASSUME NEW p \in Others(m), spent.mishaps = 0
          PROVE  /\ seen[m][p] = None => applied'[m][p] = 0
                 /\ seen[m][p] # None => applied'[m][p] <= seen[m][p].edition
                 /\ seen[m][p] # None /\ applied'[m][p] = seen[m][p].edition => Accepting(m)[p] = seen[m][p].content
      <4>1. CASE p \in DOMAIN run[m].taken
        <5>1. seen[m][p] \in Publications /\ seen[m][p] # None /\ seen[m][p].edition \in Nat
          BY <1>1, <1>2, <4>1, NoneAssumption DEF RunReads, Publications
        <5>2. QED
          BY <1>4, <1>5, <4>1, <5>1
      <4>2. CASE p \notin DOMAIN run[m].taken
        BY <1>2, <1>4, <3>2, <3>3, <4>2 DEF Knows
      <4>3. QED
        BY <4>1, <4>2
    <3>4. QED
      BY <1>1, <1>11, <2>2, <3>1, <3>3 DEF Knows
  <2>3. QED
    BY <2>1, <2>2
<1>16. ASSUME NEW n \in Machines, NEW c \in Chats PROVE ChoiceStands(n, c)'
  <2>1. ChoiceStands(n, c)
    BY DEF ListsInv
  <2>2. CASE n # m
    BY <1>1, <1>4, <2>1, <2>2 DEF ChoiceStands
  <2>3. CASE n = m
    <3>1. ASSUME chosen[m][c] # None, spent.mishaps = 0, NEW p \in Others(m)
          PROVE  chosen[m][c].after[p] <= applied'[m][p]
      <4>1. chosen[m][c].after[p] \in Nat /\ applied[m][p] \in Nat /\ applied'[m][p] \in Nat
        BY <1>2, <1>4, <2>1, <2>3, <3>1 DEF ChoiceStands, TypeOK
      <4>2. chosen[m][c].after[p] <= applied[m][p] /\ applied[m][p] <= applied'[m][p]
        BY <1>4, <2>1, <2>3, <3>1 DEF ChoiceStands
      <4>3. QED
        BY <4>1, <4>2
    <3>2. QED
      BY <1>1, <2>1, <2>3, <3>1 DEF ChoiceStands
  <2>4. QED
    BY <2>2, <2>3
<1>17. QED
  BY <1>3, <1>12, <1>13, <1>14, <1>15, <1>16 DEF ListsInv

\* Every step keeps it.
LEMMA ListsKeep == ListsInv /\ [Next]_vars => ListsInv'
<1> SUFFICES ASSUME ListsInv, [Next]_vars PROVE ListsInv'
  OBVIOUS
<1>1. CASE Sync
  BY <1>1, ShownKeeps, BeginKeeps, CommitKeeps, RefusedKeeps, PublishKeeps, CrashKeeps DEF Sync
<1>2. CASE Answers
  BY <1>2, AnswersKeep
<1>3. CASE Codex
  BY <1>3, CodexKeeps
<1>4. CASE World
  BY <1>4, WorldKeeps
<1>5. CASE UNCHANGED vars
  <2>1. UNCHANGED <<state, disk, board, seen, places, run, chosen, applied, spent>>
    BY <1>5 DEF vars
  <2>2. TypeOK'
    BY <2>1 DEF ListsInv, TypeOK, Consistent, Native
  <2>3. \A n \in Machines : \A c \in Chats : ChoiceStands(n, c)'
    BY <2>1 DEF ListsInv, ChoiceStands
  <2>4. chosen' = [n \in Machines |-> [c \in Chats |-> chosen'[n][c]]]
    BY <2>1 DEF ListsInv, Shape
  <2>5. QED
    BY <2>1, <2>2, <2>3, <2>4, ListsUntouched
<1>6. QED
  BY <1>1, <1>2, <1>3, <1>4, <1>5 DEF Next

\* So it always holds.
LEMMA ListsHold == Spec => []ListsInv
  BY ListsStart, ListsKeep, PTL DEF Spec

\* The property follows from what a plan is made of.
THEOREM ProjectsAreKeptApart == Spec => []ProjectsStayApart
<1>1. ListsInv => ProjectsStayApart
  <2> SUFFICES ASSUME ListsInv PROVE ProjectsStayApart
    OBVIOUS
  <2>1. TypeOK
    BY DEF ListsInv
  <2>2. ASSUME NEW m \in Machines, run[m].pc = "commit", NEW p \in DOMAIN run[m].becomes,
               NEW i \in DOMAIN run[m].becomes[p], NEW j \in DOMAIN run[m].becomes[p],
               seen[m][p].content.projects[i] # seen[m][p].content.projects[j],
               run[m].becomes[p][i].to = run[m].becomes[p][j].to,
               StandsAsMapped(run[m], p, i), StandsAsMapped(run[m], p, j)
        PROVE  \E k \in DOMAIN run[m].becomes[p] :
                  k = run[m].becomes[p][i].to /\ run[m].becomes[p][k].kind = "placed"
    <3>1. ApartIn(run[m].becomes[p], run[m].folders[p], seen[m][p].content.projects)
      BY <2>2 DEF ListsInv, PlanHeld
    <3>2. QED
      BY <2>2, <3>1 DEF ApartIn, StandsAsMapped
  <2>3. QED
    BY <2>1, <2>2 DEF ProjectsStayApart
<1>2. QED
  BY <1>1, ListsHold, PTL

\* Only a commit moves a sync from its commit to its publication.
LEMMA OnlyCommitMerges ==
    ASSUME ListsInv, [Next]_vars, NEW m \in Machines, Merging(m)
    PROVE  Commit(m)
<1>1. run[m].pc = "commit" /\ run'[m].pc = "publish" /\ Shape
  BY DEF Merging, ListsInv
<1>2. run' # run
  BY <1>1
<1>3. PICK n \in Machines : Begin(n) \/ Commit(n) \/ CommitRefused(n) \/ Publish(n) \/ Crash(n)
  <2>1. Answers => run' = run
    <3>1. \A n \in Machines, i \in Projects : Skip(n, i) \/ Forget(n, i) => run' = run
      BY DEF Skip, Forget
    <3>2. \A n \in Machines, i \in Projects, here \in Folders, whole \in BOOLEAN : Place(n, i, here, whole) => run' = run
      BY DEF Place
    <3>3. QED
      BY <3>1, <3>2 DEF Answers
  <2>2. Codex => run' = run
    <3>1. \A n \in Machines, i \in Projects, path \in Paths : NewProject(n, i, path) => run' = run
      BY DEF NewProject, InCodex
    <3>2. \A n \in Machines, i \in Projects : RemoveProject(n, i) \/ Pin(n, i) => run' = run
      BY DEF RemoveProject, Pin, InCodex
    <3>3. \A n \in Machines, c \in Chats : TakeOut(n, c) => run' = run
      BY DEF TakeOut, InCodex
    <3>4. \A n \in Machines, c \in Chats, i \in Projects : Bind(n, c, i) => run' = run
      BY DEF Bind, InCodex
    <3>5. ASSUME NEW n, NEW key, NEW o PROVE PutInSection(n, key, o) => run' = run
      BY DEF PutInSection, InCodex
    <3>6. QED
      BY <3>1, <3>2, <3>3, <3>4, <3>5 DEF Codex
  <2>3. World => run' = run
    BY DEF World, MakeFolder, Deliver, HoldBack
  <2>4. \A n \in Machines : Preview(n) \/ PlanChanged(n) => run' = run
    BY DEF Preview, PlanChanged
  <2>5. Sync
    BY <1>2, <2>1, <2>2, <2>3 DEF Next, vars
  <2>6. QED
    BY <1>2, <2>4, <2>5 DEF Sync
<1>4. ~Begin(n)
  BY <1>1 DEF Begin, BetweenSyncs
<1>5. ~(CommitRefused(n) \/ Publish(n) \/ Crash(n))
  <2>1. SUFFICES ASSUME CommitRefused(n) \/ Publish(n) \/ Crash(n) PROVE FALSE
    OBVIOUS
  <2>2. run' = [run EXCEPT ![n] = Idle]
    BY <2>1 DEF CommitRefused, Publish, Crash
  <2>3. run'[m] = Idle \/ run'[m] = run[m]
    BY <1>1, <2>2 DEF Shape
  <2>4. QED
    BY <1>1, <2>3 DEF Idle
<1>6. Commit(n)
  BY <1>3, <1>4, <1>5
<1>7. n = m
  BY <1>1, <1>6 DEF ListsInv, OneSync, Commit
<1>8. QED
  BY <1>6, <1>7

\* What a commit moves it moves by what the plan was made of.
THEOREM ListsAreNotAppliedAgain == Spec => ListsNotAppliedAgain
<1>1. ASSUME ListsInv, [Next]_vars, NEW m \in Machines, NEW c \in Chats,
             spent.mishaps = 0, Undone(m, c), Stood(m, state'[m].binding[c])
      PROVE  ByNews(m, c)
  <2>1. Merging(m) /\ chosen[m][c] # None /\ state'[m].binding[c] # state[m].binding[c]
    BY <1>1 DEF Undone
  <2>2. Commit(m)
    BY <1>1, <2>1, OnlyCommitMerges
  <2>3. TypeOK /\ PlanHeld(m) /\ RunReads(m) /\ ChoiceStands(m, c)
    BY <1>1 DEF ListsInv
  <2>4. run[m].pc = "commit" /\ state[m] = run[m].base /\ state'[m] = run[m].next
    BY <2>2, <2>3 DEF Commit, Unmoved, TypeOK
  <2>5. GoesBy(state[m], state'[m], run[m].taken, c)
    BY <2>3, <2>4 DEF PlanHeld
  <2>6. \E p \in DOMAIN run[m].taken : run[m].taken[p].binding[c] # None
    BY <1>1, <2>1, <2>3, <2>5 DEF GoesBy, Stood, ChoiceStands
  <2>7. PICK p \in DOMAIN run[m].taken : run[m].taken[p].binding[c] # None
    BY <2>6
  <2>8. p \in Others(m) /\ run[m].editions[p] > applied[m][p] /\ run[m].editions[p] \in Nat
    BY <1>1, <2>3, <2>4, <2>7 DEF RunReads, Publications
  <2>9. chosen[m][c].after[p] <= applied[m][p] /\ chosen[m][c].after[p] \in Nat /\ applied[m][p] \in Nat
    BY <1>1, <2>1, <2>3, <2>8 DEF ChoiceStands, TypeOK
  <2>10. run[m].editions[p] > chosen[m][c].after[p]
    BY <2>8, <2>9
  <2>11. QED
    BY <2>7, <2>10 DEF ByNews
<1>2. ListsInv /\ [Next]_vars => [\A m \in Machines, c \in Chats :
          spent.mishaps = 0 /\ Undone(m, c) /\ Stood(m, state'[m].binding[c]) => ByNews(m, c)]_vars
  BY <1>1
<1>3. QED
  BY <1>2, ListsHold, PTL DEF Spec, ListsNotAppliedAgain
=============================================================================
