---------------------------- MODULE ProjectLists ----------------------------
(***************************************************************************)
(* The project lists of several machines (project_sync.py, path_places.py, *)
(* sidebar_sections.py, app.sync_projects).  Each machine publishes its    *)
(* list in a file of the cloud folder; a sync merges the lists of the      *)
(* others into the global state of Codex and publishes the result.  A      *)
(* project keeps its id everywhere and its folder nowhere: answers of the  *)
(* person, and the lists themselves, say which folder stands for which.    *)
(***************************************************************************)
EXTENDS Integers, Sequences, FiniteSets, SequencesExt, FiniteSetsExt, Functions

CONSTANTS
    LastMachine,   \* the number of machines, numbered in the order of their names
    LastProject,   \* the number of projects, numbered in the order of their ids
    Chats,         \* thread ids
    LastSection,   \* the number of sidebar sections, in the order of theirs
    Dirs,          \* parent folders
    Names,         \* last names of folders
    SystemOf,      \* the operating system of each machine and parent folder
    Cwd,           \* the folder each chat was written in
    ConfigRules,   \* [[path_mappings]]
    Folders,       \* the folders persons make and name in their answers
    Edited,        \* bound: the projects and chats a person changes in Codex, on each machine
    Attended,      \* the machines where a person reads the plan before it is applied
    Starts,        \* what Codex holds at first, on each machine
    Disks,         \* the folders each machine has at first
    MaxEvents,     \* bound: what persons do in Codex and answer about folders
    MaxEditions,   \* bound: the contents a machine publishes
    MaxMishaps,    \* bound: how many events are kills, or files held back by the cloud client
    None

Machines == 1..LastMachine
Projects == 1..LastProject
Sections == 1..LastSection
Paths == [dir : Dirs, name : Names]

ASSUME ProjectAssumption ==
    /\ LastMachine \in Nat /\ LastProject \in Nat /\ LastSection \in Nat
    /\ Cwd \in [Chats -> Paths] /\ Folders \subseteq Paths
    /\ MaxEvents \in Nat /\ MaxEditions \in Nat /\ MaxMishaps \in Nat

Others(m) == Machines \ {m}
Native(m, path) == SystemOf.dir[path.dir] = SystemOf.machine[m]
Partial(S, T) == UNION {[D -> T] : D \in SUBSET S}
Items == ({"chat"} \X Chats) \cup ({"project"} \X Projects)
Contents == [projects : Partial(Projects, Paths), order : Seq(Projects), pinned : SUBSET Projects,
             binding : [Chats -> Projects \cup {None}], sections : Partial(Sections, SUBSET Items)]
States == [projects : Partial(Projects, Paths), order : Seq(Projects), pinned : SUBSET Projects, out : SUBSET Chats,
           binding : [Chats -> Projects \cup {None}], sections : Partial(Sections, SUBSET Items)]
Publications == [content : Contents, out : SUBSET Chats, accepted : [Machines -> Contents \cup {None}], edition : Nat]
Rules == [peer : Machines, there : Paths, here : Paths, whole : BOOLEAN]
\* What is pinned, and what a chat is bound to, is a project there is.
Consistent(s) ==
    /\ s.pinned \subseteq DOMAIN s.projects
    /\ \A c \in Chats : s.binding[c] \in DOMAIN s.projects \cup {None}

ASSUME NoneAssumption == None \notin Projects \cup Paths \cup Contents \cup Publications
ASSUME WorldAssumption ==
    /\ ConfigRules \in [Machines -> SUBSET Rules]
    /\ Disks \in [Machines -> SUBSET Paths] /\ \A m \in Machines : \A path \in Disks[m] : Native(m, path)
    /\ \A start \in Starts : start \in [Machines -> States] /\ \A m \in Machines : Consistent(start[m])

VARIABLES
    state,     \* the project part of each machine's global state
    disk,      \* the folders each machine has
    board,     \* the project list each machine published last
    seen,      \* what each machine's replica holds of every list, or None
    places,    \* what each machine was told about folders
    shown,     \* the plan a person was shown, or None
    run,       \* what a sync that is applying remembers
    chosen,    \* history: what a person last did with a chat on a machine
    applied,   \* history: the edition of each other list that a machine merged last
    spent      \* [events, mishaps]

vars == <<state, disk, board, seen, places, shown, run, chosen, applied, spent>>

The(S) == CHOOSE x \in S : TRUE
\* The elements of a sequence that are in S; without its repetitions.
Only(seq, S) ==
    LET upTo[k \in 0..Len(seq)] ==
            IF k = 0 THEN <<>> ELSE IF seq[k] \in S THEN Append(upTo[k - 1], seq[k]) ELSE upTo[k - 1]
    IN upTo[Len(seq)]
Unique(seq) ==
    LET first == Only([k \in 1..Len(seq) |-> k], {k \in 1..Len(seq) : \A j \in 1..(k - 1) : seq[j] # seq[k]})
    IN [n \in 1..Len(first) |-> seq[first[n]]]
Key(kind, id) == <<kind, id>>
\* f with b for a; f under g.
With(f, a, b) == [x \in DOMAIN f \cup {a} |-> IF x = a THEN b ELSE f[x]]
Over(g, f) == [x \in DOMAIN f \cup DOMAIN g |-> IF x \in DOMAIN g THEN g[x] ELSE f[x]]
Nowhere == [x \in {} |-> None]

-----------------------------------------------------------------------------
(* What is published. *)

\* The content of a list: what its id is the digest of.
Content(s) == [projects |-> s.projects, order |-> s.order, pinned |-> s.pinned,
               binding |-> s.binding, sections |-> s.sections]
\* `edition` counts the contents a machine has published; no step reads it.
Publication(s, accepted, edition) ==
    [content |-> Content(s), out |-> s.out, accepted |-> accepted, edition |-> edition]

NothingTaken == [p \in Machines |-> None]
Readable(m) == {p \in Others(m) : seen[m][p] # None}
AcceptedIn(list) == IF list = None THEN NothingTaken ELSE list.accepted
Accepted(m) == AcceptedIn(seen[m][m])
Taken(m, p) == Accepted(m)[p] = seen[m][p].content
Pending(m) == {p \in Readable(m) : ~Taken(m, p)}

-----------------------------------------------------------------------------
(* Where a folder of another machine is here. *)

Rule(peer, there, here, whole) == [peer |-> peer, there |-> there, here |-> here, whole |-> whole]

\* A place answers for one folder or, whole, for its parent.
SameFolder(r, q) == r.whole = q.whole /\ IF r.whole THEN r.there.dir = q.there.dir ELSE r.there = q.there
ToldHere(m) == {t.rule : t \in places[m].told}
\* What the others were told, the other way round; and a folder both know of, through its name at a third.
ToldThere(m) == UNION {{Rule(o, r.here, r.there, r.whole) : r \in {q \in ToldHere(o) : q.peer = m}} : o \in Others(m)}
JoinedBy(m, r) ==
    UNION {{Rule(o, q.here, r.here, r.whole) : q \in {x \in ToldHere(o) : x.peer = r.peer /\ SameFolder(r, x)}}
              : o \in Others(m) \ {r.peer}}
Joined(m) == UNION {JoinedBy(m, r) : r \in ToldHere(m)}

\* One project, its folder there and here: a rule by itself.
ProjectRules(m) ==
    UNION {{Rule(p, seen[m][p].content.projects[i], state[m].projects[i], FALSE) :
              i \in {j \in DOMAIN seen[m][p].content.projects \cap DOMAIN state[m].projects :
                       seen[m][p].content.projects[j] # state[m].projects[j]}} : p \in Readable(m)}

PathRules(m) == ConfigRules[m] \cup ToldHere(m) \cup ToldThere(m) \cup Joined(m) \cup ProjectRules(m)

\* The longest prefix wins; several targets of that length are no answer.
Covers(r, path) == IF r.whole THEN r.there.dir = path.dir ELSE r.there = path
Target(r, path) == IF r.whole THEN [path EXCEPT !.dir = r.here.dir] ELSE r.here
Longest(covering) == IF \E r \in covering : ~r.whole THEN {r \in covering : ~r.whole} ELSE covering
OneOf(best, m, path) ==
    CASE Cardinality(best) = 1 -> [at |-> The(best), why |-> "mapped"]
      [] Cardinality(best) > 1 -> [at |-> None, why |-> "ambiguous"]
      [] best = {} /\ Native(m, path) -> [at |-> path, why |-> "same"]
      [] OTHER -> [at |-> None, why |-> "unplaced"]
MapRoot(rules, m, peer, path) ==
    OneOf({Target(r, path) : r \in Longest({r \in rules : r.peer = peer /\ Covers(r, path)})}, m, path)

-----------------------------------------------------------------------------
(* The merge of one list into the projects here (build_project_merge). *)

\* A mutant: two folders the rules make one are not noticed.
NoneCollapse(rules, m, p) == {}
\* Projects of one list whose different folders the rules send to one folder.
Collapsing(rules, m, p) ==
    LET roots == seen[m][p].content.projects
        at(i) == MapRoot(rules, m, p, roots[i]).at
    IN {i \in DOMAIN roots : at(i) # None /\ \E j \in DOMAIN roots : roots[j] # roots[i] /\ at(j) = at(i)}

\* A project carried with the other's root, which names nothing here, and placed since.
FollowsAPlace(m, local, there, target) ==
    local = there /\ local \notin disk[m] /\ target # local /\ target \in disk[m]

\* The projects here that a project of the list may be, by its folder.
Candidates(m, i, root, target, here, why) ==
    {j \in DOMAIN here : here[j] = target} \cup
    {j \in DOMAIN here \ {i} : why = "unplaced" /\ \E q \in Readable(m) :
        j \in DOMAIN seen[m][q].content.projects /\ seen[m][q].content.projects[j] = root}

Item(kind, to, root) == [kind |-> kind, to |-> to, root |-> root]
Found(i, here, found, root, target) ==
    CASE Cardinality(found) = 1 -> Item("matched", The(found), here[The(found)])
      [] Cardinality(found) > 1 -> Item("ambiguous", None, root)
      [] OTHER -> Item("add", i, target)
Decide(m, i, here, root, mapped, unclear) ==
    LET target == IF mapped.why = "unplaced" THEN root ELSE mapped.at
    IN IF i \in DOMAIN here
       THEN IF mapped.at # None /\ FollowsAPlace(m, here[i], root, mapped.at)
            THEN Item("placed", i, mapped.at) ELSE Item("matched", i, here[i])
       ELSE IF i \in places[m].skipped THEN Item("skipped", None, root)
       ELSE IF mapped.why = "ambiguous" \/ unclear THEN Item("ambiguous", None, root)
       ELSE Found(i, here, Candidates(m, i, root, target, here, mapped.why), root, target)
MergeOne(rules, m, p, i, here, root) ==
    Decide(m, i, here, root, MapRoot(rules, m, p, root), i \in Collapsing(rules, m, p))

\* The ids of one list in their order: a project added is a candidate for the next.
Taking(acc, i, item) ==
    [projects |-> IF item.kind \in {"add", "placed"} THEN With(acc.projects, i, item.root) ELSE acc.projects,
     items |-> With(acc.items, i, item)]
TakeProject(rules, m, p, acc, i) ==
    LET roots == seen[m][p].content.projects
    IN IF i \in DOMAIN roots THEN Taking(acc, i, MergeOne(rules, m, p, i, acc.projects, roots[i])) ELSE acc
MergeProjects(rules, m, p, here) ==
    LET upTo[i \in 0..LastProject] ==
            IF i = 0 THEN [projects |-> here, items |-> Nowhere] ELSE TakeProject(rules, m, p, upTo[i - 1], i)
    IN upTo[LastProject]

Translate(items) == Restrict([i \in DOMAIN items |-> items[i].to], {i \in DOMAIN items : items[i].to # None})
SettledNow(items) == {i \in DOMAIN items : items[i].kind \in {"add", "placed"}}

-----------------------------------------------------------------------------
(* Order, pins, bindings and sections of one list. *)

InOrder == [i \in Projects |-> i]
MergeOrder(order, list, items, fresh) ==
    LET trans == Translate(items)
        known == Only(list.order, DOMAIN trans)
        theirs == Unique([k \in 1..Len(known) |-> trans[known[k]]])
        new == Only(InOrder, {i \in SettledNow(items) : i \notin ToSet(order)})
    IN IF fresh THEN theirs \o Only(order, Projects \ ToSet(theirs))
                ELSE order \o new

MergePins(pinned, list, items, fresh) ==
    LET trans == Translate(items)
    IN IF fresh THEN {trans[i] : i \in list.pinned \cap DOMAIN trans} \cup (pinned \ Range(trans)) ELSE pinned

\* A mutant: a list taken before wins again.
WinsAgain(binding, list, items, fresh) ==
    LET trans == Translate(items)
    IN [c \in Chats |-> IF list.binding[c] \in DOMAIN trans THEN trans[list.binding[c]] ELSE binding[c]]
MergeBinding(binding, list, items, fresh) ==
    LET trans == Translate(items)
        wins(c) == /\ list.binding[c] \in DOMAIN trans
                   /\ fresh \/ (list.binding[c] \in SettledNow(items) /\ binding[c] = None)
    IN [c \in Chats |-> IF wins(c) THEN trans[list.binding[c]] ELSE binding[c]]

\* Sections are matched by id, never removed, and hold an item once.
TakeSection(sections, list, trans, fresh, s) ==
    LET ours(key) == key[1] = "chat" \/ key[2] \in DOMAIN trans
        translated(key) == IF key[1] = "chat" THEN key ELSE Key("project", trans[key[2]])
        peerKnows(key) == key[1] = "project" /\ key[2] \in Range(trans)
        offered == {translated(key) : key \in {k \in list.sections[s] : ours(k)}}
        kept == IF s \in DOMAIN sections THEN {k \in sections[s] : ~peerKnows(k)} ELSE {}
        put == IF fresh THEN offered ELSE offered \ UNION Range(sections)
    IN IF s \notin DOMAIN list.sections \/ (s \in DOMAIN sections /\ ~fresh) THEN sections
       ELSE With([o \in DOMAIN sections |-> sections[o] \ put], s, put \cup kept)
MergeSections(sections, list, items, fresh) ==
    LET upTo[s \in 0..LastSection] ==
            IF s = 0 THEN sections ELSE TakeSection(upTo[s - 1], list, Translate(items), fresh, s)
    IN upTo[LastSection]

MergeRest(acc, p, merged, list, fresh) ==
    [items |-> With(acc.items, p, merged.items),
     s |-> [projects |-> merged.projects, out |-> acc.s.out,
            order |-> MergeOrder(acc.s.order, list, merged.items, fresh),
            pinned |-> MergePins(acc.s.pinned, list, merged.items, fresh),
            binding |-> MergeBinding(acc.s.binding, list, merged.items, fresh),
            sections |-> MergeSections(acc.s.sections, list, merged.items, fresh)]]
MergeList(rules, m, acc, p) ==
    MergeRest(acc, p, MergeProjects(rules, m, p, acc.s.projects), seen[m][p].content, p \in Pending(m))

-----------------------------------------------------------------------------
(* Chats that only a mapped folder connects to a project. *)

FolderOf(path, projects) == {i \in DOMAIN projects : projects[i] = path}
KeptApart(m) == state[m].out \cup UNION {seen[m][p].out : p \in Readable(m)}

BoundByFolder(m, merged, c) ==
    LET here == Restrict(merged.s.projects, {i \in DOMAIN merged.s.projects : Native(m, merged.s.projects[i])})
        there(p) == FolderOf(Cwd[c], seen[m][p].content.projects)
        found == {Translate(merged.items[p])[The(there(p))] :
                    p \in {q \in DOMAIN merged.items : /\ Cardinality(there(q)) = 1
                                                       /\ there(q) \subseteq DOMAIN Translate(merged.items[q])}}
    IN IF c \notin KeptApart(m) /\ merged.s.binding[c] = None /\ FolderOf(Cwd[c], here) = {} /\ Cardinality(found) = 1
       THEN The(found) ELSE None

BindByFolder(m, merged) ==
    [c \in Chats |-> IF BoundByFolder(m, merged, c) # None THEN BoundByFolder(m, merged, c)
                     ELSE merged.s.binding[c]]

-----------------------------------------------------------------------------
(* The plan of one machine and its id. *)

\* The lists not taken yet come first, then the others, each in the order of the names.
TakeList(rules, m, acc, n) ==
    LET news == n <= LastMachine
        p == IF news THEN n ELSE n - LastMachine
    IN IF p \in Readable(m) /\ (p \in Pending(m) <=> news) THEN MergeList(rules, m, acc, p) ELSE acc
Merged(m, rules) ==
    LET upTo[n \in 0..(2 * LastMachine)] ==
            IF n = 0 THEN [s |-> state[m], items |-> Nowhere] ELSE TakeList(rules, m, upTo[n - 1], n)
    IN upTo[2 * LastMachine]

Named(kinds, items) == {<<i, items[i]>> : i \in {j \in DOMAIN items : items[j].kind \in kinds}}
AllKinds == {"placed", "matched", "skipped", "ambiguous", "add"}
WithPlanId(m, rules, merged, bound, next) ==
    [next |-> next,
     becomes |-> merged.items,
     folders |-> [p \in Readable(m) |-> LET roots == seen[m][p].content.projects
                                        IN [i \in DOMAIN roots |-> MapRoot(rules, m, p, roots[i]).at]],
     taken |-> [p \in Pending(m) |-> seen[m][p].content],
     id |-> [base |-> state[m],
             taken |-> [p \in Pending(m) |-> seen[m][p].content],
             items |-> [p \in Readable(m) |->
                           Named(IF p \in Pending(m) THEN AllKinds ELSE {"add", "placed", "ambiguous"},
                                 merged.items[p])],
             order |-> next.order # state[m].order,
             pinned |-> next.pinned # state[m].pinned,
             bindings |-> Cardinality({c \in Chats : merged.s.binding[c] # state[m].binding[c]}),
             byFolder |-> Cardinality(bound),
             sections |-> next.sections # state[m].sections]]
MergedAll(m, rules, merged) ==
    WithPlanId(m, rules, merged, {c \in Chats : BoundByFolder(m, merged, c) # None},
               [merged.s EXCEPT !.order = Only(@, DOMAIN merged.s.projects), !.binding = BindByFolder(m, merged)])
MergeBy(m, rules) == MergedAll(m, rules, Merged(m, rules))
Merge(m) == MergeBy(m, PathRules(m))

-----------------------------------------------------------------------------
(* A sync of the project lists. *)

Idle == [pc |-> "idle", base |-> None, next |-> None, becomes |-> None, folders |-> None,
         taken |-> None, editions |-> None, own |-> None]
PCs == {"idle", "commit", "publish"}
\* Bound: a sync has read the lists, answers and folders it uses when it begins, so
\* other syncs, deliveries and answers may as well come before or after it.
BetweenSyncs == \A n \in Machines : run[n].pc = "idle"
\* A mishap counts as an event, too.
Spend(what) ==
    /\ spent.events < MaxEvents /\ (what = "mishaps" => spent.mishaps < MaxMishaps)
    /\ spent' = [events |-> spent.events + 1,
                 mishaps |-> spent.mishaps + IF what = "mishaps" THEN 1 ELSE 0]

\* A preview reads only; one that would change nothing is left out.
Preview(m) ==
    /\ m \in Attended /\ run[m].pc = "idle" /\ shown[m] = None
    /\ \E plan \in {Merge(m)} :
          /\ plan.next # state[m]
          /\ shown' = [shown EXCEPT ![m] = [id |-> plan.id, next |-> plan.next]]
    /\ UNCHANGED <<state, disk, board, seen, places, run, chosen, applied, spent>>

\* The plan is rebuilt; one a person confirmed must have kept its id.
Confirmed(m, plan) == shown[m] # None => shown[m].id = plan.id
Begin(m) ==
    /\ BetweenSyncs /\ board[m].edition < MaxEditions
    /\ \E plan \in {Merge(m)} :
       LET start == [Idle EXCEPT !.taken = plan.taken, !.own = seen[m][m],
                                 !.editions = [p \in DOMAIN plan.taken |-> seen[m][p].edition]]
       IN /\ Confirmed(m, plan)
          /\ run' = [run EXCEPT ![m] =
                IF plan.next = state[m] THEN [start EXCEPT !.pc = "publish"]
                ELSE [start EXCEPT !.pc = "commit", !.base = state[m], !.next = plan.next,
                                    !.becomes = plan.becomes, !.folders = plan.folders]]
    /\ UNCHANGED <<state, disk, board, seen, places, shown, chosen, applied, spent>>

\* A plan that is no longer what was shown: preview again.
PlanChanged(m) ==
    /\ run[m].pc = "idle" /\ shown[m] # None /\ ~Confirmed(m, Merge(m))
    /\ shown' = [shown EXCEPT ![m] = None]
    /\ UNCHANGED <<state, disk, board, seen, places, run, chosen, applied, spent>>

\* commit_global_state: the file is replaced only while it is the one that was read.
Unmoved(m) == state[m] = run[m].base
Commit(m) ==
    /\ run[m].pc = "commit" /\ Unmoved(m)
    /\ state' = [state EXCEPT ![m] = run[m].next]
    /\ run' = [run EXCEPT ![m] = [run[m] EXCEPT !.pc = "publish", !.base = None, !.next = None,
                                            !.becomes = None, !.folders = None]]
    /\ applied' = [applied EXCEPT ![m] = Over(run[m].editions, @)]
    /\ UNCHANGED <<disk, board, seen, places, shown, chosen, spent>>

CommitRefused(m) ==
    /\ run[m].pc = "commit" /\ ~Unmoved(m)
    /\ run' = [run EXCEPT ![m] = Idle] /\ shown' = [shown EXCEPT ![m] = None]
    /\ UNCHANGED <<state, disk, board, seen, places, chosen, applied, spent>>

\* The list is written from the state as it now is, when something in it differs.
Accepting(m) == Over(run[m].taken, AcceptedIn(run[m].own))
Publish(m) ==
    /\ run[m].pc = "publish"
    /\ LET changed == Content(state[m]) # board[m].content
           new == Publication(state[m], Accepting(m), board[m].edition + IF changed THEN 1 ELSE 0)
       IN IF new = run[m].own THEN UNCHANGED <<board, seen>>
          ELSE board' = [board EXCEPT ![m] = new] /\ seen' = [seen EXCEPT ![m][m] = new]
    /\ applied' = [applied EXCEPT ![m] = Over(run[m].editions, @)]
    /\ run' = [run EXCEPT ![m] = Idle] /\ shown' = [shown EXCEPT ![m] = None]
    /\ UNCHANGED <<state, disk, places, chosen, spent>>

\* The program is killed, or a write fails, between its steps.
Crash(m) ==
    /\ run[m].pc # "idle" /\ Spend("mishaps")
    /\ run' = [run EXCEPT ![m] = Idle] /\ shown' = [shown EXCEPT ![m] = None]
    /\ UNCHANGED <<state, disk, board, seen, places, chosen, applied>>

-----------------------------------------------------------------------------
(* What a person answers about folders (place_project). *)

Known(m, i) == {p \in Readable(m) : i \in DOMAIN seen[m][p].content.projects}
RootThere(m, i) == LET p == CHOOSE q \in Known(m, i) : \A o \in Known(m, i) : q <= o
                   IN seen[m][p].content.projects[i]
Replaced(told, new) == {t \in told : ~\E n \in new : t.rule.peer = n.rule.peer /\ SameFolder(t.rule, n.rule)} \cup new

Place(m, i, here, whole) ==
    /\ Known(m, i) # {} /\ Native(m, here) /\ BetweenSyncs /\ Spend("events")
    /\ LET there == RootThere(m, i)
           alone == {[rule |-> Rule(p, there, here, FALSE), project |-> i] : p \in Known(m, i)}
           above == {[rule |-> Rule(p, there, here, TRUE), project |-> None] : p \in Known(m, i)}
           new == alone \cup (IF whole /\ there.name = here.name THEN above ELSE {})
       IN places' = [places EXCEPT ![m].told = Replaced(@, new), ![m].skipped = @ \ {i}]
    /\ UNCHANGED <<state, disk, board, seen, shown, run, chosen, applied>>

Skip(m, i) ==
    /\ Known(m, i) # {} /\ i \notin places[m].skipped /\ BetweenSyncs /\ Spend("events")
    /\ places' = [places EXCEPT ![m].skipped = @ \cup {i}]
    /\ UNCHANGED <<state, disk, board, seen, shown, run, chosen, applied>>

\* The answers for the folder and for the project go; one for its parent stays.
Forget(m, i) ==
    /\ Known(m, i) # {} /\ BetweenSyncs /\ Spend("events")
    /\ places' = [places EXCEPT ![m].told = {t \in @ : /\ t.rule.whole \/ t.rule.there # RootThere(m, i)
                                                       /\ t.project # i},
                                ![m].skipped = @ \ {i}]
    /\ places' # places
    /\ UNCHANGED <<state, disk, board, seen, shown, run, chosen, applied>>

-----------------------------------------------------------------------------
(* Persons in Codex, folders and the cloud client. *)

\* Codex is opened, writes its state and is closed: at any time, also while a sync applies.
InCodex(m, s) ==
    /\ Spend("events") /\ s # state[m]
    /\ state' = [state EXCEPT ![m] = s]
    /\ UNCHANGED <<disk, board, seen, places, shown, run, applied>>

Unused(i) == \A m \in Machines : i \notin DOMAIN state[m].projects /\ i \notin DOMAIN board[m].content.projects
NewProject(m, i, path) ==
    /\ Unused(i) /\ path \in disk[m] /\ path \notin Range(state[m].projects)
    /\ InCodex(m, [state[m] EXCEPT !.projects = With(@, i, path), !.order = <<i>> \o @])
    /\ UNCHANGED chosen

RemoveProject(m, i) ==
    /\ i \in DOMAIN state[m].projects
    /\ InCodex(m, [state[m] EXCEPT
            !.projects = Restrict(@, DOMAIN @ \ {i}), !.order = Only(@, Projects \ {i}),
            !.pinned = @ \ {i}, !.binding = [c \in Chats |-> IF @[c] = i THEN None ELSE @[c]],
            !.sections = [s \in DOMAIN @ |-> @[s] \ {Key("project", i)}]])
    /\ chosen' = [chosen EXCEPT ![m] = [c \in Chats |-> IF state[m].binding[c] = i THEN None ELSE @[c]]]

Choose(m, c, to) == chosen' = [chosen EXCEPT ![m][c] = [to |-> to, after |-> applied[m]]]
Bind(m, c, i) ==
    /\ i \in DOMAIN state[m].projects
    /\ InCodex(m, [state[m] EXCEPT !.binding[c] = i, !.out = @ \ {c}])
    /\ Choose(m, c, i)

TakeOut(m, c) ==
    /\ InCodex(m, [state[m] EXCEPT !.binding[c] = None, !.out = @ \cup {c}])
    /\ Choose(m, c, None)

\* Pinned and dragged to the top, or let go.
Pin(m, i) ==
    /\ i \in DOMAIN state[m].projects
    /\ InCodex(m, [state[m] EXCEPT
            !.pinned = SymDiff(@, {i}),
            !.order = IF i \in state[m].pinned THEN @ ELSE <<i>> \o Only(@, Projects \ {i})])
    /\ UNCHANGED chosen

PutInSection(m, key, s) ==
    /\ key[1] = "project" => key[2] \in DOMAIN state[m].projects
    /\ InCodex(m, [state[m] EXCEPT
            !.sections = With([o \in DOMAIN @ |-> @[o] \ {key}], s, {key} \cup IF s \in DOMAIN @ THEN @[s] ELSE {})])
    /\ UNCHANGED chosen

MakeFolder(m, path) ==
    /\ Native(m, path) /\ path \notin disk[m] /\ BetweenSyncs /\ Spend("events")
    /\ disk' = [disk EXCEPT ![m] = @ \cup {path}]
    /\ UNCHANGED <<state, board, seen, places, shown, run, chosen, applied>>

\* The cloud client brings the last list of a machine, or holds a file back.
Deliver(m, p) ==
    /\ BetweenSyncs /\ seen[m][p] # board[p]
    /\ seen' = [seen EXCEPT ![m][p] = board[p]]
    /\ UNCHANGED <<state, disk, board, places, shown, run, chosen, applied, spent>>
HoldBack(m, p) ==
    /\ BetweenSyncs /\ seen[m][p] # None /\ Spend("mishaps")
    /\ seen' = [seen EXCEPT ![m][p] = None]
    /\ UNCHANGED <<state, disk, board, places, shown, run, chosen, applied>>

-----------------------------------------------------------------------------

Init ==
    /\ state \in Starts
    /\ disk = Disks
    /\ board = [m \in Machines |-> Publication(state[m], NothingTaken, 1)]
    /\ seen = [m \in Machines |-> [p \in Machines |-> IF p = m THEN board[m] ELSE None]]
    /\ places = [m \in Machines |-> [told |-> {}, skipped |-> {}]]
    /\ shown = [m \in Machines |-> None]
    /\ run = [m \in Machines |-> Idle]
    /\ chosen = [m \in Machines |-> [c \in Chats |-> None]]
    /\ applied = [m \in Machines |-> [p \in Others(m) |-> 0]]
    /\ spent = [events |-> 0, mishaps |-> 0]

Sync == \E m \in Machines :
    Preview(m) \/ PlanChanged(m) \/ Begin(m) \/ Commit(m) \/ CommitRefused(m) \/ Publish(m) \/ Crash(m)
Answers == \E m \in Machines, i \in Projects :
    Skip(m, i) \/ Forget(m, i) \/ \E here \in Folders, whole \in BOOLEAN : Place(m, i, here, whole)
Codex == \E m \in Machines :
    \/ \E i \in Projects \cap Edited[m] : \/ \E path \in Paths : NewProject(m, i, path)
                                          \/ RemoveProject(m, i) \/ Pin(m, i)
                                          \/ \E s \in Sections : PutInSection(m, Key("project", i), s)
    \/ \E c \in Chats \cap Edited[m] : \/ TakeOut(m, c)
                                       \/ \E i \in Projects : Bind(m, c, i)
                                       \/ \E s \in Sections : PutInSection(m, Key("chat", c), s)
World == \E m \in Machines :
    \/ \E path \in Folders : MakeFolder(m, path)
    \/ \E p \in Machines : Deliver(m, p) \/ HoldBack(m, p)
Next == Sync \/ Answers \/ Codex \/ World
Spec == Init /\ [][Next]_vars

-----------------------------------------------------------------------------
(* Properties. *)

TypeOK ==
    /\ state \in [Machines -> States] /\ \A m \in Machines : Consistent(state[m])
    /\ disk \in [Machines -> SUBSET Paths] /\ \A m \in Machines : \A path \in disk[m] : Native(m, path)
    /\ board \in [Machines -> Publications]
    /\ seen \in [Machines -> [Machines -> Publications \cup {None}]]
    /\ places \in [Machines -> [told : SUBSET [rule : Rules, project : Projects \cup {None}], skipped : SUBSET Projects]]
    /\ \A m \in Machines : run[m].pc \in PCs /\ (run[m].pc = "commit" => run[m].next \in States /\ Consistent(run[m].next))
    /\ \A m \in Machines : applied[m] \in [Others(m) -> Nat]
    /\ spent \in [events : 0..MaxEvents, mishaps : 0..MaxMishaps]

Merging(m) == run[m].pc = "commit" /\ run'[m].pc = "publish"
Undone(m, c) == Merging(m) /\ chosen[m][c] # None /\ state'[m].binding[c] # state[m].binding[c]
ByNews(m, c) == \E p \in DOMAIN run[m].taken : run[m].editions[p] > chosen[m][c].after[p] /\ run[m].taken[p].binding[c] # None
\* The project stood here, with this folder, before the merge.
Stood(m, i) == i \in DOMAIN state[m].projects /\ state'[m].projects[i] = state[m].projects[i]

\* A list is not applied again over a change made here since (project_sync.py): while nothing was killed or held
\* back, a chat goes from where a person put it to a project that stood here before only by a list not taken yet.
ListsNotAppliedAgain == [][\A m \in Machines, c \in Chats :
    spent.mishaps = 0 /\ Undone(m, c) /\ Stood(m, state'[m].binding[c]) => ByNews(m, c)]_vars

\* What a plan makes of a project of a list, and where the rules put its folder here.
StandsAsMapped(r, p, i) ==
    LET item == r.becomes[p][i] IN item.to # None /\ r.folders[p][i] # None /\ item.root = r.folders[p][i]
\* Two projects of one list whose folders differ and stand here where the rules put them never become one project
\* (_collapsing_ids), unless that one was carried with the root of the list and moves to its place now.
ProjectsStayApart == TypeOK /\ \A m \in Machines : run[m].pc = "commit" =>
    \A p \in DOMAIN run[m].becomes : \A i, j \in DOMAIN run[m].becomes[p] :
        LET items == run[m].becomes[p]
            roots == seen[m][p].content.projects
        IN /\ roots[i] # roots[j] /\ items[i].to = items[j].to
           /\ StandsAsMapped(run[m], p, i) /\ StandsAsMapped(run[m], p, j)
           => \E k \in DOMAIN items : k = items[i].to /\ items[k].kind = "placed"
=============================================================================
