---------------------------- MODULE BaselineSync ----------------------------
(***************************************************************************)
(* Several machines synchronising their .codex files through one mirror,   *)
(* each with its own baseline in the shared sync manifest: the plan        *)
(* (planner), the copies and deletions (sync_engine), and the manifest     *)
(* rewritten from what is on disk afterwards (app.run_sync, manifest).     *)
(*                                                                         *)
(* The envelope around a run is MutationEnvelope; here a run is its plan,  *)
(* its journal (open or not) and the order of its reads and writes.        *)
(***************************************************************************)
EXTENDS SyncPlanner, FiniteSets

CONSTANTS
    Machines,
    Files,          \* paths relative to the state folder
    RootOf,         \* the include root each path belongs to
    Policies,       \* the conflict policies a run may be started with
    Directions,     \* the directions a run may be started with
    Times,          \* modification times; machines' clocks need not agree
    SharedTimes,    \* TRUE: two writes may carry modification times that the
                    \* tolerance does not tell apart
    Synced,         \* TRUE: start after everybody's first sync
    OneAtATime,     \* TRUE: one machine synchronises at a time, from its plan
                    \* until its manifest is saved
    Quiet,          \* TRUE: no person, program or cloud client writes then
    MaxWrites, MaxRemovals, MaxRestamps, MaxEmptied, MaxFailures  \* bounds

Ids == 1..(MaxWrites + 1)
Prints == [mtime : Times \union {1}, size : {SizeOf[i] : i \in Ids}]
Pair == [local : Prints \union {None}, cloud : Prints \union {None}]

ASSUME BaselineAssumption ==
    /\ RootOf = [f \in Files |-> RootOf[f]]
    /\ Policies \subseteq ConflictPolicies
    /\ Directions \subseteq {"bidirectional", "to_cloud", "to_local"}
    /\ Times \subseteq Nat /\ MaxWrites \in Nat
    /\ SizeOf \in [Ids -> Nat]
    /\ None \notin Ids \union Prints /\ None \notin Pair
    /\ SharedTimes \in BOOLEAN /\ Synced \in BOOLEAN
    /\ OneAtATime \in BOOLEAN /\ Quiet \in BOOLEAN

VARIABLES
    local,      \* machine -> path -> version in its state folder
    cloud,      \* path -> version in the mirror
    manifest,   \* machine -> path -> its entry in the sync manifest
    open,       \* machines whose mutation journal is open
    pc,         \* machine -> where its run stands
    todo,       \* machine -> path -> what its plan does with it
    skipped,    \* machine -> paths its direction dropped
    decided,    \* history: machine -> paths of its plan that a person's rule
                \* or a first sync decided
    staged,     \* machine -> path -> the staged payload
    index,      \* machine -> path -> the pair it rescanned after its run
    loaded,     \* machine -> the manifest it read to save over
    stamps,     \* modification times in use
    clock,      \* machine -> the last time it gave a file
    used,       \* how much of each bound is spent
    saw,        \* history: path -> pairs of an older and a newer content: the
                \* author of the newer had the older in hand, or a person's
                \* rule or a first sync preferred the newer
    mirror,     \* history: include root -> "whole", "emptied", and "refilled"
                \* once a run copied into it again
    lost,       \* history: contents overwritten or deleted by what does not
                \* come after them
    revived     \* history: contents put back on a side that had removed them

run == <<todo, skipped, decided, staged, index, loaded>>
history == <<saw, mirror, lost, revived>>
vars == <<local, cloud, manifest, open, pc, run, stamps, clock, used, history>>

Roots == {RootOf[f] : f \in Files}

Nothing == [f \in Files |-> "nothing"]
NoEntry == [f \in Files |-> None]
NoManifest == [m \in Machines |-> NoEntry]
Empty == [id |-> None, mtime |-> 0, gone |-> {}]
First == [id |-> 1, mtime |-> 1, gone |-> {}]
Bounds == {"write", "remove", "restamp", "empty", "fail"}
Writing == {"apply", "rescan", "load", "save"}
PCs == {"idle", "scan", "open", "stage"} \union Writing

Version == [id : Ids \union {None}, mtime : Times \union {0, 1},
            gone : SUBSET Ids]

TypeOK ==
    /\ local \in [Machines -> [Files -> Version]]
    /\ cloud \in [Files -> Version]
    /\ manifest \in [Machines -> [Files -> Pair \union {None}]]
    /\ open \subseteq Machines
    /\ pc \in [Machines -> PCs]
    /\ todo \in [Machines -> [Files -> Decisions \ {"conflict"}]]
    /\ skipped \in [Machines -> SUBSET Files]
    /\ decided \in [Machines -> SUBSET Files]
    /\ staged \in [Machines -> [Files -> Version]]
    /\ index \in [Machines -> [Files -> Pair \union {None}]]
    /\ loaded \in [Machines -> [Machines -> [Files -> Pair \union {None}]]]
    /\ stamps \subseteq Times \union {1}
    /\ clock \in [Machines -> Times \union {0}]
    /\ used \in [Bounds -> Nat]
    /\ saw \in [Files -> SUBSET (Ids \X Ids)]
    /\ mirror \in [Roots -> {"whole", "emptied", "refilled"}]
    /\ lost \subseteq Ids /\ revived \subseteq Ids

Init ==
    LET start == IF Synced THEN First ELSE Empty
        both  == [local |-> Fingerprint(start), cloud |-> Fingerprint(start)]
    IN
    /\ local = [m \in Machines |-> [f \in Files |-> start]]
    /\ cloud = [f \in Files |-> start]
    /\ manifest = [m \in Machines |->
                      [f \in Files |-> IF Synced THEN both ELSE None]]
    /\ open = {}
    /\ pc = [m \in Machines |-> "idle"]
    /\ todo = [m \in Machines |-> Nothing]
    /\ skipped = [m \in Machines |-> {}]
    /\ decided = [m \in Machines |-> {}]
    /\ staged = [m \in Machines |-> [f \in Files |-> Empty]]
    /\ index = [m \in Machines |-> NoEntry]
    /\ loaded = [m \in Machines |-> NoManifest]
    /\ stamps = IF Synced THEN {1} ELSE {}
    /\ clock = [m \in Machines |-> 0]
    /\ used = [b \in Bounds |-> 0]
    /\ saw = [f \in Files |-> IF Synced THEN {<<1, 1>>} ELSE {}]
    /\ mirror = [r \in Roots |-> "whole"]
    /\ lost = {} /\ revived = {}

Go(m, where) == pc' = [pc EXCEPT ![m] = where]
Spend(what, bound) ==
    /\ used[what] < bound
    /\ used' = [used EXCEPT ![what] = @ + 1]
AllIdle == \A m \in Machines : pc[m] = "idle"
Undisturbed == Quiet => AllIdle
MyTurn == OneAtATime => AllIdle

\* The run is over, one way or another.
Leave(m) ==
    /\ Go(m, "idle")
    /\ todo' = [todo EXCEPT ![m] = Nothing]
    /\ skipped' = [skipped EXCEPT ![m] = {}]
    /\ decided' = [decided EXCEPT ![m] = {}]
    /\ staged' = [staged EXCEPT ![m] = [f \in Files |-> Empty]]
    /\ index' = [index EXCEPT ![m] = NoEntry]
    /\ loaded' = [loaded EXCEPT ![m] = NoManifest]

-----------------------------------------------------------------------------
(***************************************************************************)
(* The plan.                                                               *)
(***************************************************************************)
Raw(m, policy) ==
    [f \in Files |-> Decide(local[m][f], cloud[f], manifest[m][f], policy)]

\* A deletion whose other side holds nothing under that include root at all.
NeverHeldBack(m, f, d) == FALSE
HeldBack(m, f, d) ==
    LET other(g) == IF d = "del_local" THEN cloud[g] ELSE local[m][g] IN
    /\ d \in Deletions
    /\ \A g \in Files : RootOf[g] = RootOf[f] => Missing(other(g))

Decided(m, policy) ==
    LET raw == Raw(m, policy) IN
    [f \in Files |-> IF HeldBack(m, f, raw[f]) THEN "conflict" ELSE raw[f]]

\* _apply_direction: what this direction may not write is dropped.
Dropped(direction) ==
    CASE direction = "bidirectional" -> {}
      [] direction = "to_cloud" -> {"to_local", "del_local"}
      [] direction = "to_local" -> {"to_cloud", "del_cloud"}

\* run_sync refuses a plan with any conflict left, whatever the policy.
ConflictFree(plan, policy) == \A f \in Files : plan[f] # "conflict"

\* build_context: both indexes and this machine's baseline are read, and the
\* plan computed.  A conflict in it ends the run before its lock.
Plan(m, policy, direction) ==
    /\ pc[m] = "idle"
    /\ MyTurn
    /\ LET plan == Decided(m, policy)
           drop == {f \in Files : plan[f] \in Dropped(direction)}
       IN
       /\ ConflictFree(plan, policy)
       /\ todo' = [todo EXCEPT ![m] =
              [f \in Files |-> IF f \in drop THEN "nothing" ELSE plan[f]]]
       /\ skipped' = [skipped EXCEPT ![m] = drop]
    /\ decided' = [decided EXCEPT ![m] =
           {f \in Files :
               \/ manifest[m][f] = None
               \/ /\ ~Missing(local[m][f]) /\ ~Missing(cloud[f])
                  /\ BothChanged(local[m][f], cloud[f], manifest[m][f])}]
    /\ Go(m, "scan")
    /\ UNCHANGED <<local, cloud, manifest, open, staged, index, loaded, stamps,
                   clock, used, history>>

\* JournalStore.begin: nothing may be open, of any machine.
Scan(m) ==
    /\ pc[m] = "scan"
    /\ open = {}
    /\ Go(m, "open")
    /\ UNCHANGED <<local, cloud, manifest, open, run, stamps, clock, used, history>>

ScanBlocked(m) ==
    /\ pc[m] = "scan"
    /\ open # {}
    /\ Leave(m)
    /\ UNCHANGED <<local, cloud, manifest, open, stamps, clock, used, history>>

Open(m) ==
    /\ pc[m] = "open"
    /\ open' = open \union {m}
    /\ Go(m, "stage")
    /\ UNCHANGED <<local, cloud, manifest, run, stamps, clock, used, history>>

-----------------------------------------------------------------------------
(***************************************************************************)
(* SyncEngine.execute and the manifest.                                    *)
(***************************************************************************)
Source(m, f) == IF todo[m][f] = "to_cloud" THEN local[m][f] ELSE cloud[f]

Target(m, f) == IF todo[m][f] = "del_local" THEN local[m][f] ELSE cloud[f]

\* Every payload is staged from its source as it is now, and every destination
\* backed up: a source that is gone cannot be staged, and a file that is gone
\* is not deleted.
Ready(m, f) ==
    /\ todo[m][f] \in {"to_local", "to_cloud"} => ~Missing(Source(m, f))
    /\ todo[m][f] \in Deletions => ~Missing(Target(m, f))

Stage(m) ==
    /\ pc[m] = "stage"
    /\ \A f \in Files : Ready(m, f)
    /\ staged' = [staged EXCEPT ![m] =
           [f \in Files |-> IF todo[m][f] \in {"to_local", "to_cloud"}
                            THEN Source(m, f) ELSE Empty]]
    /\ Go(m, "apply")
    /\ UNCHANGED <<local, cloud, manifest, open, todo, skipped, decided, index,
                   loaded, stamps, clock, used, history>>

Rank(d) == CASE d = "to_local" -> 1 [] d = "to_cloud" -> 2
             [] d \in Deletions -> 3 [] d = "nothing" -> 4
Turn(m, f) == /\ todo[m][f] # "nothing"
              /\ \A g \in Files : Rank(todo[m][f]) <= Rank(todo[m][g])

\* What a version on disk, or the removal of one, stands for (history).
Heads(v) == IF Missing(v) THEN v.gone ELSE {v.id}
Below(f, v) == {i \in Ids : \E j \in Heads(v) : <<i, j>> \in saw[f]}
Above(f, v) == {j \in Ids : <<v.id, j>> \in saw[f]}

\* A replace or a deletion puts new in the place of old.  Where a person's rule
\* or a first sync decided, the loser counts as seen from then on.
Supersede(m, f, old, new) ==
    /\ lost' = IF Missing(old) \/ old.id \in Below(f, new) \/ f \in decided[m]
               THEN lost ELSE lost \union {old.id}
    /\ revived' = IF Missing(old) /\ new.id \in Below(f, old)
                  THEN revived \union {new.id} ELSE revived
    /\ saw' = IF f \in decided[m]
              THEN [saw EXCEPT ![f] = @ \union Below(f, old) \X Above(f, new)]
              ELSE saw

Refill(r) ==
    mirror' = [mirror EXCEPT ![r] = IF @ = "emptied" THEN "refilled" ELSE @]

ToCloud(m, f) ==
    /\ todo[m][f] = "to_cloud"
    /\ cloud' = [cloud EXCEPT ![f] = staged[m][f]]
    /\ Supersede(m, f, cloud[f], staged[m][f])
    /\ Refill(RootOf[f])
    /\ UNCHANGED local

ToLocal(m, f) ==
    /\ todo[m][f] = "to_local"
    /\ local' = [local EXCEPT ![m][f] = staged[m][f]]
    /\ Supersede(m, f, local[m][f], staged[m][f])
    /\ UNCHANGED <<cloud, mirror>>

Removed(old, by) == [Empty EXCEPT !.gone = Heads(old) \union Heads(by)]

DeleteLocal(m, f) ==
    /\ todo[m][f] = "del_local"
    /\ local' = [local EXCEPT ![m][f] = Removed(@, cloud[f])]
    /\ Supersede(m, f, local[m][f], cloud[f])
    /\ UNCHANGED <<cloud, mirror>>

DeleteCloud(m, f) ==
    /\ todo[m][f] = "del_cloud"
    /\ cloud' = [cloud EXCEPT ![f] = Removed(@, local[m][f])]
    /\ Supersede(m, f, cloud[f], local[m][f])
    /\ UNCHANGED <<local, mirror>>

\* One destination: copies into .codex, then copies into the mirror, then
\* deletions.
Apply(m) ==
    /\ pc[m] = "apply"
    /\ \E f \in Files :
        /\ Turn(m, f)
        /\ \/ ToCloud(m, f) \/ ToLocal(m, f)
           \/ DeleteLocal(m, f) \/ DeleteCloud(m, f)
        /\ todo' = [todo EXCEPT ![m][f] = "nothing"]
    /\ UNCHANGED <<manifest, open, pc, skipped, decided, staged, index, loaded,
                   stamps, clock, used>>

\* Two removals of one file become one when a run finds it gone on both sides
\* (history).
Mourn(m, f) == Removed(local[m][f], cloud[f])
GoneOnBoth(m) == {f \in Files : Missing(local[m][f]) /\ Missing(cloud[f])}

\* _build_indexes again, after the last destination.
Rescan(m) ==
    /\ pc[m] = "apply"
    /\ todo[m] = Nothing
    /\ index' = [index EXCEPT ![m] =
           [f \in Files |->
               IF f \in GoneOnBoth(m) THEN None
               ELSE [local |-> Fingerprint(local[m][f]),
                     cloud |-> Fingerprint(cloud[f])]]]
    /\ local' = [local EXCEPT ![m] =
           [f \in Files |-> IF f \in GoneOnBoth(m) THEN Mourn(m, f) ELSE @[f]]]
    /\ cloud' =
           [f \in Files |-> IF f \in GoneOnBoth(m) THEN Mourn(m, f) ELSE cloud[f]]
    /\ Go(m, "load")
    /\ UNCHANGED <<manifest, open, todo, skipped, decided, staged,
                   loaded, stamps, clock, used, history>>

Load(m) ==
    /\ pc[m] = "load"
    /\ loaded' = [loaded EXCEPT ![m] = manifest]
    /\ Go(m, "save")
    /\ UNCHANGED <<local, cloud, manifest, open, todo, skipped, decided, staged,
                   index, stamps, clock, used, history>>

\* build_manifest: a skipped path carries its previous entry.
RecordedAnyway(m) == index[m]
Baseline(m) ==
    [f \in Files |->
        IF f \in skipped[m]
        THEN IF index[m][f] = None THEN None ELSE loaded[m][m][f]
        ELSE index[m][f]]

\* What the other machines' baselines become.
OthersDropped(m) == NoManifest
Others(m) == loaded[m]

\* save_manifest, and the journal is COMMITTED.
Save(m) ==
    /\ pc[m] = "save"
    /\ manifest' = [Others(m) EXCEPT ![m] = Baseline(m)]
    /\ open' = open \ {m}
    /\ Leave(m)
    /\ UNCHANGED <<local, cloud, stamps, clock, used, history>>

\* The run stops: before its commit phase the journal is closed, after that a
\* person has to end it.
Fail(m) ==
    /\ pc[m] # "idle"
    /\ Spend("fail", MaxFailures)
    /\ open' = IF pc[m] \in Writing THEN open ELSE open \ {m}
    /\ Leave(m)
    /\ UNCHANGED <<local, cloud, manifest, stamps, clock, history>>

\* The run stops before its commit phase.
CannotStage(m) ==
    /\ pc[m] = "stage"
    /\ \E f \in Files : ~Ready(m, f)
    /\ open' = open \ {m}
    /\ Leave(m)
    /\ UNCHANGED <<local, cloud, manifest, stamps, clock, used, history>>

\* recover resume.
Resume(m) ==
    /\ pc[m] = "idle"
    /\ m \in open
    /\ open' = open \ {m}
    /\ UNCHANGED <<local, cloud, manifest, pc, run, stamps, clock, used, history>>

-----------------------------------------------------------------------------
(***************************************************************************)
(* The people, and the cloud client.                                       *)
(***************************************************************************)
\* No two files are written or stamped within the tolerance, unless SharedTimes.
Fresh(t) == SharedTimes \/ \A s \in stamps : ~Close(s, t)

\* Codex or an editor writes a file: content nobody else has seen.
Write(m, f) ==
    /\ Undisturbed
    /\ Spend("write", MaxWrites)
    /\ \E t \in Times :
        LET new == used["write"] + 2 IN
        /\ Fresh(t) /\ t > clock[m]
        /\ clock' = [clock EXCEPT ![m] = t]
        /\ local' = [local EXCEPT ![m][f] = [id |-> new, mtime |-> t, gone |-> {}]]
        /\ saw' = [saw EXCEPT ![f] =
               @ \union (Below(f, local[m][f]) \union {new}) \X {new}]
        /\ stamps' = stamps \union {t}
    /\ UNCHANGED <<cloud, manifest, open, pc, run, mirror, lost, revived>>

Remove(m, f) ==
    /\ Undisturbed
    /\ ~Missing(local[m][f])
    /\ Spend("remove", MaxRemovals)
    /\ local' = [local EXCEPT ![m][f] = [Empty EXCEPT !.gone = {local[m][f].id}]]
    /\ UNCHANGED <<cloud, manifest, open, pc, run, stamps, clock, history>>

\* The cloud client does not carry modification times exactly.
Restamp(f) ==
    /\ Undisturbed
    /\ ~Missing(cloud[f])
    /\ Spend("restamp", MaxRestamps)
    /\ \E t \in Times :
        /\ Fresh(t)
        /\ cloud' = [cloud EXCEPT ![f].mtime = t]
        /\ stamps' = stamps \union {t}
    /\ UNCHANGED <<local, manifest, open, pc, run, clock, history>>

\* The mirror of one include root is missing: it is being downloaded again, or
\* its drive is not connected.
EmptyRoot(r) ==
    /\ Undisturbed
    /\ Spend("empty", MaxEmptied)
    /\ cloud' = [f \in Files |-> IF RootOf[f] = r THEN Empty ELSE cloud[f]]
    /\ mirror' = [mirror EXCEPT ![r] = IF @ = "whole" THEN "emptied" ELSE @]
    /\ UNCHANGED <<local, manifest, open, pc, run, stamps, clock, saw, lost, revived>>

-----------------------------------------------------------------------------
Step(m) == Scan(m) \/ ScanBlocked(m) \/ Open(m) \/ Stage(m) \/ CannotStage(m)
           \/ Apply(m) \/ Rescan(m) \/ Load(m) \/ Save(m)
StartSync(m) == \E policy \in Policies, d \in Directions : Plan(m, policy, d)
Change ==
    \/ \E m \in Machines, f \in Files : Write(m, f) \/ Remove(m, f)
    \/ \E f \in Files : Restamp(f) \/ EmptyRoot(RootOf[f])

Next ==
    \/ \E m \in Machines : Step(m) \/ StartSync(m) \/ Fail(m) \/ Resume(m)
    \/ Change

Spec == Init /\ [][Next]_vars

\* A run goes on to its end; people keep synchronising on every machine, and
\* end what recover lists.
Fairness ==
    \A m \in Machines :
        WF_vars(Step(m)) /\ SF_vars(Resume(m)) /\ SF_vars(StartSync(m))
FairSpec == Spec /\ Fairness

-----------------------------------------------------------------------------
(***************************************************************************)
(* Properties.                                                             *)
(***************************************************************************)

\* SYNC.md: a file changed on both sides since the last run is a conflict.  So
\* nothing is overwritten or deleted but by what comes after it: what its author
\* had in hand, or what a rule of the person or a first sync preferred to it,
\* however the clocks of the machines differ.  A mirror that goes missing changes
\* nothing of that (_hold_deletions_from_empty_roots) until a run copies into it.
NothingLostUnasked ==
    (\A r \in Roots : mirror[r] # "refilled") => lost = {}

\* An entry of a baseline is an agreement: the two sides were one file.
BaselineIsAgreement ==
    TypeOK /\ \A m \in Machines, f \in Files :
        manifest[m][f] # None => manifest[m][f].local = manifest[m][f].cloud

\* propagate: a file that was synchronised and then removed by a person stays
\* removed, as long as every run that began to write could save its manifest.
DeletedStaysDeleted ==
    DeletePolicy = "propagate" /\ used["fail"] = 0 => revived = {}

\* When nobody writes any more, every machine and the mirror end with the same
\* content.
Agree == \A m \in Machines, f \in Files : local[m][f].id = cloud[f].id
Converges == <>[]Agree
=============================================================================
