------------------------------ MODULE Backups -------------------------------
(***************************************************************************)
(* The backup folder of one machine and the ways back from it (backup.py,  *)
(* restore.py, recovery.py): every operation backs up what it replaces in  *)
(* a snapshot of its own and prunes older ones; a person restores a        *)
(* snapshot, or resumes or rolls back an operation that stopped.  What a   *)
(* restore reads before it holds the lock may be pruned meanwhile, and     *)
(* another machine's snapshot in the shared folder arrives part by part.   *)
(***************************************************************************)
EXTENDS Integers, FiniteSets, Functions

CONSTANTS
    Items,          \* relative paths
    FirstTree,      \* what both sides hold at first
    PeerSaved,      \* what the other machine's snapshot lists
    KeepSnapshots,  \* how many snapshots of a machine are kept
    MaxOperations,  \* bound: operations
    BackupStarts,   \* bound: how often each event happens, and whether snapshots are archives
    Missing         \* an absent value

Sides == {"local", "cloud"}
Programs == {"sync", "person"}
OldSnapshot == 0                      \* written by 0.1, without a manifest
PeerSnapshot == MaxOperations + 1     \* newer than all of this machine
Mine == 1..MaxOperations
Snapshots == Mine \cup {OldSnapshot, PeerSnapshot}

ASSUME BackupsAssumption ==
    /\ MaxOperations \in Nat /\ KeepSnapshots \in Nat \ {0}
    /\ FirstTree \in [Sides -> [Items -> Nat \cup {Missing}]]
    /\ DOMAIN PeerSaved \subseteq Items

JournalStates == {"PREPARED", "COMMITTING", "RECOVERY_REQUIRED", "COMMITTED", "FAILED"}
SavedFiles == [side : Sides, content : Nat \cup {Missing}]
BackupEvents == {"sync", "restore", "edit", "peer", "mishap"}
ASSUME BackupTypes ==
    /\ \A start \in BackupStarts : start.spare \in [BackupEvents -> Nat]
    /\ PeerSaved \in [DOMAIN PeerSaved -> SavedFiles]
    /\ Missing \notin Snapshots /\ Missing \notin Programs \cup JournalStates /\ \A S \in SUBSET Items : Missing \notin [S -> SavedFiles]

VARIABLES
    tree,       \* what each side holds of each item
    snaps,      \* the backup folder: what is there of each snapshot, and what its manifest lists
    journals,   \* the state of each operation's journal, or Missing
    holder,     \* the program that holds the operation lock
    runs,       \* the run of each program, or Missing
    packed,     \* backup.compression = "zip"
    was,        \* history: what each operation replaced
    touched,    \* history: what persons and Codex changed since an operation began
    spare       \* events left

backupVars == <<tree, snaps, journals, holder, runs, packed, was, touched, spare>>

Empty == [i \in {} |-> Missing]
With(f, i, x) == [j \in DOMAIN f \cup {i} |-> IF j = i THEN x ELSE f[j]]
Saved(side, content) == [side |-> side, content |-> content]
Pay(kind) == spare[kind] > 0 /\ spare' = [spare EXCEPT ![kind] = @ - 1]
Other(side) == IF side = "local" THEN "cloud" ELSE "local"

\* Without its payload a snapshot is not found, whatever its manifest says.
Exists(s) == snaps[s].held # Empty
HasManifest(s) == snaps[s].manifest # Missing
Matches(s) == snaps[s].held = snaps[s].manifest

\* PREPARED stands for BACKED_UP, too: in neither has a file been replaced.
BeforeCommit == {"PREPARED"}
InCommit == {"COMMITTING", "RECOVERY_REQUIRED"}
Begun == {o \in Mine : journals[o] # Missing}
Journal(o, state) == journals' = [journals EXCEPT ![o] = state]

-----------------------------------------------------------------------------
(* One operation, whoever asked for it. *)

On(p, pc) == runs[p] # Missing /\ runs[p].pc = pc
Goes(p, pc) == runs' = [runs EXCEPT ![p].pc = pc]
Leaves(p) == runs' = [runs EXCEPT ![p] = Missing] /\ holder' = IF holder = p THEN Missing ELSE holder
Op(p) == runs[p].op
Target(p, i) == <<runs[p].plan[i].side, i>>
Held(p, i) == tree[runs[p].plan[i].side][i]
Run(pc, plan) ==
    [pc |-> pc, op |-> 0, plan |-> plan, todo |-> {}, from |-> Missing, side |-> Missing, listed |-> Missing,
     hurt |-> FALSE, undoes |-> Missing, stale |-> {}]

\* The lock, this machine's abandoned journals, the scan for open ones, a journal.
OpenOperation(p) ==
    /\ On(p, "open") /\ holder \in {Missing, p} /\ Cardinality(Begun) < MaxOperations
    /\ LET closed == [o \in Mine |-> IF journals[o] \in BeforeCommit THEN "FAILED" ELSE journals[o]]
           new == Cardinality(Begun) + 1 IN
       IF \E o \in Begun : closed[o] \in InCommit
       THEN journals' = closed /\ Leaves(p) /\ UNCHANGED touched
       ELSE /\ journals' = [closed EXCEPT ![new] = "PREPARED"]
            /\ holder' = p
            /\ runs' = [runs EXCEPT ![p].pc = "stage", ![p].op = new]
            /\ touched' = IF runs[p].undoes = Missing THEN {} ELSE touched
    /\ UNCHANGED <<tree, snaps, packed, was, spare>>
LockBusy(p) ==
    /\ On(p, "open") /\ holder \notin {Missing, p} /\ Leaves(p)
    /\ UNCHANGED <<tree, snaps, journals, packed, was, touched, spare>>

\* Every source is copied beside its destination before anything is replaced.  An archive
\* was unpacked with the plan; a folder is read now.
SourceThere(p, i) ==
    LET s == runs[p].from IN
    s # Missing /\ ~packed => i \in DOMAIN snaps[s].held /\ snaps[s].held[i].content = runs[p].plan[i].content
Stage(p) ==
    /\ On(p, "stage") /\ \A i \in DOMAIN runs[p].plan : SourceThere(p, i)
    /\ runs' = [runs EXCEPT ![p].pc = "backup", ![p].todo = DOMAIN runs[p].plan]
    /\ UNCHANGED <<tree, snaps, journals, holder, packed, was, touched, spare>>

Recorded(p, i) == Saved(runs[p].plan[i].side, Held(p, i))
BackUp(p, i) ==
    /\ On(p, "backup") /\ i \in runs[p].todo
    /\ snaps' = IF Held(p, i) = Missing THEN snaps
                ELSE [snaps EXCEPT ![Op(p)].held = With(@, i, Recorded(p, i))]
    /\ runs' = [runs EXCEPT ![p].todo = @ \ {i}]
    /\ UNCHANGED <<tree, journals, holder, packed, was, touched, spare>>
\* The manifest, if anything was backed up, comes before the phase in which files are replaced.
EnterCommit(p) ==
    /\ On(p, "backup") /\ runs[p].todo = {}
    /\ snaps' = IF Exists(Op(p)) THEN [snaps EXCEPT ![Op(p)].manifest = snaps[Op(p)].held] ELSE snaps
    /\ Journal(Op(p), "COMMITTING")
    /\ runs' = [runs EXCEPT ![p].pc = "replace", ![p].todo = DOMAIN runs[p].plan]
    /\ UNCHANGED <<tree, holder, packed, was, touched, spare>>
Put(p, i) ==
    /\ On(p, "replace") /\ i \in runs[p].todo
    /\ was' = IF Held(p, i) = Missing THEN was
              ELSE [was EXCEPT ![Op(p)] = With(@, i, Recorded(p, i))]
    /\ tree' = [tree EXCEPT ![runs[p].plan[i].side][i] = runs[p].plan[i].content]
    /\ runs' = [runs EXCEPT ![p].todo = @ \ {i}]
    /\ UNCHANGED <<snaps, journals, holder, packed, touched, spare>>
Commit(p) ==
    /\ On(p, "replace") /\ runs[p].todo = {}
    /\ Journal(Op(p), "COMMITTED") /\ Goes(p, "prune")
    /\ UNCHANGED <<tree, snaps, holder, packed, was, touched, spare>>

\* Only this machine's snapshots, and none that an unfinished journal names.
Protected == {o \in Begun : journals[o] \in BeforeCommit \cup InCommit}
Candidates == {s \in Mine : Exists(s)} \ Protected
PruneList(cutoff) ==
    LET young == {s \in Candidates : s >= cutoff} IN
    (Candidates \ young) \cup {s \in young : Cardinality({o \in young : o > s}) >= KeepSnapshots}
PickStale(p) ==
    /\ On(p, "prune")
    /\ \E cutoff \in 1..Op(p) : runs' = [runs EXCEPT ![p].pc = "remove", ![p].stale = PruneList(cutoff)]
    /\ UNCHANGED <<tree, snaps, journals, holder, packed, was, touched, spare>>
Hurting(s) == [q \in Programs |-> IF runs[q] # Missing /\ runs[q].from = s THEN [runs[q] EXCEPT !.hurt = TRUE] ELSE runs[q]]
RemovePayload(p, s) ==
    /\ On(p, "remove") /\ s \in runs[p].stale /\ Exists(s)
    /\ \E gone \in SUBSET DOMAIN snaps[s].held \ {{}} :
         /\ packed => gone = DOMAIN snaps[s].held
         /\ snaps' = [snaps EXCEPT ![s].held = Restrict(@, DOMAIN @ \ gone)]
    /\ runs' = Hurting(s)
    /\ UNCHANGED <<tree, journals, holder, packed, was, touched, spare>>
\* The manifest of a folder goes even when another program kept a part of the folder from going.
RemoveManifest(p, s) ==
    /\ On(p, "remove") /\ s \in runs[p].stale
    /\ IF Exists(s) THEN ~packed /\ Pay("mishap") ELSE UNCHANGED spare
    /\ snaps' = [snaps EXCEPT ![s].manifest = Missing]
    /\ runs' = [runs EXCEPT ![p].stale = @ \ {s}]
    /\ UNCHANGED <<tree, journals, holder, packed, was, touched>>
\* An archive that cannot be removed, like a folder that cannot be read, ends only the pruning.
EndRun(p) ==
    /\ On(p, "remove") /\ Leaves(p)
    /\ IF runs[p].stale = {} THEN UNCHANGED spare ELSE Pay("mishap")
    /\ UNCHANGED <<tree, snaps, journals, packed, was, touched>>

\* A refused copy, gate or replace; the journal says how far the operation came.
RunFails(p) ==
    /\ runs[p] # Missing /\ runs[p].pc \in {"stage", "backup", "replace"}
    /\ IF runs[p].pc = "stage" /\ \E i \in DOMAIN runs[p].plan : ~SourceThere(p, i)
       THEN UNCHANGED spare ELSE Pay("mishap")
    /\ Journal(Op(p), IF journals[Op(p)] = "COMMITTING" THEN "RECOVERY_REQUIRED" ELSE "FAILED")
    /\ Leaves(p)
    /\ UNCHANGED <<tree, snaps, packed, was, touched>>
KillRun(p) ==
    /\ runs[p] # Missing /\ Pay("mishap") /\ Leaves(p)
    /\ UNCHANGED <<tree, snaps, journals, packed, was, touched>>

-----------------------------------------------------------------------------
(* What is asked for. *)

Differing == {i \in Items : tree["local"][i] # tree["cloud"][i]}
SyncPlans ==
    LET plan(S, to) == [i \in S |-> Saved(to[i], tree[Other(to[i])][i])] IN
    {plan(S, to) : S \in SUBSET Differing, to \in [Items -> Sides]}
AskSync ==
    /\ runs["sync"] = Missing /\ Pay("sync")
    /\ \E plan \in SyncPlans : /\ plan # Empty /\ \A i \in DOMAIN plan : plan[i].content # Missing
                               /\ runs' = [runs EXCEPT !["sync"] = Run("open", plan)]
    /\ UNCHANGED <<tree, snaps, journals, holder, packed, was, touched>>

Asks(run) == runs["person"] = Missing /\ runs' = [runs EXCEPT !["person"] = run]
\* A mutant: what is there is not compared with what the manifest lists.
NotCompared(s) == TRUE
Verified(s) == HasManifest(s) => Matches(s)
\* One by name, or the newest that has a manifest: of any machine, and what is newest is a time
\* that removals and the cloud client set anew.  One without a manifest is trusted on request.
ChooseSnapshot(s, side) ==
    /\ Exists(s) /\ Verified(s) /\ Pay("restore")
    /\ Asks([Run("plan", Empty) EXCEPT !.from = s, !.side = side, !.listed = snaps[s].manifest])
    /\ UNCHANGED <<tree, snaps, journals, holder, packed, was, touched>>
\* What is there now goes to the side the person names, whichever side it came from.
PlanRestore ==
    /\ On("person", "plan")
    /\ LET run == runs["person"]  held == snaps[run.from].held IN
       runs' = IF ~Exists(run.from) THEN [runs EXCEPT !["person"] = Missing]
               ELSE [runs EXCEPT !["person"].pc = "open",
                                 !["person"].plan = [i \in DOMAIN held |-> Saved(run.side, held[i].content)]]
    /\ UNCHANGED <<tree, snaps, journals, holder, packed, was, touched, spare>>

-----------------------------------------------------------------------------
(* The ways out of an operation that stopped. *)

\* Bound: recover is used only on an operation whose run is over.
Over(o) == \A p \in Programs : runs[p] # Missing => runs[p].op # o
Stopped == {o \in Begun : journals[o] \in BeforeCommit \cup InCommit /\ Over(o)}
NothingReplaced(o) == journals[o] \in BeforeCommit \/ (Exists(o) /\ ~HasManifest(o))
CanResume(o) == Exists(o) => Verified(o)
CanRollBack(o) == Exists(o) /\ HasManifest(o) /\ Verified(o)

AskResume(o) ==
    /\ o \in Stopped /\ CanResume(o) /\ runs["person"] = Missing
    /\ Journal(o, "FAILED")
    /\ UNCHANGED <<tree, snaps, holder, runs, packed, was, touched, spare>>
RollBackNothing(o) ==
    /\ o \in Stopped /\ NothingReplaced(o) /\ runs["person"] = Missing
    /\ Journal(o, "FAILED")
    /\ UNCHANGED <<tree, snaps, holder, runs, packed, was, touched, spare>>
\* Each entry goes back to the side it was taken from.
AskRollBack(o) ==
    /\ o \in Stopped /\ ~NothingReplaced(o) /\ CanRollBack(o)
    /\ Asks([Run("close", snaps[o].held) EXCEPT !.from = o, !.listed = snaps[o].manifest, !.undoes = o])
    /\ UNCHANGED <<tree, snaps, journals, holder, packed, was, touched, spare>>
CloseAndUndo ==
    /\ On("person", "close") /\ holder = Missing /\ journals[runs["person"].undoes] \in InCommit
    /\ Journal(runs["person"].undoes, "FAILED") /\ holder' = "person" /\ Goes("person", "open")
    /\ UNCHANGED <<tree, snaps, packed, was, touched, spare>>

-----------------------------------------------------------------------------
(* The world. *)

\* A person or the cloud client writes a version that was nowhere.
EditItem(side, i) ==
    /\ Pay("edit")
    /\ tree' = [tree EXCEPT ![side][i] = 10 + spare["edit"]]
    /\ touched' = touched \cup {<<side, i>>}
    /\ UNCHANGED <<snaps, journals, holder, runs, packed, was>>
\* A part of the other machine's snapshot, or its manifest, arrives.
PeerArrives ==
    /\ \/ \E i \in DOMAIN PeerSaved \ DOMAIN snaps[PeerSnapshot].held :
             snaps' = [snaps EXCEPT ![PeerSnapshot].held = With(@, i, PeerSaved[i])]
       \/ ~HasManifest(PeerSnapshot) /\ snaps' = [snaps EXCEPT ![PeerSnapshot].manifest = PeerSaved]
    /\ ~packed /\ Pay("peer")     \* an archive arrives whole
    /\ UNCHANGED <<tree, journals, holder, runs, packed, was, touched>>

BackupsInit ==
    /\ tree = FirstTree
    /\ \E start \in BackupStarts : packed = start.packed /\ spare = start.spare
    /\ journals = [o \in Mine |-> Missing] /\ holder = Missing
    /\ snaps = [s \in Snapshots |->
                  [held |-> IF s = OldSnapshot THEN [i \in Items |-> Saved("local", 0)] ELSE Empty,
                   manifest |-> Missing]]
    /\ runs = [p \in Programs |-> Missing]
    /\ was = [o \in Mine |-> Empty] /\ touched = {}

Operate(p) ==
    \/ OpenOperation(p) \/ LockBusy(p) \/ Stage(p) \/ EnterCommit(p) \/ Commit(p) \/ PickStale(p) \/ EndRun(p)
    \/ RunFails(p) \/ KillRun(p)
    \/ \E i \in Items : runs[p] # Missing /\ (BackUp(p, i) \/ Put(p, i))
    \/ \E s \in Mine : RemovePayload(p, s) \/ RemoveManifest(p, s)
Person ==
    \/ \E s \in Snapshots, side \in Sides : ChooseSnapshot(s, side)
    \/ PlanRestore \/ CloseAndUndo
    \/ \E o \in Mine : AskResume(o) \/ RollBackNothing(o) \/ AskRollBack(o)
BackupsNext ==
    \/ \E p \in Programs : Operate(p)
    \/ AskSync \/ Person \/ PeerArrives
    \/ \E side \in Sides, i \in Items : EditItem(side, i)
BackupsSpec == BackupsInit /\ [][BackupsNext]_backupVars

-----------------------------------------------------------------------------
(* Properties *)

Committing(p) == On(p, "replace") /\ runs'[p] # Missing /\ runs'[p].pc = "prune"
Contents(saved) == [i \in DOMAIN saved |-> saved[i].content]
\* A restore that reports success has put back all that the manifest of its snapshot listed
\* and nothing else, wherever the parts of the snapshot came from - unless the snapshot was
\* pruned between its verification and the lock (restore.restore_from_backup).
RestoresWhole ==
    LET run == runs["person"] IN
    Committing("person") /\ run.listed # Missing =>
        /\ run.hurt \/ Contents(run.plan) = Contents(run.listed)
        /\ \A i \in DOMAIN run.plan :
             Held("person", i) = run.plan[i].content \/ Target("person", i) \in touched
\* After a rollback every file its operation replaced is what it was, on the side it was on,
\* but for what somebody else changed meanwhile (recovery.rollback_operation).
UndoesAll ==
    LET o == runs["person"].undoes IN
    Committing("person") /\ o # Missing =>
        \A i \in DOMAIN was[o] :
            tree[was[o][i].side][i] = was[o][i].content \/ <<was[o][i].side, i>> \in touched
\* No unfinished operation is a dead end: what its way out needs is never pruned, not even in
\* part (backup._prune, recovery.resume_operation).  What somebody else changed is excepted.
ReplacedBy(o) == {i \in DOMAIN was[o] : <<was[o][i].side, i>> \notin touched}
WayOutStands ==
    \A o \in Begun : journals[o] \in InCommit => CanResume(o) /\ (ReplacedBy(o) # {} => CanRollBack(o))
\* What was backed up can be put back: by a restore, by a rollback, at any time.
KeptIsPutBack == [][RestoresWhole /\ UndoesAll /\ WayOutStands']_backupVars
=============================================================================
