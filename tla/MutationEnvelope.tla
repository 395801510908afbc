-------------------------- MODULE MutationEnvelope --------------------------
(***************************************************************************)
(* The envelope every file mutation of codexSync runs in: one lock per     *)
(* machine, a durable journal in the shared workspace, a verified backup   *)
(* set, the Codex process re-checked before every replace, and the two     *)
(* ways out of an interrupted run (recover resume, recover rollback).      *)
(*                                                                         *)
(* Machines share the cloud root, the journals and the backup folder; each *)
(* has its own local root (.codex) and its own operation lock.  A process  *)
(* is one codexSync program (window, command line, scheduled task).        *)
(* Modelled from app.run_sync, sync_engine.SyncEngine.execute,             *)
(* restore.execute_restore_plan, mutation_journal, operation_lock,         *)
(* backup.BackupManager and recovery.                                      *)
(***************************************************************************)
EXTENDS Integers, FiniteSets

CONSTANTS
    Machines,      \* the person's computers
    Procs,         \* codexSync processes
    MachineOf,     \* the machine each process runs on
    Files,         \* relative paths under the include roots
    Content,       \* file contents
    Plans,         \* the plans a sync may have computed
    Initial,       \* the file trees the person may start from
    Ops,           \* operation ids (uuid4, each used once)
    None, Absent, Cloud,
    MaxTries,      \* attempts of one replace (fs_replace.REPLACE_ATTEMPTS)
    MaxCrashes,    \* bound: killed processes
    MaxRefusals,   \* bound: journal writes the file system refuses
    MaxEdits,      \* bound: writes by Codex and by the cloud client
    MaxStarts,     \* bound: times Codex is started
    RecoverAlone   \* TRUE: a person runs recover only on a journal that no
                   \* live process is working on

States == {"PREPARED", "BACKED_UP", "COMMITTING",
           "COMMITTED", "FAILED", "RECOVERY_REQUIRED"}
TERMINAL == {"COMMITTED", "FAILED"}
BEFORE_COMMIT == {"PREPARED", "BACKED_UP"}
PastCommit == {"COMMITTING", "RECOVERY_REQUIRED"}

Sides == {"local", "cloud"}
Roots == Machines \union {Cloud}
Stored == Content \union {Absent}

\* One entry of a SyncPlan: a copy, or a deletion when "to" is Absent.
Action == [file : Files, side : Sides, to : Stored]
\* One entry of a backup manifest: the side is recorded, the machine is not.
Entry == [file : Files, side : Sides, was : Content]
\* Plans and snapshots name each path of a side at most once (planner.build_plan
\* goes through the paths one by one and refuses those that differ in case).
OncePerPath(entries) ==
    \A a, b \in entries : a.file = b.file /\ a.side = b.side => a = b

ASSUME EnvelopeAssumption ==
    /\ MachineOf \in [Procs -> Machines]
    /\ Initial \subseteq [Roots -> [Files -> Stored]]
    /\ Plans \subseteq SUBSET Action
    /\ None \notin Ops \union Procs \union Machines
    /\ Absent \notin Content
    /\ Cloud \notin Machines
    /\ MaxTries \in Nat \ {0} /\ MaxCrashes \in Nat /\ MaxRefusals \in Nat
    /\ MaxEdits \in Nat /\ MaxStarts \in Nat
    /\ RecoverAlone \in BOOLEAN

ASSUME PlansAssumption == \A P \in Plans : OncePerPath(P)

VARIABLES
    codex,      \* machine -> is Codex running
    data,       \* root -> file -> content
    journal,    \* operation -> state of its journal file, or "ABSENT"
    owner,      \* operation -> the machine its journal records
    planned,    \* operation -> the plan its journal hashes
    snap,       \* operation -> entries of its backup snapshot
    stamped,    \* operations whose snapshot has a committed manifest
    lock,       \* machine -> process holding its operation lock
    pc, op, mem, plan, todo, tries, source,   \* per process
    applied,    \* history: operation -> actions that took effect
    overwrote,  \* history: operation -> the entries it really overwrote
    disturbed,  \* history: <<operation, file>> changed by someone else
                \* after its backup
    closedBy,   \* history: operation -> who made its journal terminal
    since,      \* history: machine -> replaces since Codex started
    used        \* how much of each bound is spent

shared == <<journal, owner, planned, snap, stamped>>
process == <<pc, op, mem, plan, todo, tries, source>>
history == <<applied, overwrote, disturbed, closedBy, since>>
vars == <<codex, data, shared, lock, process, history, used>>

PCs == {"idle", "begin", "open", "stage", "backup", "stamp", "backedup",
        "commitgate", "commit", "gate", "replace", "verify", "done", "prune",
        "fail", "resume", "rollback", "closing"}
\* Steps inside the try block of the run: an exception there is handled.
Guarded == {"stage", "backup", "stamp", "backedup", "commitgate", "commit",
            "gate", "replace", "verify", "done"}
AfterBackup == {"stamp", "backedup", "commitgate", "commit", "gate",
                "replace", "verify"}
InCommit == {"gate", "replace", "verify", "done"}
\* The steps in which a process works on the operation it opened itself.
Running == Guarded \union {"prune", "fail"}

Root(p, side) ==
    IF side = "local" THEN MachineOf[p] ELSE Cloud
\* Replacements happen in this order: to_local copies, then to_cloud copies, then deletions.
Rank(a) ==
    IF a.to = Absent THEN 3 ELSE IF a.side = "local" THEN 1 ELSE 2
Due(p) == {a \in todo[p] : \A b \in todo[p] : Rank(a) <= Rank(b)}

OpenJournals == {o \in Ops : journal[o] \notin TERMINAL \union {"ABSENT"}}

\* The journals JournalStore.close_abandoned closes for machine m.
NeverAbandoned(m) == {}
Abandoned(m) == {o \in Ops : owner[o] = m /\ journal[o] \in BEFORE_COMMIT}

\* OperationLock: non-blocking, one per (state root, machine).
LockIgnored(p) == TRUE
LockFree(p) == lock[MachineOf[p]] = None

\* SafetyGate.require(final=True): one sample, and Codex is not running.
GateOnceOnly(p) == todo[p] = plan[p] => ~codex[MachineOf[p]]
FinalGate(p) == ~codex[MachineOf[p]]

\* Does overwriting "old" by action a need a backup entry.
BacksUpLocalOnly(a, old) == old # Absent /\ a.side = "local"
NeedsBackup(a, old) == old # Absent

\* One more attempt after a replace the file system refused.
MayRetry(p) == tries[p] < MaxTries - 1

\* Nothing is left of the plan.
CopiesReplaced(p) == \A a \in todo[p] : a.to = Absent
NothingLeft(p) == todo[p] = {}

\* What a run that raised makes of its journal, from what it remembers.
AlwaysFailed(p) == "FAILED"
FailureState(p) ==
    IF mem[p] = "COMMITTING" THEN "RECOVERY_REQUIRED" ELSE "FAILED"

Spend(what) == used' = [used EXCEPT ![what] = @ + 1]

\* Somebody writes a file: any run that has backed it up and not finished with
\* it no longer holds what it is about to overwrite.
Exposed(q, root, f) ==
    \E a \in plan[q] :
        /\ a.file = f /\ Root(q, a.side) = root
        /\ pc[q] \in AfterBackup \/ (pc[q] = "backup" /\ a \notin todo[q])
Disturb(root, f, by) ==
    disturbed' = disturbed \union
        {<<op[q], f>> : q \in {r \in Procs \ {by} : Exposed(r, root, f)}}

TypeOK ==
    /\ codex \in [Machines -> BOOLEAN]
    /\ data \in [Roots -> [Files -> Stored]]
    /\ journal \in [Ops -> States \union {"ABSENT"}]
    /\ owner \in [Ops -> Machines \union {None}]
    /\ planned \in [Ops -> SUBSET Action]
    /\ snap \in [Ops -> SUBSET Entry]
    /\ stamped \subseteq Ops
    /\ lock \in [Machines -> Procs \union {None}]
    /\ pc \in [Procs -> PCs]
    /\ op \in [Procs -> Ops \union {None}]
    /\ mem \in [Procs -> States \union {None}]
    /\ plan \in [Procs -> SUBSET Action]
    /\ todo \in [Procs -> SUBSET Action]
    /\ tries \in [Procs -> 0..(MaxTries - 1)]
    /\ source \in [Procs -> Ops \union {None}]
    /\ applied \in [Ops -> SUBSET Action]
    /\ overwrote \in [Ops -> SUBSET Entry]
    /\ disturbed \subseteq Ops \X Files
    /\ closedBy \in [Ops -> {"nobody", "run", "begin", "resume", "rollback"}]
    /\ since \in [Machines -> Nat]
    /\ used \in [{"crash", "refusal", "edit", "start"} -> Nat]
    /\ \A p \in Procs : pc[p] \in Running => op[p] \in Ops

Init ==
    /\ codex = [m \in Machines |-> FALSE]
    /\ data \in Initial
    /\ journal = [o \in Ops |-> "ABSENT"]
    /\ owner = [o \in Ops |-> None]
    /\ planned = [o \in Ops |-> {}]
    /\ snap = [o \in Ops |-> {}]
    /\ stamped = {}
    /\ lock = [m \in Machines |-> None]
    /\ pc = [p \in Procs |-> "idle"]
    /\ op = [p \in Procs |-> None]
    /\ mem = [p \in Procs |-> None]
    /\ plan = [p \in Procs |-> {}]
    /\ todo = [p \in Procs |-> {}]
    /\ tries = [p \in Procs |-> 0]
    /\ source = [p \in Procs |-> None]
    /\ applied = [o \in Ops |-> {}]
    /\ overwrote = [o \in Ops |-> {}]
    /\ disturbed = {}
    /\ closedBy = [o \in Ops |-> "nobody"]
    /\ since = [m \in Machines |-> 0]
    /\ used = [b \in {"crash", "refusal", "edit", "start"} |-> 0]

-----------------------------------------------------------------------------
(***************************************************************************)
(* Entering a run.                                                         *)
(***************************************************************************)
Go(p, where) == pc' = [pc EXCEPT ![p] = where]

\* The process is done with whatever it was doing; the lock goes with it.
Leave(p) ==
    /\ pc' = [pc EXCEPT ![p] = "idle"]
    /\ op' = [op EXCEPT ![p] = None]
    /\ mem' = [mem EXCEPT ![p] = None]
    /\ plan' = [plan EXCEPT ![p] = {}]
    /\ todo' = [todo EXCEPT ![p] = {}]
    /\ tries' = [tries EXCEPT ![p] = 0]
    /\ source' = [source EXCEPT ![p] = None]
    /\ lock' = [m \in Machines |-> IF lock[m] = p THEN None ELSE lock[m]]

\* build_context proved Codex stopped and computed the plan; run_sync takes
\* the lock.  A busy lock refuses, which leaves nothing behind.
Start(p) ==
    /\ pc[p] = "idle"
    /\ ~codex[MachineOf[p]]
    /\ LockFree(p)
    /\ lock' = [lock EXCEPT ![MachineOf[p]] = p]
    /\ \E P \in Plans : plan' = [plan EXCEPT ![p] = P]
    /\ Go(p, "begin")
    /\ UNCHANGED <<codex, data, shared, op, mem, todo, tries, source, history,
                   used>>

\* JournalStore.begin, first half: each journal this machine left before its
\* commit phase is closed as FAILED (Abandoned).
CloseAbandoned(p) ==
    /\ pc[p] = "begin"
    /\ \E o \in Abandoned(MachineOf[p]) :
        /\ journal' = [journal EXCEPT ![o] = "FAILED"]
        /\ closedBy' = [closedBy EXCEPT ![o] = "begin"]
    /\ UNCHANGED <<codex, data, owner, planned, snap, stamped, lock, process,
                   applied, overwrote, disturbed, since, used>>

\* Second half: nothing is open anywhere in the shared journals folder.
ScanClear(p) ==
    /\ pc[p] = "begin"
    /\ Abandoned(MachineOf[p]) = {}
    /\ OpenJournals = {}
    /\ Go(p, "open")
    /\ UNCHANGED <<codex, data, shared, lock, op, mem, plan, todo, tries,
                   source, history, used>>

\* RecoveryPendingError: an earlier mutation is still open.
ScanBlocked(p) ==
    /\ pc[p] = "begin"
    /\ Abandoned(MachineOf[p]) = {}
    /\ OpenJournals # {}
    /\ Leave(p)
    /\ UNCHANGED <<codex, data, shared, history, used>>

\* The new journal file appears: the scan and this write are two steps, and
\* another machine may open its own in between.
OpenJournal(p) ==
    /\ pc[p] = "open"
    /\ \E o \in Ops :
        /\ journal[o] = "ABSENT"
        /\ journal' = [journal EXCEPT ![o] = "PREPARED"]
        /\ owner' = [owner EXCEPT ![o] = MachineOf[p]]
        /\ planned' = [planned EXCEPT ![o] = plan[p]]
        /\ op' = [op EXCEPT ![p] = o]
    /\ mem' = [mem EXCEPT ![p] = "PREPARED"]
    /\ Go(p, "stage")
    /\ UNCHANGED <<codex, data, snap, stamped, lock, plan, todo, tries, source,
                   history, used>>

\* A journal write begin needs is refused (or no operation id is left, the
\* bound of the model): begin raises outside the try block.
BeginRefused(p) ==
    /\ pc[p] \in {"begin", "open"}
    /\ \/ /\ used["refusal"] < MaxRefusals
          /\ Spend("refusal")
       \/ /\ pc[p] = "open"
          /\ \A o \in Ops : journal[o] # "ABSENT"
          /\ UNCHANGED used
    /\ Leave(p)
    /\ UNCHANGED <<codex, data, shared, history>>

-----------------------------------------------------------------------------
(***************************************************************************)
(* SyncEngine.execute.                                                     *)
(***************************************************************************)

\* before_stage_check (a sync that copies something), then every payload is
\* staged beside its destination and verified against its source.  Staging
\* siblings are never read back and are swept by age: they are no state here.
Stage(p) ==
    /\ pc[p] = "stage"
    /\ \/ source[p] # None
       \/ \A a \in plan[p] : a.to = Absent
       \/ ~codex[MachineOf[p]]
    /\ todo' = [todo EXCEPT ![p] = plan[p]]
    /\ Go(p, "backup")
    /\ UNCHANGED <<codex, data, shared, lock, op, mem, plan, tries, source,
                   history, used>>

\* backup_file for one action: an existing destination is copied and hashed;
\* a copy onto a missing destination needs no backup, a deletion of a missing
\* file is refused (Raise).
BackupFile(p) ==
    /\ pc[p] = "backup"
    /\ \E a \in todo[p] :
        LET old == data[Root(p, a.side)][a.file] IN
        /\ ~(a.to = Absent /\ old = Absent)
        /\ snap' = IF NeedsBackup(a, old)
                   THEN [snap EXCEPT ![op[p]] = @ \union
                           {[file |-> a.file, side |-> a.side, was |-> old]}]
                   ELSE snap
        /\ todo' = [todo EXCEPT ![p] = @ \ {a}]
    /\ UNCHANGED <<codex, data, journal, owner, planned, stamped, lock, pc, op,
                   mem, plan, tries, source, history, used>>

BackupDone(p) ==
    /\ pc[p] = "backup"
    /\ todo[p] = {}
    /\ Go(p, "stamp")
    /\ UNCHANGED <<codex, data, shared, lock, op, mem, plan, todo, tries,
                   source, history, used>>

\* BackupManager.finalize: a snapshot with entries gets its committed manifest.
Finalize(p) ==
    /\ pc[p] = "stamp"
    /\ stamped' = IF snap[op[p]] = {} THEN stamped ELSE stamped \union {op[p]}
    /\ Go(p, "backedup")
    /\ UNCHANGED <<codex, data, journal, owner, planned, snap, lock, op, mem,
                   plan, todo, tries, source, history, used>>

\* One journal transition of the run, from what it remembers to what it writes.
Transition(p, from, to, next) ==
    /\ pc[p] = from
    /\ journal' = [journal EXCEPT ![op[p]] = to]
    /\ mem' = [mem EXCEPT ![p] = to]
    /\ Go(p, next)
    /\ UNCHANGED <<codex, data, owner, planned, snap, stamped, lock, op, plan,
                   tries, source, applied, overwrote, disturbed, since, used>>

AfterBackupHook(p) ==
    /\ Transition(p, "backedup", "BACKED_UP", "commitgate")
    /\ UNCHANGED <<todo, closedBy>>

\* pre_commit: the final gate, then the journal enters its commit phase.
PreCommitGate(p) ==
    /\ pc[p] = "commitgate"
    /\ FinalGate(p)
    /\ Go(p, "commit")
    /\ UNCHANGED <<codex, data, shared, lock, op, mem, plan, todo, tries,
                   source, history, used>>

PreCommit(p) ==
    /\ Transition(p, "commit", "COMMITTING", "gate")
    /\ todo' = [todo EXCEPT ![p] = plan[p]]
    /\ UNCHANGED closedBy

\* before_replace_check, before each replace, each retry and each deletion.
ReplaceGate(p) ==
    /\ pc[p] = "gate"
    /\ ~NothingLeft(p)
    /\ FinalGate(p)
    /\ Go(p, "replace")
    /\ UNCHANGED <<codex, data, shared, lock, op, mem, plan, todo, tries,
                   source, history, used>>

\* The destination is replaced or unlinked.
Replace(p) ==
    /\ pc[p] = "replace"
    /\ \E a \in Due(p) :
        LET root == Root(p, a.side)
            old  == data[root][a.file]
        IN
        /\ data' = [data EXCEPT ![root][a.file] = a.to]
        /\ applied' = [applied EXCEPT ![op[p]] = @ \union {a}]
        /\ overwrote' =
               IF old = Absent THEN overwrote
               ELSE [overwrote EXCEPT ![op[p]] = @ \union
                       {[file |-> a.file, side |-> a.side, was |-> old]}]
        /\ Disturb(root, a.file, p)
    /\ since' = [since EXCEPT ![MachineOf[p]] = @ + 1]
    /\ tries' = [tries EXCEPT ![p] = 0]
    /\ Go(p, "verify")
    /\ UNCHANGED <<codex, shared, lock, op, mem, plan, todo, source, closedBy,
                   used>>

\* Another program holds the target: wait and prove the gate again.
ReplaceLocked(p) ==
    /\ pc[p] = "replace"
    /\ MayRetry(p)
    /\ \E a \in Due(p) : a.to # Absent
    /\ tries' = [tries EXCEPT ![p] = @ + 1]
    /\ Go(p, "gate")
    /\ UNCHANGED <<codex, data, shared, lock, op, mem, plan, todo, source,
                   history, used>>

\* The destination still holds what was put there; otherwise Raise.
Verify(p) ==
    /\ pc[p] = "verify"
    /\ \E a \in todo[p] \intersect applied[op[p]] :
        /\ data[Root(p, a.side)][a.file] = a.to
        /\ todo' = [todo EXCEPT ![p] = @ \ {a}]
    /\ Go(p, "gate")
    /\ UNCHANGED <<codex, data, shared, lock, op, mem, plan, tries, source,
                   history, used>>

AllReplaced(p) ==
    /\ pc[p] = "gate"
    /\ NothingLeft(p)
    /\ Go(p, "done")
    /\ UNCHANGED <<codex, data, shared, lock, op, mem, plan, todo, tries,
                   source, history, used>>

\* The sync manifest is saved and the journal becomes COMMITTED.
Commit(p) ==
    /\ Transition(p, "done", "COMMITTED", "prune")
    /\ closedBy' = [closedBy EXCEPT ![op[p]] = "run"]
    /\ UNCHANGED todo

\* BackupManager.prune: any snapshots of this machine past retention, never one
\* an open journal names, never the newest.
Prune(p) ==
    /\ pc[p] = "prune"
    /\ \E old \in SUBSET {o \in Ops : /\ owner[o] = MachineOf[p]
                                      /\ snap[o] # {}
                                      /\ o \notin OpenJournals
                                      /\ o # op[p]} :
        /\ snap' = [o \in Ops |-> IF o \in old THEN {} ELSE snap[o]]
        /\ stamped' = stamped \ old
    /\ Leave(p)
    /\ UNCHANGED <<codex, data, journal, owner, planned, history, used>>

-----------------------------------------------------------------------------
(***************************************************************************)
(* Failures.                                                               *)
(***************************************************************************)

\* Any step inside the try block may raise: Codex runs or cannot be proven
\* stopped, a file cannot be read or written, a payload or a destination does
\* not verify, a journal write is refused.
Raise(p) ==
    /\ pc[p] \in Guarded
    /\ Go(p, "fail")
    /\ UNCHANGED <<codex, data, shared, lock, op, mem, plan, todo, tries,
                   source, history, used>>

\* The handler: past COMMITTING a person is needed, before it nothing was
\* replaced.  The journal state it goes by is the one in memory.
Fail(p) ==
    /\ pc[p] = "fail"
    /\ journal' = [journal EXCEPT ![op[p]] = FailureState(p)]
    /\ closedBy' = IF FailureState(p) = "FAILED"
                   THEN [closedBy EXCEPT ![op[p]] = "run"]
                   ELSE closedBy
    /\ Leave(p)
    /\ UNCHANGED <<codex, data, owner, planned, snap, stamped, applied,
                   overwrote, disturbed, since, used>>

\* That write is refused too: the journal stays as it was on disk.
FailUnrecorded(p) ==
    /\ pc[p] = "fail"
    /\ used["refusal"] < MaxRefusals
    /\ Spend("refusal")
    /\ Leave(p)
    /\ UNCHANGED <<codex, data, shared, history>>

\* The process is killed; the system releases its lock.
Crash(p) ==
    /\ pc[p] # "idle"
    /\ used["crash"] < MaxCrashes
    /\ Spend("crash")
    /\ Leave(p)
    /\ UNCHANGED <<codex, data, shared, history>>

-----------------------------------------------------------------------------
(***************************************************************************)
(* recover resume and recover rollback.                                    *)
(***************************************************************************)
InFlight(o) == \E p \in Procs : op[p] = o \/ source[p] = o

\* _load_recoverable and the gate window, on any machine: the journals are
\* shared.
Recoverable(p, o) ==
    /\ pc[p] = "idle"
    /\ ~codex[MachineOf[p]]
    /\ o \in OpenJournals
    /\ RecoverAlone => ~InFlight(o)

\* resume_operation, and _no_op_rollback: the journal is closed without the
\* lock, from the state read here.
LoadToClose(p, o) ==
    /\ Recoverable(p, o)
    /\ op' = [op EXCEPT ![p] = o]
    /\ mem' = [mem EXCEPT ![p] = journal[o]]
    /\ Go(p, "resume")
    /\ UNCHANGED <<codex, data, shared, lock, plan, todo, tries, source,
                   history, used>>

\* rollback_operation up to its lock: the snapshot must be there with its
\* manifest, and becomes a plan that resolves each side on this machine.
PlanRollback(p, o) ==
    /\ Recoverable(p, o)
    /\ journal[o] \notin BEFORE_COMMIT
    /\ o \in stamped
    /\ op' = [op EXCEPT ![p] = o]
    /\ mem' = [mem EXCEPT ![p] = journal[o]]
    /\ plan' = [plan EXCEPT ![p] =
           {[file |-> e.file, side |-> e.side, to |-> e.was] : e \in snap[o]}]
    /\ Go(p, "rollback")
    /\ UNCHANGED <<codex, data, shared, lock, todo, tries, source, history,
                   used>>

\* The lock, and the journal re-read under it.
RollbackLock(p) ==
    /\ pc[p] = "rollback"
    /\ LockFree(p)
    /\ journal[op[p]] = mem[p]
    /\ lock' = [lock EXCEPT ![MachineOf[p]] = p]
    /\ Go(p, "closing")
    /\ UNCHANGED <<codex, data, shared, op, mem, plan, todo, tries, source,
                   history, used>>

RollbackRefused(p) ==
    /\ pc[p] = "rollback"
    /\ ~LockFree(p) \/ journal[op[p]] # mem[p]
    /\ Leave(p)
    /\ UNCHANGED <<codex, data, shared, history, used>>

\* recovery._close: COMMITTING is acknowledged as RECOVERY_REQUIRED first.
Acknowledge(p) ==
    /\ pc[p] \in {"resume", "closing"}
    /\ mem[p] = "COMMITTING"
    /\ journal' = [journal EXCEPT ![op[p]] = "RECOVERY_REQUIRED"]
    /\ mem' = [mem EXCEPT ![p] = "RECOVERY_REQUIRED"]
    /\ UNCHANGED <<codex, data, owner, planned, snap, stamped, lock, pc, op,
                   plan, todo, tries, source, history, used>>

ResumeClose(p) ==
    /\ pc[p] = "resume"
    /\ mem[p] # "COMMITTING"
    /\ journal' = [journal EXCEPT ![op[p]] = "FAILED"]
    /\ closedBy' = [closedBy EXCEPT ![op[p]] = "resume"]
    /\ Leave(p)
    /\ UNCHANGED <<codex, data, owner, planned, snap, stamped, applied,
                   overwrote, disturbed, since, used>>

\* The rolled back journal is closed, and only then the restore begins, as an
\* operation of its own.
RollbackClose(p) ==
    /\ pc[p] = "closing"
    /\ mem[p] # "COMMITTING"
    /\ journal' = [journal EXCEPT ![op[p]] = "FAILED"]
    /\ closedBy' = [closedBy EXCEPT ![op[p]] = "rollback"]
    /\ source' = [source EXCEPT ![p] = op[p]]
    /\ op' = [op EXCEPT ![p] = None]
    /\ mem' = [mem EXCEPT ![p] = None]
    /\ Go(p, "begin")
    /\ UNCHANGED <<codex, data, owner, planned, snap, stamped, lock, plan,
                   todo, tries, applied, overwrote, disturbed, since, used>>

\* A journal write of recover is refused: it stops where it is.
RecoverRefused(p) ==
    /\ pc[p] \in {"resume", "closing"}
    /\ used["refusal"] < MaxRefusals
    /\ Spend("refusal")
    /\ Leave(p)
    /\ UNCHANGED <<codex, data, shared, history>>

-----------------------------------------------------------------------------
(***************************************************************************)
(* Codex, and the cloud client.                                            *)
(***************************************************************************)
StartCodex(m) ==
    /\ ~codex[m]
    /\ used["start"] < MaxStarts
    /\ Spend("start")
    /\ codex' = [codex EXCEPT ![m] = TRUE]
    /\ since' = [since EXCEPT ![m] = 0]
    /\ UNCHANGED <<data, shared, lock, process, applied, overwrote, disturbed,
                   closedBy>>

StopCodex(m) ==
    /\ codex[m]
    /\ codex' = [codex EXCEPT ![m] = FALSE]
    /\ UNCHANGED <<data, shared, lock, process, history, used>>

\* Codex writes its own files while it runs; the cloud client delivers another
\* version of a cloud file at any time.
Edit(root, f) ==
    /\ root = Cloud \/ (root \in Machines /\ codex[root])
    /\ used["edit"] < MaxEdits
    /\ Spend("edit")
    /\ \E v \in Stored \ {data[root][f]} :
           data' = [data EXCEPT ![root][f] = v]
    /\ Disturb(root, f, None)
    /\ UNCHANGED <<codex, shared, lock, process, applied, overwrote, closedBy,
                   since>>

-----------------------------------------------------------------------------
Begin(p) == CloseAbandoned(p) \/ ScanClear(p) \/ ScanBlocked(p)
            \/ OpenJournal(p) \/ BeginRefused(p)
Execute(p) == Stage(p) \/ BackupFile(p) \/ BackupDone(p) \/ Finalize(p)
              \/ AfterBackupHook(p) \/ PreCommitGate(p) \/ PreCommit(p)
              \/ ReplaceGate(p) \/ Replace(p) \/ ReplaceLocked(p) \/ Verify(p)
              \/ AllReplaced(p) \/ Commit(p) \/ Prune(p)
Failure(p) == Raise(p) \/ Fail(p) \/ FailUnrecorded(p)
Recover(p) == RollbackLock(p) \/ RollbackRefused(p) \/ Acknowledge(p)
              \/ ResumeClose(p) \/ RollbackClose(p) \/ RecoverRefused(p)

\* What a process does on its own once somebody started it.
Step(p) == Begin(p) \/ Execute(p) \/ Failure(p) \/ Recover(p)
Person(p) == Start(p) \/ \E o \in Ops : LoadToClose(p, o) \/ PlanRollback(p, o)
Environment ==
    \/ \E m \in Machines : StartCodex(m) \/ StopCodex(m)
    \/ \E root \in Roots, f \in Files : Edit(root, f)

Next ==
    \/ \E p \in Procs : Step(p) \/ Person(p) \/ Crash(p)
    \/ Environment

Spec == Init /\ [][Next]_vars

\* Processes run on, Codex is closed sooner or later, the person keeps using
\* codexSync on every machine and ends what recover lists.
Fairness ==
    /\ \A p \in Procs : WF_vars(Step(p)) /\ SF_vars(Start(p))
    /\ \A m \in Machines : WF_vars(StopCodex(m))
PersonResumes ==
    \A o \in Ops :
        SF_vars(journal[o] \in PastCommit /\ \E p \in Procs : LoadToClose(p, o))
AttendedSpec == Spec /\ Fairness /\ PersonResumes

-----------------------------------------------------------------------------
(***************************************************************************)
(* Properties.                                                             *)
(***************************************************************************)
Locked == PCs \ {"idle", "resume", "rollback"}
Partial(o) == applied[o] # {} /\ applied[o] # planned[o]

\* operation_lock: two processes on one machine are never inside a mutation of
\* its Codex folder together, whatever family, rollback included.
OneMutationPerCodexFolder ==
    \A p, q \in Procs :
        p # q /\ MachineOf[p] = MachineOf[q] =>
            ~(pc[p] \in Locked /\ pc[q] \in Locked)

\* recovery.py: a journal still PREPARED or BACKED_UP proves that nothing was
\* replaced, and so does one begin closed as abandoned.
EvidenceBeforeReplace ==
    \A o \in Ops : applied[o] # {} =>
        /\ journal[o] \notin BEFORE_COMMIT \union {"ABSENT"}
        /\ closedBy[o] # "begin"

\* While the journal of a commit phase is open, all it overwrote is in its
\* snapshot, under a committed manifest, except a file somebody else changed
\* after it was backed up.
RollbackStaysPossible ==
    \A o \in Ops : journal[o] \in PastCommit =>
        \A e \in overwrote[o] :
            \/ o \in stamped /\ e \in snap[o]
            \/ <<o, e.file>> \in disturbed

\* A half-applied plan blocks every later mutation until a person chooses
\* between resume and rollback: no run, no failure and no later begin closes
\* its journal.
HalfAppliedBlocks ==
    \A o \in Ops : Partial(o) =>
        o \in OpenJournals \/ closedBy[o] \in {"resume", "rollback"}

\* A COMMITTED journal says that the whole plan took effect.
CommittedIsComplete ==
    \A o \in Ops : journal[o] = "COMMITTED" => applied[o] = planned[o]

\* The gate is proven again before every replace: after Codex starts, at most
\* the one replace already under way lands in its folder or in the mirror.
OneReplaceAfterCodexStarts ==
    \A m \in Machines : codex[m] => since[m] <= 1

\* No block is for ever: a run that stopped before its commit phase is closed
\* by the next run of its machine without anybody's help, and a person who
\* resumes what recover lists ends every other one.
EveryBlockEnds == \A o \in Ops : (o \in OpenJournals) ~> (o \notin OpenJournals)

-----------------------------------------------------------------------------
(***************************************************************************)
(* What a caller of the envelope sees of an operation.                     *)
(***************************************************************************)
Standing(o) ==
    CASE journal[o] = "ABSENT" -> "none"
      [] journal[o] = "COMMITTED" -> "complete"
      [] journal[o] = "FAILED" -> "failed"
      [] OTHER -> "open"
ClosedByPerson == {o \in Ops : closedBy[o] \in {"resume", "rollback"}}

Promise == INSTANCE AtomicMutation
    WITH Actions <- Action, RankOf <- [a \in Action |-> Rank(a)],
         stage <- [o \in Ops |-> Standing(o)], want <- planned,
         effect <- applied, ended <- ClosedByPerson

\* mutation_journal, recovery: a mutation is all of its plan, nothing of it, or
\* a person's decision -- as long as recover is run on journals no live process
\* is working on.
MutationIsAtomic == Promise!AtomicSpec
=============================================================================
