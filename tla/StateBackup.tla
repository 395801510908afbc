---------------------------- MODULE StateBackup -----------------------------
(***************************************************************************)
(* The copies of the Codex state (state_backup.py): an archive of every    *)
(* valuable file, taken only while Codex is closed, proven before it gets  *)
(* its name, in a folder that other machines' copies may share.  Codex,    *)
(* other writes of codexSync under the same lock, a clock that is set back *)
(* and kills come between any two steps.                                   *)
(***************************************************************************)
EXTENDS Integers, FiniteSets, SequencesExt

CONSTANTS
    Valuable,      \* the valuable files, numbers in the order they are copied
    KeepCopies,    \* how many copies of a machine are kept
    FirstCopies,   \* what the folder may hold at first
    LastTime,      \* bound: the times the clock shows, 0..LastTime
    LastMoment,    \* bound: how often files are written
    CopyBudgets,   \* bound: how often each event happens, one choice per behaviour
    Nothing        \* an absent value

ASSUME StateBackupAssumption ==
    /\ Valuable \subseteq Nat /\ IsFiniteSet(Valuable)
    /\ KeepCopies \in Nat \ {0} /\ LastTime \in Nat /\ LastMoment \in Nat
ASSUME AbsentAssumption == Nothing \notin Nat /\ Nothing \notin {"copy", "tool"}

VARIABLES
    codex,     \* Codex runs
    content,   \* per file, the moment it was last written, or Nothing when it is gone
    moment,    \* writes so far; no step of the program reads it
    clock,     \* what the machine's clock shows
    lock,      \* who holds the operation lock: Nothing, "copy" or "tool"
    pending,   \* files the other write under the lock has left to write
    copy,      \* the copy under way, or Nothing
    folder,    \* the copies: [mine, stamp, partial]
    last,      \* history: the stamp of the copy this machine committed last
    have       \* events left

copyVars == <<codex, content, moment, clock, lock, pending, copy, folder, last, have>>

Use(kind) == have[kind] > 0 /\ have' = [have EXCEPT ![kind] = @ - 1]
Entry(stamp, partial) == [mine |-> TRUE, stamp |-> stamp, partial |-> partial]

-----------------------------------------------------------------------------
(* The world. *)

Touch(f) == moment < LastMoment /\ content' = [content EXCEPT ![f] = moment + 1] /\ moment' = moment + 1
CodexStarts ==
    /\ ~codex /\ Use("codex") /\ codex' = TRUE
    /\ UNCHANGED <<content, moment, clock, lock, pending, copy, folder, last>>
CodexWrites ==
    /\ codex /\ \E f \in Valuable : Touch(f)
    /\ UNCHANGED <<codex, clock, lock, pending, copy, folder, last, have>>
Reading == copy # Nothing /\ copy.pc \in {"read", "compare"}
CodexQuits ==
    /\ codex /\ codex' = FALSE
    /\ copy' = IF Reading THEN [copy EXCEPT !.visited = TRUE] ELSE copy
    /\ UNCHANGED <<content, moment, clock, lock, pending, folder, last, have>>
\* Another command of codexSync replaces every file, one after the other.
ToolStarts ==
    /\ lock = Nothing /\ ~codex /\ Use("tool")
    /\ lock' = "tool" /\ pending' = Valuable
    /\ UNCHANGED <<codex, content, moment, clock, copy, folder, last>>
ToolWrites ==
    /\ \E f \in pending : Touch(f) /\ pending' = pending \ {f}
    /\ lock' = IF pending' = {} /\ lock = "tool" THEN Nothing ELSE lock
    /\ UNCHANGED <<codex, clock, copy, folder, last, have>>
ClockMoves ==
    /\ Use("clock") /\ clock' \in 0..LastTime /\ clock' # clock
    /\ UNCHANGED <<codex, content, moment, lock, pending, copy, folder, last>>
FileGoes ==
    /\ ~codex /\ Use("gone") /\ \E f \in Valuable : content' = [content EXCEPT ![f] = Nothing]
    /\ UNCHANGED <<codex, moment, clock, lock, pending, copy, folder, last>>

-----------------------------------------------------------------------------
(* One copy. *)

AtStep(pc) == copy # Nothing /\ copy.pc = pc
Becomes(pc) == copy' = [copy EXCEPT !.pc = pc]
World == UNCHANGED <<codex, content, moment, clock, pending>>

Selected == {f \in Valuable : content[f] # Nothing}
BeginCopy ==
    /\ copy = Nothing /\ Use("copy")
    /\ copy' = [pc |-> "wait", queue |-> {}, name |-> 0, reading |-> 0, holds |-> {}, begun |-> content,
                torn |-> FALSE, visited |-> FALSE]
    /\ UNCHANGED <<lock, folder, last>> /\ World
\* A Codex that runs is waited for; an unknown state, or one that runs too long, ends the copy.
WaitEnds ==
    /\ AtStep("wait") /\ ~codex
    /\ Becomes("lock")
    /\ UNCHANGED <<lock, folder, last, have>> /\ World
GiveUp ==
    /\ AtStep("wait")
    /\ copy' = Nothing
    /\ UNCHANGED <<lock, folder, last, have>> /\ World

LockFree == lock = Nothing
Partials == {e \in folder : e.mine /\ e.partial}
NameTaken(stamp) == Entry(stamp, FALSE) \in folder
\* The lock, the left-overs of a killed copy, the files, and a name nobody has.
Select ==
    /\ AtStep("lock")
    /\ IF LockFree /\ Selected # {} /\ ~NameTaken(clock)
       THEN /\ lock' = "copy"
            /\ folder' = (folder \ Partials) \cup {Entry(clock, TRUE)}
            /\ copy' = [copy EXCEPT !.pc = "read", !.queue = Selected, !.name = clock, !.begun = content]
       ELSE /\ copy' = Nothing /\ UNCHANGED lock
            /\ folder' = IF LockFree THEN folder \ Partials ELSE folder
    /\ UNCHANGED <<last, have>> /\ World

Drop == copy' = Nothing /\ folder' = folder \ {Entry(copy.name, TRUE)} /\ lock' = Nothing

\* Each file is looked at before and after it is read; one that is gone is left out.
File == Min(copy.queue)
ReadNext ==
    /\ AtStep("read") /\ copy.queue # {}
    /\ copy' = IF content[File] = Nothing THEN [copy EXCEPT !.queue = @ \ {File}]
               ELSE [copy EXCEPT !.pc = "compare", !.reading = content[File]]
    /\ UNCHANGED <<lock, folder, last, have>> /\ World
Unmoved == content[File] = copy.reading
\* A mutant: a file is not looked at again.
NotLookedAtAgain == TRUE
SameAsBefore == Unmoved
Compare ==
    /\ AtStep("compare")
    /\ IF SameAsBefore
       THEN /\ copy' = [copy EXCEPT !.pc = "read", !.queue = @ \ {File}, !.holds = @ \cup {<<File, copy.reading>>},
                           !.torn = @ \/ ~Unmoved]
            /\ UNCHANGED <<lock, folder>>
       ELSE Drop
    /\ UNCHANGED <<last, have>> /\ World

\* The last word belongs to the gate.
GateClosed == ~codex
LastGate ==
    /\ AtStep("read") /\ copy.queue = {}
    /\ IF GateClosed THEN Becomes("commit") /\ UNCHANGED <<lock, folder>> ELSE Drop
    /\ UNCHANGED <<last, have>> /\ World
CommitCopy ==
    /\ AtStep("commit")
    /\ folder' = (folder \ {Entry(copy.name, TRUE)}) \cup {Entry(copy.name, FALSE)}
    /\ last' = copy.name
    /\ Becomes("prune")
    /\ UNCHANGED <<lock, have>> /\ World

\* This machine's copies, the newest names first; the one just made is never among them.
Own == {e \in folder : e.mine /\ ~e.partial}
BeyondKeep == {e \in Own : Cardinality({o \in Own : o.stamp > e.stamp}) >= KeepCopies}
Pruned == BeyondKeep \ {Entry(copy.name, FALSE)}
Prune ==
    /\ AtStep("prune")
    /\ folder' = folder \ Pruned
    /\ copy' = Nothing /\ lock' = Nothing
    /\ UNCHANGED <<last, have>> /\ World

\* A read, a write or the proof of the archive fails: nothing stays behind.
CopyFails ==
    /\ Reading /\ Use("mishap")
    /\ Drop
    /\ UNCHANGED last /\ World
\* The process is killed: its unfinished archive stays, its lock does not.
KillCopy ==
    /\ copy # Nothing /\ lock = "copy" /\ Use("mishap")
    /\ copy' = Nothing /\ lock' = Nothing
    /\ UNCHANGED <<folder, last>> /\ World

CopiesInit ==
    /\ codex = FALSE /\ content = [f \in Valuable |-> 0] /\ moment = 0 /\ clock = 0
    /\ lock = Nothing /\ pending = {} /\ copy = Nothing /\ last = Nothing
    /\ folder \in FirstCopies /\ have \in CopyBudgets

CopiesNext ==
    \/ CodexStarts \/ CodexWrites \/ CodexQuits \/ ToolStarts \/ ToolWrites \/ ClockMoves \/ FileGoes
    \/ BeginCopy \/ WaitEnds \/ GiveUp \/ Select \/ ReadNext \/ Compare \/ LastGate \/ CommitCopy \/ Prune
    \/ CopyFails \/ KillCopy

-----------------------------------------------------------------------------
(* Properties *)

\* A committed copy holds the files as they were when the copying began, and none that was
\* written while it was read - unless Codex was opened and closed again in between, which the
\* gate at the end cannot see (state_backup.create_state_backup: lock, _copy_into, last gate).
OfOneMoment ==
    AtStep("commit") /\ Entry(copy.name, FALSE) \in folder' =>
        /\ ~copy.torn
        /\ copy.visited \/ \A held \in copy.holds : held[2] = copy.begun[held[1]]
\* Whatever the clock shows, the copy this machine made last stays, and nothing of another
\* machine is ever removed, finished or not (state_backup._prune, _sweep_partials).
NewestStays ==
    /\ {e \in folder : ~e.mine} \subseteq folder'
    /\ last' # Nothing => Entry(last', FALSE) \in folder'
\* The two together: a copy that was committed can be put back, and is there to be.
CopiesCanBeUsed == [][OfOneMoment /\ NewestStays]_copyVars
=============================================================================
