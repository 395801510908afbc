----------------------------- MODULE CodexState -----------------------------
(***************************************************************************)
(* Every edit of .codex-global-state.json that a person asks for on one    *)
(* machine: chats moved to a project, projects repaired after a handoff, a *)
(* Guardian snapshot put back, a project moved to a new folder, and the    *)
(* rollback of such an edit (app.commit_global_state and its callers,      *)
(* chat_move.py, repair_plan.py, guardian_restore.py, project_move.py,     *)
(* recovery.py).  A plan is saved, shown, confirmed later, and carried out *)
(* only if it would be made again; the move of a project copies a folder   *)
(* between the confirmation and the edit.  Codex and persons act between.  *)
(***************************************************************************)
EXTENDS Integers, FiniteSets

CONSTANTS
    Projects, Chats,
    Moving,        \* the project whose folder is moved
    Old, Target,   \* its folder, and the folder a person wants it in
    Home,          \* the folder below which each chat was recorded
    Gone,          \* chats whose own directory the path mapping does not find
    Rule,          \* where the path mappings of the settings send a folder, or None
    Files,         \* files of the moved project
    Newest,        \* bound: how often one file is edited
    Start,         \* what Codex wrote first; a Guardian snapshot holds it
    Known,         \* the chats there are at first
    MaxEvents,     \* bound: starts and writes of Codex, and edits by persons
    MaxRuns,       \* bound: edits asked for other than the move
    MaxMishaps,    \* bound: kills, refused renames, results that cannot be read back
    None

Places == {Old, Target}
Folders == Places \cup {Start.root[p] : p \in Projects} \cup {Home[c] : c \in Chats}
Content == [Files -> 1..Newest + 1]     \* what was never in the project is Newest + 1
States == [root : [Projects -> Folders], bind : [Chats -> Projects \cup {None}], rest : 0..MaxEvents]

ASSUME StateAssumption ==
    /\ IsFiniteSet(Projects) /\ Moving \in Projects /\ Old # Target /\ Start.root[Moving] = Old
    /\ Start \in States /\ Home \in [Chats -> Folders] /\ Rule \in [Folders -> Folders \cup {None}]
    /\ Gone \subseteq Chats /\ Known \subseteq Chats /\ None \notin Projects /\ None \notin Folders
    /\ None \notin States /\ None \notin Content
    /\ Newest \in Nat \ {0} /\ MaxEvents \in Nat /\ MaxRuns \in Nat /\ MaxMishaps \in Nat

VARIABLES
    state,      \* .codex-global-state.json: roots, bindings, and what else Codex writes
    codex,      \* Codex runs
    known,      \* chats with a file here
    files,      \* what the two folders hold, or None
    stamped,    \* the new folder still holds the marker of its staging directory
    stagings,   \* staging directories beside the new folder: [plan, marked]
    resume,     \* the inventory the resume marker names, or None
    saved,      \* the plan a person was shown last, or None
    run,        \* the edit under way, or Idle
    left,       \* the state before an edit whose journal stayed open, or None
    made,       \* history: the new folder is a copy of a move that has not ended
    spent       \* [events, runs, mishaps]

folders == <<files, stamped, stagings, resume, made>>
vars == <<state, codex, known, folders, saved, run, left, spent>>

Idle == [pc |-> "idle"]

-----------------------------------------------------------------------------
(* Where a chat belongs, and the plans. *)

\* The only element of a set, or None.
Only(S) == IF Cardinality(S) = 1 THEN CHOOSE x \in S : TRUE ELSE None
RootedAt(s, f) == {p \in Projects : s.root[p] = f}
\* The project Codex shows a chat under: its binding, else its folder.
Belongs(s, c) == IF s.bind[c] # None THEN s.bind[c] ELSE Only(RootedAt(s, Home[c]))

Plan(op, original, after) ==
    [op |-> op, original |-> original, after |-> after, inv |-> None, complete |-> FALSE]

\* A chat already bound there writes nothing; a plan that writes nothing is refused.
ChatsPlans ==
    {Plan("chats", state, [state EXCEPT !.bind[x[1]] = x[2]]) :
        x \in {y \in known \X Projects : state.bind[y[1]] # y[2]}}
RestorePlans == IF state = Start THEN {} ELSE {Plan("restore", state, Start)}

\* The project a repair gives a chat: the one at its mapped folder, or the one
\* whose own root maps there.
Mapped(c) == IF c \in Gone THEN None ELSE Rule[Home[c]]
There(f) == f # None /\ (f \in Places => files[f] # None)
Reached(c) == IF There(Mapped(c)) THEN RootedAt(state, Mapped(c)) ELSE {}
Renamed(c) == IF There(Mapped(c)) /\ Reached(c) = {}
              THEN {p \in Projects : Rule[state.root[p]] = Mapped(c)} ELSE {}
Ambiguous == \E c \in known : Cardinality(Reached(c)) > 1 \/ Cardinality(Renamed(c)) > 1
Given == [c \in known |-> Only(Reached(c) \cup Renamed(c))]
Remapped == {p \in Projects : \E c \in known : Renamed(c) = {p}}
\* Chats that reach a remapped project only through the root being replaced.
UnderRemaps == [c \in known |-> Only(RootedAt(state, Home[c]) \cap Remapped)]
Elsewhere(c) == \E p \in {Given[c], state.bind[c]} : p \notin {None, UnderRemaps[c]}
Orphans == {c \in known : UnderRemaps[c] # None /\ Given[c] # UnderRemaps[c] /\ Elsewhere(c)}
NewRoot(p) == IF p \in Remapped THEN Mapped(CHOOSE c \in known : Renamed(c) = {p}) ELSE state.root[p]
Assigned(c) == CASE c \notin known -> state.bind[c]
                 [] c \in known /\ Given[c] # None -> Given[c]
                 [] c \in known /\ Given[c] = None /\ UnderRemaps[c] # None -> UnderRemaps[c]
                 [] OTHER -> state.bind[c]
RepairPlans ==
    IF Ambiguous \/ Orphans # {} THEN {}
    ELSE {Plan("repair", state, [state EXCEPT !.root = [p \in Projects |-> NewRoot(p)],
                                              !.bind = [c \in Chats |-> Assigned(c)]])}

\* A mutant: whatever is at the new folder counts as the copy.
AnyCopy == resume # None
\* The folder at the target is the copy an earlier attempt finished.
CopyComplete == resume # None /\ resume = files[Old] /\ files[Target] = files[Old]
Movable ==
    /\ state.root[Moving] = Old
    /\ \A p \in Projects \ {Moving} : state.root[p] \notin Places
    /\ files[Target] # None => CopyComplete
Pinned == {c \in known : Home[c] = Old /\ state.bind[c] = None}
MovePlans ==
    IF ~Movable THEN {}
    ELSE {[op |-> "move", original |-> state, inv |-> files[Old], complete |-> files[Target] # None,
           after |-> [state EXCEPT !.root[Moving] = Target,
                                   !.bind = [c \in Chats |-> IF c \in Pinned THEN Moving ELSE @[c]]]]}

Plans == IF codex THEN ChatsPlans \cup RestorePlans
         ELSE ChatsPlans \cup RestorePlans \cup RepairPlans \cup MovePlans
\* A plan is made again when it is carried out; a saved repair plan is only
\* compared with the state it was made from.
RepairStands(plan) == state = plan.original
ChatsStand(plan) == plan \in ChatsPlans
RestoreStands(plan) == plan \in RestorePlans
MoveStands(plan) == plan \in MovePlans
StillPlanned(plan) ==
    CASE plan.op = "repair" -> RepairStands(plan)
      [] plan.op = "chats" -> ChatsStand(plan)
      [] plan.op = "restore" -> RestoreStands(plan)
      [] plan.op = "move" -> MoveStands(plan)
\* What a preview keeps: a plan file that is read back as it was written, or an id.
Kept(plan) == [plan |-> plan, seen |-> known]

-----------------------------------------------------------------------------
Init ==
    /\ state = Start /\ codex = FALSE /\ known = Known
    /\ files = [f \in Places |-> IF f = Old THEN [x \in Files |-> 1] ELSE None]
    /\ stamped = FALSE /\ stagings = {} /\ resume = None
    /\ saved = None /\ run = Idle /\ left = None /\ made = FALSE
    /\ spent = [events |-> 0, runs |-> 0, mishaps |-> 0]

Event == spent.events < MaxEvents /\ spent' = [spent EXCEPT !.events = @ + 1]
Mishap == spent.mishaps < MaxMishaps /\ spent' = [spent EXCEPT !.mishaps = @ + 1]

-----------------------------------------------------------------------------
(* What a person asks for. *)

\* A preview: the plan is saved, or its id is noted down.
Scan(op) ==
    /\ run = Idle
    /\ \E plan \in Plans :
         /\ plan.op = op /\ (saved # None => saved.plan # plan)
         /\ saved' = Kept(plan)
         /\ op = "move" => UNCHANGED spent
         /\ op # "move" => spent.runs < MaxRuns /\ spent' = [spent EXCEPT !.runs = @ + 1]
    /\ UNCHANGED <<state, codex, known, folders, run, left>>

\* The confirmation: Codex is closed and the plan would be made again.
Confirm ==
    /\ run = Idle /\ saved # None /\ ~codex /\ StillPlanned(saved.plan)
    /\ run' = [pc |-> CASE saved.plan.op # "move" -> "begin"
                        [] saved.plan.op = "move" /\ saved.plan.complete -> "unstamp"
                        [] OTHER -> "prepare",
               plan |-> saved.plan, copied |-> {}, looked |-> files[Old], raced |-> FALSE,
               seen |-> IF saved.plan.op = "repair" THEN saved.seen ELSE known]
    /\ UNCHANGED <<state, codex, known, folders, saved, left, spent>>

At(pc) == run.pc = pc
Goto(pc) == run' = [run EXCEPT !.pc = pc]

-----------------------------------------------------------------------------
(* The move of a folder (project_move.apply_project_move). *)

\* A mutant: a staging directory is never taken for one of this move.
NothingOurs == {}
Ours == {s \in stagings : s.marked}
\* Staging directories of earlier attempts are removed when their marker says
\* whose they are; one at this plan's own place without a marker stops the move.
Prepare ==
    LET own == {s \in stagings : s.plan = run.plan}
    IN /\ At("prepare")
       /\ IF own \subseteq Ours
          THEN stagings' = (stagings \ Ours) \cup {[plan |-> run.plan, marked |-> FALSE]} /\ Goto("mark")
          ELSE run' = Idle /\ UNCHANGED stagings
       /\ UNCHANGED <<state, codex, known, files, stamped, resume, made, saved, left, spent>>

Mark ==
    /\ At("mark") /\ Goto("copy")
    /\ stagings' = {IF s.plan = run.plan THEN [s EXCEPT !.marked = TRUE] ELSE s : s \in stagings}
    /\ UNCHANGED <<state, codex, known, files, stamped, resume, made, saved, left, spent>>

\* A file is copied, and what was written is hashed against the plan.
Copy(x) ==
    /\ At("copy") /\ x \notin run.copied
    /\ run' = IF files[Old][x] = run.plan.inv[x] THEN [run EXCEPT !.copied = @ \cup {x}]
                                                 ELSE [run EXCEPT !.pc = "clean"]
    /\ UNCHANGED <<state, codex, known, folders, saved, left, spent>>

\* No file of the source was added, removed or rewritten since its copy was taken.
SourceUnchanged == files[Old] = run.plan.inv

\* A mutant: the resume marker is written when the copy is in place.
MarkLater ==
    /\ At("copy") /\ run.copied = Files
    /\ IF files[Old] = run.plan.inv /\ ~codex /\ files[Target] = None
       THEN run' = [run EXCEPT !.pc = "rename", !.looked = files[Old]]
       ELSE Goto("clean")
    /\ UNCHANGED <<state, codex, known, folders, saved, left, spent>>
\* The last checks of a copy; the resume marker is written before the rename.
Verify ==
    /\ At("copy") /\ run.copied = Files
    /\ IF SourceUnchanged /\ ~codex /\ files[Target] = None
       THEN /\ resume' = run.plan.inv
            /\ run' = [run EXCEPT !.pc = "rename", !.looked = files[Old]]
       ELSE Goto("clean") /\ UNCHANGED resume
    /\ UNCHANGED <<state, codex, known, files, stamped, stagings, made, saved, left, spent>>

Rename ==
    /\ At("rename") /\ files[Target] = None
    /\ files' = [files EXCEPT ![Target] = run.plan.inv]
    /\ stagings' = {s \in stagings : s.plan # run.plan}
    /\ stamped' = TRUE /\ made' = TRUE /\ Goto("unstamp")
    /\ UNCHANGED <<state, codex, known, resume, saved, left, spent>>

\* The rename was refused: something is at the target, or a program holds a file.
RenameRefused ==
    /\ At("rename")
    /\ files[Target] # None => UNCHANGED spent
    /\ files[Target] = None => Mishap
    /\ resume' = None /\ Goto("clean")
    /\ UNCHANGED <<state, codex, known, files, stamped, stagings, made, saved, left>>

\* A copy that failed removes the staging directory it made.
Clean ==
    /\ At("clean") /\ run' = Idle
    /\ stagings' = {s \in stagings : s.plan # run.plan}
    /\ UNCHANGED <<state, codex, known, files, stamped, resume, made, saved, left, spent>>

\* The copy is in place: its staging marker goes, and Codex must be closed still.
Unstamp ==
    /\ At("unstamp") /\ stamped' = FALSE
    /\ IF codex THEN run' = Idle ELSE Goto("begin")
    /\ UNCHANGED <<state, codex, known, files, stagings, resume, made, saved, left, spent>>

-----------------------------------------------------------------------------
(* The edit (app.commit_global_state).  Whatever fails before the replace    *)
(* closes the journal; a copied folder and its marker stay.                  *)

\* The lock, a journal no open one blocks, and a backup that is what was read.
BeginCommit ==
    /\ At("begin")
    /\ IF left = None /\ state = run.plan.original THEN Goto("enter") ELSE run' = Idle
    /\ UNCHANGED <<state, codex, known, folders, saved, left, spent>>

\* Codex is closed: the journal says the commit is entered.
EnterCommit ==
    /\ At("enter")
    /\ IF codex THEN run' = Idle ELSE Goto("look")
    /\ UNCHANGED <<state, codex, known, folders, saved, left, spent>>

\* A mutant: the state is not read again before it is replaced.
NotReadAgain == TRUE
StateUnchanged == state = run.plan.original
LastLook ==
    /\ At("look")
    /\ IF ~codex /\ StateUnchanged THEN Goto("replace") ELSE run' = Idle
    /\ UNCHANGED <<state, codex, known, folders, saved, left, spent>>

Replace ==
    /\ At("replace") /\ state' = run.plan.after /\ Goto("settle")
    /\ UNCHANGED <<codex, known, folders, saved, left, spent>>

\* A program holds the state: both looks are taken again before each retry.
ReplaceRefused ==
    /\ At("replace") /\ Mishap /\ run' = [run EXCEPT !.pc = "look", !.raced = FALSE]
    /\ UNCHANGED <<state, codex, known, folders, saved, left>>

\* The result reads back: COMMITTED.  A move then removes its resume marker.
Settle ==
    /\ At("settle")
    /\ IF run.plan.op = "move" THEN Goto("forget") ELSE run' = Idle
    /\ UNCHANGED <<state, codex, known, folders, saved, left, spent>>

Forget ==
    /\ At("forget") /\ run' = Idle /\ resume' = None /\ made' = FALSE
    /\ UNCHANGED <<state, codex, known, files, stamped, stagings, saved, left, spent>>

\* The result cannot be read back, or the journal cannot be written.
SettleFails ==
    /\ At("settle") /\ Mishap /\ Goto("undo")
    /\ UNCHANGED <<state, codex, known, folders, saved, left>>

\* The backup goes back, unless Codex runs: then the journal stays open.
Undo ==
    /\ At("undo") /\ run' = Idle
    /\ IF codex THEN left' = run.plan.original /\ UNCHANGED state
                ELSE state' = run.plan.original /\ UNCHANGED left
    /\ UNCHANGED <<codex, known, folders, saved, spent>>

-----------------------------------------------------------------------------
(* Recovery (recovery.py). *)

\* A journal killed before its commit was entered is closed by the next writer;
\* a removal that is killed may leave a staging directory without its marker.
Kill ==
    LET entered == run.pc \in {"look", "replace", "settle", "undo"}
        removing == run.pc \in {"prepare", "clean"}
    IN /\ run # Idle /\ Mishap /\ run' = Idle
       /\ left' = IF entered THEN run.plan.original ELSE left
       /\ stagings' \in {stagings} \cup
            (IF removing THEN {{[s EXCEPT !.marked = FALSE] : s \in stagings}} ELSE {})
       /\ UNCHANGED <<state, codex, known, files, stamped, resume, saved, made>>

Resume ==
    /\ run = Idle /\ left # None /\ ~codex /\ left' = None
    /\ UNCHANGED <<state, codex, known, folders, saved, run, spent>>

\* The state before the edit goes back, by an edit of its own.
RollBack ==
    /\ run = Idle /\ left # None /\ ~codex /\ left' = None
    /\ run' = [pc |-> "begin", plan |-> Plan("rollback", state, left), copied |-> {},
               looked |-> files[Old], raced |-> FALSE, seen |-> known]
    /\ UNCHANGED <<state, codex, known, folders, saved, spent>>

-----------------------------------------------------------------------------
(* Codex, persons, and a transfer of chats. *)

CodexStarts ==
    /\ ~codex /\ Event /\ codex' = TRUE
    /\ run' = IF run.pc = "replace" THEN [run EXCEPT !.raced = TRUE] ELSE run
    /\ UNCHANGED <<state, known, folders, saved, left>>
CodexQuits ==
    /\ codex /\ codex' = FALSE
    /\ UNCHANGED <<state, known, folders, saved, run, left, spent>>

\* Codex writes what it keeps there, or the project a person puts a chat in.
CodexWrites ==
    /\ codex /\ Event
    /\ \/ state' = [state EXCEPT !.rest = spent.events + 1]
       \/ \E c \in known, p \in Projects :
             state.bind[c] # p /\ state' = [state EXCEPT !.bind[c] = p]
    /\ UNCHANGED <<codex, known, folders, saved, run, left>>

\* A chat begun in Codex, or brought by a transfer, which takes the lock of a run.
ChatArrives ==
    /\ codex \/ run = Idle
    /\ Event /\ \E c \in Chats \ known : known' = known \cup {c}
    /\ UNCHANGED <<state, codex, folders, saved, run, left>>

\* A person edits a file where the project is.
EditFile(x) ==
    LET f == state.root[Moving]
    IN /\ f \in Places /\ files[f] # None /\ files[f][x] < Newest /\ Event
       /\ files' = [files EXCEPT ![f][x] = @ + 1]
       /\ UNCHANGED <<state, codex, known, stamped, stagings, resume, made, saved, run, left>>

\* A person makes the new folder by hand.
FolderAppears ==
    /\ files[Target] = None /\ Event
    /\ files' = [files EXCEPT ![Target] = [x \in Files |-> Newest + 1]]
    /\ UNCHANGED <<state, codex, known, stamped, stagings, resume, made, saved, run, left>>

Tool ==
    \/ Prepare \/ Mark \/ (\E x \in Files : Copy(x)) \/ Verify \/ Rename \/ Clean \/ Unstamp
    \/ BeginCommit \/ EnterCommit \/ LastLook \/ Replace \/ Settle \/ Forget \/ Undo
Faults == RenameRefused \/ ReplaceRefused \/ SettleFails \/ Kill
Next ==
    \/ \E op \in {"chats", "repair", "restore", "move"} : Scan(op)
    \/ Confirm \/ Tool \/ Faults \/ Resume \/ RollBack
    \/ CodexStarts \/ CodexQuits \/ CodexWrites \/ ChatArrives
    \/ (\E x \in Files : EditFile(x)) \/ FolderAppears

Spec == Init /\ [][Next]_vars
\* A command that began goes on, Codex is closed at last, a person who wants the
\* move asks for it again, confirms it, and closes a journal that blocks it.
FairSpec ==
    /\ Spec /\ WF_vars(Tool) /\ WF_vars(CodexQuits)
    /\ SF_vars(Scan("move")) /\ WF_vars(Confirm) /\ SF_vars(Resume)

-----------------------------------------------------------------------------
(* What must hold. *)

TypeOK ==
    /\ state \in States
    /\ codex \in BOOLEAN /\ known \subseteq Chats /\ made \in BOOLEAN
    /\ files[Old] \in Content /\ files[Target] \in Content \cup {None}
    /\ resume \in Content \cup {None}
    /\ \A s \in stagings, t \in stagings : s.plan = t.plan => s = t

\* A verified copy is never under the name of the new folder without the marker
\* that lets the next scan recognise it, and that marker names what the copy
\* holds as long as nobody worked in it (project_move._copy_into_place).
CopyHasItsMarker ==
    /\ TypeOK
    /\ made => /\ files[Target] # None /\ resume # None
               /\ \A x \in Files : files[Target][x] >= resume[x]
    /\ stamped => made

\* A move points the project at a folder that holds everything the old folder
\* held when the command looked at it last: no edit made before that is hidden
\* in the old folder, whatever was interrupted, edited or copied before.
EditsComeAlong ==
    At("replace") /\ run.plan.op = "move" /\ state'.root # state.root => files[Target] = run.looked

\* When the root of a project is rewritten, by a move or by a repair, every chat
\* the plan knew of that belonged to the project belongs to it still; a repair
\* gives a chat bound to it by hand to the project the chat's own folder leads to.
LedElsewhere(c, p, after) ==
    /\ run.plan.op = "repair" /\ Home[c] # state.root[p]
    /\ Belongs(after, c) \in RootedAt(state, Rule[Home[c]]) \cup RootedAt(after, Rule[Home[c]])
ChatsComeAlong ==
    At("replace") /\ run.plan.op \in {"move", "repair"} /\ ~run.raced /\ state' # state
    => \A c \in run.seen :
         LET p == Belongs(state, c)
         IN p # None /\ state'.root[p] # state.root[p] =>
              Belongs(state', c) = p \/ LedElsewhere(c, p, state')

\* A project goes to another folder with its files and its chats.
MoveLosesNothing == [][EditsComeAlong /\ ChatsComeAlong]_vars

\* What Codex wrote is replaced only by an edit of it: a state written after a
\* plan was made is overwritten only where Codex started after the last look.
CodexWritesStand ==
    [][At("replace") /\ state' # state => state = run.plan.original \/ run.raced]_vars

\* What a person must put right by hand before a move can go on.
NeedsHand ==
    \/ files[Target] # None /\ ~CopyComplete
    \/ \E s \in stagings : ~s.marked /\ s.plan \in MovePlans
\* A move a person goes on asking for ends with the project in its new folder,
\* whatever is interrupted, unless a folder nobody can vouch for is in the way.
MoveFinishes == <>(state.root[Moving] = Target \/ NeedsHand)

=============================================================================
