----------------------------- MODULE Automation -----------------------------
(***************************************************************************)
(* The tasks of the operating system (automation.py, system_scheduler.py,  *)
(* gui/screens/automation.py).  Four slots follow four settings; an apply  *)
(* installs or removes one after the other, each by the commands of its    *)
(* platform, and may stop part-way.  Windows tasks are visible to every    *)
(* account of the machine.                                                 *)
(***************************************************************************)
EXTENDS Settings

Slots == {"job", "sync-at-login", "state-backup", "handoff"}
\* Another account's task under a name of this one, and who has the once shared name.
ASSUME AutomationAssumption ==
    \A start \in Starts :
       /\ start.machine.system \in {"windows", "macos", "linux"}
       /\ start.machine.system # "windows" => start.machine.foreign = {} /\ start.machine.legacy = None
       /\ start.machine.foreign \subseteq Slots /\ start.machine.legacy \in {None, "me", "other"}

VARIABLES
    system,    \* this machine's platform
    program,   \* where the program is, a number
    tasks,     \* per slot: [file, link, armed, owner]
    legacy,    \* whose task stands under the name every account once shared, or None
    writing,   \* the write of the tasks under way, or NoWrite
    applied,   \* history: [doc, program] of an apply that reported success, until the next write
    started    \* history: the slots whose job a write of the tasks started

tasksVars == <<system, program, tasks, legacy, writing, applied, started>>
automationVars == <<settingsVars, tasksVars>>

-----------------------------------------------------------------------------
(* What the settings ask for. *)

Definition(signin, every, path) == [signin |-> signin, every |-> every, program |-> path]
LoginSync(doc, path) == IF Off(doc.login) THEN None ELSE Definition(TRUE, FALSE, path)
CopyTask(doc, path) ==
    IF doc.copies = {} THEN None ELSE Definition("signin" \in doc.copies, "every" \in doc.copies, path)
Watcher(doc, path) == IF Off(doc.handoff) THEN None ELSE Definition(TRUE, FALSE, path)
Periodic(doc, path) ==
    IF doc.periodic = {} THEN None ELSE Definition("signin" \in doc.periodic, TRUE, path)
Wanted(doc, path, slot) ==
    CASE slot = "job" -> Periodic(doc, path)
      [] slot = "sync-at-login" -> LoginSync(doc, path)
      [] slot = "state-backup" -> CopyTask(doc, path)
      [] slot = "handoff" -> Watcher(doc, path)

\* A mutant: only jobs without a period wait for the sign-in.
FirstRunOfOneShots(slot, def) == def.signin /\ ~def.every
\* The first run is the next sign-in, never the moment of the install.
FirstRunAtSignIn(slot, def) == def.signin /\ (~def.every \/ slot = "state-backup")

\* No task is installed whose every run would stop: Codex cannot be proven closed on macOS.
Detectable == system # "macos"
RequireDetectable(doc) == Detectable \/ (doc.copies = {} /\ Off(doc.login) /\ Off(doc.handoff))

-----------------------------------------------------------------------------
(* What the operating system has. *)

NoTask == [file |-> None, link |-> FALSE, armed |-> None, owner |-> None]
OfAnother == [file |-> Definition(TRUE, FALSE, 0), link |-> TRUE, armed |-> None, owner |-> "other"]
\* What the next sign-in of this account loads of a slot.
AtSignIn(slot) ==
    IF tasks[slot].owner = "other" \/ ~tasks[slot].link THEN None ELSE tasks[slot].file
SignInLoads(t) == IF t.owner = "other" THEN t ELSE [t EXCEPT !.armed = IF t.link THEN t.file ELSE None]

\* Whether a task is this account's: "undecided" where its SID cannot be read.
Owns(owner) == IF writing.sid THEN (IF owner = "me" THEN "yes" ELSE "no") ELSE "undecided"
Foreign(slot) == tasks[slot].owner # None /\ Owns(tasks[slot].owner) = "no"

\* Why the task of the periodic job is not what this installation would write (classify_task).
JobTask == IF tasks["job"].file # None THEN tasks["job"] ELSE [NoTask EXCEPT !.owner = legacy]
Codes ==
    (IF system = "windows" /\ JobTask.owner = "other" THEN {"foreign"} ELSE {}) \cup
    (IF tasks["job"].file = None /\ legacy # None THEN {"legacy"} ELSE {}) \cup
    (IF tasks["job"].file # None /\ tasks["job"].file.program # program THEN {"moved"} ELSE {})

-----------------------------------------------------------------------------
(* A write of the tasks: slot after slot, command after command. *)

ApplyOrder == <<"handoff", "state-backup", "sync-at-login", "job">>
RemoveOrder == <<"job", "sync-at-login", "state-backup", "handoff">>
\* The first command of a slot.
FirstCommand(kind, doc, slot) ==
    LET install == kind = "apply" /\ Wanted(doc, program, slot) # None
    IN CASE system = "windows" -> IF install THEN "register" ELSE "delete"
         [] system = "macos" -> IF install THEN "plist" ELSE "unload"
         [] system = "linux" -> IF install THEN "units" ELSE "disable"

NoWrite == [pc |-> "idle"]
At(pc) == writing.pc = pc
Go(pc) == writing' = [writing EXCEPT !.pc = pc]
StartWrite(kind, window) ==
    /\ At("idle") /\ file # None /\ Loads(file)
    /\ kind = "apply" => RequireDetectable(file)
    /\ \E sid \in BOOLEAN :
          LET queue == IF kind = "apply" THEN ApplyOrder ELSE RemoveOrder
          IN /\ sid = FALSE => system = "windows"
             /\ writing' = [kind |-> kind, doc |-> file, queue |-> queue, sid |-> sid, window |-> window,
                            pc |-> FirstCommand(kind, file, Head(queue))]
    /\ applied' = None

Untouched == UNCHANGED <<settingsVars, wrote, system, program>>
ConsoleWrites ==
    /\ Spend("write") /\ \E kind \in {"apply", "remove"} : StartWrite(kind, FALSE)
    /\ UNCHANGED <<tasks, legacy, started>> /\ Untouched
\* The page asks for a repair of a broken task and never touches a foreign one.
WindowWrites ==
    /\ Spend("write")
    /\ \/ shown.tasks # None /\ "foreign" \notin shown.tasks.codes /\ StartWrite("apply", TRUE)
       \/ StartWrite("remove", TRUE)
    /\ wrote' = wrote + 1
    /\ UNCHANGED <<tasks, legacy, started, settingsVars, system, program>>

Slot == Head(writing.queue)
Def == Wanted(writing.doc, program, Slot)
\* The slot is done: the next one, or the report.
NextSlot ==
    writing' = IF Len(writing.queue) = 1 THEN [writing EXCEPT !.pc = "done"]
               ELSE [writing EXCEPT !.queue = Tail(@),
                        !.pc = FirstCommand(writing.kind, writing.doc, writing.queue[2])]
Rest == UNCHANGED <<applied, left>> /\ Untouched

\* Windows: a registration replaces the task of that name at once, for everyone.
Register ==
    /\ At("register")
    /\ IF Foreign(Slot)
       THEN Go("failed") /\ UNCHANGED tasks
       ELSE tasks' = [tasks EXCEPT ![Slot] = [file |-> Def, link |-> TRUE, armed |-> Def, owner |-> "me"]] /\ Go("retire")
    /\ UNCHANGED <<legacy, started>> /\ Rest
Delete ==
    /\ At("delete")
    /\ IF Foreign(Slot)
       THEN Go("failed") /\ UNCHANGED tasks
       ELSE tasks' = [tasks EXCEPT ![Slot] = NoTask] /\ Go("retire")
    /\ UNCHANGED <<legacy, started>> /\ Rest
\* The task under the shared name goes only with the proof that it is this account's.
ProvenMine(owner) == owner # None /\ Owns(owner) = "yes"
Retire ==
    /\ At("retire")
    /\ legacy' = IF Slot = "job" /\ ProvenMine(legacy) THEN None ELSE legacy
    /\ NextSlot
    /\ UNCHANGED <<tasks, started>> /\ Rest

\* macOS: the agent's file, then launchd; a sign-in job is left for the sign-in to load.
WritePlist ==
    /\ At("plist")
    /\ tasks' = [tasks EXCEPT ![Slot].file = Def, ![Slot].link = TRUE, ![Slot].owner = "me"]
    /\ Go("bootout")
    /\ UNCHANGED <<legacy, started>> /\ Rest
\* Whether it could be unloaded is not asked.
Bootout ==
    /\ At("bootout")
    /\ \/ tasks' = [tasks EXCEPT ![Slot].armed = None] /\ UNCHANGED left
       \/ tasks[Slot].armed # None /\ Spend("mishap") /\ UNCHANGED tasks
    /\ IF FirstRunAtSignIn(Slot, Def) THEN NextSlot ELSE Go("bootstrap")
    /\ UNCHANGED <<applied, legacy, started>> /\ Untouched
Bootstrap ==
    /\ At("bootstrap")
    /\ IF tasks[Slot].armed # None
       THEN Go("failed") /\ UNCHANGED <<tasks, started>>
       ELSE /\ tasks' = [tasks EXCEPT ![Slot].armed = Def] /\ NextSlot
            /\ started' = IF Def.signin THEN started \cup {Slot} ELSE started
    /\ UNCHANGED legacy /\ Rest
Unload ==
    /\ At("unload")
    /\ \/ tasks' = [tasks EXCEPT ![Slot] = NoTask] /\ UNCHANGED left
       \/ tasks[Slot].armed # None /\ Spend("mishap")
          /\ tasks' = [tasks EXCEPT ![Slot] = [NoTask EXCEPT !.armed = tasks[Slot].armed]]
    /\ NextSlot
    /\ UNCHANGED <<applied, legacy, started>> /\ Untouched

\* Linux: the two unit files, then systemd; a sign-in timer is enabled and not started.
WriteUnits ==
    /\ At("units")
    /\ tasks' = [tasks EXCEPT ![Slot].file = Def, ![Slot].owner = "me"]
    /\ Go("enable")
    /\ UNCHANGED <<legacy, started>> /\ Rest
Enable ==
    /\ At("enable")
    /\ tasks' = [tasks EXCEPT ![Slot].link = TRUE]
    /\ IF FirstRunAtSignIn(Slot, Def) THEN NextSlot ELSE Go("restart")
    /\ UNCHANGED <<legacy, started>> /\ Rest
Restart ==
    /\ At("restart")
    /\ tasks' = [tasks EXCEPT ![Slot].armed = Def]
    /\ started' = IF Def.signin THEN started \cup {Slot} ELSE started
    /\ NextSlot
    /\ UNCHANGED legacy /\ Rest
\* Whether the timer could be stopped is not asked; its files go.
Disable ==
    /\ At("disable")
    /\ IF tasks[Slot].file = None
       THEN UNCHANGED <<tasks, left>>
       ELSE \/ tasks' = [tasks EXCEPT ![Slot] = NoTask] /\ UNCHANGED left
            \/ Spend("mishap") /\ tasks' = [tasks EXCEPT ![Slot].file = None, ![Slot].owner = None]
    /\ NextSlot
    /\ UNCHANGED <<applied, legacy, started>> /\ Untouched

\* A command fails or cannot be run, or the process ends: the slots before stay as they are.
CommandFails ==
    /\ writing.pc \notin {"idle", "done", "failed"} /\ Spend("mishap")
    /\ Go("failed")
    /\ UNCHANGED <<tasks, legacy, applied, started>> /\ Untouched

EndWrite ==
    /\ At("done") \/ At("failed")
    /\ applied' = IF At("done") /\ writing.kind = "apply" THEN [doc |-> writing.doc, program |-> program] ELSE None
    /\ shown' = IF ~writing.window THEN shown
                ELSE [shown EXCEPT !.tasks = IF file # None /\ Loads(file) THEN View(Codes, FALSE) ELSE None]
    /\ writing' = NoWrite
    /\ UNCHANGED <<file, version, history, saves, generation, reads, draft, check, saved, wrote, left,
                   system, program, tasks, legacy, started>>

\* The session ends and begins: what is there is loaded.
SignIn ==
    /\ At("idle") /\ Spend("signin")
    /\ tasks' = [s \in Slots |-> SignInLoads(tasks[s])]
    /\ UNCHANGED <<settingsVars, wrote, system, program, legacy, writing, applied, started>>
\* An update puts the program elsewhere; the tasks still name the old place.
ProgramMoves ==
    /\ At("idle") /\ Spend("move") /\ program' = program + 1
    /\ UNCHANGED <<settingsVars, wrote, system, tasks, legacy, writing, applied, started>>

AutomationInit ==
    /\ SettingsInit
    /\ \E start \in Starts :
          /\ start.file = file /\ start.left = left
          /\ system = start.machine.system /\ legacy = start.machine.legacy
          /\ tasks = [s \in Slots |-> IF s \in start.machine.foreign THEN OfAnother ELSE NoTask]
    /\ program = 0
    /\ writing = NoWrite /\ applied = None /\ started = {}

AutomationNext ==
    \/ SettingsNext /\ UNCHANGED <<wrote, tasksVars>>
    \/ ReadFile("tasks", Codes) /\ UNCHANGED tasksVars
    \/ ConsoleWrites \/ WindowWrites
    \/ Register \/ Delete \/ Retire
    \/ WritePlist \/ Bootout \/ Bootstrap \/ Unload
    \/ WriteUnits \/ Enable \/ Restart \/ Disable
    \/ CommandFails \/ EndWrite \/ SignIn \/ ProgramMoves

-----------------------------------------------------------------------------
(* Properties *)

\* What a background read put on a page is never older than the window's last save, and the
\* page of the tasks never describes them as they were before the window's last write of
\* them: nothing computed under other settings stays on screen looking applicable
\* (window.py generations, config_changed, automation.py task_generation).
ViewIsCurrent ==
    /\ \A v \in Views : shown[v] # None /\ shown[v].fresh => shown[v].seen >= saved
    /\ shown.tasks # None /\ At("idle") => shown.tasks.wrote = wrote

\* After an apply that reported success, and until the tasks are written again, the next
\* sign-in runs exactly what the settings it read ask for - never the watcher and the sign-in
\* sync together - a period that changed counts from now on, and nothing that waits for the
\* sign-in was started (automation.apply_automation over the three adapters).
TasksFollowSettings ==
    /\ applied # None =>
          \A s \in Slots :
             LET want == Wanted(applied.doc, applied.program, s)
             IN /\ AtSignIn(s) = want
                /\ want # None /\ ~FirstRunAtSignIn(s, want) => tasks[s].armed = want
    /\ started \subseteq {"job"}

=============================================================================
