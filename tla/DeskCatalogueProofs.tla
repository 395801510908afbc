------------------------ MODULE DeskCatalogueProofs ------------------------
(***************************************************************************)
(* What the settings, the tasks, the copies and the backups of one machine *)
(* keep, for any files, edits, trees, budgets and platforms, whatever      *)
(* fails, is killed, moves on in between or was written by another         *)
(* version; and what codexSync never does to the thread catalogue of       *)
(* Codex, for every set of chats, names, machines and folders and every    *)
(* bound, whatever Codex, persons, peers, transfers and kills do in        *)
(* between.                                                                *)
(***************************************************************************)
EXTENDS Desk, CodexCatalogue, WellFoundedInduction, FiniteSetTheorems, TLAPS

-----------------------------------------------------------------------------
(* The settings, and the tasks that follow them. *)

Numbers ==
    /\ version \in Nat /\ generation \in Nat /\ saved \in Nat /\ wrote \in Nat
    /\ saved <= version

\* Between its two looks a save has kept what it replaces; after the second, the file is what it
\* looked at unless somebody wrote since.
SaveStands(a) ==
    saves[a] # None =>
        /\ saves[a] = [pc |-> saves[a].pc, base |-> saves[a].base, text |-> saves[a].text,
                       skip |-> saves[a].skip, looked |-> saves[a].looked]
        /\ saves[a].looked \in Nat /\ saves[a].looked <= version
        /\ saves[a].pc \in {"again", "replace"} /\ saves[a].base # None /\ Loads(saves[a].base) =>
              saves[a].base \in history
        /\ saves[a].pc = "replace" /\ saves[a].looked = version => file = saves[a].base
SavesStand == saves = [a \in Authors |-> saves[a]] /\ \A a \in Authors : SaveStands(a)

\* A read that no save overtook has read what was there after the last save.
ReadStands(v) ==
    reads[v] # None =>
        /\ reads[v] = [generation |-> reads[v].generation, wrote |-> reads[v].wrote, got |-> reads[v].got]
        /\ reads[v].generation \in Nat /\ reads[v].generation <= generation
        /\ reads[v].wrote \in Nat /\ reads[v].wrote <= wrote
        /\ reads[v].got # None =>
              /\ reads[v].got.seen \in Nat /\ reads[v].got.seen <= version
              /\ reads[v].got.wrote \in Nat
              /\ reads[v].wrote <= reads[v].got.wrote /\ reads[v].got.wrote <= wrote
              /\ reads[v].generation = generation => saved <= reads[v].got.seen
ReadsStand == reads = [v \in Views |-> reads[v]] /\ \A v \in Views : ReadStands(v)

\* What a page shows is from after the last save, and the page of the tasks from after their last write.
ViewStands(v) ==
    shown[v] # None =>
        /\ shown[v].seen \in Nat /\ shown[v].seen <= version
        /\ shown[v].fresh => saved <= shown[v].seen
TasksSeen == shown["tasks"] # None /\ (At("idle") \/ ~writing.window) => shown["tasks"].wrote = wrote
ViewsStand == shown = [v \in Views |-> shown[v]] /\ (\A v \in Views : ViewStands(v)) /\ TasksSeen

SettingsInv == Numbers /\ SavesStand /\ ReadsStand /\ ViewsStand

\* Before anything happened nothing is under way and nothing is shown.
LEMMA SettingsStart == SettingsInit /\ writing = NoWrite => SettingsInv
  BY DEF SettingsInit, SettingsInv, Numbers, SavesStand, SaveStands, ReadsStand, ReadStands, ViewsStand, ViewStands, TasksSeen, Views

Platforms == {"windows", "macos", "linux"}
WriteShape ==
    /\ system \in Platforms
    /\ ~At("idle") =>
          /\ writing = [kind |-> writing.kind, doc |-> writing.doc, queue |-> writing.queue, sid |-> writing.sid,
                        window |-> writing.window, pc |-> writing.pc]
          /\ writing.kind \in {"apply", "remove"}

\* A write is at a command until it is done or failed.
LEMMA FirstCommandNamed ==
    ASSUME system \in Platforms, NEW kind, NEW doc, NEW slot
    PROVE  FirstCommand(kind, doc, slot) \in {"register", "delete", "plist", "unload", "units", "disable"}
  BY DEF FirstCommand, Platforms

\* A write begins at the first command of its first slot, for whoever asked.
LEMMA WriteStarts ==
    ASSUME WriteShape, NEW kind \in {"apply", "remove"}, NEW window \in BOOLEAN, StartWrite(kind, window)
    PROVE  writing'.pc \in {"register", "delete", "plist", "unload", "units", "disable"} /\ writing'.window = window
<1>1. PICK sid \in BOOLEAN : writing'.window = window
         /\ writing'.pc = FirstCommand(kind, file, Head(IF kind = "apply" THEN ApplyOrder ELSE RemoveOrder))
  BY DEF StartWrite
<1>2. QED
  BY <1>1, FirstCommandNamed DEF WriteShape

Commands ==
    \/ Register \/ Delete \/ Retire \/ WritePlist \/ Bootout \/ Bootstrap \/ Unload
    \/ WriteUnits \/ Enable \/ Restart \/ Disable \/ CommandFails

\* A command goes on within the same write.
LEMMA CommandGoesOn ==
    ASSUME WriteShape, Commands
    PROVE  /\ ~At("idle") /\ ~At("idle")'
           /\ writing' = [writing EXCEPT !.queue = writing'.queue, !.pc = writing'.pc]
           /\ UNCHANGED <<settingsVars, wrote, system, program, applied>>
<1>1. Go("retire") \/ Go("failed") \/ Go("bootout") \/ Go("bootstrap") \/ Go("enable") \/ Go("restart") \/ NextSlot
  BY DEF Commands, Register, Delete, Retire, WritePlist, Bootout, Bootstrap, Unload, WriteUnits, Enable, Restart, Disable, CommandFails
<1>2. ~At("idle") /\ UNCHANGED <<settingsVars, wrote, system, program, applied>>
  BY DEF Commands, Register, Delete, Retire, WritePlist, Bootout, Bootstrap, Unload, WriteUnits, Enable, Restart, Disable, CommandFails,
         At, Rest, Untouched
<1>3. CASE NextSlot
  BY <1>2, <1>3, FirstCommandNamed DEF NextSlot, WriteShape, At
<1>4. CASE ~NextSlot
  BY <1>1, <1>2, <1>4 DEF Go, WriteShape, At
<1>5. QED
  BY <1>2, <1>3, <1>4

\* No step lets a save forget what it must keep or take another file for the one it looked at.
LEMMA SavesKept ==
    ASSUME SettingsInv,
           \/ PersonEdits \/ ChangeValue \/ CreateConfig \/ ConsoleUpgrades \/ ConsoleEnds
           \/ (\E a \in Authors : Saving(a) \/ DeliverSave(a)) \/ ConfirmSave \/ ApplyUpgrade
           \/ UNCHANGED <<file, version, history, saves>>
    PROVE  SavesStand'
<1> USE DEF SettingsInv, Numbers, SavesStand, SaveStands
<1>1. CASE UNCHANGED <<file, version, history, saves>>
  BY <1>1
<1>2. CASE PersonEdits
  BY <1>2 DEF PersonEdits
<1>3. ASSUME NEW a \in Authors, NEW base, NEW text, NEW skip, Start(a, base, text, skip), UNCHANGED <<file, version, history>>
      PROVE  SavesStand'
  BY <1>3 DEF Start, Job
<1>4. CASE ChangeValue \/ CreateConfig \/ ConsoleUpgrades
  <2>1. \E base, text, skip : ConsoleSaves(base, text, skip)
    BY <1>4 DEF ChangeValue, CreateConfig, ConsoleUpgrades
  <2>2. QED
    BY <1>3, <2>1 DEF ConsoleSaves, Authors
<1>5. CASE ConsoleEnds
  BY <1>5 DEF ConsoleEnds
<1>6. ASSUME NEW a \in Authors, Saving(a) PROVE SavesStand'
  <2>1. CASE Look(a)
    BY <1>6, <2>1 DEF Look, RequireBase, Keep, Step
  <2>2. CASE LookAgain(a)
    <3>1. CASE RequireBaseAgain(a)
      <4>1. saves' = [saves EXCEPT ![a].pc = "replace", ![a].looked = version]
        BY <2>2, <3>1 DEF LookAgain
      <4>2. saves'[a] = [saves[a] EXCEPT !.pc = "replace", !.looked = version] /\ \A b \in Authors \ {a} : saves'[b] = saves[b]
        BY <1>6, <4>1
      <4>3. SaveStands(a)'
        BY <1>6, <2>2, <3>1, <4>2 DEF LookAgain, RequireBaseAgain
      <4>4. \A b \in Authors \ {a} : SaveStands(b)'
        BY <2>2, <4>2 DEF LookAgain
      <4>5. QED
        BY <1>6, <4>1, <4>3, <4>4
    <3>2. CASE ~RequireBaseAgain(a)
      BY <1>6, <2>2, <3>2 DEF LookAgain
    <3>3. QED
      BY <3>1, <3>2
  <2>3. CASE Replace(a)
    <3>1. saves' = [saves EXCEPT ![a].pc = "read", ![a].looked = version + 1]
      BY <2>3 DEF Replace
    <3>2. saves'[a] = [saves[a] EXCEPT !.pc = "read", !.looked = version + 1] /\ \A b \in Authors \ {a} : saves'[b] = saves[b]
      BY <1>6, <3>1
    <3>3. SaveStands(a)'
      BY <1>6, <2>3, <3>2 DEF Replace
    <3>4. \A b \in Authors \ {a} : SaveStands(b)'
      BY <2>3, <3>2 DEF Replace
    <3>5. QED
      BY <1>6, <3>1, <3>3, <3>4
  <2>4. CASE SaveFails(a)
    BY <1>6, <2>4 DEF SaveFails, Step
  <2>5. CASE ReadBack(a)
    BY <1>6, <2>5 DEF ReadBack, Step
  <2>6. QED
    BY <1>6, <2>1, <2>2, <2>3, <2>4, <2>5 DEF Saving
<1>7. ASSUME NEW a \in Authors, DeliverSave(a) PROVE SavesStand'
  BY <1>7 DEF DeliverSave
<1>8. CASE ConfirmSave
  BY <1>3, <1>8 DEF ConfirmSave, Authors
<1>9. CASE ApplyUpgrade
  BY <1>1, <1>3, <1>9 DEF ApplyUpgrade, Authors
<1>10. QED
  BY <1>1, <1>2, <1>4, <1>5, <1>6, <1>7, <1>8, <1>9

\* The counts of writes, notices and task writes only grow.
LEMMA NumbersKept == SettingsInv /\ AutomationNext => Numbers' /\ version <= version' /\ generation <= generation' /\ wrote <= wrote'
<1> SUFFICES ASSUME SettingsInv, AutomationNext
             PROVE  Numbers' /\ version <= version' /\ generation <= generation' /\ wrote <= wrote'
  OBVIOUS
<1> USE DEF SettingsInv, Numbers
<1>1. CASE UNCHANGED <<version, generation, saved, wrote>>
  BY <1>1
<1>2. CASE PersonEdits /\ UNCHANGED wrote
  BY <1>2 DEF PersonEdits
<1>3. ASSUME NEW a \in Authors, Saving(a), UNCHANGED wrote PROVE Numbers' /\ version <= version' /\ generation <= generation'
  BY <1>3 DEF Saving, Look, LookAgain, Replace, SaveFails, ReadBack
<1>4. ASSUME NEW a \in Authors, DeliverSave(a), UNCHANGED wrote PROVE Numbers' /\ version <= version' /\ generation <= generation'
  BY <1>4 DEF DeliverSave, Delivered, SavesStand, SaveStands
<1>5. CASE WindowWrites
  BY <1>5 DEF WindowWrites, settingsVars
<1>6. ASSUME SettingsNext, UNCHANGED wrote, UNCHANGED <<version, generation, saved>> \/ PersonEdits \/ \E a \in Authors : Saving(a) \/ DeliverSave(a)
      PROVE  Numbers' /\ version <= version' /\ generation <= generation' /\ wrote <= wrote'
  BY <1>1, <1>2, <1>3, <1>4, <1>6
<1>7. ASSUME SettingsNext PROVE UNCHANGED <<version, generation, saved>> \/ PersonEdits \/ \E a \in Authors : Saving(a) \/ DeliverSave(a)
  BY <1>7 DEF SettingsNext, ChangeValue, CreateConfig, ConsoleUpgrades, ConsoleSaves, ConsoleEnds, AskRead, DeliverRead, CancelRead,
     ReadFile, Type, CheckForm, ConfirmSave, DropCheck, ApplyUpgrade
<1>8. ASSUME AutomationNext PROVE (SettingsNext /\ UNCHANGED wrote) \/ WindowWrites \/ UNCHANGED <<version, generation, saved, wrote>>
  BY <1>8 DEF AutomationNext, ReadFile, ConsoleWrites, Register, Delete, Retire, WritePlist, Bootout, Bootstrap, Unload,
     WriteUnits, Enable, Restart, Disable, CommandFails, EndWrite, SignIn, ProgramMoves, Rest, Untouched, settingsVars
<1>9. QED
  BY <1>1, <1>5, <1>6, <1>7, <1>8

\* A read that no save overtook keeps knowing what was there after the last save.
LEMMA ReadsKept == SettingsInv /\ AutomationNext => ReadsStand'
<1> SUFFICES ASSUME SettingsInv, AutomationNext PROVE ReadsStand'
  OBVIOUS
<1> USE DEF SettingsInv, Numbers, ReadsStand, ReadStands
<1>0. Numbers' /\ version <= version' /\ generation <= generation' /\ wrote <= wrote'
  BY NumbersKept
<1>1. ASSUME UNCHANGED reads, generation' = generation => saved' = saved PROVE ReadsStand'
  BY <1>0, <1>1
<1>2. ASSUME NEW v \in Views, AskRead(v), UNCHANGED wrote PROVE ReadsStand'
  BY <1>2 DEF AskRead
<1>3. ASSUME NEW v \in Views, NEW codes, ReadFile(v, codes) PROVE ReadsStand'
  <2> DEFINE view == View(codes, TRUE)
  <2>0. view.seen = version /\ view.wrote = wrote
    BY DEF View
  <2>1. reads'[v] = [reads[v] EXCEPT !.got = view] /\ \A w \in Views \ {v} : reads'[w] = reads[w]
    BY <1>3 DEF ReadFile
  <2> HIDE DEF view
  <2>2. ReadStands(v)'
    <3>1. reads[v] # None /\ reads[v].got = None /\ UNCHANGED <<version, generation, saved, wrote>>
      BY <1>3 DEF ReadFile
    <3>2. reads'[v] = [generation |-> reads[v].generation, wrote |-> reads[v].wrote, got |-> view]
      BY <2>1, <3>1
    <3>4. /\ reads[v].generation \in Nat /\ reads[v].generation <= generation
          /\ reads[v].wrote \in Nat /\ reads[v].wrote <= wrote
      BY <3>1
    <3>5. reads'[v].generation = reads[v].generation /\ reads'[v].wrote = reads[v].wrote /\ reads'[v].got.seen = version
          /\ reads'[v].got.wrote = wrote /\ reads'[v] = [generation |-> reads'[v].generation, wrote |-> reads'[v].wrote, got |-> reads'[v].got]
      BY <3>2, <2>0
    <3>6. QED
      BY <3>1, <3>4, <3>5 DEF ReadStands
  <2>3. \A w \in Views \ {v} : ReadStands(w)'
    BY <1>3, <2>1 DEF ReadFile
  <2>4. QED
    BY <1>3, <2>2, <2>3 DEF ReadFile
<1>4. ASSUME NEW v \in Views, DeliverRead(v) \/ CancelRead(v), UNCHANGED wrote PROVE ReadsStand'
  BY <1>4 DEF DeliverRead, CancelRead
<1>5. ASSUME NEW a \in Authors, DeliverSave(a) PROVE ReadsStand'
  <2>1. generation' = generation => saved' = saved
    BY <1>5 DEF DeliverSave, Delivered
  <2>2. QED
    BY <1>1, <1>5, <2>1 DEF DeliverSave
<1>6. ASSUME SettingsNext, UNCHANGED wrote PROVE ReadsStand'
  <2>1. \/ UNCHANGED <<reads, saved>> \/ (\E a \in Authors : DeliverSave(a))
        \/ (\E v \in Views : AskRead(v) \/ DeliverRead(v) \/ CancelRead(v)) \/ ReadFile("form", {}) \/ ReadFile("upgrade", {})
    BY <1>6 DEF SettingsNext, PersonEdits, ChangeValue, CreateConfig, ConsoleUpgrades, ConsoleSaves, ConsoleEnds,
       Saving, Look, LookAgain, Replace, SaveFails, ReadBack, Type, CheckForm, ConfirmSave, DropCheck, ApplyUpgrade
  <2>2. QED
    BY <1>1, <1>2, <1>3, <1>4, <1>5, <1>6, <2>1 DEF Views
<1>7. (SettingsNext /\ UNCHANGED wrote) \/ ReadFile("tasks", Codes) \/ UNCHANGED <<reads, saved>>
  BY DEF AutomationNext, ReadFile, ConsoleWrites, WindowWrites, Register, Delete, Retire, WritePlist, Bootout, Bootstrap, Unload,
     WriteUnits, Enable, Restart, Disable, CommandFails, EndWrite, SignIn, ProgramMoves, Rest, Untouched, settingsVars
<1>8. QED
  BY <1>1, <1>3, <1>6, <1>7 DEF Views

\* Whatever is delivered, a page shows nothing from before the last save or the last write of the tasks.
LEMMA ViewsKept == SettingsInv /\ WriteShape /\ AutomationNext => ViewsStand'
<1> SUFFICES ASSUME SettingsInv, WriteShape, AutomationNext PROVE ViewsStand'
  OBVIOUS
<1> USE DEF SettingsInv, Numbers, ViewsStand, ViewStands
<1>0. Numbers' /\ version <= version'
  BY NumbersKept
<1>1. ASSUME shown' = [v \in Views |-> shown'[v]], \A v \in Views : shown'[v] \in {shown[v], None}, UNCHANGED <<saved, wrote>>,
             UNCHANGED writing \/ (At("idle") /\ ~writing'.window)
      PROVE  ViewsStand'
  <2>1. \A v \in Views : ViewStands(v)'
    BY <1>0, <1>1
  <2>2. TasksSeen'
    BY <1>1 DEF TasksSeen, At, Views
  <2>3. QED
    BY <1>1, <2>1, <2>2
<1>2. ASSUME NEW v \in Views, DeliverRead(v), UNCHANGED <<wrote, writing>> PROVE ViewsStand'
  <2>1. shown' = [w \in Views |-> shown'[w]] /\ \A w \in Views \ {v} : shown'[w] = shown[w]
    BY <1>2 DEF DeliverRead
  <2>2. UNCHANGED <<saved, wrote, version, writing>> /\ reads[v] # None /\ reads[v].got # None /\ ReadStands(v)
    BY <1>2 DEF DeliverRead, ReadsStand
  <2>3. \/ shown'[v] \in {None, shown[v]}
        \/ reads[v].generation = generation /\ ~Overtaken(v) /\ shown'[v] = reads[v].got
    BY <1>2 DEF DeliverRead, Stale
  <2>4. CASE shown'[v] \in {None, shown[v]}
    BY <1>1, <2>1, <2>2, <2>4
  <2>5. CASE reads[v].generation = generation /\ ~Overtaken(v) /\ shown'[v] = reads[v].got
    <3>1. ViewStands(v)'
      BY <2>2, <2>5 DEF ReadStands
    <3>2. \A w \in Views \ {v} : ViewStands(w)'
      BY <2>1, <2>2
    <3>3. TasksSeen'
      <4>1. CASE v = "tasks"
        BY <2>2, <2>5, <4>1 DEF TasksSeen, Overtaken, ReadStands
      <4>2. CASE v # "tasks"
        BY <2>1, <2>2, <4>2 DEF TasksSeen, Views, At
      <4>3. QED
        BY <4>1, <4>2
    <3>4. QED
      BY <2>1, <3>1, <3>2, <3>3
  <2>6. QED
    BY <2>3, <2>4, <2>5
<1>3. ASSUME NEW a \in Authors, DeliverSave(a), UNCHANGED <<wrote, writing>> PROVE ViewsStand'
  <2>1. CASE saves[a].pc = "done"
    BY <1>3, <2>1 DEF DeliverSave, ConfigChanged, TasksSeen, Views
  <2>2. CASE saves[a].pc # "done"
    <3>1. UNCHANGED saved
      BY <1>3, <2>2 DEF DeliverSave, Delivered
    <3>2. shown' = [v \in Views |-> shown'[v]] /\ \A v \in Views : shown'[v] \in {shown[v], None}
      BY <1>3, <2>2 DEF DeliverSave, Views
    <3>3. QED
      BY <1>1, <1>3, <3>1, <3>2
  <2>3. QED
    BY <2>1, <2>2
<1>4. ASSUME SettingsNext, UNCHANGED <<wrote, writing>> PROVE ViewsStand'
  <2>1. \/ UNCHANGED <<shown, saved>> \/ (\E a \in Authors : DeliverSave(a))
        \/ (\E v \in Views : DeliverRead(v) \/ CancelRead(v)) \/ DropCheck \/ ApplyUpgrade
    BY <1>4 DEF SettingsNext, PersonEdits, ChangeValue, CreateConfig, ConsoleUpgrades, ConsoleSaves, ConsoleEnds,
       Saving, Look, LookAgain, Replace, SaveFails, ReadBack, AskRead, ReadFile, Type, CheckForm, ConfirmSave
  <2>2. ASSUME NEW v \in Views, CancelRead(v) PROVE ViewsStand'
    <3>1. shown' = [w \in Views |-> shown'[w]] /\ (\A w \in Views : shown'[w] \in {shown[w], None}) /\ UNCHANGED saved
      BY <2>2 DEF CancelRead
    <3>2. QED
      BY <1>1, <1>4, <3>1
  <2>3. ASSUME DropCheck \/ ApplyUpgrade PROVE ViewsStand'
    <3>1. UNCHANGED saved /\ (shown' = shown \/ shown' = [shown EXCEPT !.form = None] \/ shown' = [shown EXCEPT !.upgrade = None])
      BY <2>3 DEF DropCheck, ApplyUpgrade
    <3>2. shown' = [w \in Views |-> shown'[w]] /\ (\A w \in Views : shown'[w] \in {shown[w], None})
      BY <3>1 DEF Views
    <3>3. QED
      BY <1>1, <1>4, <3>1, <3>2
  <2>4. QED
    BY <1>1, <1>2, <1>3, <1>4, <2>1, <2>2, <2>3
<1>5. CASE EndWrite
  <2>1. UNCHANGED <<version, saved, wrote>> /\ writing' = NoWrite
    BY <1>5 DEF EndWrite
  <2>2. CASE ~writing.window
    <3>1. TasksSeen'
      BY <1>5, <2>1, <2>2 DEF TasksSeen, EndWrite
    <3>2. QED
      BY <1>5, <2>1, <2>2, <3>1 DEF EndWrite
  <2>3. CASE writing.window
    <3> DEFINE view == View(Codes, FALSE)
    <3>2. view.seen = version /\ view.fresh = FALSE /\ view.wrote = wrote
      BY DEF View
    <3>1. shown' = [shown EXCEPT !.tasks = shown'["tasks"]] /\ (shown'["tasks"] = None \/ shown'["tasks"] = view)
      BY <1>5, <2>3 DEF EndWrite, Views
    <3> HIDE DEF view
    <3>3. TasksSeen'
      BY <2>1, <3>1, <3>2 DEF TasksSeen, Views
    <3>4. \A v \in Views : ViewStands(v)'
      <4>1. \A v \in Views \ {"tasks"} : shown'[v] = shown[v]
        BY <3>1
      <4>2. ViewStands("tasks")'
        BY <2>1, <3>1, <3>2
      <4>3. QED
        BY <2>1, <4>1, <4>2
    <3>5. QED
      BY <3>1, <3>3, <3>4
  <2>4. QED
    BY <2>2, <2>3
<1>6. CASE ConsoleWrites
  BY <1>1, <1>6 DEF ConsoleWrites, StartWrite, Untouched, settingsVars
<1>7. CASE WindowWrites
  <2>1. writing'.pc # "idle" /\ writing'.window = TRUE
    BY <1>7, WriteStarts DEF WindowWrites
  <2>2. UNCHANGED <<shown, saved, version>>
    BY <1>7 DEF WindowWrites, settingsVars
  <2>3. QED
    BY <2>1, <2>2 DEF TasksSeen, At
<1>8. CASE Commands
  <2>1. UNCHANGED <<shown, saved, wrote, version>> /\ ~At("idle") /\ ~At("idle")' /\ writing'.window = writing.window
    BY <1>8, CommandGoesOn DEF settingsVars, WriteShape
  <2>2. QED
    BY <2>1 DEF TasksSeen
<1>9. CASE ReadFile("tasks", Codes) /\ UNCHANGED tasksVars
  BY <1>1, <1>9 DEF ReadFile, tasksVars
<1>10. CASE SignIn \/ ProgramMoves
  BY <1>1, <1>10 DEF SignIn, ProgramMoves, settingsVars
<1>11. QED
  BY <1>4, <1>5, <1>6, <1>7, <1>8, <1>9, <1>10 DEF AutomationNext, Commands, tasksVars

-----------------------------------------------------------------------------
\* A task follows a setting: the next sign-in runs it, and a period counts from now on.
Follows(s, doc, path) ==
    LET want == Wanted(doc, path, s)
    IN /\ AtSignIn(s) = want
       /\ want # None /\ ~FirstRunAtSignIn(s, want) => tasks[s].armed = want
TasksShape ==
    /\ tasks = [s \in Slots |-> tasks[s]]
    /\ \A s \in Slots :
          /\ tasks[s] = [file |-> tasks[s].file, link |-> tasks[s].link, armed |-> tasks[s].armed, owner |-> tasks[s].owner]
          /\ tasks[s].link \in BOOLEAN
QueueShape == writing.queue \in Seq(Slots) /\ Len(writing.queue) >= 1
InQueue(s) == \E i \in 1..Len(writing.queue) : writing.queue[i] = s
\* The slots behind the queue follow the settings.
DoneFollow ==
    writing.kind = "apply" /\ writing.pc # "failed" =>
       \A s \in Slots : Follows(s, writing.doc, program) \/ (InQueue(s) /\ writing.pc # "done")
\* What the commands before the next one have done to its slot.
CommandFits ==
    /\ writing.pc \in {"register", "plist", "units", "bootout", "bootstrap", "enable", "restart"} =>
          writing.kind = "apply" /\ Def # None
    /\ writing.pc \in {"delete", "unload", "disable"} /\ writing.kind = "apply" => Def = None
    /\ writing.pc \in {"bootout", "bootstrap", "enable", "restart"} => tasks[Slot].file = Def /\ tasks[Slot].owner = "me"
    /\ writing.pc \in {"bootout", "bootstrap", "restart"} => tasks[Slot].link
    /\ writing.pc \in {"bootstrap", "restart"} => ~FirstRunAtSignIn(Slot, Def)
    /\ writing.pc = "retire" /\ writing.kind = "apply" => Follows(Slot, writing.doc, program)
WriteStands == ~At("idle") => applied = None /\ QueueShape /\ DoneFollow /\ CommandFits
TasksInv == WriteShape /\ TasksShape /\ WriteStands /\ TasksFollowSettings

\* At first no write of the tasks is under way and none was reported.
LEMMA TasksStart == AutomationInit => TasksInv
<1> SUFFICES ASSUME AutomationInit PROVE TasksInv
  OBVIOUS
<1>1. PICK start \in Starts : /\ system = start.machine.system
                              /\ tasks = [s \in Slots |-> IF s \in start.machine.foreign THEN OfAnother ELSE NoTask]
  BY DEF AutomationInit
<1>2. system \in Platforms
  BY <1>1, AutomationAssumption DEF Platforms
<1>3. TasksShape
  BY <1>1 DEF TasksShape, OfAnother, NoTask
<1>4. QED
  BY <1>2, <1>3 DEF AutomationInit, TasksInv, WriteShape, WriteStands, TasksFollowSettings, At, NoWrite

\* The command a slot begins with is one its invariant speaks of.
LEMMA FirstCommandFits ==
    ASSUME system \in Platforms, NEW kind, NEW doc, NEW slot
    PROVE  \/ /\ FirstCommand(kind, doc, slot) \in {"register", "plist", "units"}
              /\ kind = "apply" /\ Wanted(doc, program, slot) # None
           \/ /\ FirstCommand(kind, doc, slot) \in {"delete", "unload", "disable"}
              /\ kind = "apply" => Wanted(doc, program, slot) = None
  BY DEF FirstCommand, Platforms

\* Only the periodic job is started by its install and has a run at sign-in.
LEMMA OnlyTheJobStarts ==
    ASSUME NEW slot \in Slots, NEW doc, NEW path, Wanted(doc, path, slot) # None, Wanted(doc, path, slot).signin,
           ~FirstRunAtSignIn(slot, Wanted(doc, path, slot))
    PROVE  slot = "job"
<1>1. slot # "sync-at-login"
  BY DEF Wanted, LoginSync, Definition, FirstRunAtSignIn
<1>2. slot # "handoff"
  BY DEF Wanted, Watcher, Definition, FirstRunAtSignIn
<1>3. slot # "state-backup"
  BY DEF FirstRunAtSignIn
<1>4. QED
  BY <1>1, <1>2, <1>3 DEF Slots

\* The rest of the queue is again a queue, and its slots are slots of the queue.
LEMMA RestOfQueue ==
    ASSUME NEW S, NEW q \in Seq(S), Len(q) >= 1, Len(q) # 1
    PROVE  /\ Tail(q) \in Seq(S) /\ Len(Tail(q)) = Len(q) - 1 /\ Len(q) >= 2
           /\ \A i \in 1..Len(q) - 1 : Tail(q)[i] = q[i + 1]
           /\ Head(Tail(q)) = q[2]
<1>1. Len(q) \in Nat /\ Tail(q) \in Seq(S) /\ Len(Tail(q)) = Len(q) - 1
  OBVIOUS
<1>2. \A i \in 1..Len(q) - 1 : Tail(q)[i] = q[i + 1]
  OBVIOUS
<1>3. Head(Tail(q)) = Tail(q)[1]
  BY <1>1
<1>4. QED
  BY <1>1, <1>2, <1>3

\* The slot follows now: the next one, or all are done.
LEMMA NextFollows ==
    ASSUME TasksInv, ~At("idle"), writing.pc \notin {"failed", "done"}, NextSlot, UNCHANGED <<system, program, applied>>,
           NEW slot, slot = Slot, NEW doc, doc = writing.doc, NEW path, path = program,
           \A s \in Slots \ {slot} : tasks'[s] = tasks[s],
           writing.kind = "apply" => Follows(slot, doc, path)'
    PROVE  WriteStands'
<1> USE DEF At
<1>1. QueueShape /\ DoneFollow /\ applied = None /\ slot \in Slots /\ slot = writing.queue[1] /\ WriteShape
  BY DEF TasksInv, WriteStands, QueueShape, Slot
<1>2. \A s \in Slots : writing.kind = "apply" => Follows(s, doc, path)' \/ (InQueue(s) /\ s # slot)
  <2> SUFFICES ASSUME NEW s \in Slots, s # slot, writing.kind = "apply", Follows(s, doc, path) PROVE Follows(s, doc, path)'
    BY <1>1 DEF DoneFollow
  <2>1. QED
    BY DEF Follows, AtSignIn
<1>3. CASE Len(writing.queue) = 1
  <2>1. writing' = [writing EXCEPT !.pc = "done"]
    BY <1>3 DEF NextSlot
  <2>2. \A s \in Slots : writing.kind = "apply" => Follows(s, doc, path)'
    BY <1>1, <1>2, <1>3 DEF InQueue
  <2>3. writing'.kind = writing.kind /\ writing'.doc = doc /\ writing'.pc = "done" /\ writing'.queue = writing.queue
    BY <1>1, <2>1 DEF WriteShape
  <2>4. DoneFollow'
    BY <2>2, <2>3 DEF DoneFollow, Follows, AtSignIn
  <2>5. CommandFits'
    BY <2>3 DEF CommandFits
  <2>6. QED
    BY <1>1, <2>3, <2>4, <2>5 DEF WriteStands, QueueShape
<1>4. CASE Len(writing.queue) # 1
  <2> DEFINE next == writing.queue[2]
             pc == FirstCommand(writing.kind, writing.doc, next)
  <2>1. writing' = [writing EXCEPT !.queue = Tail(@), !.pc = pc]
    BY <1>4 DEF NextSlot
  <2>2. writing'.kind = writing.kind /\ writing'.doc = doc /\ writing'.pc = pc /\ writing'.queue = Tail(writing.queue)
    BY <1>1, <2>1 DEF WriteShape
  <2>3. /\ Tail(writing.queue) \in Seq(Slots) /\ Len(Tail(writing.queue)) = Len(writing.queue) - 1
        /\ Len(writing.queue) >= 2 /\ Head(Tail(writing.queue)) = next
        /\ \A i \in 1..Len(writing.queue) - 1 : Tail(writing.queue)[i] = writing.queue[i + 1]
    <3>3. writing.queue \in Seq(Slots) /\ Len(writing.queue) >= 1 /\ Len(writing.queue) # 1
      BY <1>1, <1>4 DEF QueueShape
    <3>2. QED
      BY <3>3, RestOfQueue
  <2>4. QueueShape'
    BY <2>2, <2>3 DEF QueueShape
  <2>5. /\ pc \notin {"done", "failed", "bootout", "bootstrap", "enable", "restart", "retire"}
        /\ pc \in {"register", "plist", "units"} => writing.kind = "apply" /\ Wanted(doc, program, next) # None
        /\ pc \in {"delete", "unload", "disable"} /\ writing.kind = "apply" => Wanted(doc, program, next) = None
    BY <1>1, FirstCommandFits DEF WriteShape
  <2> HIDE DEF pc
  <2>6. DoneFollow'
    <3>1. \A s \in Slots : InQueue(s) /\ s # slot => InQueue(s)'
      BY <1>1, <2>2, <2>3 DEF InQueue
    <3>2. \A s \in Slots : writing.kind = "apply" => Follows(s, doc, path)' \/ InQueue(s)'
      BY <1>2, <3>1
    <3>3. writing'.kind = writing.kind /\ writing'.doc = doc /\ program' = path /\ writing'.pc # "done"
      BY <2>2, <2>5
    <3>4. QED
      BY <3>2, <3>3 DEF DoneFollow, Follows, AtSignIn
  <2>7. CommandFits'
    <3>1. Slot' = next /\ Def' = Wanted(doc, program, next)
      BY <2>2, <2>3 DEF Slot, Def, Wanted, Definition
    <3>2. QED
      BY <2>2, <2>5, <3>1 DEF CommandFits
  <2>8. QED
    BY <1>1, <2>4, <2>6, <2>7 DEF WriteStands
<1>5. QED
  BY <1>3, <1>4

\* The slot is not done yet.
LEMMA SameSlot ==
    ASSUME TasksInv, ~At("idle"), writing.pc \notin {"failed", "done"}, UNCHANGED <<system, program, applied>>,
           NEW pc, pc \in {"retire", "failed", "bootout", "bootstrap", "enable", "restart"}, Go(pc),
           NEW slot, slot = Slot, NEW doc, doc = writing.doc, NEW path, path = program,
           \A s \in Slots \ {slot} : tasks'[s] = tasks[s]
    PROVE  /\ writing'.kind = writing.kind /\ writing'.doc = doc /\ writing'.pc = pc /\ writing'.queue = writing.queue
           /\ Slot' = slot /\ Def' = Def /\ slot \in Slots
           /\ CommandFits' => WriteStands'
<1> USE DEF At
<1>1. QueueShape /\ DoneFollow /\ applied = None /\ slot \in Slots /\ slot = writing.queue[1] /\ WriteShape
  BY DEF TasksInv, WriteStands, QueueShape, Slot
<1>2. writing'.kind = writing.kind /\ writing'.doc = doc /\ writing'.pc = pc /\ writing'.queue = writing.queue
  BY <1>1 DEF Go, WriteShape
<1>3. Slot' = slot /\ Def' = Def
  BY <1>2 DEF Slot, Def, Wanted, Definition
<1>4. QueueShape'
  BY <1>1, <1>2 DEF QueueShape
<1>5. DoneFollow'
  <2> SUFFICES ASSUME NEW s \in Slots, writing.kind = "apply", pc # "failed" PROVE Follows(s, doc, path)' \/ InQueue(s)'
    BY <1>2 DEF DoneFollow, Follows, AtSignIn
  <2>1. CASE s = slot
    <3>1. 1 \in 1..Len(writing.queue)
      BY <1>1 DEF QueueShape
    <3>2. QED
      BY <1>1, <1>2, <2>1, <3>1 DEF InQueue
  <2>2. CASE s # slot
    BY <1>1, <1>2, <2>2 DEF DoneFollow, Follows, AtSignIn, InQueue
  <2>3. QED
    BY <2>1, <2>2
<1>6. QED
  BY <1>1, <1>2, <1>3, <1>4, <1>5 DEF WriteStands

\* No command breaks the shape of the tasks, and none starts a job that waits for the sign-in.
LEMMA ShapeKept == TasksInv /\ Commands => TasksShape' /\ started' \subseteq {"job"}
<1> SUFFICES ASSUME TasksInv, Commands PROVE TasksShape' /\ started' \subseteq {"job"}
  OBVIOUS
<1>1. TasksShape /\ started \subseteq {"job"} /\ CommandFits /\ Slot \in Slots
  BY CommandGoesOn DEF TasksInv, TasksFollowSettings, WriteStands, QueueShape, Slot
<1>2. TasksShape'
  <2> USE DEF TasksShape
  <2> DEFINE shaped(t) == t = [file |-> t.file, link |-> t.link, armed |-> t.armed, owner |-> t.owner] /\ t.link \in BOOLEAN
  <2>21. shaped(NoTask) /\ \A x : shaped([NoTask EXCEPT !.armed = x])
    <3>1. NoTask.link = FALSE /\ NoTask = [file |-> NoTask.file, link |-> NoTask.link, armed |-> NoTask.armed, owner |-> NoTask.owner]
      BY DEF NoTask
    <3>2. shaped(NoTask)
      BY <3>1
    <3>3. ASSUME NEW x PROVE shaped([NoTask EXCEPT !.armed = x])
      <4> DEFINE t == [NoTask EXCEPT !.armed = x]
      <4>1. t = [file |-> NoTask.file, link |-> NoTask.link, armed |-> x, owner |-> NoTask.owner]
        BY <3>1
      <4>2. t.link = NoTask.link /\ t = [file |-> t.file, link |-> t.link, armed |-> t.armed, owner |-> t.owner]
        BY <4>1
      <4>3. QED
        BY <3>1, <4>2
    <3>4. QED
      BY <3>2, <3>3
  <2>22. ASSUME NEW t, shaped(t), tasks' = [tasks EXCEPT ![Slot] = t] PROVE TasksShape'
    <3>1. tasks'[Slot] = t /\ \A s \in Slots \ {Slot} : tasks'[s] = tasks[s]
      BY <1>1, <2>22
    <3>2. QED
      BY <1>1, <2>22, <3>1
  <2> HIDE DEF shaped
  <2>0. ASSUME NEW file1, NEW link1 \in BOOLEAN, NEW armed1, NEW owner1,
               \A s \in Slots \ {Slot} : tasks'[s] = tasks[s], tasks' = [s \in Slots |-> tasks'[s]],
               tasks'[Slot] = [file |-> file1, link |-> link1, armed |-> armed1, owner |-> owner1]
        PROVE  TasksShape'
    BY <1>1, <2>0
  <2>1. CASE Register
    <3>1. CASE Foreign(Slot)
      BY <1>1, <2>1, <3>1 DEF Register
    <3>2. CASE ~Foreign(Slot)
      <4>1. tasks' = [tasks EXCEPT ![Slot] = [file |-> Def, link |-> TRUE, armed |-> Def, owner |-> "me"]]
        BY <2>1, <3>2 DEF Register
      <4>2. QED
        BY <1>1, <2>0, <4>1
    <3>3. QED
      BY <3>1, <3>2
  <2>2. CASE Delete
    <3>1. tasks' = tasks \/ tasks' = [tasks EXCEPT ![Slot] = NoTask]
      BY <2>2 DEF Delete
    <3>2. QED
      BY <1>1, <2>21, <2>22, <3>1
  <2>3. CASE Retire \/ CommandFails
    BY <1>1, <2>3 DEF Retire, CommandFails
  <2>4. CASE WritePlist
    <3>1. tasks' = [tasks EXCEPT ![Slot].file = Def, ![Slot].link = TRUE, ![Slot].owner = "me"]
      BY <2>4 DEF WritePlist
    <3>2. tasks'[Slot] = [tasks[Slot] EXCEPT !.file = Def, !.link = TRUE, !.owner = "me"]
          /\ \A s \in Slots \ {Slot} : tasks'[s] = tasks[s] /\ tasks' = [r \in Slots |-> tasks'[r]]
      BY <1>1, <3>1
    <3>3. tasks'[Slot] = [file |-> Def, link |-> TRUE, armed |-> tasks[Slot].armed, owner |-> "me"]
      BY <1>1, <3>2
    <3>4. QED
      BY <2>0, <3>2, <3>3, <1>1, <3>1
  <2>5. CASE Bootout
    BY <1>1, <2>5 DEF Bootout
  <2>6. CASE Bootstrap
    BY <1>1, <2>6 DEF Bootstrap
  <2>7. CASE Unload
    <3>1. tasks' = [tasks EXCEPT ![Slot] = NoTask] \/ tasks' = [tasks EXCEPT ![Slot] = [NoTask EXCEPT !.armed = tasks[Slot].armed]]
      BY <2>7 DEF Unload
    <3>2. QED
      BY <1>1, <2>21, <2>22, <3>1
  <2>8. CASE WriteUnits
    <3>1. tasks' = [tasks EXCEPT ![Slot].file = Def, ![Slot].owner = "me"]
      BY <2>8 DEF WriteUnits
    <3>2. tasks'[Slot] = [tasks[Slot] EXCEPT !.file = Def, !.owner = "me"]
          /\ \A s \in Slots \ {Slot} : tasks'[s] = tasks[s] /\ tasks' = [r \in Slots |-> tasks'[r]]
      BY <1>1, <3>1
    <3>3. tasks'[Slot] = [file |-> Def, link |-> tasks[Slot].link, armed |-> tasks[Slot].armed, owner |-> "me"]
      BY <1>1, <3>2
    <3>4. QED
      BY <2>0, <3>2, <3>3, <1>1, <3>1
  <2>9. CASE Enable
    BY <1>1, <2>9 DEF Enable
  <2>10. CASE Restart
    BY <1>1, <2>10 DEF Restart
  <2>11. CASE Disable
    <3>1. \/ tasks' = [tasks EXCEPT ![Slot] = NoTask] \/ tasks' = tasks
          \/ tasks' = [tasks EXCEPT ![Slot].file = None, ![Slot].owner = None]
      BY <2>11 DEF Disable
    <3>2. CASE tasks' = tasks
      BY <1>1, <3>2
    <3>3. CASE tasks' = [tasks EXCEPT ![Slot] = NoTask]
      BY <2>21, <2>22, <3>3
    <3>4. CASE tasks' = [tasks EXCEPT ![Slot].file = None, ![Slot].owner = None]
      <4>1. tasks'[Slot] = [tasks[Slot] EXCEPT !.file = None, !.owner = None]
            /\ \A s \in Slots \ {Slot} : tasks'[s] = tasks[s] /\ tasks' = [r \in Slots |-> tasks'[r]]
        BY <1>1, <3>4
      <4>2. tasks'[Slot] = [file |-> None, link |-> tasks[Slot].link, armed |-> tasks[Slot].armed, owner |-> None]
        BY <1>1, <4>1
      <4>3. QED
        BY <2>0, <4>1, <4>2, <1>1, <3>4
    <3>5. QED
      BY <3>1, <3>2, <3>3, <3>4
  <2>12. QED
    BY <2>1, <2>2, <2>3, <2>4, <2>5, <2>6, <2>7, <2>8, <2>9, <2>10, <2>11 DEF Commands
<1>3. started' \subseteq {"job"}
  <2>1. CASE Bootstrap \/ Restart
    <3>1. Def # None /\ ~FirstRunAtSignIn(Slot, Def)
      BY <1>1, <2>1 DEF Bootstrap, Restart, At, CommandFits
    <3>2. Def.signin => Slot = "job"
      BY <1>1, <3>1, OnlyTheJobStarts DEF Def
    <3>3. QED
      BY <1>1, <2>1, <3>2 DEF Bootstrap, Restart
  <2>2. CASE ~(Bootstrap \/ Restart)
    BY <1>1, <2>2 DEF Commands, Register, Delete, Retire, WritePlist, Bootout, Unload, WriteUnits, Enable, Disable, CommandFails
  <2>3. QED
    BY <2>1, <2>2
<1>4. QED
  BY <1>2, <1>3

\* A registration leaves the task as it is to be, a removal leaves none.
LEMMA CommandsFollow == TasksInv /\ Commands => WriteStands'
<1> SUFFICES ASSUME TasksInv, Commands PROVE WriteStands'
  OBVIOUS
<1>0. /\ ~At("idle") /\ UNCHANGED <<system, program, applied>> /\ TasksShape /\ CommandFits /\ Slot \in Slots
  BY CommandGoesOn DEF TasksInv, WriteStands, QueueShape, Slot
<1>1. PICK slot, doc, path, want : slot = Slot /\ doc = writing.doc /\ path = program /\ want = Def
  OBVIOUS
<1>2. ASSUME tasks'[slot].owner = "me", tasks'[slot].link, tasks'[slot].file = want, tasks'[slot].armed = want \/ FirstRunAtSignIn(slot, want)
      PROVE  Follows(slot, doc, path)'
  BY <1>1, <1>2 DEF Follows, AtSignIn, Def
<1>3. ASSUME ~tasks'[slot].link \/ tasks'[slot].file = None, want = None PROVE Follows(slot, doc, path)'
  BY <1>1, <1>3 DEF Follows, AtSignIn, Def
<1>4. ASSUME NextSlot, writing.pc \notin {"failed", "done"}, \A s \in Slots \ {slot} : tasks'[s] = tasks[s],
             writing.kind = "apply" => Follows(slot, doc, path)'
      PROVE  WriteStands'
  BY <1>0, <1>1, <1>4, NextFollows
<1>5. ASSUME NEW pc, pc \in {"retire", "failed", "bootout", "bootstrap", "enable", "restart"}, Go(pc),
             writing.pc \notin {"failed", "done"}, \A s \in Slots \ {slot} : tasks'[s] = tasks[s],
             pc = "retire" /\ writing.kind = "apply" => Follows(slot, doc, path)',
             pc \in {"bootout", "bootstrap", "enable", "restart"} =>
                writing.kind = "apply" /\ want # None /\ tasks'[slot].file = want /\ tasks'[slot].owner = "me",
             pc \in {"bootout", "bootstrap", "restart"} => tasks'[slot].link,
             pc \in {"bootstrap", "restart"} => ~FirstRunAtSignIn(slot, want)
      PROVE  WriteStands'
  <2>1. /\ writing'.kind = writing.kind /\ writing'.doc = doc /\ writing'.pc = pc
        /\ Slot' = slot /\ Def' = want /\ program' = path
        /\ CommandFits' => WriteStands'
    BY <1>0, <1>1, <1>5, SameSlot
  <2>2. CommandFits'
    <3>1. pc = "retire" /\ writing'.kind = "apply" => Follows(Slot, writing.doc, program)'
      BY <1>5, <2>1 DEF Follows, AtSignIn
    <3>2. QED
      BY <1>5, <2>1, <3>1 DEF CommandFits
  <2>3. QED
    BY <2>1, <2>2
<1> USE DEF At
<1>6. CASE Register
  <2>1. CASE Foreign(Slot)
    BY <1>5, <1>6, <2>1 DEF Register
  <2>2. CASE ~Foreign(Slot)
    BY <1>0, <1>1, <1>2, <1>5, <1>6, <2>2 DEF Register, TasksShape
  <2>3. QED
    BY <2>1, <2>2
<1>7. CASE Delete
  <2>1. CASE Foreign(Slot)
    BY <1>5, <1>7, <2>1 DEF Delete
  <2>2. CASE ~Foreign(Slot)
    <3>1. writing.kind = "apply" => want = None
      BY <1>0, <1>1, <1>7 DEF Delete, CommandFits
    <3>2. tasks'[slot] = NoTask /\ ~tasks'[slot].link /\ \A s \in Slots \ {slot} : tasks'[s] = tasks[s]
      BY <1>0, <1>1, <1>7, <2>2 DEF Delete, TasksShape, NoTask
    <3>3. QED
      BY <1>3, <1>5, <1>7, <2>2, <3>1, <3>2 DEF Delete
  <2>3. QED
    BY <2>1, <2>2
<1>8. CASE Retire
  <2>1. writing.kind = "apply" => Follows(slot, doc, path)
    BY <1>0, <1>1, <1>8 DEF Retire, CommandFits
  <2>2. UNCHANGED tasks /\ NextSlot
    BY <1>8 DEF Retire
  <2>3. writing.kind = "apply" => Follows(slot, doc, path)'
    BY <2>1, <2>2 DEF Follows, AtSignIn
  <2>4. QED
    BY <1>4, <1>8, <2>2, <2>3 DEF Retire
<1>9. CASE WritePlist
  <2>1. tasks'[slot].file = want /\ tasks'[slot].owner = "me" /\ tasks'[slot].link /\ \A s \in Slots \ {slot} : tasks'[s] = tasks[s]
    BY <1>0, <1>1, <1>9 DEF WritePlist, TasksShape
  <2>2. writing.kind = "apply" /\ want # None
    BY <1>0, <1>1, <1>9 DEF WritePlist, CommandFits
  <2>3. QED
    BY <1>5, <1>9, <2>1, <2>2 DEF WritePlist
<1>10. CASE Bootout
  <2>1. writing.kind = "apply" /\ want # None /\ tasks[slot].file = want /\ tasks[slot].owner = "me" /\ tasks[slot].link
    BY <1>0, <1>1, <1>10 DEF Bootout, CommandFits
  <2>2. tasks'[slot].file = want /\ tasks'[slot].owner = "me" /\ tasks'[slot].link /\ \A s \in Slots \ {slot} : tasks'[s] = tasks[s]
    BY <1>0, <1>1, <1>10, <2>1 DEF Bootout, TasksShape
  <2>3. CASE FirstRunAtSignIn(slot, want)
    BY <1>1, <1>2, <1>4, <1>10, <2>2, <2>3 DEF Bootout
  <2>4. CASE ~FirstRunAtSignIn(slot, want)
    BY <1>1, <1>5, <1>10, <2>1, <2>2, <2>4 DEF Bootout
  <2>5. QED
    BY <2>3, <2>4
<1>11. CASE Bootstrap
  <2>1. writing.kind = "apply" /\ want # None /\ tasks[slot].file = want /\ tasks[slot].owner = "me" /\ tasks[slot].link
    BY <1>0, <1>1, <1>11 DEF Bootstrap, CommandFits
  <2>2. CASE tasks[Slot].armed # None
    BY <1>5, <1>11, <2>2 DEF Bootstrap
  <2>3. CASE tasks[Slot].armed = None
    <3>1. tasks' = [tasks EXCEPT ![Slot].armed = Def] /\ NextSlot
      BY <1>11, <2>3 DEF Bootstrap
    <3>2. tasks'[slot].file = want /\ tasks'[slot].owner = "me" /\ tasks'[slot].link /\ tasks'[slot].armed = want
          /\ \A s \in Slots \ {slot} : tasks'[s] = tasks[s]
      BY <1>0, <1>1, <2>1, <3>1 DEF TasksShape
    <3>3. QED
      BY <1>2, <1>4, <1>11, <3>1, <3>2 DEF Bootstrap
  <2>4. QED
    BY <2>2, <2>3
<1>12. CASE Unload
  <2>1. writing.kind = "apply" => want = None
    BY <1>0, <1>1, <1>12 DEF Unload, CommandFits
  <2>2. ~tasks'[slot].link /\ \A s \in Slots \ {slot} : tasks'[s] = tasks[s]
    BY <1>0, <1>1, <1>12 DEF Unload, TasksShape, NoTask
  <2>3. QED
    BY <1>3, <1>4, <1>12, <2>1, <2>2 DEF Unload
<1>13. CASE WriteUnits
  <2>1. tasks'[slot].file = want /\ tasks'[slot].owner = "me" /\ \A s \in Slots \ {slot} : tasks'[s] = tasks[s]
    <3>1. tasks' = [tasks EXCEPT ![Slot].file = Def, ![Slot].owner = "me"]
      BY <1>13 DEF WriteUnits
    <3>2. tasks'[slot] = [tasks[slot] EXCEPT !.file = want, !.owner = "me"] /\ \A s \in Slots \ {slot} : tasks'[s] = tasks[s]
      BY <1>0, <1>1, <3>1 DEF TasksShape
    <3>3. QED
      BY <1>0, <1>1, <3>2 DEF TasksShape
  <2>2. writing.kind = "apply" /\ want # None
    BY <1>0, <1>1, <1>13 DEF WriteUnits, CommandFits
  <2>3. QED
    BY <1>5, <1>13, <2>1, <2>2 DEF WriteUnits
<1>14. CASE Enable
  <2>1. writing.kind = "apply" /\ want # None /\ tasks[slot].file = want /\ tasks[slot].owner = "me"
    BY <1>0, <1>1, <1>14 DEF Enable, CommandFits
  <2>2. tasks'[slot].file = want /\ tasks'[slot].owner = "me" /\ tasks'[slot].link /\ \A s \in Slots \ {slot} : tasks'[s] = tasks[s]
    BY <1>0, <1>1, <1>14, <2>1 DEF Enable, TasksShape
  <2>3. CASE FirstRunAtSignIn(slot, want)
    BY <1>1, <1>2, <1>4, <1>14, <2>2, <2>3 DEF Enable
  <2>4. CASE ~FirstRunAtSignIn(slot, want)
    BY <1>1, <1>5, <1>14, <2>1, <2>2, <2>4 DEF Enable
  <2>5. QED
    BY <2>3, <2>4
<1>15. CASE Restart
  <2>1. tasks[slot].file = want /\ tasks[slot].owner = "me" /\ tasks[slot].link
    BY <1>0, <1>1, <1>15 DEF Restart, CommandFits
  <2>2. tasks'[slot].file = want /\ tasks'[slot].owner = "me" /\ tasks'[slot].link /\ tasks'[slot].armed = want
        /\ \A s \in Slots \ {slot} : tasks'[s] = tasks[s]
    BY <1>0, <1>1, <1>15, <2>1 DEF Restart, TasksShape
  <2>3. QED
    BY <1>2, <1>4, <1>15, <2>2 DEF Restart
<1>16. CASE Disable
  <2>1. writing.kind = "apply" => want = None
    BY <1>0, <1>1, <1>16 DEF Disable, CommandFits
  <2>2. (~tasks'[slot].link \/ tasks'[slot].file = None) /\ \A s \in Slots \ {slot} : tasks'[s] = tasks[s]
    BY <1>0, <1>1, <1>16 DEF Disable, TasksShape, NoTask
  <2>3. QED
    BY <1>3, <1>4, <1>16, <2>1, <2>2 DEF Disable
<1>17. CASE CommandFails
  BY <1>5, <1>17 DEF CommandFails
<1>18. QED
  BY <1>6, <1>7, <1>8, <1>9, <1>10, <1>11, <1>12, <1>13, <1>14, <1>15, <1>16, <1>17 DEF Commands

\* A write that begins has done nothing yet.
LEMMA WriteBegins ==
    ASSUME TasksInv, NEW kind \in {"apply", "remove"}, NEW window \in BOOLEAN, StartWrite(kind, window),
           UNCHANGED <<system, program, tasks, started>>
    PROVE  TasksInv'
<1>0. WriteShape /\ TasksShape /\ system \in Platforms
  BY DEF TasksInv, WriteShape
<1> DEFINE queue == IF kind = "apply" THEN ApplyOrder ELSE RemoveOrder
<1>1. PICK sid \in BOOLEAN :
         /\ writing' = [kind |-> kind, doc |-> file, queue |-> queue, sid |-> sid, window |-> window,
                        pc |-> FirstCommand(kind, file, Head(queue))]
  BY DEF StartWrite
<1>13. queue = IF kind = "apply" THEN ApplyOrder ELSE RemoveOrder
  OBVIOUS
<1> HIDE DEF queue
<1>2. PICK pc : pc = FirstCommand(kind, file, Head(queue))
  OBVIOUS
<1>3. /\ writing' = [kind |-> kind, doc |-> file, queue |-> queue, sid |-> sid, window |-> window, pc |-> pc]
      /\ writing'.kind = kind /\ writing'.doc = file /\ writing'.queue = queue /\ writing'.pc = pc
  BY <1>1, <1>2
<1>4. /\ pc \in {"register", "plist", "units"} => kind = "apply" /\ Wanted(file, program, Head(queue)) # None
      /\ pc \in {"delete", "unload", "disable"} /\ kind = "apply" => Wanted(file, program, Head(queue)) = None
      /\ pc \in {"register", "plist", "units", "delete", "unload", "disable"}
  BY <1>0, <1>2, FirstCommandFits
<1>5. WriteShape'
  BY <1>0, <1>3, <1>4 DEF WriteShape, At
<1>6. queue \in Seq(Slots) /\ Len(queue) = 4
  <2>1. ApplyOrder \in Seq(Slots) /\ Len(ApplyOrder) = 4
    BY DEF ApplyOrder, Slots
  <2>2. RemoveOrder \in Seq(Slots) /\ Len(RemoveOrder) = 4
    BY DEF RemoveOrder, Slots
  <2>3. QED
    BY <1>13, <2>1, <2>2
<1>7. kind = "apply" => \A s \in Slots : \E i \in 1..4 : queue[i] = s
  BY <1>13 DEF ApplyOrder, Slots
<1>8. Slot' = Head(queue) /\ Def' = Wanted(file, program, Head(queue))
  BY <1>3 DEF Slot, Def, Wanted, Definition
<1>9. QueueShape' /\ DoneFollow'
  <2>1. QueueShape'
    <3>1. \A n : n = 4 => n >= 1
      OBVIOUS
    <3>2. QED
      BY <1>3, <1>6, <3>1, Zenon DEF QueueShape
  <2>2. kind = "apply" => \A s \in Slots : InQueue(s)'
    BY <1>3, <1>6, <1>7 DEF InQueue
  <2>3. QED
    BY <1>3, <1>4, <2>1, <2>2 DEF DoneFollow
<1>10. CommandFits'
  BY <1>3, <1>4, <1>8 DEF CommandFits
<1>11. applied' = None /\ TasksFollowSettings'
  BY DEF StartWrite, TasksInv, TasksFollowSettings
<1>12. QED
  BY <1>0, <1>5, <1>9, <1>10, <1>11 DEF TasksInv, TasksShape, WriteStands

\* Every step keeps what is known of the tasks.
LEMMA TasksStep == TasksInv /\ (AutomationNext \/ UNCHANGED tasksVars) => TasksInv'
<1> SUFFICES ASSUME TasksInv, AutomationNext \/ UNCHANGED tasksVars PROVE TasksInv'
  OBVIOUS
<1>1. CASE UNCHANGED tasksVars
  <2>1. Slot' = Slot /\ Def' = Def
    BY <1>1 DEF tasksVars, Slot, Def, Wanted, Definition
  <2>2. DoneFollow' <=> DoneFollow
    BY <1>1 DEF tasksVars, DoneFollow, InQueue, Follows, AtSignIn
  <2>3. CommandFits' <=> CommandFits
    <3>1. Follows(Slot, writing.doc, program)' <=> Follows(Slot, writing.doc, program)
      BY <1>1, <2>1 DEF tasksVars, Follows, AtSignIn
    <3>2. QED
      BY <1>1, <2>1, <3>1 DEF tasksVars, CommandFits
  <2>4. QED
    BY <1>1, <2>2, <2>3 DEF tasksVars, TasksInv, WriteShape, TasksShape, WriteStands, TasksFollowSettings, At, QueueShape, AtSignIn
<1>2. CASE ConsoleWrites
  BY <1>2, WriteBegins DEF ConsoleWrites, Untouched
<1>3. CASE WindowWrites
  BY <1>3, WriteBegins DEF WindowWrites
<1>4. CASE Commands
  <2>1. applied' = None /\ WriteShape'
    BY <1>4, CommandGoesOn DEF TasksInv, WriteStands, WriteShape, At
  <2>2. QED
    BY <1>4, <2>1, ShapeKept, CommandsFollow DEF TasksInv, TasksFollowSettings
<1>5. CASE EndWrite
  <2>1. UNCHANGED <<system, program, tasks, started>> /\ writing' = NoWrite
    BY <1>5 DEF EndWrite
  <2>2. applied' # None => \A s \in Slots : Follows(s, applied'.doc, applied'.program)
    BY <1>5 DEF EndWrite, TasksInv, WriteStands, DoneFollow, At
  <2>3. QED
    BY <2>1, <2>2 DEF TasksInv, TasksShape, WriteShape, WriteStands, At, NoWrite, TasksFollowSettings, Follows, AtSignIn
<1>6. CASE SignIn
  <2>1. UNCHANGED <<system, program, writing, applied, started>> /\ At("idle") /\ tasks' = [s \in Slots |-> SignInLoads(tasks[s])]
    BY <1>6 DEF SignIn
  <2>2. ASSUME NEW s \in Slots
        PROVE  /\ tasks'[s].file = tasks[s].file /\ tasks'[s].link = tasks[s].link /\ tasks'[s].owner = tasks[s].owner
               /\ tasks'[s] = [file |-> tasks'[s].file, link |-> tasks'[s].link, armed |-> tasks'[s].armed, owner |-> tasks'[s].owner]
               /\ tasks[s].owner # "other" /\ tasks[s].link => tasks'[s].armed = tasks[s].file
    BY <2>1 DEF SignInLoads, TasksInv, TasksShape
  <2>3. TasksShape'
    BY <2>1, <2>2 DEF TasksInv, TasksShape
  <2>4. TasksFollowSettings'
    BY <2>1, <2>2 DEF TasksInv, TasksFollowSettings, AtSignIn
  <2>5. QED
    BY <2>1, <2>3, <2>4 DEF TasksInv, WriteShape, WriteStands, At
<1>7. CASE ProgramMoves
  BY <1>7 DEF ProgramMoves, TasksInv, TasksShape, WriteShape, WriteStands, At, TasksFollowSettings, AtSignIn
<1>8. QED
  BY <1>1, <1>2, <1>3, <1>4, <1>5, <1>6, <1>7 DEF AutomationNext, Commands

\* Every step keeps what is known of the settings.
LEMMA SettingsStep == SettingsInv /\ TasksInv /\ (AutomationNext \/ UNCHANGED settingVars) => SettingsInv'
<1>1. ASSUME SettingsInv, TasksInv, AutomationNext PROVE SettingsInv'
  <2>1. \/ PersonEdits \/ ChangeValue \/ CreateConfig \/ ConsoleUpgrades \/ ConsoleEnds
        \/ (\E a \in Authors : Saving(a) \/ DeliverSave(a)) \/ ConfirmSave \/ ApplyUpgrade
        \/ UNCHANGED <<file, version, history, saves>>
    <3>1. Commands => UNCHANGED <<file, version, history, saves>>
      BY <1>1, CommandGoesOn DEF TasksInv, settingsVars
    <3>2. ConsoleWrites \/ WindowWrites \/ EndWrite \/ SignIn \/ ProgramMoves => UNCHANGED <<file, version, history, saves>>
      BY DEF ConsoleWrites, WindowWrites, EndWrite, SignIn, ProgramMoves, Untouched, settingsVars
    <3>3. \A v, codes : ReadFile(v, codes) \/ AskRead(v) \/ DeliverRead(v) \/ CancelRead(v) => UNCHANGED <<file, version, history, saves>>
      BY DEF ReadFile, AskRead, DeliverRead, CancelRead
    <3>4. Type \/ CheckForm \/ DropCheck => UNCHANGED <<file, version, history, saves>>
      BY DEF Type, CheckForm, DropCheck
    <3>5. QED
      BY <1>1, <3>1, <3>2, <3>3, <3>4 DEF AutomationNext, SettingsNext, Commands
  <2>2. QED
    BY <1>1, <2>1, SavesKept, NumbersKept, ReadsKept, ViewsKept DEF SettingsInv, TasksInv
<1>2. ASSUME SettingsInv, UNCHANGED settingVars PROVE SettingsInv'
  BY <1>2 DEF settingVars, automationVars, settingsVars, tasksVars, SettingsInv, Numbers, SavesStand, SaveStands, ReadsStand, ReadStands,
              ViewsStand, ViewStands, TasksSeen, At
<1>3. QED
  BY <1>1, <1>2

\* What the views show, and what a save replaces.
LEMMA SettingsDo ==
    /\ SettingsInv => ViewIsCurrent
    /\ SettingsInv => \A a \in Authors : saves[a] # None /\ saves[a].pc = "replace" /\ file' # file /\ saves'[a].pc = "read" =>
          \/ version > saves[a].looked
          \/ file = saves[a].base /\ (file # None /\ Loads(file) => file \in history)
<1>1. SettingsInv => ViewIsCurrent
  BY DEF SettingsInv, Numbers, ViewsStand, ViewStands, TasksSeen, ViewIsCurrent
<1>2. ASSUME SettingsInv, NEW a \in Authors, saves[a] # None, saves[a].pc = "replace", ~(version > saves[a].looked)
      PROVE  file = saves[a].base /\ (file # None /\ Loads(file) => file \in history)
  BY <1>2 DEF SettingsInv, Numbers, SavesStand, SaveStands
<1>3. QED
  BY <1>1, <1>2


-----------------------------------------------------------------------------
(* The copies of the Codex state. *)

Inside(c) == c.pc \in {"read", "compare", "commit", "prune"}
Still(f) == content[f] = copy.begun[f] \/ content[f] = Nothing
AsBegun == \A held \in copy.holds : held[2] = copy.begun[held[1]]

CopyShape ==
    /\ copy = [pc |-> copy.pc, queue |-> copy.queue, name |-> copy.name, reading |-> copy.reading,
               holds |-> copy.holds, begun |-> copy.begun, torn |-> copy.torn, visited |-> copy.visited]
    /\ copy.pc \in {"wait", "lock", "read", "compare", "commit", "prune"}
    /\ copy.queue \subseteq Valuable /\ copy.visited \in BOOLEAN /\ copy.torn = FALSE
    /\ copy.pc = "compare" => copy.queue # {}
\* A copy that reads holds the lock, and then nobody else of codexSync writes.
LockHeld ==
    /\ copy # Nothing /\ Inside(copy) => lock = "copy"
    /\ pending # {} => lock = "tool"
    /\ pending \subseteq Valuable
\* While Codex stays closed a file is what it was when the copying began, or gone.
Reads ==
    /\ copy.pc \in {"wait", "lock"} => copy.holds = {}
    /\ copy.pc \in {"read", "compare"} /\ ~copy.visited /\ ~codex => (\A f \in Valuable : Still(f)) /\ AsBegun
    /\ copy.pc = "compare" /\ ~copy.visited /\ ~codex => copy.reading # Nothing /\ copy.reading = copy.begun[File]
    /\ copy.pc = "commit" /\ ~copy.visited => AsBegun
LastThere ==
    /\ last # Nothing => Entry(last, FALSE) \in folder
    /\ copy # Nothing /\ copy.pc = "prune" => last = copy.name
CopiesInv ==
    /\ codex \in BOOLEAN
    /\ content = [f \in Valuable |-> content[f]]
    /\ copy # Nothing => CopyShape /\ Reads
    /\ LockHeld /\ LastThere

\* Of some files there is a first one.
LEMMA FirstExists == ASSUME NEW Q, Q \subseteq Valuable, Q # {} PROVE Min(Q) \in Q
<1>1. Q \subseteq Nat
  BY StateBackupAssumption
<1>2. PICK x \in Q : \A y \in Q : <<y, x>> \notin OpToRel(<, Nat)
  BY <1>1, WFMin, NatLessThanWellFounded
<1>3. \A y \in Q : ~(y < x)
  BY <1>1, <1>2 DEF OpToRel
<1>5. \A y \in Q : x <= y
  BY <1>1, <1>3
<1>4. QED
  BY <1>5 DEF Min

\* At first nothing is copied.
LEMMA CopiesStart == CopiesInit => CopiesInv
  BY DEF CopiesInit, CopiesInv, LockHeld, LastThere

\* The world: whoever writes a file is Codex or holds the lock.
LEMMA WorldKeeps ==
    ASSUME CopiesInv,
           CodexStarts \/ CodexWrites \/ CodexQuits \/ ToolStarts \/ ToolWrites \/ ClockMoves \/ FileGoes
    PROVE  CopiesInv'
<1> USE AbsentAssumption DEF CopiesInv, CopyShape, LockHeld, Reads, LastThere, Inside, AsBegun
<1>1. CASE CodexStarts
  BY <1>1 DEF CodexStarts
<1>2. CASE CodexWrites
  BY <1>2 DEF CodexWrites, Touch
<1>3. CASE CodexQuits
  <2>1. CASE Reading
    BY <1>3, <2>1 DEF CodexQuits, Reading
  <2>2. CASE ~Reading
    BY <1>3, <2>2 DEF CodexQuits, Reading
  <2>3. QED
    BY <2>1, <2>2
<1>4. CASE ToolStarts
  BY <1>4 DEF ToolStarts
<1>5. CASE ToolWrites
  BY <1>5 DEF ToolWrites, Touch
<1>6. CASE ClockMoves
  BY <1>6 DEF ClockMoves, Still, File
<1>7. CASE FileGoes
  BY <1>7 DEF FileGoes, Still, File
<1>8. QED
  BY <1>1, <1>2, <1>3, <1>4, <1>5, <1>6, <1>7

\* A copy that goes on keeps what it has read as it was, until the world moves.
LEMMA CopyKeeps ==
    ASSUME CopiesInv,
           BeginCopy \/ WaitEnds \/ GiveUp \/ Select \/ ReadNext \/ Compare \/ LastGate \/ CommitCopy \/ Prune
              \/ CopyFails \/ KillCopy
    PROVE  CopiesInv'
<1> USE AbsentAssumption DEF CopiesInv, CopyShape, LockHeld, Reads, LastThere, Inside, World, AtStep, Becomes
<1>1. CASE BeginCopy
  BY <1>1 DEF BeginCopy
<1>2. CASE WaitEnds
  BY <1>2 DEF WaitEnds
<1>3. CASE GiveUp
  BY <1>3 DEF GiveUp
<1>4. CASE Select
  <2>1. \A e \in Partials : e.partial
    BY DEF Partials
  <2>2. \A stamp : Entry(stamp, FALSE).partial = FALSE
    BY DEF Entry
  <2>3. LastThere'
    BY <1>4, <2>1, <2>2 DEF Select
  <2>4. QED
    BY <1>4, <2>3 DEF Select, Still, AsBegun, Selected, LockFree
<1>5. CASE ReadNext
  BY <1>5, FirstExists DEF ReadNext, Still, File, AsBegun
<1>6. CASE Compare
  <2>1. CASE SameAsBefore
    <3>1. File \in Valuable
      BY <1>6, FirstExists DEF Compare, File
    <3>2. copy' = [copy EXCEPT !.pc = "read", !.queue = @ \ {File}, !.holds = @ \cup {<<File, copy.reading>>},
                           !.torn = @ \/ ~Unmoved]
      BY <1>6, <2>1 DEF Compare
    <3>3. copy'.pc = "read" /\ copy'.queue = copy.queue \ {File} /\ copy'.holds = copy.holds \cup {<<File, copy.reading>>}
          /\ copy'.torn = FALSE /\ copy'.visited = copy.visited /\ copy'.begun = copy.begun
      BY <1>6, <2>1, <3>2 DEF Compare, SameAsBefore
    <3>5. QED
      <4>1. UNCHANGED <<codex, content, moment, clock, pending, lock, folder, last, have>> /\ copy # Nothing
            /\ copy.pc = "compare" /\ content[File] = copy.reading
        BY <1>6, <2>1 DEF Compare, SameAsBefore, Unmoved
      <4>2. CopyShape'
        BY <3>2, <3>3, <4>1
      <4>3. LockHeld' /\ LastThere'
        BY <3>3, <4>1
      <4>4. Reads'
        <5>1. ASSUME ~copy.visited, ~codex PROVE AsBegun' /\ \A f \in Valuable : Still(f)'
          BY <3>1, <3>3, <4>1, <5>1 DEF AsBegun, Still
        <5>2. QED
          BY <3>3, <4>1, <5>1
      <4>5. QED
        BY <4>1, <4>2, <4>3, <4>4
  <2>2. CASE ~SameAsBefore
    BY <1>6, <2>2 DEF Compare, Drop, Entry
  <2>3. QED
    BY <2>1, <2>2
<1>7. CASE LastGate
  <2>1. CASE GateClosed
    BY <1>7, <2>1 DEF LastGate, GateClosed, AsBegun
  <2>2. CASE ~GateClosed
    BY <1>7, <2>2 DEF LastGate, Drop, Entry
  <2>3. QED
    BY <2>1, <2>2
<1>8. CASE CommitCopy
  BY <1>8 DEF CommitCopy, Entry
<1>9. CASE Prune
  BY <1>9 DEF Prune, Pruned, Entry
<1>10. CASE CopyFails
  BY <1>10 DEF CopyFails, Reading, Drop, Entry
<1>11. CASE KillCopy
  BY <1>11 DEF KillCopy
<1>12. QED
  BY <1>1, <1>2, <1>3, <1>4, <1>5, <1>6, <1>7, <1>8, <1>9, <1>10, <1>11

\* Every step keeps what is known of the copies.
LEMMA CopiesStep == CopiesInv /\ [CopiesNext]_copyVars => CopiesInv'
<1>1. ASSUME CopiesInv, UNCHANGED copyVars PROVE CopiesInv'
  BY <1>1 DEF copyVars, CopiesInv, CopyShape, LockHeld, Reads, LastThere, Inside, AsBegun, Still, File
<1>2. QED
  BY <1>1, WorldKeeps, CopyKeeps DEF CopiesNext

\* What is known of the copies makes a finished one good and the newest one stay.
LEMMA CopiesDo == CopiesInv /\ [CopiesNext]_copyVars => OfOneMoment /\ NewestStays
<1> SUFFICES ASSUME CopiesInv, [CopiesNext]_copyVars PROVE OfOneMoment /\ NewestStays
  OBVIOUS
<1>1. OfOneMoment
  BY DEF OfOneMoment, CopiesInv, CopyShape, Reads, AsBegun, AtStep
<1>2. last' # Nothing => Entry(last', FALSE) \in folder'
  BY CopiesStep DEF CopiesInv, LastThere
<1>3. {e \in folder : ~e.mine} \subseteq folder'
  <2> USE DEF Entry
  <2>1. CASE CopiesNext
    <3>1. folder \subseteq folder' \/ Select \/ Drop \/ CommitCopy \/ Prune
      BY <2>1 DEF CopiesNext, CodexStarts, CodexWrites, CodexQuits, ToolStarts, ToolWrites, ClockMoves, FileGoes,
                  BeginCopy, WaitEnds, GiveUp, ReadNext, Compare, LastGate, CopyFails, KillCopy
    <3>2. QED
      <4>1. CASE Select
        BY <4>1 DEF Select, Partials
      <4>2. CASE Drop
        BY <4>2 DEF Drop
      <4>3. CASE CommitCopy
        BY <4>3 DEF CommitCopy
      <4>4. CASE Prune
        <5>1. \A e \in Pruned : e.mine
          BY DEF Pruned, BeyondKeep, Own
        <5>2. QED
          BY <4>4, <5>1 DEF Prune
      <4>5. QED
        BY <3>1, <4>1, <4>2, <4>3, <4>4
  <2>2. CASE UNCHANGED copyVars
    BY <2>2 DEF copyVars
  <2>3. QED
    BY <2>1, <2>2
<1>4. QED
  BY <1>1, <1>2, <1>3 DEF NewestStays

-----------------------------------------------------------------------------
(* The backups. *)

IsList(f) == DOMAIN f \subseteq Items /\ f \in [DOMAIN f -> SavedFiles]
Working == {"stage", "backup", "replace", "prune", "remove"}
Terminal == {"COMMITTED", "FAILED"}

TreeShape == tree \in [Sides -> [Items -> Nat \cup {Missing}]]
SnapShape(s) ==
    /\ snaps[s] = [held |-> snaps[s].held, manifest |-> snaps[s].manifest]
    /\ IsList(snaps[s].held)
    /\ HasManifest(s) => IsList(snaps[s].manifest)
RunRecord(r) ==
    r = [pc |-> r.pc, op |-> r.op, plan |-> r.plan, todo |-> r.todo, from |-> r.from, side |-> r.side, listed |-> r.listed,
         hurt |-> r.hurt, undoes |-> r.undoes, stale |-> r.stale]
ShapedRun(r) ==
    /\ RunRecord(r)
    /\ r.pc \in Working \cup {"plan", "close", "open"}
    /\ IsList(r.plan) /\ r.todo \subseteq DOMAIN r.plan
    /\ r.pc = "plan" => r.side \in Sides /\ r.from \in Snapshots /\ r.todo = {}
RunShape(p) == runs[p] # Missing => ShapedRun(runs[p])
SnapsShape == snaps = [s \in Snapshots |-> snaps[s]] /\ \A s \in Snapshots : SnapShape(s)
RunsShape == runs = [p \in Programs |-> runs[p]] /\ \A p \in Programs : RunShape(p)
RestShape ==
    /\ TreeShape
    /\ journals \in [Mine -> JournalStates \cup {Missing}]
    /\ was = [o \in Mine |-> was[o]] /\ \A o \in Mine : IsList(was[o])
    /\ spare \in [BackupEvents -> Nat]
BackupShapes == SnapsShape /\ RunsShape /\ RestShape

\* The operations are numbered as they begin, and one that has not begun has nothing.
Numbered == \E k \in 0..MaxOperations : Begun = 1..k
Fresh(o) ==
    /\ journals[o] = Missing => snaps[o].held = Empty /\ was[o] = Empty
    /\ journals[o] \in {Missing, "PREPARED"} => snaps[o].manifest = Missing /\ was[o] = Empty
FreshOnes == Numbered /\ \A o \in Mine : Fresh(o)

\* Whoever works holds the lock, and every other operation is over.
Alone(p) ==
    /\ runs[p].pc \in Working =>
          /\ holder = p /\ runs[p].op \in Mine
          /\ runs[p].pc \in {"stage", "backup"} => journals[runs[p].op] = "PREPARED"
          /\ runs[p].pc = "replace" => journals[runs[p].op] = "COMMITTING"
          /\ runs[p].pc \in {"prune", "remove"} => journals[runs[p].op] = "COMMITTED"
          /\ \A o \in Mine \ {runs[p].op} : journals[o] \in Terminal \cup {Missing}
    /\ runs[p].pc \notin Working => runs[p].op = 0
    /\ runs[p].pc = "remove" => \A s \in runs[p].stale : s \in Mine /\ journals[s] \in Terminal
LocksHold == \A p \in Programs : runs[p] # Missing => Alone(p)

\* What was replaced is in the snapshot, as it was, but for what somebody else changed.
InTouched(side, i) == <<side, i>> \in touched
HeldFor(o, i, side) ==
    InTouched(side, i) \/ tree[side][i] = Missing
      \/ (i \in DOMAIN snaps[o].held /\ snaps[o].held[i] = Saved(side, tree[side][i]))
StaysKept(o) ==
    /\ snaps[o].manifest = snaps[o].held \/ (snaps[o].held = Empty /\ snaps[o].manifest = Missing)
    /\ \A i \in DOMAIN was[o] :
          InTouched(was[o][i].side, i) \/ (i \in DOMAIN snaps[o].held /\ snaps[o].held[i] = was[o][i])
AllKept == \A o \in Mine : journals[o] \in InCommit => StaysKept(o)
\* What a run has backed up, has still to replace, has replaced.
Progress(p) ==
    /\ runs[p].pc = "backup" => \A i \in DOMAIN runs[p].plan \ runs[p].todo : HeldFor(runs[p].op, i, runs[p].plan[i].side)
    /\ runs[p].pc = "replace" =>
          /\ \A i \in runs[p].todo : HeldFor(runs[p].op, i, runs[p].plan[i].side)
          /\ \A i \in DOMAIN runs[p].plan \ runs[p].todo :
                InTouched(runs[p].plan[i].side, i) \/ tree[runs[p].plan[i].side][i] = runs[p].plan[i].content
AllProgress == \A p \in Programs : runs[p] # Missing => Progress(p)

\* What a restore goes by is still there, or was pruned.
Source(work) ==
    work.listed # Missing =>
        /\ work.from \in Mine => journals[work.from] \notin {Missing, "PREPARED"}
        /\ work.from = PeerSnapshot => work.listed = PeerSaved
        /\ work.from \in Mine \cup {PeerSnapshot}
        /\ work.pc = "plan" /\ ~work.hurt => snaps[work.from].held = work.listed
        /\ work.pc # "plan" /\ ~work.hurt => Contents(work.plan) = Contents(work.listed)
\* A rollback has in its plan all that the operation it undoes had replaced.
Undoes(work) ==
    work.undoes # Missing =>
        /\ work.undoes \in Mine /\ work.undoes # work.op /\ work.pc # "plan"
        /\ \A i \in DOMAIN was[work.undoes] :
              InTouched(was[work.undoes][i].side, i) \/ (i \in DOMAIN work.plan /\ work.plan[i] = was[work.undoes][i])
        /\ work.pc = "close" => journals[work.undoes] \in InCommit /\ Over(work.undoes)
        /\ work.pc # "close" => journals[work.undoes] \in Terminal /\ holder = "person"
PersonRun == runs["person"] # Missing => Source(runs["person"]) /\ Undoes(runs["person"]) /\ (runs["person"].pc = "close" => runs["person"].undoes # Missing)
SnapshotsOfOthers ==
    /\ snaps[OldSnapshot].manifest = Missing
    /\ snaps[PeerSnapshot].manifest \in {Missing, PeerSaved}
    /\ \A i \in DOMAIN snaps[PeerSnapshot].held : i \in DOMAIN PeerSaved /\ snaps[PeerSnapshot].held[i] = PeerSaved[i]

BackupsInv == BackupShapes /\ FreshOnes /\ LocksHold /\ AllKept /\ AllProgress /\ PersonRun /\ SnapshotsOfOthers

\* An absent manifest is not one that lists something.
LEMMA MissingIsNoList == ~IsList(Missing)
  BY BackupTypes DEF IsList

\* A list with one more entry is a list.
LEMMA WithIsList == ASSUME NEW f, IsList(f), NEW i \in Items, NEW x \in SavedFiles PROVE IsList(With(f, i, x))
  BY DEF IsList, With

\* A list with entries taken away is a list.
LEMMA RestrictIsList == ASSUME NEW f, IsList(f), NEW S PROVE IsList(Restrict(f, DOMAIN f \ S))
  BY DEF IsList, Restrict

\* The empty list is a list.
LEMMA EmptyIsList == IsList(Empty) /\ DOMAIN Empty = {}
  BY DEF IsList, Empty

\* There is one empty list.
LEMMA EmptyList == ASSUME NEW f, IsList(f), DOMAIN f = {} PROVE f = Empty
  BY DEF IsList, Empty

\* The names of the snapshots are different names.
LEMMA Ids ==
    /\ Mine \subseteq Snapshots /\ OldSnapshot \in Snapshots /\ PeerSnapshot \in Snapshots
    /\ OldSnapshot \notin Mine /\ PeerSnapshot \notin Mine /\ PeerSnapshot # OldSnapshot /\ 0 \notin Mine
  BY BackupsAssumption DEF Mine, Snapshots, OldSnapshot, PeerSnapshot

\* The other machine's manifest is a list.
LEMMA PeerIsList == IsList(PeerSaved)
  BY BackupsAssumption, BackupTypes DEF IsList

\* At first nothing is backed up and nobody works.
LEMMA BackupsStart == BackupsInit => BackupsInv
<1> SUFFICES ASSUME BackupsInit PROVE BackupsInv
  OBVIOUS
<1>1. BackupShapes
  <2>1. TreeShape
    BY BackupsAssumption DEF BackupsInit, TreeShape
  <2>2. \A s \in Snapshots : SnapShape(s)
    <3>1. IsList([i \in Items |-> Saved("local", 0)])
      BY DEF IsList, Saved, SavedFiles, Sides
    <3>2. QED
      BY <3>1, EmptyIsList DEF BackupsInit, SnapShape, HasManifest
  <2>3. spare \in [BackupEvents -> Nat]
    BY BackupTypes DEF BackupsInit
  <2>4. QED
    BY <2>1, <2>2, <2>3, EmptyIsList DEF BackupsInit, BackupShapes, SnapsShape, RunsShape, RestShape, RunShape
<1>2. FreshOnes
  <2>1. Begun = 1..0
    BY DEF BackupsInit, Begun
  <2>2. \A o \in Mine : Fresh(o)
    BY Ids DEF BackupsInit, Fresh
  <2>3. QED
    BY <2>1, <2>2, BackupsAssumption DEF FreshOnes, Numbered
<1>3. LocksHold /\ AllProgress /\ PersonRun
  BY DEF BackupsInit, LocksHold, AllProgress, PersonRun, Programs
<1>4. AllKept
  BY BackupTypes DEF BackupsInit, AllKept, InCommit, JournalStates
<1>5. SnapshotsOfOthers
  BY Ids, EmptyIsList DEF BackupsInit, SnapshotsOfOthers
<1>6. QED
  BY <1>1, <1>2, <1>3, <1>4, <1>5 DEF BackupsInv

-----------------------------------------------------------------------------
(* What one step does to the run of its program. *)

Steps(p, pc, op, todo, stale) ==
    /\ runs[p] # Missing /\ ShapedRun(runs[p]) /\ RunRecord(runs'[p])
    /\ runs' = [q \in Programs |-> runs'[q]] /\ \A q \in Programs \ {p} : runs'[q] = runs[q]
    /\ runs'[p].pc = pc /\ runs'[p].op = op /\ runs'[p].plan = runs[p].plan /\ runs'[p].todo = todo
    /\ runs'[p].from = runs[p].from /\ runs'[p].side = runs[p].side /\ runs'[p].listed = runs[p].listed
    /\ runs'[p].hurt = runs[p].hurt /\ runs'[p].undoes = runs[p].undoes /\ runs'[p].stale = stale

\* A step that sets other fields of a run leaves the rest of it alone.
LEMMA StepsIs ==
    ASSUME BackupShapes, NEW p \in Programs, runs[p] # Missing, NEW m, RunRecord(m), runs' = [runs EXCEPT ![p] = m],
           m.plan = runs[p].plan, m.from = runs[p].from, m.side = runs[p].side, m.listed = runs[p].listed,
           m.hurt = runs[p].hurt, m.undoes = runs[p].undoes
    PROVE  Steps(p, m.pc, m.op, m.todo, m.stale)
<1>1. runs'[p] = m /\ (\A q \in Programs \ {p} : runs'[q] = runs[q]) /\ runs' = [q \in Programs |-> runs'[q]] /\ ShapedRun(runs[p])
  BY DEF BackupShapes, RunsShape, RunShape
<1>2. QED
  BY <1>1 DEF Steps

\* Which step each action is.
LEMMA StepsOnOpening ==
    ASSUME BackupShapes, NEW p \in Programs, NEW op, On(p, "open"), runs' = [runs EXCEPT ![p].pc = "stage", ![p].op = op]
    PROVE  Steps(p, "stage", op, runs[p].todo, runs[p].stale)
<1> DEFINE m == [runs[p] EXCEPT !.pc = "stage", !.op = op]
<1>1. runs[p] # Missing /\ runs' = [runs EXCEPT ![p] = m]
  BY DEF On, BackupShapes, RunsShape
<1>2. RunRecord(runs[p])
  BY <1>1 DEF BackupShapes, RunsShape, RunShape, ShapedRun
<1>3. m = [runs[p] EXCEPT !.pc = "stage", !.op = op]
  OBVIOUS
<1> HIDE DEF m
<1>4. /\ RunRecord(m) /\ m.pc = "stage" /\ m.op = op /\ m.plan = runs[p].plan /\ m.todo = runs[p].todo /\ m.from = runs[p].from
      /\ m.side = runs[p].side /\ m.listed = runs[p].listed /\ m.hurt = runs[p].hurt /\ m.undoes = runs[p].undoes /\ m.stale = runs[p].stale
  BY <1>2, <1>3 DEF RunRecord
<1>5. QED
  BY <1>1, <1>4, StepsIs

\* Which step each action is.
LEMMA Advances ==
    ASSUME BackupShapes, NEW p \in Programs
    PROVE  /\ \A i : BackUp(p, i) \/ Put(p, i) => Steps(p, runs[p].pc, runs[p].op, runs[p].todo \ {i}, runs[p].stale)
           /\ Stage(p) => Steps(p, "backup", runs[p].op, DOMAIN runs[p].plan, runs[p].stale)
           /\ EnterCommit(p) => Steps(p, "replace", runs[p].op, DOMAIN runs[p].plan, runs[p].stale)
           /\ Commit(p) => Steps(p, "prune", runs[p].op, runs[p].todo, runs[p].stale)
           /\ PickStale(p) => \E cutoff : Steps(p, "remove", runs[p].op, runs[p].todo, PruneList(cutoff))
           /\ \A s : RemoveManifest(p, s) => Steps(p, runs[p].pc, runs[p].op, runs[p].todo, runs[p].stale \ {s})
           /\ OpenOperation(p) => Leaves(p) \/ Steps(p, "stage", Cardinality(Begun) + 1, runs[p].todo, runs[p].stale)
           /\ CloseAndUndo /\ p = "person" => Steps(p, "open", runs[p].op, runs[p].todo, runs[p].stale)
<1> USE DEF On
<1>1. ASSUME NEW i, BackUp(p, i) \/ Put(p, i) PROVE Steps(p, runs[p].pc, runs[p].op, runs[p].todo \ {i}, runs[p].stale)
  <2> DEFINE m == [runs[p] EXCEPT !.todo = @ \ {i}]
  <2>1. runs[p] # Missing /\ runs' = [runs EXCEPT ![p] = m]
    BY <1>1 DEF BackUp, Put, BackupShapes, RunsShape
  <2>2. RunRecord(runs[p])
    BY <2>1 DEF BackupShapes, RunsShape, RunShape, ShapedRun
  <2>3. m = [runs[p] EXCEPT !.todo = @ \ {i}]
    OBVIOUS
  <2> HIDE DEF m
  <2>4. /\ RunRecord(m) /\ m.pc = runs[p].pc /\ m.op = runs[p].op /\ m.plan = runs[p].plan /\ m.todo = runs[p].todo \ {i} /\ m.from = runs[p].from
        /\ m.side = runs[p].side /\ m.listed = runs[p].listed /\ m.hurt = runs[p].hurt /\ m.undoes = runs[p].undoes /\ m.stale = runs[p].stale
    BY <2>2, <2>3 DEF RunRecord
  <2>5. QED
    BY <2>1, <2>4, StepsIs
<1>2. ASSUME Stage(p) PROVE Steps(p, "backup", runs[p].op, DOMAIN runs[p].plan, runs[p].stale)
  <2> DEFINE m == [runs[p] EXCEPT !.pc = "backup", !.todo = DOMAIN runs[p].plan]
  <2>1. runs[p] # Missing /\ runs' = [runs EXCEPT ![p] = m]
    BY <1>2 DEF Stage, BackupShapes, RunsShape
  <2>2. RunRecord(runs[p])
    BY <2>1 DEF BackupShapes, RunsShape, RunShape, ShapedRun
  <2>3. m = [runs[p] EXCEPT !.pc = "backup", !.todo = DOMAIN runs[p].plan]
    OBVIOUS
  <2> HIDE DEF m
  <2>4. /\ RunRecord(m) /\ m.pc = "backup" /\ m.op = runs[p].op /\ m.plan = runs[p].plan /\ m.todo = DOMAIN runs[p].plan /\ m.from = runs[p].from
        /\ m.side = runs[p].side /\ m.listed = runs[p].listed /\ m.hurt = runs[p].hurt /\ m.undoes = runs[p].undoes /\ m.stale = runs[p].stale
    BY <2>2, <2>3 DEF RunRecord
  <2>5. QED
    BY <2>1, <2>4, StepsIs
<1>3. ASSUME EnterCommit(p) PROVE Steps(p, "replace", runs[p].op, DOMAIN runs[p].plan, runs[p].stale)
  <2> DEFINE m == [runs[p] EXCEPT !.pc = "replace", !.todo = DOMAIN runs[p].plan]
  <2>1. runs[p] # Missing /\ runs' = [runs EXCEPT ![p] = m]
    BY <1>3 DEF EnterCommit, BackupShapes, RunsShape
  <2>2. RunRecord(runs[p])
    BY <2>1 DEF BackupShapes, RunsShape, RunShape, ShapedRun
  <2>3. m = [runs[p] EXCEPT !.pc = "replace", !.todo = DOMAIN runs[p].plan]
    OBVIOUS
  <2> HIDE DEF m
  <2>4. /\ RunRecord(m) /\ m.pc = "replace" /\ m.op = runs[p].op /\ m.plan = runs[p].plan /\ m.todo = DOMAIN runs[p].plan /\ m.from = runs[p].from
        /\ m.side = runs[p].side /\ m.listed = runs[p].listed /\ m.hurt = runs[p].hurt /\ m.undoes = runs[p].undoes /\ m.stale = runs[p].stale
    BY <2>2, <2>3 DEF RunRecord
  <2>5. QED
    BY <2>1, <2>4, StepsIs
<1>4. ASSUME Commit(p) PROVE Steps(p, "prune", runs[p].op, runs[p].todo, runs[p].stale)
  <2> DEFINE m == [runs[p] EXCEPT !.pc = "prune"]
  <2>1. runs[p] # Missing /\ runs' = [runs EXCEPT ![p] = m]
    BY <1>4 DEF Commit, Goes, BackupShapes, RunsShape
  <2>2. RunRecord(runs[p])
    BY <2>1 DEF BackupShapes, RunsShape, RunShape, ShapedRun
  <2>3. m = [runs[p] EXCEPT !.pc = "prune"]
    OBVIOUS
  <2> HIDE DEF m
  <2>4. /\ RunRecord(m) /\ m.pc = "prune" /\ m.op = runs[p].op /\ m.plan = runs[p].plan /\ m.todo = runs[p].todo /\ m.from = runs[p].from
        /\ m.side = runs[p].side /\ m.listed = runs[p].listed /\ m.hurt = runs[p].hurt /\ m.undoes = runs[p].undoes /\ m.stale = runs[p].stale
    BY <2>2, <2>3 DEF RunRecord
  <2>5. QED
    BY <2>1, <2>4, StepsIs
<1>5. ASSUME NEW stale, On(p, "prune"), runs' = [runs EXCEPT ![p].pc = "remove", ![p].stale = stale] PROVE Steps(p, "remove", runs[p].op, runs[p].todo, stale)
  <2> DEFINE m == [runs[p] EXCEPT !.pc = "remove", !.stale = stale]
  <2>1. runs[p] # Missing /\ runs' = [runs EXCEPT ![p] = m]
    BY <1>5 DEF Goes, BackupShapes, RunsShape
  <2>2. RunRecord(runs[p])
    BY <2>1 DEF BackupShapes, RunsShape, RunShape, ShapedRun
  <2>3. m = [runs[p] EXCEPT !.pc = "remove", !.stale = stale]
    OBVIOUS
  <2> HIDE DEF m
  <2>4. /\ RunRecord(m) /\ m.pc = "remove" /\ m.op = runs[p].op /\ m.plan = runs[p].plan /\ m.todo = runs[p].todo /\ m.from = runs[p].from
        /\ m.side = runs[p].side /\ m.listed = runs[p].listed /\ m.hurt = runs[p].hurt /\ m.undoes = runs[p].undoes /\ m.stale = stale
    BY <2>2, <2>3 DEF RunRecord
  <2>5. QED
    BY <2>1, <2>4, StepsIs
<1>6. ASSUME NEW s, RemoveManifest(p, s) PROVE Steps(p, runs[p].pc, runs[p].op, runs[p].todo, runs[p].stale \ {s})
  <2> DEFINE m == [runs[p] EXCEPT !.stale = @ \ {s}]
  <2>1. runs[p] # Missing /\ runs' = [runs EXCEPT ![p] = m]
    BY <1>6 DEF RemoveManifest, BackupShapes, RunsShape
  <2>2. RunRecord(runs[p])
    BY <2>1 DEF BackupShapes, RunsShape, RunShape, ShapedRun
  <2>3. m = [runs[p] EXCEPT !.stale = @ \ {s}]
    OBVIOUS
  <2> HIDE DEF m
  <2>4. /\ RunRecord(m) /\ m.pc = runs[p].pc /\ m.op = runs[p].op /\ m.plan = runs[p].plan /\ m.todo = runs[p].todo /\ m.from = runs[p].from
        /\ m.side = runs[p].side /\ m.listed = runs[p].listed /\ m.hurt = runs[p].hurt /\ m.undoes = runs[p].undoes /\ m.stale = runs[p].stale \ {s}
    BY <2>2, <2>3 DEF RunRecord
  <2>5. QED
    BY <2>1, <2>4, StepsIs
<1>8. ASSUME runs[p] # Missing, Goes(p, "open") PROVE Steps(p, "open", runs[p].op, runs[p].todo, runs[p].stale)
  <2> DEFINE m == [runs[p] EXCEPT !.pc = "open"]
  <2>1. runs[p] # Missing /\ runs' = [runs EXCEPT ![p] = m]
    BY <1>8 DEF Goes, BackupShapes, RunsShape
  <2>2. RunRecord(runs[p])
    BY <2>1 DEF BackupShapes, RunsShape, RunShape, ShapedRun
  <2>3. m = [runs[p] EXCEPT !.pc = "open"]
    OBVIOUS
  <2> HIDE DEF m
  <2>4. /\ RunRecord(m) /\ m.pc = "open" /\ m.op = runs[p].op /\ m.plan = runs[p].plan /\ m.todo = runs[p].todo /\ m.from = runs[p].from
        /\ m.side = runs[p].side /\ m.listed = runs[p].listed /\ m.hurt = runs[p].hurt /\ m.undoes = runs[p].undoes /\ m.stale = runs[p].stale
    BY <2>2, <2>3 DEF RunRecord
  <2>5. QED
    BY <2>1, <2>4, StepsIs
<1>9. PickStale(p) => \E cutoff : Steps(p, "remove", runs[p].op, runs[p].todo, PruneList(cutoff))
  BY <1>5 DEF PickStale
<1>10. OpenOperation(p) => Leaves(p) \/ Steps(p, "stage", Cardinality(Begun) + 1, runs[p].todo, runs[p].stale)
  BY StepsOnOpening DEF OpenOperation
<1>11. CloseAndUndo /\ p = "person" => Steps(p, "open", runs[p].op, runs[p].todo, runs[p].stale)
  BY <1>8 DEF CloseAndUndo
<1>12. QED
  BY <1>1, <1>2, <1>3, <1>4, <1>6, <1>9, <1>10, <1>11

\* A run that goes on is still a run.
LEMMA StepShaped ==
    ASSUME BackupShapes, NEW p \in Programs, NEW pc \in Working \cup {"open"}, NEW op, NEW todo, NEW stale,
           Steps(p, pc, op, todo, stale), todo \subseteq DOMAIN runs[p].plan
    PROVE  RunsShape'
<1>1. RunRecord(runs'[p]) /\ ShapedRun(runs[p]) /\ runs'[p].pc = pc /\ runs'[p].plan = runs[p].plan /\ runs'[p].todo = todo
      /\ runs'[p].side = runs[p].side /\ runs'[p].from = runs[p].from
  BY DEF Steps
<1>2. ShapedRun(runs'[p])
  BY <1>1 DEF ShapedRun, Working
<1>3. runs' = [q \in Programs |-> runs'[q]] /\ \A q \in Programs \ {p} : runs'[q] = runs[q]
  BY DEF Steps
<1>4. QED
  BY <1>2, <1>3 DEF BackupShapes, RunsShape, RunShape

\* A run put in place of another is a run.
LEMMA RunPut ==
    ASSUME BackupShapes, NEW p \in Programs, NEW r, runs' = [runs EXCEPT ![p] = r], r = Missing \/ ShapedRun(r)
    PROVE  RunsShape'
  BY DEF BackupShapes, RunsShape, RunShape

\* A run that leaves is no run.
LEMMA LeavesShaped == ASSUME BackupShapes, NEW p \in Programs, Leaves(p) PROVE RunsShape'
  BY RunPut DEF Leaves

\* The fields of a run as it begins.
LEMMA RunIs ==
    ASSUME NEW pc, NEW plan
    PROVE  /\ RunRecord(Run(pc, plan)) /\ Run(pc, plan).pc = pc /\ Run(pc, plan).op = 0 /\ Run(pc, plan).plan = plan /\ Run(pc, plan).todo = {}
           /\ Run(pc, plan).listed = Missing /\ Run(pc, plan).from = Missing
           /\ Run(pc, plan).undoes = Missing /\ Run(pc, plan).stale = {}
  BY DEF Run, RunRecord

\* What begins with a list to do is a run.
LEMMA RunIsShaped == ASSUME NEW plan, IsList(plan) PROVE ShapedRun(Run("open", plan)) /\ ShapedRun(Run("close", plan))
  BY DEF Run, ShapedRun, RunRecord, IsList

\* Every step leaves runs that are runs.
LEMMA RunsKept == BackupShapes /\ BackupsNext => RunsShape'
<1> SUFFICES ASSUME BackupShapes, BackupsNext PROVE RunsShape'
  OBVIOUS
<1>1. CASE UNCHANGED runs
  BY <1>1 DEF BackupShapes, RunsShape, RunShape
<1>2. ASSUME NEW p \in Programs, Operate(p), runs' # runs PROVE RunsShape'
  <2>1. CASE Leaves(p)
    BY <2>1, LeavesShaped
  <2>2. ASSUME NEW i, BackUp(p, i) \/ Put(p, i) PROVE RunsShape'
    <3>1. runs[p].todo \subseteq DOMAIN runs[p].plan
      BY <2>2 DEF BackUp, Put, On, BackupShapes, RunsShape, RunShape, ShapedRun
    <3>2. Steps(p, runs[p].pc, runs[p].op, runs[p].todo \ {i}, runs[p].stale) /\ runs[p].pc \in Working
      BY <2>2, Advances DEF BackUp, Put, On, Working
    <3>3. QED
      BY <3>1, <3>2, StepShaped
  <2>3. CASE Stage(p) \/ EnterCommit(p)
    <3>1. {"backup", "replace"} \subseteq Working
      BY DEF Working
    <3>2. QED
      BY <2>3, <3>1, Advances, StepShaped
  <2>4. CASE Commit(p) \/ PickStale(p) \/ (\E s : RemoveManifest(p, s)) \/ OpenOperation(p)
    <3>0. {"prune", "remove", "stage"} \subseteq Working
      BY DEF Working
    <3>1. runs[p] # Missing
      BY <2>4 DEF Commit, PickStale, RemoveManifest, OpenOperation, On
    <3>2. runs[p].todo \subseteq DOMAIN runs[p].plan
      BY <3>1 DEF BackupShapes, RunsShape, RunShape, ShapedRun
    <3>3. CASE Commit(p)
      BY <3>0, <3>2, <3>3, Advances, StepShaped
    <3>4. CASE PickStale(p)
      BY <3>0, <3>2, <3>4, Advances, StepShaped
    <3>5. ASSUME NEW s, RemoveManifest(p, s) PROVE RunsShape'
      <4>1. runs[p].pc \in Working
        BY <3>5 DEF RemoveManifest, On, Working
      <4>2. Steps(p, runs[p].pc, runs[p].op, runs[p].todo, runs[p].stale \ {s})
        BY <3>5, Advances
      <4>3. QED
        BY <3>2, <4>1, <4>2, StepShaped
    <3>6. CASE OpenOperation(p)
      BY <2>1, <3>0, <3>2, <3>6, Advances, StepShaped
    <3>7. QED
      BY <2>4, <3>3, <3>4, <3>5, <3>6
  <2>5. ASSUME NEW s \in Mine, RemovePayload(p, s) PROVE RunsShape'
    <3>1. runs' = Hurting(s)
      BY <2>5 DEF RemovePayload
    <3>2. \A q \in Programs : runs'[q] = runs[q] \/ (runs[q] # Missing /\ runs'[q] = [runs[q] EXCEPT !.hurt = TRUE])
      BY <3>1 DEF Hurting
    <3>3. ASSUME NEW q \in Programs, runs[q] # Missing, runs'[q] = [runs[q] EXCEPT !.hurt = TRUE] PROVE ShapedRun(runs'[q])
      <4>1. ShapedRun(runs[q])
        BY <3>3 DEF BackupShapes, RunsShape, RunShape
      <4>2. RunRecord(runs'[q]) /\ runs'[q].pc = runs[q].pc /\ runs'[q].plan = runs[q].plan /\ runs'[q].todo = runs[q].todo
            /\ runs'[q].side = runs[q].side /\ runs'[q].from = runs[q].from
        BY <3>3, <4>1 DEF ShapedRun, RunRecord
      <4>3. QED
        BY <4>1, <4>2 DEF ShapedRun
    <3>4. QED
      BY <3>1, <3>2, <3>3 DEF BackupShapes, RunsShape, RunShape, Hurting
  <2>6. LockBusy(p) \/ EndRun(p) \/ RunFails(p) \/ KillRun(p) => Leaves(p)
    BY DEF LockBusy, EndRun, RunFails, KillRun
  <2>7. QED
    BY <1>2, <2>1, <2>2, <2>3, <2>4, <2>5, <2>6 DEF Operate
<1>3. CASE AskSync
  <2>1. PICK plan \in SyncPlans : (\A i \in DOMAIN plan : plan[i].content # Missing) /\ runs' = [runs EXCEPT !["sync"] = Run("open", plan)]
    BY <1>3 DEF AskSync
  <2>2. PICK S \in SUBSET Differing, to \in [Items -> Sides] : plan = [i \in S |-> Saved(to[i], tree[Other(to[i])][i])]
    BY <2>1 DEF SyncPlans
  <2>3. IsList(plan)
    <3>1. S \subseteq Items
      BY DEF Differing
    <3>2. \A i \in S : to[i] \in Sides /\ Other(to[i]) \in Sides
      BY <3>1 DEF Sides, Other
    <3>3. \A i \in S : tree[Other(to[i])][i] \in Nat \cup {Missing}
      BY <3>1, <3>2 DEF BackupShapes, RestShape, TreeShape
    <3>4. QED
      BY <2>2, <3>1, <3>2, <3>3 DEF IsList, Saved, SavedFiles
  <2>4. QED
    BY <2>1, <2>3, RunPut, RunIsShaped DEF Programs
<1>4. ASSUME NEW s \in Snapshots, NEW side \in Sides, ChooseSnapshot(s, side) PROVE RunsShape'
  <2> DEFINE r0 == Run("plan", Empty)
             r == [r0 EXCEPT !.from = s, !.side = side, !.listed = snaps[s].manifest]
  <2>1. runs' = [runs EXCEPT !["person"] = r]
    BY <1>4 DEF ChooseSnapshot, Asks
  <2>5. RunRecord(r0) /\ r0.pc = "plan" /\ r0.plan = Empty /\ r0.todo = {}
    BY RunIs
  <2> HIDE DEF r0
  <2>6. r = [r0 EXCEPT !.from = s, !.side = side, !.listed = snaps[s].manifest]
    OBVIOUS
  <2> HIDE DEF r
  <2>2. RunRecord(r) /\ r.pc = "plan" /\ r.plan = Empty /\ r.todo = {} /\ r.side = side /\ r.from = s
    BY <2>5, <2>6 DEF RunRecord
  <2>3. ShapedRun(r)
    BY <2>2, EmptyIsList DEF ShapedRun
  <2>7. QED
    BY <2>1, <2>3, RunPut DEF Programs
<1>5. CASE PlanRestore
  <2> DEFINE from == runs["person"].from
             plan == [i \in DOMAIN snaps[from].held |-> Saved(runs["person"].side, snaps[from].held[i].content)]
             r == [runs["person"] EXCEPT !.pc = "open", !.plan = plan]
  <2>1. ShapedRun(runs["person"]) /\ runs["person"].pc = "plan"
    BY <1>5 DEF PlanRestore, On, BackupShapes, RunsShape, RunShape, Programs
  <2>2. runs' = [runs EXCEPT !["person"] = Missing] \/ runs' = [runs EXCEPT !["person"] = r]
    BY <1>5 DEF PlanRestore, BackupShapes, RunsShape, Programs
  <2>3. IsList(plan)
    <3>1. IsList(snaps[from].held) /\ runs["person"].side \in Sides
      BY <2>1 DEF ShapedRun, BackupShapes, SnapsShape, SnapShape
    <3>2. QED
      BY <3>1 DEF IsList, Saved, SavedFiles
  <2> HIDE DEF plan
  <2>6. r = [runs["person"] EXCEPT !.pc = "open", !.plan = plan]
    OBVIOUS
  <2> HIDE DEF r
  <2>7. RunRecord(r) /\ r.pc = "open" /\ r.plan = plan /\ r.todo = runs["person"].todo
    BY <2>1, <2>6 DEF ShapedRun, RunRecord
  <2>4. ShapedRun(r)
    BY <2>1, <2>3, <2>7 DEF ShapedRun
  <2>5. QED
    BY <2>2, <2>4, RunPut DEF Programs
<1>6. CASE CloseAndUndo
  BY <1>6, Advances, StepShaped DEF CloseAndUndo, On, BackupShapes, RunsShape, RunShape, ShapedRun, Programs
<1>7. ASSUME NEW o \in Mine, AskRollBack(o) PROVE RunsShape'
  <2> DEFINE r0 == Run("close", snaps[o].held)
             r == [r0 EXCEPT !.from = o, !.listed = snaps[o].manifest, !.undoes = o]
  <2>1. runs' = [runs EXCEPT !["person"] = r]
    BY <1>7 DEF AskRollBack, Asks
  <2>5. RunRecord(r0) /\ r0.pc = "close" /\ r0.plan = snaps[o].held /\ r0.todo = {}
    BY RunIs
  <2> HIDE DEF r0
  <2>6. r = [r0 EXCEPT !.from = o, !.listed = snaps[o].manifest, !.undoes = o]
    OBVIOUS
  <2> HIDE DEF r
  <2>2. RunRecord(r) /\ r.pc = "close" /\ r.plan = snaps[o].held /\ r.todo = {}
    BY <2>5, <2>6 DEF RunRecord
  <2>3. ShapedRun(r)
    BY <2>2, Ids DEF ShapedRun, BackupShapes, SnapsShape, SnapShape
  <2>7. QED
    BY <2>1, <2>3, RunPut DEF Programs
<1>8. PeerArrives \/ (\E o \in Mine : AskResume(o) \/ RollBackNothing(o)) \/ (\E side \in Sides, i \in Items : EditItem(side, i)) => UNCHANGED runs
  BY DEF PeerArrives, AskResume, RollBackNothing, EditItem
<1>9. QED
  BY <1>1, <1>2, <1>3, <1>4, <1>5, <1>6, <1>7, <1>8 DEF BackupsNext, Person

-----------------------------------------------------------------------------
(* What one step does to the snapshots. *)

SnapBecomes(s, held, manifest) ==
    /\ snaps'[s] = [held |-> held, manifest |-> manifest]
    /\ \A r \in Snapshots \ {s} : snaps'[r] = snaps[r]
    /\ snaps' = [r \in Snapshots |-> snaps'[r]]

\* What a snapshot becomes when only its payload changes.
LEMMA HeldPut ==
    ASSUME SnapsShape, NEW s \in Snapshots, NEW held, snaps' = [snaps EXCEPT ![s].held = held]
    PROVE  SnapBecomes(s, held, snaps[s].manifest)
<1>1. snaps'[s] = [snaps[s] EXCEPT !.held = held]
  BY DEF SnapsShape
<1>2. snaps'[s] = [held |-> held, manifest |-> snaps[s].manifest]
  BY <1>1 DEF SnapsShape, SnapShape
<1>3. QED
  BY <1>2 DEF SnapBecomes, SnapsShape

\* What a snapshot becomes when only its manifest changes.
LEMMA ManifestPut ==
    ASSUME SnapsShape, NEW s \in Snapshots, NEW manifest, snaps' = [snaps EXCEPT ![s].manifest = manifest]
    PROVE  SnapBecomes(s, snaps[s].held, manifest)
<1>1. snaps'[s] = [snaps[s] EXCEPT !.manifest = manifest]
  BY DEF SnapsShape
<1>2. snaps'[s] = [held |-> snaps[s].held, manifest |-> manifest]
  BY <1>1 DEF SnapsShape, SnapShape
<1>3. QED
  BY <1>2 DEF SnapBecomes, SnapsShape

\* A snapshot whose payload and manifest are lists is one.
LEMMA SnapPut ==
    ASSUME SnapsShape, NEW s \in Snapshots, NEW held, NEW manifest, SnapBecomes(s, held, manifest),
           IsList(held), manifest = Missing \/ IsList(manifest)
    PROVE  SnapsShape'
<1>1. snaps'[s].held = held /\ snaps'[s].manifest = manifest /\ snaps'[s] = [held |-> held, manifest |-> manifest]
  BY DEF SnapBecomes
<1>2. SnapShape(s)'
  BY <1>1 DEF SnapShape, HasManifest
<1>3. QED
  BY <1>2 DEF SnapBecomes, SnapsShape, SnapShape, HasManifest

\* Who changes the backup folder.
LEMMA SnapsChange ==
    ASSUME BackupsNext, snaps' # snaps
    PROVE  \/ \E p \in Programs : \/ EnterCommit(p) \/ (\E i \in Items : BackUp(p, i))
                                \/ \E s \in Mine : RemovePayload(p, s) \/ RemoveManifest(p, s)
           \/ PeerArrives
<1>1. ASSUME NEW p \in Programs, Operate(p)
      PROVE  \/ EnterCommit(p) \/ (\E i \in Items : BackUp(p, i))
             \/ \E s \in Mine : RemovePayload(p, s) \/ RemoveManifest(p, s)
  BY <1>1 DEF Operate, OpenOperation, LockBusy, Stage, Commit, PickStale, EndRun, RunFails, KillRun, Put
<1>2. ASSUME AskSync \/ Person \/ \E side \in Sides, i \in Items : EditItem(side, i) PROVE FALSE
  BY <1>2 DEF AskSync, Person, ChooseSnapshot, PlanRestore, CloseAndUndo, AskResume, RollBackNothing, AskRollBack, EditItem
<1>3. QED
  BY <1>1, <1>2 DEF BackupsNext

\* What a run backs up is an entry of a manifest.
LEMMA RecordedSaved ==
    ASSUME BackupShapes, NEW p \in Programs, runs[p] # Missing, NEW i \in runs[p].todo
    PROVE  /\ i \in Items /\ i \in DOMAIN runs[p].plan /\ runs[p].plan[i].side \in Sides /\ runs[p].plan[i].content \in Nat \cup {Missing}
           /\ Held(p, i) \in Nat \cup {Missing} /\ Recorded(p, i) = Saved(runs[p].plan[i].side, Held(p, i)) /\ Recorded(p, i) \in SavedFiles
<1>1. runs[p].plan[i].side \in Sides /\ runs[p].plan[i].content \in Nat \cup {Missing} /\ i \in Items /\ i \in DOMAIN runs[p].plan
  BY DEF BackupShapes, RunsShape, RunShape, ShapedRun, IsList, SavedFiles
<1>2. Held(p, i) \in Nat \cup {Missing}
  BY <1>1 DEF Held, BackupShapes, RestShape, TreeShape
<1>3. QED
  BY <1>1, <1>2 DEF Recorded, Saved, SavedFiles

\* Backing up adds one entry to the payload.
LEMMA SnapsOfBackUp ==
    ASSUME BackupShapes, NEW p \in Programs, NEW i, BackUp(p, i), snaps' # snaps
    PROVE  /\ Op(p) \in Snapshots /\ Held(p, i) # Missing /\ SnapsShape'
           /\ SnapBecomes(Op(p), With(snaps[Op(p)].held, i, Recorded(p, i)), snaps[Op(p)].manifest)
<1>1. Held(p, i) # Missing /\ snaps' = [snaps EXCEPT ![Op(p)].held = With(snaps[Op(p)].held, i, Recorded(p, i))] /\ Op(p) \in Snapshots
  BY DEF BackUp, BackupShapes, SnapsShape
<1>2. Recorded(p, i) \in SavedFiles /\ i \in Items
  BY RecordedSaved DEF BackUp, On
<1>3. IsList(With(snaps[Op(p)].held, i, Recorded(p, i))) /\ (snaps[Op(p)].manifest = Missing \/ IsList(snaps[Op(p)].manifest))
  BY <1>1, <1>2, WithIsList DEF BackupShapes, SnapsShape, SnapShape, HasManifest
<1>4. QED
  BY <1>1, <1>3, HeldPut, SnapPut DEF BackupShapes

\* The manifest lists the payload.
LEMMA SnapsOfCommit ==
    ASSUME BackupShapes, NEW p \in Programs, EnterCommit(p), snaps' # snaps
    PROVE  /\ Op(p) \in Snapshots /\ Exists(Op(p)) /\ SnapsShape'
           /\ SnapBecomes(Op(p), snaps[Op(p)].held, snaps[Op(p)].held)
<1>1. Exists(Op(p)) /\ snaps' = [snaps EXCEPT ![Op(p)].manifest = snaps[Op(p)].held] /\ Op(p) \in Snapshots
  BY DEF EnterCommit, BackupShapes, SnapsShape
<1>2. IsList(snaps[Op(p)].held)
  BY <1>1 DEF BackupShapes, SnapsShape, SnapShape
<1>3. QED
  BY <1>1, <1>2, ManifestPut, SnapPut DEF BackupShapes

\* Pruning takes parts of the payload and leaves the manifest.
LEMMA SnapsOfRemoval ==
    ASSUME BackupShapes, NEW p \in Programs, NEW s \in Mine, RemovePayload(p, s)
    PROVE  SnapsShape' /\ \E held : SnapBecomes(s, held, snaps[s].manifest)
<1>1. PICK gone : snaps' = [snaps EXCEPT ![s].held = Restrict(snaps[s].held, DOMAIN snaps[s].held \ gone)]
  BY Ids DEF RemovePayload, BackupShapes, SnapsShape
<1>2. IsList(Restrict(snaps[s].held, DOMAIN snaps[s].held \ gone)) /\ (snaps[s].manifest = Missing \/ IsList(snaps[s].manifest))
  BY Ids, RestrictIsList DEF BackupShapes, SnapsShape, SnapShape, HasManifest
<1>3. SnapBecomes(s, Restrict(snaps[s].held, DOMAIN snaps[s].held \ gone), snaps[s].manifest)
  BY <1>1, Ids, HeldPut DEF BackupShapes
<1>4. QED
  BY <1>2, <1>3, Ids, SnapPut DEF BackupShapes

\* Pruning takes the manifest and leaves the payload.
LEMMA SnapsOfForgetting ==
    ASSUME BackupShapes, NEW p \in Programs, NEW s \in Mine, RemoveManifest(p, s)
    PROVE  SnapsShape' /\ SnapBecomes(s, snaps[s].held, Missing)
<1>1. snaps' = [snaps EXCEPT ![s].manifest = Missing] /\ IsList(snaps[s].held)
  BY Ids DEF RemoveManifest, BackupShapes, SnapsShape, SnapShape
<1>2. QED
  BY <1>1, Ids, ManifestPut, SnapPut DEF BackupShapes

\* What arrives is a part of the other machine's snapshot, or its manifest.
LEMMA SnapsOfPeer ==
    ASSUME BackupShapes, PeerArrives
    PROVE  /\ SnapsShape'
           /\ \/ \E i \in DOMAIN PeerSaved \ DOMAIN snaps[PeerSnapshot].held :
                     SnapBecomes(PeerSnapshot, With(snaps[PeerSnapshot].held, i, PeerSaved[i]), snaps[PeerSnapshot].manifest)
              \/ ~HasManifest(PeerSnapshot) /\ SnapBecomes(PeerSnapshot, snaps[PeerSnapshot].held, PeerSaved)
<1>0. IsList(snaps[PeerSnapshot].held) /\ (snaps[PeerSnapshot].manifest = Missing \/ IsList(snaps[PeerSnapshot].manifest))
  BY Ids DEF BackupShapes, SnapsShape, SnapShape, HasManifest
<1>1. ASSUME NEW i \in DOMAIN PeerSaved \ DOMAIN snaps[PeerSnapshot].held,
             snaps' = [snaps EXCEPT ![PeerSnapshot].held = With(snaps[PeerSnapshot].held, i, PeerSaved[i])]
      PROVE  SnapsShape' /\ SnapBecomes(PeerSnapshot, With(snaps[PeerSnapshot].held, i, PeerSaved[i]), snaps[PeerSnapshot].manifest)
  <2>1. i \in Items /\ PeerSaved[i] \in SavedFiles
    BY PeerIsList DEF IsList
  <2>2. IsList(With(snaps[PeerSnapshot].held, i, PeerSaved[i]))
    BY <1>0, <2>1, WithIsList
  <2>3. QED
    BY <1>0, <1>1, <2>2, Ids, HeldPut, SnapPut DEF BackupShapes
<1>2. ASSUME snaps' = [snaps EXCEPT ![PeerSnapshot].manifest = PeerSaved]
      PROVE  SnapsShape' /\ SnapBecomes(PeerSnapshot, snaps[PeerSnapshot].held, PeerSaved)
  BY <1>0, <1>2, Ids, PeerIsList, ManifestPut, SnapPut DEF BackupShapes
<1>3. \/ \E i \in DOMAIN PeerSaved \ DOMAIN snaps[PeerSnapshot].held :
            snaps' = [snaps EXCEPT ![PeerSnapshot].held = With(snaps[PeerSnapshot].held, i, PeerSaved[i])]
      \/ ~HasManifest(PeerSnapshot) /\ snaps' = [snaps EXCEPT ![PeerSnapshot].manifest = PeerSaved]
  BY Ids DEF PeerArrives, BackupShapes, SnapsShape
<1>4. QED
  BY <1>1, <1>2, <1>3

\* Every step leaves snapshots that are snapshots.
LEMMA SnapsKept == BackupShapes /\ BackupsNext => SnapsShape'
<1>1. ASSUME BackupShapes, UNCHANGED snaps PROVE SnapsShape'
  BY <1>1 DEF BackupShapes, SnapsShape, SnapShape, HasManifest
<1>2. QED
  BY <1>1, SnapsChange, SnapsOfBackUp, SnapsOfCommit, SnapsOfRemoval, SnapsOfForgetting, SnapsOfPeer

\* The journals of an operation that opens.
LEMMA Opens ==
    ASSUME BackupShapes, NEW p \in Programs, OpenOperation(p)
    PROVE  /\ journals' \in [Mine -> JournalStates \cup {Missing}]
           /\ \A o \in Mine \ {Cardinality(Begun) + 1} :
                 journals'[o] = IF journals[o] \in BeforeCommit THEN "FAILED" ELSE journals[o]
           /\ \/ /\ Leaves(p) /\ UNCHANGED touched /\ \E o \in Begun : journals[o] \in InCommit
                 /\ \A o \in Mine : journals'[o] = IF journals[o] \in BeforeCommit THEN "FAILED" ELSE journals[o]
              \/ /\ \A o \in Begun : journals[o] \notin InCommit
                 /\ Cardinality(Begun) + 1 \in Mine => journals'[Cardinality(Begun) + 1] = "PREPARED"
                 /\ holder' = p /\ Steps(p, "stage", Cardinality(Begun) + 1, runs[p].todo, runs[p].stale)
                 /\ touched' = IF runs[p].undoes = Missing THEN {} ELSE touched
<1> DEFINE closed == [o \in Mine |-> IF journals[o] \in BeforeCommit THEN "FAILED" ELSE journals[o]]
           new == Cardinality(Begun) + 1
<1>1. \/ (\E o \in Begun : closed[o] \in InCommit) /\ journals' = closed /\ Leaves(p) /\ UNCHANGED touched
      \/ /\ ~(\E o \in Begun : closed[o] \in InCommit) /\ journals' = [closed EXCEPT ![new] = "PREPARED"] /\ holder' = p
         /\ runs' = [runs EXCEPT ![p].pc = "stage", ![p].op = new]
         /\ touched' = IF runs[p].undoes = Missing THEN {} ELSE touched
  BY DEF OpenOperation
<1>2. \A o \in Mine : closed[o] = (IF journals[o] \in BeforeCommit THEN "FAILED" ELSE journals[o]) /\ (closed[o] \in InCommit <=> journals[o] \in InCommit)
  BY DEF InCommit, BeforeCommit
<1>3. closed \in [Mine -> JournalStates \cup {Missing}]
  BY DEF BackupShapes, RestShape, JournalStates
<1>4. Begun \subseteq Mine
  BY DEF Begun
<1>5. On(p, "open") /\ runs[p] # Missing
  BY DEF OpenOperation, On
<1> HIDE DEF closed, new
<1>6. CASE journals' = closed /\ Leaves(p) /\ UNCHANGED touched /\ \E o \in Begun : closed[o] \in InCommit
  BY <1>2, <1>3, <1>4, <1>6
<1>7. CASE /\ ~(\E o \in Begun : closed[o] \in InCommit) /\ journals' = [closed EXCEPT ![new] = "PREPARED"] /\ holder' = p
           /\ runs' = [runs EXCEPT ![p].pc = "stage", ![p].op = new]
           /\ touched' = IF runs[p].undoes = Missing THEN {} ELSE touched
  <2>1. Steps(p, "stage", new, runs[p].todo, runs[p].stale)
    BY <1>5, <1>7, StepsOnOpening
  <2>2. journals' \in [Mine -> JournalStates \cup {Missing}] /\ (new \in Mine => journals'[new] = "PREPARED") /\ \A o \in Mine \ {new} : journals'[o] = closed[o]
    BY <1>3, <1>7 DEF JournalStates
  <2>3. QED
    BY <1>2, <1>4, <1>7, <2>1, <2>2 DEF new
<1>8. QED
  BY <1>1, <1>6, <1>7

\* Only a file that is replaced is added to what an operation replaced.
LEMMA WasChanges == BackupsNext => UNCHANGED was \/ (\E p \in Programs, i \in Items : Put(p, i))
  BY DEF BackupsNext, Operate, OpenOperation, LockBusy, Stage, BackUp, EnterCommit, Commit, PickStale, EndRun, RunFails, KillRun,
     RemovePayload, RemoveManifest, AskSync, Person, ChooseSnapshot, PlanRestore, CloseAndUndo, AskResume, RollBackNothing, AskRollBack,
     PeerArrives, EditItem

\* Who changes the journals.
LEMMA JournalsChange ==
    ASSUME BackupsNext, journals' # journals
    PROVE  \/ \E p \in Programs : OpenOperation(p) \/ EnterCommit(p) \/ Commit(p) \/ RunFails(p)
           \/ CloseAndUndo \/ \E o \in Mine : AskResume(o) \/ RollBackNothing(o)
<1>1. ASSUME NEW p \in Programs, Operate(p) PROVE OpenOperation(p) \/ EnterCommit(p) \/ Commit(p) \/ RunFails(p)
  BY <1>1 DEF Operate, LockBusy, Stage, PickStale, EndRun, KillRun, BackUp, Put, RemovePayload, RemoveManifest
<1>2. ASSUME AskSync \/ PeerArrives \/ \E side \in Sides, i \in Items : EditItem(side, i) PROVE FALSE
  BY <1>2 DEF AskSync, PeerArrives, EditItem
<1>3. ASSUME Person PROVE CloseAndUndo \/ \E o \in Mine : AskResume(o) \/ RollBackNothing(o)
  BY <1>3 DEF Person, ChooseSnapshot, PlanRestore, AskRollBack
<1>4. QED
  BY <1>1, <1>2, <1>3 DEF BackupsNext

\* Every step leaves trees, journals and budgets what they are.
LEMMA RestKept == BackupShapes /\ BackupsNext => RestShape'
<1> SUFFICES ASSUME BackupShapes, BackupsNext PROVE RestShape'
  OBVIOUS
<1>1. TreeShape'
  <2>1. CASE UNCHANGED tree
    BY <2>1 DEF BackupShapes, RestShape, TreeShape
  <2>2. ASSUME NEW p \in Programs, NEW i, Put(p, i) PROVE TreeShape'
    BY <2>2, RecordedSaved DEF Put, On, BackupShapes, RestShape, TreeShape
  <2>3. ASSUME NEW side \in Sides, NEW i \in Items, EditItem(side, i) PROVE TreeShape'
    BY <2>3 DEF EditItem, BackupShapes, RestShape, TreeShape, BackupEvents
  <2>4. UNCHANGED tree \/ (\E p \in Programs, i \in Items : Put(p, i)) \/ (\E side \in Sides, i \in Items : EditItem(side, i))
    BY DEF BackupsNext, Operate, OpenOperation, LockBusy, Stage, BackUp, EnterCommit, Commit, PickStale, EndRun, RunFails, KillRun,
       RemovePayload, RemoveManifest, AskSync, Person, ChooseSnapshot, PlanRestore, CloseAndUndo, AskResume, RollBackNothing, AskRollBack, PeerArrives
  <2>5. QED
    BY <2>1, <2>2, <2>3, <2>4
<1>2. journals' \in [Mine -> JournalStates \cup {Missing}]
  <2>1. CASE journals' = journals
    BY <2>1 DEF BackupShapes, RestShape
  <2>2. ASSUME NEW o, NEW state \in JournalStates, Journal(o, state) PROVE journals' \in [Mine -> JournalStates \cup {Missing}]
    BY <2>2 DEF BackupShapes, RestShape, Journal
  <2>3. {"COMMITTING", "COMMITTED", "RECOVERY_REQUIRED", "FAILED"} \subseteq JournalStates
    BY DEF JournalStates
  <2>4. ASSUME NEW p \in Programs, EnterCommit(p) \/ Commit(p) \/ RunFails(p) PROVE journals' \in [Mine -> JournalStates \cup {Missing}]
    <3>1. Journal(Op(p), "COMMITTING") \/ Journal(Op(p), "COMMITTED") \/ Journal(Op(p), "RECOVERY_REQUIRED") \/ Journal(Op(p), "FAILED")
      BY <2>4 DEF EnterCommit, Commit, RunFails
    <3>2. QED
      BY <2>2, <2>3, <3>1
  <2>5. ASSUME CloseAndUndo \/ \E o \in Mine : AskResume(o) \/ RollBackNothing(o) PROVE journals' \in [Mine -> JournalStates \cup {Missing}]
    <3>1. \E o : Journal(o, "FAILED")
      BY <2>5 DEF CloseAndUndo, AskResume, RollBackNothing
    <3>2. QED
      BY <2>2, <2>3, <3>1
  <2>6. QED
    BY <2>1, <2>2, <2>4, <2>5, JournalsChange, Opens
<1>3. was' = [o \in Mine |-> was'[o]] /\ \A o \in Mine : IsList(was'[o])
  <2>1. CASE UNCHANGED was
    BY <2>1 DEF BackupShapes, RestShape
  <2>2. ASSUME NEW p \in Programs, NEW i, Put(p, i), was' # was PROVE was' = [o \in Mine |-> was'[o]] /\ \A o \in Mine : IsList(was'[o])
    <3>1. was' = [was EXCEPT ![Op(p)] = With(was[Op(p)], i, Recorded(p, i))] /\ Op(p) \in Mine
      BY <2>2 DEF Put, BackupShapes, RestShape
    <3>2. IsList(With(was[Op(p)], i, Recorded(p, i)))
      BY <2>2, <3>1, RecordedSaved, WithIsList DEF Put, On, BackupShapes, RestShape
    <3>3. QED
      BY <3>1, <3>2 DEF BackupShapes, RestShape
  <2>3. UNCHANGED was \/ (\E p \in Programs, i \in Items : Put(p, i))
    BY WasChanges
  <2>4. QED
    BY <2>1, <2>2, <2>3
<1>4. spare' \in [BackupEvents -> Nat]
  <2>1. \A kind \in BackupEvents : Pay(kind) => spare' \in [BackupEvents -> Nat]
    BY DEF Pay, BackupShapes, RestShape
  <2>2. UNCHANGED spare \/ Pay("sync") \/ Pay("restore") \/ Pay("edit") \/ Pay("peer") \/ Pay("mishap")
    BY DEF BackupsNext, Operate, OpenOperation, LockBusy, Stage, BackUp, Put, EnterCommit, Commit, PickStale, EndRun, RunFails, KillRun,
       RemovePayload, RemoveManifest, AskSync, Person, ChooseSnapshot, PlanRestore, CloseAndUndo, AskResume, RollBackNothing, AskRollBack, PeerArrives, EditItem
  <2>3. QED
    BY <2>1, <2>2 DEF BackupEvents, BackupShapes, RestShape
<1>5. QED
  BY <1>1, <1>2, <1>3, <1>4 DEF RestShape

\* Every step keeps the shapes.
LEMMA ShapesKept == BackupShapes /\ BackupsNext => BackupShapes'
  BY RunsKept, SnapsKept, RestKept DEF BackupShapes

-----------------------------------------------------------------------------
(* How the journals go on. *)

\* The next operation has the number after the ones that have begun.
LEMMA NextNumber ==
    ASSUME FreshOnes, Cardinality(Begun) < MaxOperations
    PROVE  /\ Cardinality(Begun) + 1 \in Mine /\ journals[Cardinality(Begun) + 1] = Missing
           /\ Begun = 1..Cardinality(Begun) /\ Cardinality(Begun) \in Nat
<1>1. PICK k \in 0..MaxOperations : Begun = 1..k
  BY DEF FreshOnes, Numbered
<1>2. Cardinality(Begun) = k
  BY <1>1, FS_Interval, BackupsAssumption
<1>3. k + 1 \in Mine /\ k + 1 \notin 1..k
  BY <1>2, BackupsAssumption DEF Mine
<1>4. QED
  BY <1>1, <1>2, <1>3 DEF Begun

\* A run that works has an operation of its own, and everybody else waits.
LEMMA Workers ==
    ASSUME BackupsInv, NEW p \in Programs, runs[p] # Missing, runs[p].pc \in Working
    PROVE  holder = p /\ Op(p) \in Mine /\ Alone(p)
  BY DEF BackupsInv, LocksHold, Alone, Op

JournalMoves(o) ==
    \/ journals'[o] = journals[o]
    \/ journals[o] = Missing /\ journals'[o] = "PREPARED" /\ \E p \in Programs : OpenOperation(p) /\ o = Cardinality(Begun) + 1
    \/ journals[o] = "PREPARED" /\ journals'[o] = "COMMITTING" /\ \E p \in Programs : EnterCommit(p) /\ Op(p) = o
    \/ journals[o] = "COMMITTING" /\ journals'[o] = "RECOVERY_REQUIRED" /\ \E p \in Programs : RunFails(p) /\ Op(p) = o
    \/ journals[o] \in BeforeCommit \cup InCommit /\ journals'[o] \in Terminal

\* Where a journal goes from each state, and who moves it.
LEMMA JournalsMove == ASSUME BackupsInv, BackupsNext, NEW o \in Mine PROVE JournalMoves(o)
<1> USE DEF JournalMoves, Journal
<1>0. journals = [q \in Mine |-> journals[q]]
  BY DEF BackupsInv, BackupShapes, RestShape
<1>1. CASE journals' = journals
  BY <1>1
<1>2. ASSUME NEW p \in Programs, OpenOperation(p) PROVE JournalMoves(o)
  <2>1. Cardinality(Begun) < MaxOperations /\ BackupShapes /\ FreshOnes
    BY <1>2 DEF OpenOperation, BackupsInv
  <2>2. Cardinality(Begun) + 1 \in Mine /\ journals[Cardinality(Begun) + 1] = Missing
    BY <2>1, NextNumber
  <2>3. CASE o = Cardinality(Begun) + 1
    BY <1>2, <2>1, <2>2, <2>3, Opens, BackupTypes DEF BeforeCommit, JournalStates
  <2>4. CASE o # Cardinality(Begun) + 1
    BY <1>2, <2>1, <2>4, Opens DEF Terminal
  <2>5. QED
    BY <2>3, <2>4
<1>3. ASSUME NEW p \in Programs, EnterCommit(p) PROVE JournalMoves(o)
  <2>1. Op(p) \in Mine /\ journals[Op(p)] = "PREPARED"
    BY <1>3, Workers DEF EnterCommit, On, Working, Alone, Op
  <2>2. QED
    BY <1>0, <1>3, <2>1 DEF EnterCommit
<1>4. ASSUME NEW p \in Programs, Commit(p) PROVE JournalMoves(o)
  <2>1. Op(p) \in Mine /\ journals[Op(p)] = "COMMITTING"
    BY <1>4, Workers DEF Commit, On, Working, Alone, Op
  <2>2. QED
    BY <1>0, <1>4, <2>1 DEF Commit, InCommit, Terminal
<1>5. ASSUME NEW p \in Programs, RunFails(p) PROVE JournalMoves(o)
  <2>1. Op(p) \in Mine /\ journals[Op(p)] \in {"PREPARED", "COMMITTING"}
    BY <1>5, Workers DEF RunFails, Working, Alone, Op
  <2>2. QED
    BY <1>0, <1>5, <2>1 DEF RunFails, BeforeCommit, Terminal
<1>6. CASE CloseAndUndo
  BY <1>0, <1>6 DEF CloseAndUndo, Terminal
<1>7. ASSUME NEW q \in Mine, AskResume(q) \/ RollBackNothing(q) PROVE JournalMoves(o)
  BY <1>0, <1>7 DEF AskResume, RollBackNothing, Stopped, Terminal
<1>8. QED
  BY <1>1, <1>2, <1>3, <1>4, <1>5, <1>6, <1>7, JournalsChange

\* What is over stays over, and what has begun stays begun.
LEMMA JournalsLast ==
    ASSUME BackupsInv, BackupsNext, NEW o \in Mine
    PROVE  /\ journals[o] \in Terminal => journals'[o] = journals[o]
           /\ journals[o] # Missing => journals'[o] # Missing
           /\ journals[o] \notin {Missing, "PREPARED"} => journals'[o] \notin {Missing, "PREPARED"}
           /\ journals'[o] = "PREPARED" => journals[o] \in {Missing, "PREPARED"}
           /\ journals'[o] = Missing => journals[o] = Missing
<1>1. Missing \notin Terminal \cup BeforeCommit \cup InCommit
  BY BackupTypes DEF Terminal, BeforeCommit, InCommit, JournalStates
<1>2. QED
  BY <1>1, JournalsMove, BackupTypes DEF JournalMoves, Terminal, BeforeCommit, InCommit, JournalStates

\* While a program holds the lock, the others change neither journals nor what was replaced.
LEMMA OthersWait ==
    ASSUME BackupsInv, BackupsNext, NEW p \in Programs, runs[p] # Missing, holder = p, ~Operate(p),
           runs[p].pc \in Working \/ (p = "person" /\ runs[p].undoes # Missing)
    PROVE  /\ UNCHANGED <<holder, journals, was>> /\ runs'[p] = runs[p]
           /\ UNCHANGED snaps \/ PeerArrives
           /\ UNCHANGED tree \/ \E side \in Sides, i \in Items : EditItem(side, i)
           /\ touched \subseteq touched'
<1>0. runs = [q \in Programs |-> runs[q]] /\ p # Missing
  BY BackupTypes DEF BackupsInv, BackupShapes, RunsShape
<1>1. ASSUME NEW q \in Programs, Operate(q)
      PROVE  UNCHANGED <<holder, journals, was, snaps, tree, touched>> /\ runs'[p] = runs[p]
  <2>1. q # p
    BY <1>1
  <2>2. runs[q] # Missing => runs[q].pc \notin Working
    BY <2>1, Workers
  <2>3. holder \notin {Missing, q}
    BY <1>0, <2>1
  <2>4. LockBusy(q) \/ KillRun(q)
    BY <1>1, <2>2, <2>3 DEF Operate, OpenOperation, Stage, EnterCommit, Commit, PickStale, EndRun, RunFails, BackUp, Put, RemovePayload, RemoveManifest, On, Working
  <2>5. QED
    BY <1>0, <2>1, <2>3, <2>4 DEF LockBusy, KillRun, Leaves
<1>2. CASE AskSync
  BY <1>0, <1>2 DEF AskSync
<1>3. CASE Person
  <2>1. runs["person"] # Missing => runs["person"].pc # "plan" \/ p # "person"
    BY DEF BackupsInv, PersonRun, Undoes, Working
  <2>2. ASSUME NEW s, NEW side, ChooseSnapshot(s, side) PROVE UNCHANGED <<holder, journals, was, snaps, tree, touched>> /\ runs'[p] = runs[p]
    BY <1>0, <2>2 DEF ChooseSnapshot, Asks
  <2>3. CASE PlanRestore
    BY <1>0, <2>1, <2>3 DEF PlanRestore, On
  <2>4. ~CloseAndUndo
    BY <1>0 DEF CloseAndUndo
  <2>5. ASSUME NEW o \in Mine, AskResume(o) \/ RollBackNothing(o) PROVE FALSE
    <3>1. p = "sync" /\ runs[p].pc \in Working
      BY <2>5 DEF AskResume, RollBackNothing, Programs
    <3>2. o # runs[p].op /\ journals[o] \in BeforeCommit \cup InCommit
      BY <2>5 DEF AskResume, RollBackNothing, Stopped, Over
    <3>3. journals[o] \in Terminal \cup {Missing}
      BY <3>1, <3>2, Workers DEF Alone
    <3>4. QED
      BY <3>2, <3>3, BackupTypes DEF Terminal, BeforeCommit, InCommit, JournalStates
  <2>6. ASSUME NEW o \in Mine, AskRollBack(o) PROVE UNCHANGED <<holder, journals, was, snaps, tree, touched>> /\ runs'[p] = runs[p]
    BY <1>0, <2>6 DEF AskRollBack, Asks
  <2>7. QED
    BY <1>3, <2>2, <2>3, <2>4, <2>5, <2>6 DEF Person
<1>4. CASE PeerArrives
  BY <1>4 DEF PeerArrives
<1>5. ASSUME NEW side \in Sides, NEW i \in Items, EditItem(side, i) PROVE UNCHANGED <<holder, journals, was, snaps>> /\ runs'[p] = runs[p] /\ touched \subseteq touched'
  BY <1>5 DEF EditItem
<1>6. QED
  BY <1>1, <1>2, <1>3, <1>4, <1>5 DEF BackupsNext

\* What becomes of what an operation of this machine backed up.
SnapMoves(o) ==
    \/ snaps'[o] = snaps[o]
    \/ /\ journals[o] = "PREPARED" /\ snaps'[o].manifest = snaps[o].manifest
       /\ \E p \in Programs, i \in Items : BackUp(p, i) /\ Op(p) = o
    \/ /\ journals[o] = "PREPARED" /\ Exists(o) /\ snaps'[o].held = snaps[o].held /\ snaps'[o].manifest = snaps[o].held
       /\ \E p \in Programs : EnterCommit(p) /\ Op(p) = o
    \/ journals[o] \in Terminal /\ snaps'[o].manifest = snaps[o].manifest /\ runs' = Hurting(o)
    \/ journals[o] \in Terminal /\ snaps'[o].held = snaps[o].held /\ snaps'[o].manifest = Missing

\* What becomes of a snapshot of this machine depends on its journal.
LEMMA SnapsMove == ASSUME BackupsInv, BackupsNext, NEW o \in Mine PROVE SnapMoves(o)
<1> USE DEF SnapMoves
<1>0. BackupShapes /\ o \in Snapshots /\ o # PeerSnapshot
  BY Ids DEF BackupsInv
<1>1. CASE snaps' = snaps
  BY <1>1
<1>2. ASSUME NEW p \in Programs, NEW i \in Items, BackUp(p, i), snaps' # snaps PROVE SnapMoves(o)
  <2>1. journals[Op(p)] = "PREPARED"
    BY <1>2, Workers DEF BackUp, On, Working, Alone, Op
  <2>2. SnapBecomes(Op(p), With(snaps[Op(p)].held, i, Recorded(p, i)), snaps[Op(p)].manifest)
    BY <1>0, <1>2, SnapsOfBackUp
  <2>3. QED
    BY <1>0, <1>2, <2>1, <2>2 DEF SnapBecomes
<1>3. ASSUME NEW p \in Programs, EnterCommit(p), snaps' # snaps PROVE SnapMoves(o)
  <2>1. journals[Op(p)] = "PREPARED"
    BY <1>3, Workers DEF EnterCommit, On, Working, Alone, Op
  <2>2. Exists(Op(p)) /\ SnapBecomes(Op(p), snaps[Op(p)].held, snaps[Op(p)].held)
    BY <1>0, <1>3, SnapsOfCommit
  <2>3. QED
    BY <1>0, <1>3, <2>1, <2>2 DEF SnapBecomes
<1>4. ASSUME NEW p \in Programs, NEW s \in Mine, RemovePayload(p, s) PROVE SnapMoves(o)
  <2>1. journals[s] \in Terminal /\ runs' = Hurting(s)
    BY <1>4, Workers DEF RemovePayload, On, Working, Alone
  <2>2. PICK held : SnapBecomes(s, held, snaps[s].manifest)
    BY <1>0, <1>4, SnapsOfRemoval
  <2>3. QED
    BY <1>0, <2>1, <2>2 DEF SnapBecomes
<1>5. ASSUME NEW p \in Programs, NEW s \in Mine, RemoveManifest(p, s) PROVE SnapMoves(o)
  <2>1. journals[s] \in Terminal
    BY <1>5, Workers DEF RemoveManifest, On, Working, Alone
  <2>2. SnapBecomes(s, snaps[s].held, Missing)
    BY <1>0, <1>5, SnapsOfForgetting
  <2>3. QED
    BY <1>0, <2>1, <2>2 DEF SnapBecomes
<1>6. CASE PeerArrives
  BY <1>0, <1>6, SnapsOfPeer DEF SnapBecomes
<1>7. QED
  BY <1>1, <1>2, <1>3, <1>4, <1>5, <1>6, SnapsChange

\* What an operation replaced grows while it replaces.
LEMMA WasMoves ==
    ASSUME BackupsInv, BackupsNext, NEW o \in Mine
    PROVE  \/ was'[o] = was[o]
           \/ journals[o] = "COMMITTING" /\ \E p \in Programs, i \in Items : Put(p, i) /\ Op(p) = o
<1>1. ASSUME NEW p \in Programs, NEW i \in Items, Put(p, i), was'[o] # was[o] PROVE journals[o] = "COMMITTING" /\ Op(p) = o
  <2>1. Op(p) \in Mine /\ journals[Op(p)] = "COMMITTING"
    BY <1>1, Workers DEF Put, On, Working, Alone, Op
  <2>2. was' = was \/ was' = [was EXCEPT ![Op(p)] = With(was[Op(p)], i, Recorded(p, i))]
    BY <1>1, <2>1 DEF Put, BackupsInv, BackupShapes, RestShape
  <2>3. Op(p) = o
    BY <1>1, <2>2 DEF BackupsInv, BackupShapes, RestShape
  <2>4. QED
    BY <2>1, <2>3
<1>2. QED
  BY <1>1, WasChanges

\* Operations begin in the order of their numbers, and with nothing.
LEMMA FreshKept == BackupsInv /\ BackupsNext => FreshOnes'
<1> SUFFICES ASSUME BackupsInv, BackupsNext PROVE FreshOnes'
  OBVIOUS
<1>1. \A o \in Mine : Fresh(o)'
  <2> TAKE o \in Mine
  <2>0. Fresh(o) /\ Missing \notin {"PREPARED", "COMMITTING"} \cup Terminal /\ "PREPARED" \notin Terminal
    BY BackupTypes DEF BackupsInv, FreshOnes, Terminal, JournalStates
  <2>1. SnapMoves(o) /\ JournalMoves(o)
    BY SnapsMove, JournalsMove
  <2>2. journals'[o] = Missing => journals[o] = Missing /\ snaps'[o].held = Empty /\ was'[o] = Empty
    BY <2>0, <2>1, JournalsLast, WasMoves DEF SnapMoves, Fresh
  <2>3. journals'[o] \in {Missing, "PREPARED"} => journals[o] \in {Missing, "PREPARED"}
    BY JournalsLast
  <2>4. journals'[o] \in {Missing, "PREPARED"} => snaps'[o].manifest = Missing
    <3>1. ASSUME NEW p \in Programs, EnterCommit(p), Op(p) = o PROVE journals'[o] = "COMMITTING"
      BY <3>1 DEF EnterCommit, Journal, BackupsInv, BackupShapes, RestShape
    <3>2. QED
      BY <2>0, <2>1, <2>3, <3>1 DEF SnapMoves, Fresh
  <2>5. journals'[o] \in {Missing, "PREPARED"} => was'[o] = Empty
    BY <2>0, <2>3, WasMoves DEF Fresh
  <2>6. QED
    BY <2>2, <2>4, <2>5 DEF Fresh
<1>2. Numbered'
  <2>0. PICK k \in 0..MaxOperations : Begun = 1..k
    BY DEF BackupsInv, FreshOnes, Numbered
  <2>1. Begun' = {o \in Mine : journals'[o] # Missing} /\ Begun = {o \in Mine : journals[o] # Missing} /\ Begun \subseteq Begun'
    BY JournalsLast DEF Begun
  <2>2. CASE Begun' = Begun
    BY <2>0, <2>2 DEF Numbered
  <2>3. CASE Begun' # Begun
    <3>1. PICK o \in Mine : journals[o] = Missing /\ journals'[o] # Missing
      BY <2>1, <2>3
    <3>2. PICK p \in Programs : OpenOperation(p) /\ o = Cardinality(Begun) + 1
      BY <3>1, JournalsMove, BackupTypes DEF JournalMoves, BeforeCommit, InCommit, JournalStates
    <3>3. \A q \in Mine : journals[q] = Missing /\ journals'[q] # Missing => q = Cardinality(Begun) + 1
      BY JournalsMove, BackupTypes DEF JournalMoves, BeforeCommit, InCommit, JournalStates
    <3>4. Cardinality(Begun) = k
      BY <2>0, FS_Interval, BackupsAssumption
    <3>5. Begun' = 1..k \cup {k + 1}
      BY <2>0, <2>1, <3>1, <3>2, <3>3, <3>4
    <3>6. k + 1 \in 0..MaxOperations /\ 1..k \cup {k + 1} = 1..(k + 1)
      BY <3>2, <3>4, BackupsAssumption DEF Mine
    <3>7. QED
      BY <3>5, <3>6 DEF Numbered
  <2>4. QED
    BY <2>2, <2>3
<1>3. QED
  BY <1>1, <1>2 DEF FreshOnes

-----------------------------------------------------------------------------
(* What one step does to a run that it is not the step of. *)

\* A run whose snapshot is pruned is otherwise what it was.
LEMMA HurtIs ==
    ASSUME BackupShapes, NEW q \in Programs, runs[q] # Missing, NEW r, r = [runs[q] EXCEPT !.hurt = TRUE]
    PROVE  /\ RunRecord(r) /\ r.pc = runs[q].pc /\ r.op = runs[q].op /\ r.plan = runs[q].plan /\ r.todo = runs[q].todo
           /\ r.from = runs[q].from /\ r.side = runs[q].side /\ r.listed = runs[q].listed /\ r.undoes = runs[q].undoes
           /\ r.stale = runs[q].stale /\ r.hurt
<1>1. RunRecord(runs[q])
  BY DEF BackupShapes, RunsShape, RunShape, ShapedRun
<1>2. QED
  BY <1>1 DEF RunRecord

\* What a restore becomes when it plans.
LEMMA PlanIs ==
    ASSUME BackupShapes, PlanRestore, runs'["person"] # Missing
    PROVE  LET work == runs["person"]  new == runs'["person"]  held == snaps[work.from].held IN
           /\ work # Missing /\ work.pc = "plan" /\ new.pc = "open" /\ new.op = work.op /\ new.todo = work.todo
           /\ new.plan = [i \in DOMAIN held |-> Saved(work.side, held[i].content)]
           /\ new.from = work.from /\ new.listed = work.listed /\ new.hurt = work.hurt /\ new.undoes = work.undoes /\ new.stale = work.stale
<1> DEFINE work == runs["person"]
           plan == [i \in DOMAIN snaps[work.from].held |-> Saved(work.side, snaps[work.from].held[i].content)]
           r == [work EXCEPT !.pc = "open", !.plan = plan]
<1>1. work # Missing /\ work.pc = "plan" /\ RunRecord(work)
  BY DEF PlanRestore, On, BackupShapes, RunsShape, RunShape, ShapedRun, Programs
<1>2. runs'["person"] = r
  BY DEF PlanRestore, BackupShapes, RunsShape, Programs
<1>4. plan = [i \in DOMAIN snaps[work.from].held |-> Saved(work.side, snaps[work.from].held[i].content)]
  OBVIOUS
<1> HIDE DEF plan
<1>3. r = [work EXCEPT !.pc = "open", !.plan = plan]
  OBVIOUS
<1> HIDE DEF r, work
<1>5. /\ r.pc = "open" /\ r.plan = plan /\ r.op = work.op /\ r.todo = work.todo /\ r.from = work.from /\ r.listed = work.listed
      /\ r.hurt = work.hurt /\ r.undoes = work.undoes /\ r.stale = work.stale
  BY <1>1, <1>3 DEF RunRecord
<1>6. QED
  BY <1>1, <1>2, <1>4, <1>5 DEF work

\* What a restore is when its snapshot is chosen.
LEMMA ChosenIs ==
    ASSUME BackupShapes, NEW s, NEW side, ChooseSnapshot(s, side)
    PROVE  LET new == runs'["person"] IN
           /\ new.pc = "plan" /\ new.op = 0 /\ new.from = s /\ new.listed = snaps[s].manifest /\ new.undoes = Missing
           /\ new.plan = Empty /\ runs["person"] = Missing
<1> DEFINE r0 == Run("plan", Empty)
           r == [r0 EXCEPT !.from = s, !.side = side, !.listed = snaps[s].manifest]
<1>1. runs'["person"] = r /\ runs["person"] = Missing
  BY DEF ChooseSnapshot, Asks, BackupShapes, RunsShape, Programs
<1>2. RunRecord(r0) /\ r0.pc = "plan" /\ r0.op = 0 /\ r0.undoes = Missing /\ r0.plan = Empty
  BY RunIs
<1> HIDE DEF r0
<1>3. r = [r0 EXCEPT !.from = s, !.side = side, !.listed = snaps[s].manifest]
  OBVIOUS
<1> HIDE DEF r
<1>4. r.pc = "plan" /\ r.op = 0 /\ r.from = s /\ r.listed = snaps[s].manifest /\ r.undoes = Missing /\ r.plan = Empty
  BY <1>2, <1>3 DEF RunRecord
<1>5. QED
  BY <1>1, <1>4

\* What a rollback is when it is asked for.
LEMMA UndoingIs ==
    ASSUME BackupShapes, NEW o, AskRollBack(o)
    PROVE  LET new == runs'["person"] IN
           /\ new.pc = "close" /\ new.op = 0 /\ new.from = o /\ new.listed = snaps[o].manifest /\ new.undoes = o
           /\ new.plan = snaps[o].held /\ runs["person"] = Missing
<1> DEFINE r0 == Run("close", snaps[o].held)
           r == [r0 EXCEPT !.from = o, !.listed = snaps[o].manifest, !.undoes = o]
<1>1. runs'["person"] = r /\ runs["person"] = Missing
  BY DEF AskRollBack, Asks, BackupShapes, RunsShape, Programs
<1>2. RunRecord(r0) /\ r0.pc = "close" /\ r0.op = 0 /\ r0.plan = snaps[o].held
  BY RunIs
<1> HIDE DEF r0
<1>3. r = [r0 EXCEPT !.from = o, !.listed = snaps[o].manifest, !.undoes = o]
  OBVIOUS
<1> HIDE DEF r
<1>4. r.pc = "close" /\ r.op = 0 /\ r.from = o /\ r.listed = snaps[o].manifest /\ r.undoes = o /\ r.plan = snaps[o].held
  BY <1>2, <1>3 DEF RunRecord
<1>5. QED
  BY <1>1, <1>4

\* What a step that is not its own can do to a run.
LEMMA OthersMove ==
    ASSUME BackupShapes, BackupsNext, NEW p \in Programs, ~Operate(p), runs'[p] # Missing
    PROVE  \/ runs'[p] = runs[p]
           \/ runs[p] # Missing /\ runs'[p] = [runs[p] EXCEPT !.hurt = TRUE]
           \/ runs[p] = Missing /\ \E plan : runs'[p] = Run("open", plan) /\ p = "sync"
           \/ p = "person" /\ (PlanRestore \/ CloseAndUndo)
           \/ p = "person" /\ \E s \in Snapshots, side \in Sides : ChooseSnapshot(s, side)
           \/ p = "person" /\ \E o \in Mine : AskRollBack(o)
<1>0. runs = [q \in Programs |-> runs[q]]
  BY DEF BackupShapes, RunsShape
<1>1. CASE runs' = runs
  BY <1>1
<1>2. ASSUME NEW q \in Programs, q # p, Operate(q) PROVE runs'[p] = runs[p] \/ (runs[p] # Missing /\ runs'[p] = [runs[p] EXCEPT !.hurt = TRUE])
  <2>1. ASSUME NEW s, RemovePayload(q, s) PROVE runs'[p] = runs[p] \/ (runs[p] # Missing /\ runs'[p] = [runs[p] EXCEPT !.hurt = TRUE])
    BY <2>1 DEF RemovePayload, Hurting
  <2>2. ASSUME NEW pc, NEW op, NEW todo, NEW stale, Steps(q, pc, op, todo, stale) PROVE runs'[p] = runs[p]
    BY <1>2, <2>2 DEF Steps
  <2>3. Leaves(q) => runs'[p] = runs[p]
    BY <1>0, <1>2 DEF Leaves
  <2>4. LockBusy(q) \/ EndRun(q) \/ RunFails(q) \/ KillRun(q) => Leaves(q)
    BY DEF LockBusy, EndRun, RunFails, KillRun
  <2>5. OpenOperation(q) \/ Stage(q) \/ EnterCommit(q) \/ Commit(q) \/ PickStale(q) => runs'[p] = runs[p]
    BY <2>2, <2>3, Advances
  <2>6. \A i : BackUp(q, i) \/ Put(q, i) => runs'[p] = runs[p]
    BY <2>2, Advances
  <2>7. \A s : RemoveManifest(q, s) => runs'[p] = runs[p]
    BY <2>2, Advances
  <2>8. QED
    BY <1>2, <2>1, <2>3, <2>4, <2>5, <2>6, <2>7 DEF Operate
<1>3. CASE AskSync
  <2>1. runs["sync"] = Missing /\ \E plan : runs' = [runs EXCEPT !["sync"] = Run("open", plan)]
    BY <1>3 DEF AskSync
  <2>2. QED
    BY <1>0, <2>1
<1>4. CASE Person
  <2>1. CASE p = "person"
    BY <1>4, <2>1 DEF Person, AskResume, RollBackNothing
  <2>2. CASE p # "person"
    BY <1>0, <1>4, <2>2 DEF Person, ChooseSnapshot, PlanRestore, CloseAndUndo, AskResume, RollBackNothing, AskRollBack, Asks, Goes
  <2>3. QED
    BY <2>1, <2>2
<1>5. PeerArrives \/ (\E side \in Sides, i \in Items : EditItem(side, i)) => runs' = runs
  BY DEF PeerArrives, EditItem
<1>6. QED
  BY <1>1, <1>2, <1>3, <1>4, <1>5 DEF BackupsNext

\* The snapshots of others stay what they are or become more whole.
LEMMA OthersKept == BackupsInv /\ BackupsNext => SnapshotsOfOthers'
<1> SUFFICES ASSUME BackupsInv, BackupsNext PROVE SnapshotsOfOthers'
  OBVIOUS
<1> USE DEF SnapshotsOfOthers
<1>0. BackupShapes /\ SnapshotsOfOthers
  BY DEF BackupsInv
<1>1. ASSUME NEW s \in Mine, NEW held, NEW manifest, SnapBecomes(s, held, manifest) PROVE SnapshotsOfOthers'
  BY <1>0, <1>1, Ids DEF SnapBecomes
<1>2. ASSUME NEW p \in Programs, (\E i \in Items : BackUp(p, i)) \/ EnterCommit(p) PROVE Op(p) \in Mine
  BY <1>2, Workers DEF BackUp, EnterCommit, On, Working
<1>3. CASE PeerArrives
  <2>1. CASE ~HasManifest(PeerSnapshot) /\ SnapBecomes(PeerSnapshot, snaps[PeerSnapshot].held, PeerSaved)
    BY <1>0, <2>1, Ids DEF SnapBecomes
  <2>2. ASSUME NEW i \in DOMAIN PeerSaved, SnapBecomes(PeerSnapshot, With(snaps[PeerSnapshot].held, i, PeerSaved[i]), snaps[PeerSnapshot].manifest)
        PROVE  SnapshotsOfOthers'
    <3>1. /\ snaps'[OldSnapshot] = snaps[OldSnapshot] /\ snaps'[PeerSnapshot].manifest = snaps[PeerSnapshot].manifest
          /\ snaps'[PeerSnapshot].held = With(snaps[PeerSnapshot].held, i, PeerSaved[i])
      BY <2>2, Ids DEF SnapBecomes
    <3>2. QED
      BY <1>0, <3>1 DEF With
  <2>3. QED
    BY <1>0, <1>3, <2>1, <2>2, SnapsOfPeer
<1>4. CASE snaps' = snaps
  BY <1>0, <1>4
<1>5. QED
  BY <1>0, <1>1, <1>2, <1>3, <1>4, SnapsChange, SnapsOfBackUp, SnapsOfCommit, SnapsOfRemoval, SnapsOfForgetting

-----------------------------------------------------------------------------
(* The lock. *)

\* The fields of a run by which the lock is told.
LEMMA SameAlone ==
    ASSUME NEW p \in Programs, Alone(p), runs'[p].pc = runs[p].pc, runs'[p].op = runs[p].op, runs'[p].stale \subseteq runs[p].stale,
           UNCHANGED <<holder, journals>>
    PROVE  Alone(p)'
  BY DEF Alone

\* Only snapshots of operations that are over are picked for removal.
LEMMA StaleIsOver ==
    ASSUME BackupsInv, NEW cutoff
    PROVE  \A s \in PruneList(cutoff) : s \in Mine /\ journals[s] \in Terminal
<1>1. \A s \in PruneList(cutoff) : s \in Mine /\ Exists(s) /\ s \notin Protected
  BY DEF PruneList, Candidates
<1>2. \A s \in Mine : Exists(s) => journals[s] # Missing
  BY DEF BackupsInv, FreshOnes, Fresh, Exists
<1>3. QED
  BY <1>1, <1>2 DEF Protected, Begun, BackupsInv, BackupShapes, RestShape, JournalStates, BeforeCommit, InCommit, Terminal

\* Whoever works goes on alone.
LEMMA LocksKept == BackupsInv /\ BackupsNext => LocksHold'
<1> SUFFICES ASSUME BackupsInv, BackupsNext, NEW p \in Programs, runs'[p] # Missing PROVE Alone(p)'
  BY DEF LocksHold
<1>0. BackupShapes /\ runs = [q \in Programs |-> runs[q]] /\ (runs[p] # Missing => Alone(p)) /\ p # Missing
  BY BackupTypes DEF BackupsInv, BackupShapes, RunsShape, LocksHold
<1>1. CASE Operate(p)
  <2>1. runs[p] # Missing /\ Alone(p)
    BY <1>0, <1>1 DEF Operate, OpenOperation, LockBusy, Stage, BackUp, Put, EnterCommit, Commit, PickStale, EndRun, RunFails, KillRun,
       RemovePayload, RemoveManifest, On
  <2>2. ~Leaves(p)
    BY <1>0 DEF Leaves
  <2>3. CASE OpenOperation(p)
    <3> DEFINE new == Cardinality(Begun) + 1
    <3>1. new \in Mine
      BY <2>3, NextNumber DEF OpenOperation, BackupsInv
    <3>2. /\ holder' = p /\ runs'[p].pc = "stage" /\ runs'[p].op = new /\ journals'[new] = "PREPARED"
          /\ \A o \in Begun : journals[o] \notin InCommit
      BY <1>0, <2>2, <2>3, <3>1, Opens DEF Steps
    <3>3. ASSUME NEW o \in Mine \ {new} PROVE journals'[o] \in Terminal \cup {Missing}
      <4>1. journals[o] = Missing \/ journals[o] \notin InCommit
        BY <3>2 DEF Begun
      <4>2. journals'[o] = IF journals[o] \in BeforeCommit THEN "FAILED" ELSE journals[o]
        BY <1>0, <2>3, Opens
      <4>3. journals[o] \in JournalStates \cup {Missing}
        BY <1>0 DEF BackupShapes, RestShape
      <4>4. QED
        BY <4>1, <4>2, <4>3 DEF JournalStates, InCommit, BeforeCommit, Terminal
    <3> HIDE DEF new
    <3>4. QED
      BY <3>1, <3>2, <3>3 DEF Alone, Working
  <2>4. CASE Stage(p)
    <3>1. runs'[p].pc = "backup" /\ runs'[p].op = runs[p].op /\ UNCHANGED <<holder, journals>> /\ runs[p].pc = "stage"
      BY <1>0, <2>4, Advances DEF Stage, Steps, On
    <3>2. QED
      BY <2>1, <3>1 DEF Alone, Working
  <2>5. ASSUME NEW i, BackUp(p, i) \/ Put(p, i) PROVE Alone(p)'
    <3>1. Steps(p, runs[p].pc, runs[p].op, runs[p].todo \ {i}, runs[p].stale)
      BY <1>0, <2>5, Advances
    <3>2. runs'[p].pc = runs[p].pc /\ runs'[p].op = runs[p].op /\ runs'[p].stale = runs[p].stale /\ UNCHANGED <<holder, journals>>
      BY <2>5, <3>1 DEF BackUp, Put, Steps
    <3>3. QED
      BY <2>1, <3>2, SameAlone
  <2>6. CASE EnterCommit(p)
    <3>1. /\ runs'[p].pc = "replace" /\ runs'[p].op = runs[p].op /\ UNCHANGED holder /\ runs[p].pc = "backup"
          /\ journals' = [journals EXCEPT ![runs[p].op] = "COMMITTING"]
      BY <1>0, <2>6, Advances DEF EnterCommit, Steps, On, Journal, Op
    <3>2. QED
      BY <1>0, <2>1, <3>1 DEF Alone, Working, BackupShapes, RestShape
  <2>7. CASE Commit(p)
    <3>1. /\ runs'[p].pc = "prune" /\ runs'[p].op = runs[p].op /\ UNCHANGED holder /\ runs[p].pc = "replace"
          /\ journals' = [journals EXCEPT ![runs[p].op] = "COMMITTED"]
      BY <1>0, <2>7, Advances DEF Commit, Steps, On, Journal, Op
    <3>2. QED
      BY <1>0, <2>1, <3>1 DEF Alone, Working, BackupShapes, RestShape
  <2>8. CASE PickStale(p)
    <3>1. PICK cutoff : /\ runs'[p].pc = "remove" /\ runs'[p].op = runs[p].op /\ runs'[p].stale = PruneList(cutoff)
                        /\ UNCHANGED <<holder, journals>> /\ runs[p].pc = "prune"
      BY <1>0, <2>8, Advances DEF PickStale, Steps, On
    <3>2. \A s \in runs'[p].stale : s \in Mine /\ journals[s] \in Terminal
      BY <3>1, StaleIsOver
    <3>3. QED
      BY <2>1, <3>1, <3>2 DEF Alone, Working
  <2>9. ASSUME NEW s, RemovePayload(p, s) PROVE Alone(p)'
    <3>1. UNCHANGED <<holder, journals>> /\ (runs'[p] = runs[p] \/ runs'[p] = [runs[p] EXCEPT !.hurt = TRUE])
      BY <2>9 DEF RemovePayload, Hurting
    <3>2. runs'[p].pc = runs[p].pc /\ runs'[p].op = runs[p].op /\ runs'[p].stale = runs[p].stale
      BY <1>0, <2>1, <3>1, HurtIs
    <3>3. QED
      BY <2>1, <3>1, <3>2, SameAlone
  <2>10. ASSUME NEW s, RemoveManifest(p, s) PROVE Alone(p)'
    <3>1. Steps(p, runs[p].pc, runs[p].op, runs[p].todo, runs[p].stale \ {s})
      BY <1>0, <2>10, Advances
    <3>2. runs'[p].pc = runs[p].pc /\ runs'[p].op = runs[p].op /\ runs'[p].stale \subseteq runs[p].stale /\ UNCHANGED <<holder, journals>>
      BY <2>10, <3>1 DEF RemoveManifest, Steps
    <3>3. QED
      BY <2>1, <3>2, SameAlone
  <2>11. LockBusy(p) \/ EndRun(p) \/ RunFails(p) \/ KillRun(p) => Leaves(p)
    BY DEF LockBusy, EndRun, RunFails, KillRun
  <2>12. QED
    BY <1>1, <2>2, <2>3, <2>4, <2>5, <2>6, <2>7, <2>8, <2>9, <2>10, <2>11 DEF Operate
<1>2. CASE ~Operate(p) /\ runs[p] # Missing /\ runs[p].pc \in Working
  <2>1. UNCHANGED <<holder, journals>> /\ runs'[p] = runs[p]
    BY <1>2, Workers, OthersWait
  <2>2. QED
    BY <1>0, <1>2, <2>1, SameAlone
<1>3. CASE ~Operate(p) /\ (runs[p] = Missing \/ runs[p].pc \notin Working)
  <2>1. runs'[p].pc \notin Working /\ runs'[p].op = 0
    <3> USE DEF Working
    <3>1. CASE runs[p] = Missing /\ \E plan : runs'[p] = Run("open", plan)
      BY <3>1, RunIs
    <3>2. CASE p = "person" /\ PlanRestore
      BY <1>0, <1>3, <3>2, PlanIs DEF Alone
    <3>3. CASE p = "person" /\ CloseAndUndo
      <4>1. Steps(p, "open", runs[p].op, runs[p].todo, runs[p].stale)
        BY <1>0, <3>3, Advances
      <4>2. QED
        BY <1>0, <1>3, <4>1 DEF Steps, Alone
    <3>4. CASE p = "person" /\ \E s \in Snapshots, side \in Sides : ChooseSnapshot(s, side)
      BY <1>0, <3>4, ChosenIs
    <3>5. CASE p = "person" /\ \E o \in Mine : AskRollBack(o)
      BY <1>0, <3>5, UndoingIs
    <3>6. CASE runs'[p] = runs[p] \/ (runs[p] # Missing /\ runs'[p] = [runs[p] EXCEPT !.hurt = TRUE])
      <4>1. runs'[p].pc = runs[p].pc /\ runs'[p].op = runs[p].op /\ runs[p] # Missing
        BY <1>0, <3>6, HurtIs
      <4>2. QED
        BY <1>0, <1>3, <4>1 DEF Alone
    <3>7. QED
      BY <1>0, <1>3, <3>1, <3>2, <3>3, <3>4, <3>5, <3>6, OthersMove
  <2>2. QED
    BY <2>1 DEF Alone, Working
<1>4. QED
  BY <1>1, <1>2, <1>3

-----------------------------------------------------------------------------
(* What was replaced is kept. *)

\* What was changed by others is forgotten only when an operation begins and none is open.
LEMMA TouchedGrows ==
    ASSUME BackupShapes, BackupsNext
    PROVE  \/ touched \subseteq touched'
           \/ \E p \in Programs : /\ OpenOperation(p) /\ runs[p] # Missing /\ runs[p].undoes = Missing
                                 /\ \A o \in Begun : journals[o] \notin InCommit
<1>1. ASSUME NEW p \in Programs, OpenOperation(p)
      PROVE  touched \subseteq touched' \/ (runs[p] # Missing /\ runs[p].undoes = Missing /\ \A o \in Begun : journals[o] \notin InCommit)
  BY <1>1, Opens DEF Steps
<1>2. ASSUME NEW p \in Programs, Operate(p), ~OpenOperation(p) PROVE UNCHANGED touched
  BY <1>2 DEF Operate, LockBusy, Stage, BackUp, Put, EnterCommit, Commit, PickStale, EndRun, RunFails, KillRun, RemovePayload, RemoveManifest
<1>3. ASSUME AskSync \/ Person \/ PeerArrives \/ \E side \in Sides, i \in Items : EditItem(side, i) PROVE touched \subseteq touched'
  BY <1>3 DEF AskSync, Person, ChooseSnapshot, PlanRestore, CloseAndUndo, AskResume, RollBackNothing, AskRollBack, PeerArrives, EditItem
<1>4. QED
  BY <1>1, <1>2, <1>3 DEF BackupsNext

\* What an open operation replaced stays in its snapshot, and its manifest lists it.
LEMMA KeptKept == BackupsInv /\ BackupsNext => AllKept'
<1> SUFFICES ASSUME BackupsInv, BackupsNext, NEW o \in Mine, journals'[o] \in InCommit PROVE StaysKept(o)'
  BY DEF AllKept
<1>0. BackupShapes /\ Fresh(o) /\ (journals[o] \in InCommit => StaysKept(o)) /\ o \in Snapshots /\ IsList(was[o])
  BY Ids DEF BackupsInv, FreshOnes, AllKept, BackupShapes, RestShape
<1>1. CASE journals[o] \in InCommit
  <2>1. o \in Begun
    BY <1>1, BackupTypes DEF Begun, InCommit, JournalStates
  <2>2. touched \subseteq touched'
    BY <1>0, <1>1, <2>1, TouchedGrows
  <2>3. snaps'[o] = snaps[o]
    BY <1>1, SnapsMove DEF SnapMoves, InCommit, Terminal
  <2>4. CASE was'[o] = was[o]
    BY <1>0, <1>1, <2>2, <2>3, <2>4 DEF StaysKept, InTouched
  <2>5. ASSUME NEW p \in Programs, NEW i \in Items, Put(p, i), Op(p) = o, was'[o] # was[o] PROVE StaysKept(o)'
    <3>1. was' = [was EXCEPT ![o] = With(was[o], i, Recorded(p, i))] /\ Held(p, i) # Missing /\ i \in runs[p].todo
          /\ runs[p] # Missing /\ runs[p].pc = "replace"
      BY <1>0, <2>5 DEF Put, On, BackupShapes, RestShape
    <3>2. was'[o] = With(was[o], i, Recorded(p, i))
      BY <1>0, <3>1 DEF BackupShapes, RestShape
    <3>3. HeldFor(o, i, runs[p].plan[i].side) /\ Recorded(p, i) = Saved(runs[p].plan[i].side, Held(p, i))
      BY <1>0, <2>5, <3>1, RecordedSaved DEF BackupsInv, AllProgress, Progress, Op
    <3>4. DOMAIN was'[o] = DOMAIN was[o] \cup {i} /\ was'[o][i] = Recorded(p, i) /\ \A j \in DOMAIN was[o] \ {i} : was'[o][j] = was[o][j]
      BY <3>2 DEF With
    <3>5. InTouched(was'[o][i].side, i) \/ (i \in DOMAIN snaps[o].held /\ snaps[o].held[i] = was'[o][i])
      <4> DEFINE side == runs[p].plan[i].side
      <4>1. Held(p, i) = tree[side][i] /\ was'[o][i] = Saved(side, tree[side][i])
        BY <3>3, <3>4 DEF Held
      <4>2. was'[o][i].side = side
        BY <4>1 DEF Saved
      <4>3. InTouched(side, i) \/ (i \in DOMAIN snaps[o].held /\ snaps[o].held[i] = Saved(side, tree[side][i]))
        BY <3>1, <3>3, <4>1 DEF HeldFor
      <4>4. QED
        BY <4>1, <4>2, <4>3
    <3>6. QED
      BY <1>0, <1>1, <2>2, <2>3, <3>4, <3>5 DEF StaysKept, InTouched
  <2>6. QED
    BY <2>4, <2>5, WasMoves
<1>2. CASE journals[o] \notin InCommit
  <2>1. PICK p \in Programs : EnterCommit(p) /\ Op(p) = o /\ journals[o] = "PREPARED"
    BY <1>2, JournalsMove DEF JournalMoves, InCommit, Terminal
  <2>2. was'[o] = Empty /\ snaps[o].manifest = Missing
    BY <1>0, <2>1 DEF Fresh, EnterCommit
  <2>3. CASE Exists(o)
    <3>1. snaps' = [snaps EXCEPT ![o].manifest = snaps[o].held]
      BY <2>1, <2>3 DEF EnterCommit
    <3>2. SnapBecomes(o, snaps[o].held, snaps[o].held)
      BY <1>0, <3>1, ManifestPut DEF BackupShapes
    <3>3. snaps'[o].manifest = snaps'[o].held
      BY <3>2 DEF SnapBecomes
    <3>4. QED
      BY <2>2, <3>3, EmptyIsList DEF StaysKept
  <2>4. CASE ~Exists(o)
    <3>1. snaps' = snaps
      BY <2>1, <2>4 DEF EnterCommit
    <3>2. QED
      BY <2>2, <2>4, <3>1, EmptyIsList DEF StaysKept, Exists
  <2>5. QED
    BY <2>3, <2>4
<1>3. QED
  BY <1>1, <1>2

\* What a run has not replaced yet stays backed up.
LEMMA StillHeld ==
    ASSUME NEW o, NEW i, NEW side, HeldFor(o, i, side), touched \subseteq touched', snaps'[o].held = snaps[o].held,
           tree'[side][i] = tree[side][i] \/ InTouched(side, i)'
    PROVE  HeldFor(o, i, side)'
  BY DEF HeldFor, InTouched, Saved

\* What a run has backed up and replaced stays so, but for what others change.
LEMMA ProgressKept == BackupsInv /\ BackupsNext => AllProgress'
<1> SUFFICES ASSUME BackupsInv, BackupsNext, NEW p \in Programs, runs'[p] # Missing PROVE Progress(p)'
  BY DEF AllProgress
<1>0. BackupShapes /\ runs = [q \in Programs |-> runs[q]] /\ (runs[p] # Missing => Progress(p)) /\ TreeShape
  BY DEF BackupsInv, BackupShapes, RunsShape, AllProgress, RestShape
<1>1. CASE runs'[p].pc \notin {"backup", "replace"}
  BY <1>1 DEF Progress
<1>2. CASE Operate(p) /\ runs'[p].pc \in {"backup", "replace"}
  <2>1. CASE Stage(p)
    BY <1>0, <2>1, Advances DEF Steps, Progress
  <2>2. ASSUME NEW i \in Items, BackUp(p, i) PROVE Progress(p)'
    <3>0. PICK op, plan : op = runs[p].op /\ plan = runs[p].plan
      OBVIOUS
    <3>1. Steps(p, runs[p].pc, op, runs[p].todo \ {i}, runs[p].stale) /\ runs[p].pc = "backup" /\ runs[p] # Missing
      BY <1>0, <2>2, <3>0, Advances DEF BackUp, On
    <3>2. runs'[p].pc = "backup" /\ runs'[p].op = op /\ runs'[p].plan = plan /\ runs'[p].todo = runs[p].todo \ {i}
      BY <3>0, <3>1 DEF Steps
    <3>3. UNCHANGED <<tree, touched>> /\ op \in Snapshots /\ i \in runs[p].todo
      BY <2>2, <3>0, <3>1, Workers, Ids DEF BackUp, Working, Op
    <3>4. \/ Held(p, i) = Missing /\ snaps' = snaps
          \/ SnapBecomes(op, With(snaps[op].held, i, Recorded(p, i)), snaps[op].manifest)
      <4>1. CASE Held(p, i) = Missing
        BY <2>2, <4>1 DEF BackUp
      <4>2. CASE Held(p, i) # Missing
        <5>1. snaps' = [snaps EXCEPT ![op].held = With(snaps[op].held, i, Recorded(p, i))]
          BY <1>0, <2>2, <3>0, <3>3, <4>2 DEF BackUp, Op, BackupShapes, SnapsShape
        <5>2. QED
          BY <1>0, <3>3, <5>1, HeldPut DEF BackupShapes
      <4>3. QED
        BY <4>1, <4>2
    <3>5. ASSUME NEW j \in DOMAIN plan \ (runs[p].todo \ {i}) PROVE HeldFor(op, j, plan[j].side)'
      <4>0. PICK side : side = plan[j].side
        OBVIOUS
      <4>1. CASE j # i
        <5>1. HeldFor(op, j, side)
          BY <1>0, <3>0, <3>1, <3>5, <4>0, <4>1 DEF Progress
        <5>2. j \in DOMAIN snaps[op].held => j \in DOMAIN snaps'[op].held /\ snaps'[op].held[j] = snaps[op].held[j]
          BY <3>4, <4>1 DEF SnapBecomes, With
        <5>3. QED
          BY <3>3, <4>0, <5>1, <5>2 DEF HeldFor, InTouched, Saved
      <4>2. CASE j = i
        <5>1. Held(p, i) = tree[side][i] /\ Recorded(p, i) = Saved(side, tree[side][i])
          BY <3>0, <4>0, <4>2 DEF Held, Recorded
        <5>2. CASE Held(p, i) = Missing
          BY <3>3, <4>0, <4>2, <5>1, <5>2 DEF HeldFor
        <5>3. CASE Held(p, i) # Missing
          <6>1. snaps'[op].held = With(snaps[op].held, i, Recorded(p, i))
            BY <3>4, <5>3 DEF SnapBecomes
          <6>2. i \in DOMAIN snaps'[op].held /\ snaps'[op].held[i] = Saved(side, tree[side][i])
            BY <5>1, <6>1 DEF With
          <6>3. QED
            BY <3>3, <4>0, <4>2, <6>2 DEF HeldFor, Saved
        <5>4. QED
          BY <5>2, <5>3
      <4>3. QED
        BY <4>1, <4>2
    <3>6. QED
      BY <3>2, <3>5 DEF Progress
  <2>3. CASE EnterCommit(p)
    <3>0. PICK op, plan : op = runs[p].op /\ plan = runs[p].plan
      OBVIOUS
    <3>1. Steps(p, "replace", op, DOMAIN plan, runs[p].stale) /\ runs[p].pc = "backup" /\ runs[p] # Missing /\ runs[p].todo = {}
      BY <1>0, <2>3, <3>0, Advances DEF EnterCommit, On
    <3>2. runs'[p].pc = "replace" /\ runs'[p].op = op /\ runs'[p].plan = plan /\ runs'[p].todo = DOMAIN plan
      BY <3>0, <3>1 DEF Steps
    <3>3. UNCHANGED <<tree, touched>> /\ \A j \in DOMAIN plan : HeldFor(op, j, plan[j].side)
      BY <1>0, <2>3, <3>0, <3>1 DEF EnterCommit, Progress
    <3>4. snaps'[op].held = snaps[op].held
      <4>1. snaps' # snaps => SnapBecomes(op, snaps[op].held, snaps[op].held)
        BY <1>0, <2>3, <3>0, SnapsOfCommit DEF Op
      <4>2. QED
        BY <4>1 DEF SnapBecomes
    <3>5. \A j \in DOMAIN plan : HeldFor(op, j, plan[j].side)'
      <4>1. ASSUME NEW j \in DOMAIN plan, NEW side, HeldFor(op, j, side) PROVE HeldFor(op, j, side)'
        BY <3>3, <3>4, <4>1, StillHeld
      <4>2. QED
        BY <3>3, <4>1
    <3>6. QED
      BY <3>2, <3>5 DEF Progress
  <2>4. ASSUME NEW i \in Items, Put(p, i) PROVE Progress(p)'
    <3>0. PICK op, plan : op = runs[p].op /\ plan = runs[p].plan
      OBVIOUS
    <3>1. Steps(p, runs[p].pc, op, runs[p].todo \ {i}, runs[p].stale) /\ runs[p].pc = "replace" /\ runs[p] # Missing
      BY <1>0, <2>4, <3>0, Advances DEF Put, On
    <3>2. runs'[p].pc = "replace" /\ runs'[p].op = op /\ runs'[p].plan = plan /\ runs'[p].todo = runs[p].todo \ {i}
      BY <3>0, <3>1 DEF Steps
    <3>3. /\ UNCHANGED <<snaps, touched>> /\ i \in runs[p].todo /\ plan[i].side \in Sides /\ i \in Items
          /\ tree' = [tree EXCEPT ![plan[i].side][i] = plan[i].content]
      BY <1>0, <2>4, <3>0, <3>1, RecordedSaved DEF Put
    <3>4. tree'[plan[i].side][i] = plan[i].content /\ \A side, j : j # i => tree'[side][j] = tree[side][j]
      BY <1>0, <3>3 DEF TreeShape
    <3>5. ASSUME NEW j \in runs[p].todo \ {i} PROVE HeldFor(op, j, plan[j].side)'
      <4>1. PICK side : side = plan[j].side
        OBVIOUS
      <4>2. HeldFor(op, j, side)
        BY <1>0, <3>0, <3>1, <3>5, <4>1 DEF Progress
      <4>3. HeldFor(op, j, side)'
        BY <3>3, <3>4, <3>5, <4>2, StillHeld
      <4>4. QED
        BY <4>1, <4>3
    <3>6. ASSUME NEW j \in DOMAIN plan \ (runs[p].todo \ {i}) PROVE InTouched(plan[j].side, j) \/ tree'[plan[j].side][j] = plan[j].content
      BY <1>0, <3>0, <3>1, <3>4, <3>6 DEF Progress
    <3>7. QED
      BY <3>2, <3>3, <3>5, <3>6 DEF Progress, InTouched
  <2>5. ASSUME NEW s, RemovePayload(p, s) \/ RemoveManifest(p, s) PROVE FALSE
    <3>1. runs[p] # Missing /\ runs[p].pc = "remove"
      BY <2>5 DEF RemovePayload, RemoveManifest, On
    <3>2. CASE RemovePayload(p, s)
      <4>1. runs'[p] = runs[p] \/ runs'[p] = [runs[p] EXCEPT !.hurt = TRUE]
        BY <3>2 DEF RemovePayload, Hurting
      <4>2. QED
        BY <1>0, <1>2, <3>1, <4>1, HurtIs
    <3>3. CASE RemoveManifest(p, s)
      <4>1. Steps(p, runs[p].pc, runs[p].op, runs[p].todo, runs[p].stale \ {s})
        BY <1>0, <3>3, Advances
      <4>2. QED
        BY <1>2, <3>1, <4>1 DEF Steps
    <3>4. QED
      BY <2>5, <3>2, <3>3
  <2>6. ASSUME OpenOperation(p) \/ LockBusy(p) \/ Commit(p) \/ PickStale(p) \/ EndRun(p) \/ RunFails(p) \/ KillRun(p) PROVE FALSE
    <3>1. Leaves(p) \/ runs'[p].pc \in {"stage", "prune", "remove"}
      BY <1>0, <2>6, Advances DEF LockBusy, EndRun, RunFails, KillRun, Steps
    <3>2. QED
      BY <1>0, <1>2, <3>1 DEF Leaves
  <2>7. QED
    BY <1>2, <2>1, <2>2, <2>3, <2>4, <2>5, <2>6 DEF Operate
<1>3. CASE ~Operate(p) /\ runs'[p].pc \in {"backup", "replace"}
  <2>1. runs[p] # Missing /\ runs[p].pc \in Working
    <3>1. ~(p = "person" /\ PlanRestore)
      BY <1>0, <1>3, PlanIs
    <3>2. ~(p = "person" /\ CloseAndUndo)
      BY <1>0, <1>3, Advances DEF Steps
    <3>3. ~(p = "person" /\ \E s \in Snapshots, side \in Sides : ChooseSnapshot(s, side))
      BY <1>0, <1>3, ChosenIs
    <3>4. ~(p = "person" /\ \E o \in Mine : AskRollBack(o))
      BY <1>0, <1>3, UndoingIs
    <3>5. ~\E plan : runs'[p] = Run("open", plan)
      BY <1>3, RunIs
    <3>6. runs'[p].pc = runs[p].pc /\ runs[p] # Missing
      BY <1>0, <1>3, <3>1, <3>2, <3>3, <3>4, <3>5, OthersMove, HurtIs
    <3>7. QED
      BY <1>3, <3>6 DEF Working
  <2>2. /\ runs'[p] = runs[p] /\ touched \subseteq touched' /\ (snaps' = snaps \/ PeerArrives) /\ Op(p) \in Mine
        /\ UNCHANGED tree \/ \E side \in Sides, i \in Items : EditItem(side, i)
    BY <1>3, <2>1, Workers, OthersWait
  <2>3. snaps'[runs[p].op] = snaps[runs[p].op]
    BY <1>0, <2>2, Ids, SnapsOfPeer DEF SnapBecomes, Op
  <2>4. \A side \in Sides, i \in Items : tree'[side][i] = tree[side][i] \/ InTouched(side, i)'
    BY <1>0, <2>2 DEF EditItem, TreeShape, InTouched
  <2>5. IsList(runs[p].plan) /\ runs[p].todo \subseteq DOMAIN runs[p].plan
    BY <1>0, <2>1 DEF BackupShapes, RunsShape, RunShape, ShapedRun
  <2>6. \A i \in DOMAIN runs[p].plan : i \in Items /\ runs[p].plan[i].side \in Sides
    BY <2>5 DEF IsList, SavedFiles
  <2>7. ASSUME NEW op, op = runs[p].op, NEW i \in Items, NEW side \in Sides, HeldFor(op, i, side) PROVE HeldFor(op, i, side)'
    BY <2>2, <2>3, <2>4, <2>7, StillHeld
  <2>8. ASSUME NEW i \in Items, NEW side \in Sides, NEW value, InTouched(side, i) \/ tree[side][i] = value
        PROVE  InTouched(side, i)' \/ tree'[side][i] = value
    BY <2>2, <2>4, <2>8 DEF InTouched
  <2>9. PICK op, plan, todo : op = runs[p].op /\ plan = runs[p].plan /\ todo = runs[p].todo
    OBVIOUS
  <2>10. runs'[p].op = op /\ runs'[p].plan = plan /\ runs'[p].todo = todo /\ runs'[p].pc = runs[p].pc
    BY <2>2, <2>9
  <2>11. ASSUME runs[p].pc = "backup", NEW i \in DOMAIN plan \ todo PROVE HeldFor(op, i, plan[i].side)'
    <3>1. i \in Items /\ plan[i].side \in Sides /\ HeldFor(op, i, plan[i].side)
      BY <1>0, <2>1, <2>6, <2>9, <2>11 DEF Progress
    <3>2. QED
      BY <2>7, <2>9, <3>1
  <2>12. ASSUME runs[p].pc = "replace", NEW i \in todo PROVE HeldFor(op, i, plan[i].side)'
    <3>1. i \in Items /\ plan[i].side \in Sides /\ HeldFor(op, i, plan[i].side)
      BY <1>0, <2>1, <2>5, <2>6, <2>9, <2>12 DEF Progress
    <3>2. QED
      BY <2>7, <2>9, <3>1
  <2>13. ASSUME runs[p].pc = "replace", NEW i \in DOMAIN plan \ todo PROVE InTouched(plan[i].side, i)' \/ tree'[plan[i].side][i] = plan[i].content
    <3>1. i \in Items /\ plan[i].side \in Sides /\ (InTouched(plan[i].side, i) \/ tree[plan[i].side][i] = plan[i].content)
      BY <1>0, <2>1, <2>6, <2>9, <2>13 DEF Progress
    <3>2. QED
      BY <2>8, <3>1
  <2>14. QED
    BY <2>10, <2>11, <2>12, <2>13 DEF Progress
<1>4. QED
  BY <1>1, <1>2, <1>3

-----------------------------------------------------------------------------
(* What a person puts back. *)

\* A folder of another machine is only completed.
LEMMA PeerMoves ==
    ASSUME BackupsInv, BackupsNext
    PROVE  \/ snaps'[PeerSnapshot].held = snaps[PeerSnapshot].held
           \/ \E i \in DOMAIN PeerSaved : i \notin DOMAIN snaps[PeerSnapshot].held
<1>0. BackupShapes
  BY DEF BackupsInv
<1>1. ASSUME NEW s \in Mine, NEW held, NEW manifest, SnapBecomes(s, held, manifest) PROVE snaps'[PeerSnapshot] = snaps[PeerSnapshot]
  BY <1>1, Ids DEF SnapBecomes
<1>2. ASSUME NEW p \in Programs, (\E i \in Items : BackUp(p, i)) \/ EnterCommit(p) PROVE Op(p) \in Mine
  BY <1>2, Workers DEF BackUp, EnterCommit, On, Working
<1>3. CASE PeerArrives
  <2>1. SnapBecomes(PeerSnapshot, snaps[PeerSnapshot].held, PeerSaved) => snaps'[PeerSnapshot].held = snaps[PeerSnapshot].held
    BY DEF SnapBecomes
  <2>2. QED
    BY <1>0, <1>3, <2>1, SnapsOfPeer
<1>4. QED
  BY <1>0, <1>1, <1>2, <1>3, SnapsChange, SnapsOfBackUp, SnapsOfCommit, SnapsOfRemoval, SnapsOfForgetting

\* A restore that goes on keeps the snapshot it goes by, unless that was pruned.
LEMMA SourceStill ==
    ASSUME BackupsInv, BackupsNext, NEW old, old = runs["person"], old # Missing, NEW new, new = runs'["person"],
           new.from = old.from, new.listed = old.listed, new.plan = old.plan, (new.pc = "plan") <=> (old.pc = "plan"),
           old.hurt => new.hurt
    PROVE  Source(new)'
<1>1. Source(old)
  BY DEF BackupsInv, PersonRun
<1>2. ASSUME new.listed # Missing, new.from \in Mine PROVE journals'[new.from] \notin {Missing, "PREPARED"}
  BY <1>1, <1>2, JournalsLast DEF Source
<1>3. ASSUME new.listed # Missing, new.pc = "plan", ~new.hurt PROVE snaps'[new.from].held = new.listed
  <2>1. snaps[new.from].held = new.listed /\ new.from \in Mine \cup {PeerSnapshot}
    BY <1>1, <1>3 DEF Source
  <2>2. CASE new.from \in Mine
    <3>1. journals[new.from] # "PREPARED"
      BY <1>1, <1>3, <2>2 DEF Source
    <3>2. runs' # Hurting(new.from)
      <4>1. ASSUME runs' = Hurting(new.from) PROVE new = [old EXCEPT !.hurt = TRUE]
        BY <4>1 DEF Hurting, Programs
      <4>2. ASSUME new = [old EXCEPT !.hurt = TRUE] PROVE new.hurt
        BY <4>2, HurtIs DEF BackupsInv, Programs
      <4>3. QED
        BY <1>3, <4>1, <4>2
    <3>3. QED
      BY <2>1, <2>2, <3>1, <3>2, SnapsMove DEF SnapMoves
  <2>3. CASE new.from = PeerSnapshot
    <3>1. new.listed = PeerSaved
      BY <1>1, <1>3, <2>3 DEF Source
    <3>2. QED
      BY <2>1, <2>3, <3>1, PeerMoves
  <2>4. QED
    BY <2>1, <2>2, <2>3
<1>4. QED
  BY <1>1, <1>2, <1>3 DEF Source

\* A rollback that goes on has in its plan all that its operation replaced.
LEMMA UndoingKept ==
    ASSUME BackupsInv, BackupsNext, NEW old, old = runs["person"], old # Missing, NEW new, new = runs'["person"],
           new.undoes = old.undoes, new.plan = old.plan, new.pc # "plan", new.undoes # Missing
    PROVE  /\ new.undoes \in Mine
           /\ (\A i \in DOMAIN was[new.undoes] :
                 InTouched(was[new.undoes][i].side, i) \/ (i \in DOMAIN new.plan /\ new.plan[i] = was[new.undoes][i]))'
<1>1. Undoes(old) /\ BackupShapes
  BY DEF BackupsInv, PersonRun
<1>2. PICK o \in Mine : o = new.undoes /\ o = old.undoes
  BY <1>1 DEF Undoes
<1>3. touched \subseteq touched' /\ was'[o] = was[o]
  <2>1. CASE old.pc = "close"
    <3>1. journals[o] \in InCommit /\ Over(o) /\ o \in Begun
      BY <1>1, <1>2, <2>1, BackupTypes DEF Undoes, InCommit, Begun, JournalStates
    <3>2. QED
      BY <1>1, <3>1, TouchedGrows, WasMoves DEF Over, Put, On, Op
  <2>2. CASE old.pc # "close"
    <3>1. journals[o] \in Terminal /\ holder = "person"
      BY <1>1, <1>2, <2>2 DEF Undoes
    <3>2. \A p \in Programs : OpenOperation(p) => p = "person"
      BY <3>1, BackupTypes DEF OpenOperation, Programs
    <3>3. QED
      BY <1>1, <1>2, <3>1, <3>2, TouchedGrows, WasMoves DEF Terminal
  <2>3. QED
    BY <2>1, <2>2
<1>5. \A i \in DOMAIN was[o] : InTouched(was[o][i].side, i) \/ (i \in DOMAIN new.plan /\ new.plan[i] = was[o][i])
  BY <1>1, <1>2 DEF Undoes
<1>6. QED
  BY <1>2, <1>3, <1>5 DEF InTouched

\* An operation whose run is over is not run again.
LEMMA OpMoves ==
    ASSUME BackupsInv, BackupsNext, NEW p \in Programs, runs'[p] # Missing
    PROVE  \/ runs'[p].op = 0
           \/ runs[p] # Missing /\ runs'[p].op = runs[p].op
           \/ OpenOperation(p) /\ runs'[p].op = Cardinality(Begun) + 1 /\ holder' = p
<1>0. BackupShapes /\ runs = [q \in Programs |-> runs[q]]
  BY DEF BackupsInv, BackupShapes, RunsShape
<1>1. CASE Operate(p)
  <2>1. ~Leaves(p)
    BY <1>0 DEF Leaves
  <2>2. CASE OpenOperation(p)
    BY <1>0, <2>1, <2>2, Opens DEF Steps
  <2>3. CASE Stage(p) \/ EnterCommit(p) \/ Commit(p) \/ PickStale(p)
    BY <1>0, <2>3, Advances DEF Steps
  <2>4. ASSUME NEW i, BackUp(p, i) \/ Put(p, i) PROVE runs[p] # Missing /\ runs'[p].op = runs[p].op
    <3>1. Steps(p, runs[p].pc, runs[p].op, runs[p].todo \ {i}, runs[p].stale)
      BY <1>0, <2>4, Advances
    <3>2. QED
      BY <3>1 DEF Steps
  <2>5. ASSUME NEW s, RemoveManifest(p, s) PROVE runs[p] # Missing /\ runs'[p].op = runs[p].op
    <3>1. Steps(p, runs[p].pc, runs[p].op, runs[p].todo, runs[p].stale \ {s})
      BY <1>0, <2>5, Advances
    <3>2. QED
      BY <3>1 DEF Steps
  <2>6. ASSUME NEW s, RemovePayload(p, s) PROVE runs[p] # Missing /\ runs'[p].op = runs[p].op
    <3>1. runs[p] # Missing /\ (runs'[p] = runs[p] \/ runs'[p] = [runs[p] EXCEPT !.hurt = TRUE])
      BY <2>6 DEF RemovePayload, Hurting, On
    <3>2. QED
      BY <1>0, <3>1, HurtIs
  <2>7. LockBusy(p) \/ EndRun(p) \/ RunFails(p) \/ KillRun(p) => Leaves(p)
    BY DEF LockBusy, EndRun, RunFails, KillRun
  <2>8. QED
    BY <1>1, <2>1, <2>2, <2>3, <2>4, <2>5, <2>6, <2>7 DEF Operate
<1>2. CASE ~Operate(p)
  <2>1. ASSUME NEW plan, runs'[p] = Run("open", plan) PROVE runs'[p].op = 0
    BY <2>1, RunIs
  <2>2. p = "person" /\ PlanRestore => runs[p] # Missing /\ runs'[p].op = runs[p].op
    BY <1>0, PlanIs
  <2>3. p = "person" /\ CloseAndUndo => runs[p] # Missing /\ runs'[p].op = runs[p].op
    BY <1>0, Advances DEF Steps
  <2>4. p = "person" /\ (\E s \in Snapshots, side \in Sides : ChooseSnapshot(s, side)) => runs'[p].op = 0
    BY <1>0, ChosenIs
  <2>5. p = "person" /\ (\E o \in Mine : AskRollBack(o)) => runs'[p].op = 0
    BY <1>0, UndoingIs
  <2>6. runs[p] # Missing /\ runs'[p] = [runs[p] EXCEPT !.hurt = TRUE] => runs'[p].op = runs[p].op
    BY <1>0, HurtIs
  <2>7. runs'[p] = runs[p] => runs[p] # Missing /\ runs'[p].op = runs[p].op
    OBVIOUS
  <2>8. \/ runs'[p].op = 0
        \/ runs[p] # Missing /\ runs'[p].op = runs[p].op
    <3>1. CASE runs'[p] = runs[p]
      BY <2>7, <3>1
    <3>2. CASE runs[p] # Missing /\ runs'[p] = [runs[p] EXCEPT !.hurt = TRUE]
      BY <2>6, <3>2
    <3>3. CASE \E plan : runs'[p] = Run("open", plan)
      BY <2>1, <3>3
    <3>4. CASE p = "person" /\ (PlanRestore \/ CloseAndUndo)
      BY <2>2, <2>3, <3>4
    <3>5. CASE p = "person" /\ ((\E s \in Snapshots, side \in Sides : ChooseSnapshot(s, side)) \/ (\E o \in Mine : AskRollBack(o)))
      BY <2>4, <2>5, <3>5
    <3>6. QED
      BY <1>0, <1>2, <3>1, <3>2, <3>3, <3>4, <3>5, OthersMove
  <2>9. QED
    BY <2>8
<1>3. QED
  BY <1>1, <1>2

\* An operation whose run is over stays over.
LEMMA OverStays ==
    ASSUME BackupsInv, BackupsNext, NEW o \in Mine, Over(o), journals[o] # Missing
    PROVE  Over(o)'
<1> SUFFICES ASSUME NEW p \in Programs, runs'[p] # Missing PROVE runs'[p].op # o
  BY DEF Over
<1>1. OpenOperation(p) => Cardinality(Begun) + 1 # o
  BY NextNumber DEF OpenOperation, BackupsInv
<1>2. QED
  BY <1>1, OpMoves, Ids DEF Over

\* Every step keeps what is known of the person's restore or rollback.
LEMMA PersonKept == BackupsInv /\ BackupsNext => PersonRun'
<1> SUFFICES ASSUME BackupsInv, BackupsNext, runs'["person"] # Missing
             PROVE  (Source(runs["person"]) /\ Undoes(runs["person"]) /\ (runs["person"].pc = "close" => runs["person"].undoes # Missing))'
  BY DEF PersonRun
<1>0. BackupShapes /\ "person" \in Programs
  BY DEF BackupsInv, Programs
<1>1. PICK old, new : old = runs["person"] /\ new = runs'["person"]
  OBVIOUS
<1>2. old # Missing => Source(old) /\ Undoes(old) /\ (old.pc = "close" => old.undoes # Missing)
  BY <1>1 DEF BackupsInv, PersonRun
<1> SUFFICES Source(new)' /\ Undoes(new)' /\ (new.pc = "close" => new.undoes # Missing)
  BY <1>1 DEF Source, Undoes
<1>3. CASE Operate("person")
  <2>1. /\ old # Missing /\ old.pc \in Working \cup {"open"} /\ new.pc \in Working \cup {"open"}
        /\ new.from = old.from /\ new.listed = old.listed /\ new.plan = old.plan /\ new.undoes = old.undoes /\ (old.hurt => new.hurt)
        /\ (holder = "person" => holder' = "person")
    <3>1. old # Missing /\ RunRecord(old) /\ ~Leaves("person") /\ "person" # Missing
      BY <1>0, <1>1, <1>3, BackupTypes DEF Operate, OpenOperation, LockBusy, Stage, BackUp, Put, EnterCommit, Commit, PickStale, EndRun, RunFails, KillRun,
         RemovePayload, RemoveManifest, On, Leaves, BackupShapes, RunsShape, RunShape, ShapedRun
    <3> DEFINE Goal == /\ old.pc \in Working \cup {"open"} /\ new.pc \in Working \cup {"open"}
                       /\ new.from = old.from /\ new.listed = old.listed /\ new.plan = old.plan /\ new.undoes = old.undoes /\ (old.hurt => new.hurt)
                       /\ (holder = "person" => holder' = "person")
    <3>2. ASSUME NEW pc \in Working, NEW op, NEW todo, NEW stale, Steps("person", pc, op, todo, stale),
                 old.pc \in Working \cup {"open"}, holder = "person" => holder' = "person"
          PROVE  Goal
      BY <1>1, <3>2 DEF Steps
    <3>3. LockBusy("person") \/ EndRun("person") \/ RunFails("person") \/ KillRun("person") => FALSE
      BY <3>1 DEF LockBusy, EndRun, RunFails, KillRun
    <3> SUFFICES Goal
      BY <3>1
    <3> HIDE DEF Goal
    <3>4. CASE OpenOperation("person")
      <4>1. Steps("person", "stage", Cardinality(Begun) + 1, runs["person"].todo, runs["person"].stale) /\ holder' = "person"
        BY <1>0, <3>1, <3>4, Opens
      <4>2. "stage" \in Working /\ old.pc = "open"
        BY <1>1, <3>4 DEF Working, OpenOperation, On
      <4>3. QED
        BY <3>2, <4>1, <4>2
    <3>5. CASE Stage("person")
      <4>1. Steps("person", "backup", runs["person"].op, DOMAIN runs["person"].plan, runs["person"].stale)
        BY <1>0, <3>5, Advances
      <4>2. "backup" \in Working /\ old.pc \in Working /\ UNCHANGED holder
        BY <1>1, <3>5 DEF Working, Stage, On
      <4>3. QED
        BY <3>2, <4>1, <4>2
    <3>6. CASE EnterCommit("person")
      <4>1. Steps("person", "replace", runs["person"].op, DOMAIN runs["person"].plan, runs["person"].stale)
        BY <1>0, <3>6, Advances
      <4>2. "replace" \in Working /\ old.pc \in Working /\ UNCHANGED holder
        BY <1>1, <3>6 DEF Working, EnterCommit, On
      <4>3. QED
        BY <3>2, <4>1, <4>2
    <3>7. CASE Commit("person")
      <4>1. Steps("person", "prune", runs["person"].op, runs["person"].todo, runs["person"].stale)
        BY <1>0, <3>7, Advances
      <4>2. "prune" \in Working /\ old.pc \in Working /\ UNCHANGED holder
        BY <1>1, <3>7 DEF Working, Commit, On
      <4>3. QED
        BY <3>2, <4>1, <4>2
    <3>8. CASE PickStale("person")
      <4>1. PICK cutoff : Steps("person", "remove", runs["person"].op, runs["person"].todo, PruneList(cutoff))
        BY <1>0, <3>8, Advances
      <4>2. "remove" \in Working /\ old.pc \in Working /\ UNCHANGED holder
        BY <1>1, <3>8 DEF Working, PickStale, On
      <4>3. QED
        BY <3>2, <4>1, <4>2
    <3>9. ASSUME NEW i \in Items, BackUp("person", i) \/ Put("person", i) PROVE Goal
      <4>1. Steps("person", runs["person"].pc, runs["person"].op, runs["person"].todo \ {i}, runs["person"].stale)
        BY <1>0, <3>9, Advances
      <4>2. runs["person"].pc \in Working /\ old.pc \in Working /\ UNCHANGED holder
        BY <1>1, <3>9 DEF Working, BackUp, Put, On
      <4>3. QED
        BY <3>2, <4>1, <4>2
    <3>10. ASSUME NEW s \in Mine, RemoveManifest("person", s) PROVE Goal
      <4>1. Steps("person", runs["person"].pc, runs["person"].op, runs["person"].todo, runs["person"].stale \ {s})
        BY <1>0, <3>10, Advances
      <4>2. runs["person"].pc \in Working /\ old.pc \in Working /\ UNCHANGED holder
        BY <1>1, <3>10 DEF Working, RemoveManifest, On
      <4>3. QED
        BY <3>2, <4>1, <4>2
    <3>11. ASSUME NEW s \in Mine, RemovePayload("person", s) PROVE Goal
      <4>1. (new = old \/ new = [old EXCEPT !.hurt = TRUE]) /\ UNCHANGED holder /\ old.pc \in Working
        BY <1>0, <1>1, <3>11 DEF RemovePayload, Hurting, On, Working
      <4>2. new = [old EXCEPT !.hurt = TRUE] => /\ new.pc = old.pc /\ new.from = old.from /\ new.listed = old.listed /\ new.plan = old.plan
                                                /\ new.undoes = old.undoes /\ new.hurt
        BY <1>0, <1>1, <3>1, HurtIs
      <4>3. QED
        BY <4>1, <4>2 DEF Goal
    <3>12. QED
      BY <1>3, <3>1, <3>3, <3>4, <3>5, <3>6, <3>7, <3>8, <3>9, <3>10, <3>11 DEF Operate
  <2>2. Source(new)'
    BY <1>1, <2>1, SourceStill DEF Working
  <2>3. ASSUME new.undoes # Missing PROVE Undoes(new)'
    <3>1. PICK o \in Mine : o = old.undoes /\ journals[o] \in Terminal /\ holder = "person" /\ o # old.op
      BY <1>2, <2>1, <2>3 DEF Undoes, Working
    <3>2. journals'[o] \in Terminal
      BY <3>1, JournalsLast
    <3>3. o # new.op
      <4>1. OpenOperation("person") => Cardinality(Begun) + 1 # o
        BY <3>1, NextNumber, BackupTypes DEF OpenOperation, BackupsInv, Terminal, JournalStates
      <4>2. QED
        BY <1>0, <1>1, <3>1, <4>1, OpMoves, Ids
    <3>4. QED
      BY <1>1, <2>1, <2>3, <3>1, <3>2, <3>3, UndoingKept DEF Undoes, Working
  <2>4. QED
    BY <2>1, <2>2, <2>3 DEF Undoes, Working
<1>4. CASE PlanRestore
  <2>1. PICK held : held = snaps[old.from].held
    OBVIOUS
  <2>2. /\ old # Missing /\ old.pc = "plan" /\ new.pc = "open" /\ new.plan = [i \in DOMAIN held |-> Saved(old.side, held[i].content)]
        /\ new.from = old.from /\ new.listed = old.listed /\ new.hurt = old.hurt /\ new.undoes = old.undoes
    BY <1>0, <1>1, <1>4, <2>1, PlanIs
  <2>3. old.undoes = Missing
    BY <1>2, <2>2 DEF Undoes
  <2>4. Contents(new.plan) = Contents(held)
    BY <2>2 DEF Contents, Saved
  <2>5. old.listed # Missing /\ ~old.hurt => held = old.listed
    BY <1>2, <2>1, <2>2 DEF Source
  <2>6. journals' = journals
    BY <1>4 DEF PlanRestore
  <2>7. Source(new)'
    BY <1>2, <2>2, <2>4, <2>5, <2>6 DEF Source
  <2>8. QED
    BY <2>2, <2>3, <2>7 DEF Undoes
<1>5. CASE CloseAndUndo
  <2>1. /\ old # Missing /\ old.pc = "close" /\ new.pc = "open" /\ new.plan = old.plan /\ new.op = old.op
        /\ new.from = old.from /\ new.listed = old.listed /\ new.hurt = old.hurt /\ new.undoes = old.undoes
    BY <1>0, <1>1, <1>5, Advances DEF Steps, CloseAndUndo, On
  <2>2. Source(new)'
    BY <1>1, <2>1, SourceStill
  <2>3. PICK o \in Mine : o = new.undoes /\ o # new.op /\ new.undoes # Missing
    BY <1>2, <2>1 DEF Undoes
  <2>4. journals'[o] \in Terminal /\ holder' = "person"
    BY <1>0, <1>1, <1>5, <2>1, <2>3 DEF CloseAndUndo, Journal, Terminal, BackupShapes, RestShape
  <2>5. QED
    BY <1>1, <2>1, <2>2, <2>3, <2>4, UndoingKept DEF Undoes
<1>6. ASSUME NEW s \in Snapshots, NEW side \in Sides, ChooseSnapshot(s, side) PROVE Source(new)' /\ Undoes(new)' /\ (new.pc = "close" => new.undoes # Missing)
  <2>1. new.pc = "plan" /\ new.from = s /\ new.listed = snaps[s].manifest /\ new.undoes = Missing
    BY <1>0, <1>1, <1>6, ChosenIs
  <2>2. UNCHANGED <<snaps, journals>> /\ (HasManifest(s) => snaps[s].held = snaps[s].manifest)
    BY <1>6 DEF ChooseSnapshot, Verified, Matches
  <2>3. CASE snaps[s].manifest # Missing
    <3>1. s \in Mine => journals[s] \notin {Missing, "PREPARED"}
      BY <2>3 DEF BackupsInv, FreshOnes, Fresh
    <3>2. s # OldSnapshot /\ (s = PeerSnapshot => snaps[s].manifest = PeerSaved)
      BY <2>3 DEF BackupsInv, SnapshotsOfOthers
    <3>3. s \in Mine \cup {PeerSnapshot}
      BY <3>2 DEF Snapshots
    <3>4. snaps[s].held = snaps[s].manifest
      BY <2>2, <2>3 DEF HasManifest
    <3>5. QED
      BY <2>1, <2>2, <3>1, <3>2, <3>3, <3>4 DEF Source, Undoes
  <2>4. QED
    BY <2>1, <2>3 DEF Source, Undoes
<1>7. ASSUME NEW o \in Mine, AskRollBack(o) PROVE Source(new)' /\ Undoes(new)' /\ (new.pc = "close" => new.undoes # Missing)
  <2>1. /\ new.pc = "close" /\ new.op = 0 /\ new.from = o /\ new.listed = snaps[o].manifest /\ new.undoes = o
        /\ new.plan = snaps[o].held /\ old = Missing
    BY <1>0, <1>1, <1>7, UndoingIs
  <2>2. o # Missing /\ journals[o] \in InCommit /\ Over(o)
    <3>1. journals[o] \in InCommit /\ Over(o)
      BY <1>7 DEF AskRollBack, Stopped, NothingReplaced
    <3>2. o # Missing
      BY BackupTypes DEF Snapshots
    <3>3. QED
      BY <3>1, <3>2
  <2>3. UNCHANGED <<snaps, journals, was, touched>> /\ HasManifest(o) /\ snaps[o].held = snaps[o].manifest
    BY <1>7 DEF AskRollBack, CanRollBack, Verified, Matches
  <2>4. StaysKept(o) /\ o # 0
    BY <2>2, Ids DEF BackupsInv, AllKept
  <2>5. Over(o)'
    BY <2>2, OverStays, BackupTypes DEF InCommit, JournalStates
  <2>6. Source(new)'
    <3>1. Contents(new.plan) = Contents(new.listed) /\ new.pc # "plan" /\ new.from \in Mine /\ new.from # PeerSnapshot
      BY <2>1, <2>3, Ids
    <3>2. journals'[new.from] \notin {Missing, "PREPARED"}
      BY <2>1, <2>2, <2>3, BackupTypes DEF InCommit, JournalStates
    <3>3. QED
      BY <3>1, <3>2 DEF Source
  <2>7. \A i \in DOMAIN was[o] : InTouched(was[o][i].side, i) \/ (i \in DOMAIN new.plan /\ new.plan[i] = was[o][i])
    BY <2>1, <2>4 DEF StaysKept
  <2>8. Undoes(new)'
    BY <2>1, <2>2, <2>3, <2>4, <2>5, <2>7 DEF Undoes, InTouched
  <2>9. QED
    BY <2>1, <2>2, <2>6, <2>8
<1>8. CASE ~Operate("person") /\ ~CloseAndUndo /\ old # Missing /\ (new = old \/ new = [old EXCEPT !.hurt = TRUE])
  <2>1. /\ new.pc = old.pc /\ new.op = old.op /\ new.from = old.from /\ new.listed = old.listed /\ new.plan = old.plan /\ new.undoes = old.undoes
    BY <1>0, <1>1, <1>8, HurtIs
  <2>2. old.hurt => new.hurt
    BY <1>0, <1>1, <1>8, HurtIs
  <2>3. Source(new)'
    BY <1>1, <1>8, <2>1, <2>2, SourceStill
  <2>4. ASSUME new.undoes # Missing PROVE Undoes(new)'
    <3>1. PICK o \in Mine : o = new.undoes /\ o # new.op /\ new.pc # "plan"
      BY <1>2, <1>8, <2>1, <2>4 DEF Undoes
    <3>2. CASE old.pc # "close"
      <4>1. journals[o] \in Terminal /\ holder = "person"
        BY <1>2, <1>8, <2>1, <2>4, <3>1, <3>2 DEF Undoes
      <4>2. UNCHANGED <<holder, journals>>
        BY <1>0, <1>1, <1>8, <2>1, <2>4, <4>1, OthersWait
      <4>3. QED
        BY <1>1, <1>8, <2>1, <2>4, <3>1, <3>2, <4>1, <4>2, UndoingKept DEF Undoes
    <3>3. CASE old.pc = "close"
      <4>1. journals[o] \in InCommit /\ Over(o)
        BY <1>2, <1>8, <2>1, <2>4, <3>1, <3>3 DEF Undoes
      <4>2. Over(o)'
        BY <4>1, OverStays, BackupTypes DEF InCommit, JournalStates
      <4>3. journals'[o] = journals[o]
        <5>1. ASSUME NEW p \in Programs, OpenOperation(p) PROVE journals'[o] = journals[o]
          <6>1. Cardinality(Begun) + 1 # o
            BY <4>1, <5>1, NextNumber, BackupTypes DEF OpenOperation, BackupsInv, InCommit, JournalStates
          <6>2. QED
            BY <1>0, <4>1, <5>1, <6>1, Opens DEF InCommit, BeforeCommit
        <5>2. ASSUME NEW p \in Programs, EnterCommit(p) \/ Commit(p) \/ RunFails(p) PROVE journals'[o] = journals[o]
          <6>1. Op(p) # o
            BY <4>1, <5>2 DEF EnterCommit, Commit, RunFails, On, Over, Op
          <6>2. QED
            BY <1>0, <5>2, <6>1 DEF EnterCommit, Commit, RunFails, Journal, BackupShapes, RestShape
        <5>3. \A q \in Mine : ~AskResume(q) /\ ~RollBackNothing(q)
          BY <1>1, <1>8 DEF AskResume, RollBackNothing
        <5>4. QED
          BY <1>8, <5>1, <5>2, <5>3, JournalsChange
      <4>4. QED
        BY <1>1, <1>8, <2>1, <2>4, <3>1, <3>3, <4>1, <4>2, <4>3, UndoingKept DEF Undoes
    <3>4. QED
      BY <3>2, <3>3
  <2>5. new.pc = "close" => new.undoes # Missing
    BY <1>2, <1>8, <2>1
  <2>6. QED
    BY <2>3, <2>4, <2>5 DEF Undoes
<1>9. QED
  BY <1>0, <1>1, <1>3, <1>4, <1>5, <1>6, <1>7, <1>8, OthersMove

-----------------------------------------------------------------------------

\* Every step keeps what is known of the backups.
LEMMA BackupsStep == BackupsInv /\ [BackupsNext]_backupVars => BackupsInv'
<1>1. BackupsInv /\ BackupsNext => BackupsInv'
  BY ShapesKept, FreshKept, LocksKept, KeptKept, ProgressKept, PersonKept, OthersKept DEF BackupsInv
<1>2. ASSUME BackupsInv, UNCHANGED backupVars PROVE BackupsInv'
  <2> USE <1>2 DEF BackupsInv, backupVars
  <2>1. BackupShapes'
    BY DEF BackupShapes, SnapsShape, SnapShape, HasManifest, RunsShape, RunShape, RestShape, TreeShape
  <2>2. FreshOnes'
    BY DEF FreshOnes, Numbered, Begun, Fresh
  <2>3. LocksHold'
    BY DEF LocksHold, Alone
  <2>4. AllKept'
    BY DEF AllKept, StaysKept, InTouched
  <2>5. AllProgress'
    BY DEF AllProgress, Progress, HeldFor, InTouched
  <2>6. PersonRun'
    BY DEF PersonRun, Source, Undoes, Over, InTouched
  <2>7. SnapshotsOfOthers'
    BY DEF SnapshotsOfOthers
  <2>8. QED
    BY <2>1, <2>2, <2>3, <2>4, <2>5, <2>6, <2>7
<1>3. QED
  BY <1>1, <1>2

\* A run of a person that reports success has nothing left to do.
LEMMA CommittingIs ==
    ASSUME BackupsInv, [BackupsNext]_backupVars, Committing("person")
    PROVE  runs["person"] # Missing /\ runs["person"].pc = "replace" /\ runs["person"].todo = {}
<1>0. BackupShapes /\ "person" \in Programs /\ runs["person"] # Missing /\ runs["person"].pc = "replace" /\ runs'["person"] # Missing /\ runs'["person"].pc = "prune"
  BY DEF BackupsInv, Programs, Committing, On
<1>1. BackupsNext
  BY <1>0 DEF backupVars
<1>2. Operate("person")
  <2>1. runs["person"].pc \in Working
    BY <1>0 DEF Working
  <2>2. ~Operate("person") => runs'["person"] = runs["person"]
    BY <1>0, <1>1, <2>1, Workers, OthersWait
  <2>3. QED
    BY <1>0, <2>2
<1>3. Commit("person")
  <2>1. ASSUME NEW pc, NEW op, NEW todo, NEW stale, Steps("person", pc, op, todo, stale) PROVE pc = "prune"
    BY <1>0, <2>1 DEF Steps
  <2>2. ~Leaves("person")
    BY <1>0 DEF Leaves, BackupShapes, RunsShape
  <2>3. LockBusy("person") \/ EndRun("person") \/ RunFails("person") \/ KillRun("person") => Leaves("person")
    BY DEF LockBusy, EndRun, RunFails, KillRun
  <2>4. ~OpenOperation("person") /\ ~Stage("person") /\ ~EnterCommit("person") /\ ~PickStale("person")
    BY <1>0 DEF OpenOperation, Stage, EnterCommit, PickStale, On
  <2>5. \A s : ~RemovePayload("person", s) /\ ~RemoveManifest("person", s)
    BY <1>0 DEF RemovePayload, RemoveManifest, On
  <2>6. ASSUME NEW i, BackUp("person", i) \/ Put("person", i) PROVE FALSE
    <3>1. Steps("person", runs["person"].pc, runs["person"].op, runs["person"].todo \ {i}, runs["person"].stale)
      BY <1>0, <2>6, Advances
    <3>2. QED
      BY <1>0, <2>1, <3>1
  <2>7. QED
    BY <1>2, <2>2, <2>3, <2>4, <2>5, <2>6 DEF Operate
<1>4. QED
  BY <1>0, <1>3 DEF Commit, On

\* By then the files are what the plan says, or somebody else's.
LEMMA CommitPuts ==
    ASSUME BackupsInv, [BackupsNext]_backupVars, Committing("person"), NEW i \in DOMAIN runs["person"].plan
    PROVE  InTouched(runs["person"].plan[i].side, i) \/ tree[runs["person"].plan[i].side][i] = runs["person"].plan[i].content
<1>1. runs["person"] # Missing /\ runs["person"].pc = "replace" /\ runs["person"].todo = {}
  BY CommittingIs
<1>2. Progress("person")
  BY <1>1 DEF BackupsInv, AllProgress, Programs
<1>3. QED
  BY <1>1, <1>2 DEF Progress

\* What is known of the backups makes a restore and a rollback that report success whole.
LEMMA BackupsDo ==
    ASSUME BackupsInv, [BackupsNext]_backupVars
    PROVE  RestoresWhole /\ UndoesAll
<1>1. ASSUME Committing("person"), runs["person"].listed # Missing
      PROVE  /\ runs["person"].hurt \/ Contents(runs["person"].plan) = Contents(runs["person"].listed)
             /\ \A i \in DOMAIN runs["person"].plan : Held("person", i) = runs["person"].plan[i].content \/ Target("person", i) \in touched
  <2>1. Source(runs["person"]) /\ runs["person"].pc # "plan"
    BY <1>1, CommittingIs DEF BackupsInv, PersonRun
  <2>2. ~runs["person"].hurt => Contents(runs["person"].plan) = Contents(runs["person"].listed)
    BY <1>1, <2>1 DEF Source
  <2>3. ASSUME NEW i \in DOMAIN runs["person"].plan PROVE Held("person", i) = runs["person"].plan[i].content \/ Target("person", i) \in touched
    BY <1>1, <2>3, CommitPuts DEF Held, Target, InTouched
  <2>4. QED
    BY <2>2, <2>3
<1>2. ASSUME Committing("person"), runs["person"].undoes # Missing, NEW o, o = runs["person"].undoes, NEW i \in DOMAIN was[o]
      PROVE  tree[was[o][i].side][i] = was[o][i].content \/ <<was[o][i].side, i>> \in touched
  <2>1. Undoes(runs["person"])
    BY <1>2, CommittingIs DEF BackupsInv, PersonRun
  <2>2. InTouched(was[o][i].side, i) \/ (i \in DOMAIN runs["person"].plan /\ runs["person"].plan[i] = was[o][i])
    BY <1>2, <2>1 DEF Undoes
  <2>3. QED
    BY <1>2, <2>2, CommitPuts DEF InTouched
<1>5. RestoresWhole
  BY <1>1 DEF RestoresWhole
<1>6. UndoesAll
  BY <1>2 DEF UndoesAll
<1>7. QED
  BY <1>5, <1>6

\* What is kept of an operation that is open is all that its way out needs.
LEMMA WayOut == BackupsInv => WayOutStands
<1> SUFFICES ASSUME BackupsInv, NEW o \in Mine, journals[o] \in InCommit PROVE CanResume(o) /\ (ReplacedBy(o) # {} => CanRollBack(o))
  BY DEF WayOutStands, Begun
<1>1. StaysKept(o) /\ SnapShape(o)
  BY Ids DEF BackupsInv, AllKept, BackupShapes, SnapsShape
<1>2. snaps[o].held = Empty => ReplacedBy(o) = {}
  BY <1>1, EmptyIsList DEF StaysKept, ReplacedBy, InTouched
<1>3. snaps[o].manifest = snaps[o].held => HasManifest(o) /\ Matches(o)
  BY <1>1, MissingIsNoList DEF SnapShape, HasManifest, Matches
<1>4. QED
  BY <1>1, <1>2, <1>3 DEF StaysKept, CanResume, CanRollBack, Verified, Exists

-----------------------------------------------------------------------------
(* The desk. *)

DeskInv == SettingsInv /\ TasksInv /\ CopiesInv /\ BackupsInv

\* The invariant holds at first.
LEMMA DeskStart == DeskInit => DeskInv
<1>1. AutomationInit => SettingsInit /\ writing = NoWrite
  BY DEF AutomationInit
<1>2. QED
  BY <1>1, SettingsStart, TasksStart, CopiesStart, BackupsStart DEF DeskInit, DeskInv

\* Each part goes its own way.
LEMMA DeskParts ==
    [DeskNext]_deskVars =>
        /\ AutomationNext \/ UNCHANGED settingVars
        /\ [CopiesNext]_copyVars
        /\ [BackupsNext]_backupVars
  BY DEF DeskNext, deskVars

\* The invariant is kept by every step of any part.
LEMMA DeskStep == DeskInv /\ [DeskNext]_deskVars => DeskInv'
<1>1. UNCHANGED settingVars => UNCHANGED tasksVars
  BY DEF settingVars, automationVars
<1>2. QED
  BY <1>1, DeskParts, SettingsStep, TasksStep, CopiesStep, BackupsStep DEF DeskInv

\* What a background read put on a page is never older than the window's last save, and the page of the
\* tasks never describes them as they were before the window's last write of them - for any files, any
\* edits and any order of reads, saves, cancellations and failures (window.py, automation.py).
THEOREM ViewStaysCurrent == DeskSpec => []ViewIsCurrent
  BY DeskStart, DeskStep, SettingsDo, PTL DEF DeskInv, DeskSpec

\* After an apply that reported success the next sign-in runs exactly what its settings asked for, on
\* each platform, whatever stood there before and whichever of its commands failed the times before.
THEOREM TasksKeepFollowing == DeskSpec => []TasksFollowSettings
<1>1. TasksInv => TasksFollowSettings
  BY DEF TasksInv
<1>2. QED
  BY <1>1, DeskStart, DeskStep, PTL DEF DeskInv, DeskSpec

\* No save of any author replaces a file that it did not see, nor one that loads and is not in the
\* history, unless it appeared after the save's second look (config_edit.save_config_text).
THEOREM EditsAreNotLost == DeskSpec => NoEditLost
<1> DEFINE Kept == \A a \in Authors : saves[a] # None /\ saves[a].pc = "replace" /\ file' # file /\ saves'[a].pc = "read" =>
                      \/ version > saves[a].looked
                      \/ file = saves[a].base /\ (file # None /\ Loads(file) => file \in history)
<1>1. DeskInv => Kept
  BY SettingsDo DEF DeskInv
<1>2. QED
  BY <1>1, DeskStart, DeskStep, PTL DEF DeskSpec, NoEditLost

\* A finished copy of the Codex state is of one moment at which Codex was closed, and the newest copy
\* stays - for any files and any number kept, whoever runs, writes, waits or dies meanwhile.
THEOREM CopiesStayGood == DeskSpec => CopiesCanBeUsed
<1>1. DeskInv /\ [DeskNext]_deskVars => OfOneMoment /\ NewestStays
  BY DeskParts, CopiesDo DEF DeskInv
<1>2. QED
  BY <1>1, DeskStart, DeskStep, PTL DEF DeskSpec, CopiesCanBeUsed

\* What an operation backed up can be put back: by a restore, by a rollback, at any time - for any
\* items, any number of operations and of snapshots kept, whoever edits, prunes or dies meanwhile.
THEOREM KeptCanBePutBack == DeskSpec => KeptIsPutBack
<1>1. DeskInv /\ [DeskNext]_deskVars => RestoresWhole /\ UndoesAll
  BY DeskParts, BackupsDo DEF DeskInv
<1>2. DeskInv => WayOutStands
  BY WayOut DEF DeskInv
<1>3. QED
  BY <1>1, <1>2, DeskStart, DeskStep, PTL DEF DeskSpec, KeptIsPutBack

-----------------------------------------------------------------------------
(* The thread catalogue of Codex. *)

Ops == {"refresh", "repair", "names", "archive"}
Repairs == [before : Backfills, after : Backfills]
Namings == [chat : Chats, before : {Absent, Title}, after : Names]
Moves == [chat : Chats, before : Places, after : Places]
Copied == {"check", "gate", "write", "verify", "mark"}
Planned == Copied \cup {"begin"}
Unwritten == {"begin", "check", "gate", "write"}

\* From the verified copy on, a run holds what it copied.
RunTyped ==
    /\ run = NoRun \/ (run.plan.op \in Ops /\ run = [pc |-> run.pc, plan |-> run.plan])
                  \/ (run.plan.op \in Ops /\ run = [pc |-> run.pc, plan |-> run.plan, copied |-> run.copied])
    /\ run.pc \in Copied =>
          run.copied \in Backfills /\ run = [pc |-> run.pc, plan |-> run.plan, copied |-> run.copied]

\* A run writes only what it planned, and what it planned is of its kind.
PlanOfItsKind ==
    run.pc \in Planned =>
        /\ run.plan.changes # {}
        /\ run.plan.op = "repair" => run.plan.changes \subseteq Repairs
        /\ run.plan.op = "names" => run.plan.changes \subseteq Namings
        /\ run.plan.op = "archive" => run.plan.changes \subseteq Moves

\* Its fingerprint is that of a database which there was; nothing it read was
\* stamped later.
PlanIsPast ==
    run.pc \in Planned =>
        /\ run.plan.fingerprint \in Nat /\ run.plan.fingerprint <= timesWritten
        /\ run.plan.op = "repair" =>
              \A x \in run.plan.changes : x.before.updated <= run.plan.fingerprint /\ x.after.updated <= timesWritten
        /\ run.pc \in Copied => run.copied.updated <= timesWritten

EvidenceIsPast == evidence # Absent => evidence.updated <= timesWritten

\* A chat that is not listed has no name a person gave it here.
NamedIsListed == \A c \in Chats : rows[c] = Absent => named[c] = Absent

\* While Codex rebuilds, the database says so, and whatever a run goes by was
\* read before Codex started.
RebuildIsNewer ==
    codexIs = "rebuilding" =>
        /\ backfill.status = "running"
        /\ run.pc \in Unwritten => backfill.updated > run.plan.fingerprint

\* From the gate on, no file and no row moves without a write of the database.
PlanStillTrue ==
    run.pc \in {"gate", "write"} /\ run.plan.op = "archive" /\ run.plan.fingerprint = timesWritten =>
        run.plan.changes = ArchivePlan

Inv ==
    /\ PersonNamesStand /\ RunTyped /\ PlanOfItsKind /\ PlanIsPast /\ EvidenceIsPast
    /\ NamedIsListed /\ RebuildIsNewer /\ PlanStillTrue

-----------------------------------------------------------------------------
\* A name is written only where there was none; a row is pointed only from a
\* folder to a folder; the row of a rebuild is set to one that is not newer than
\* the database.
LEMMA PlansOfTheirKind ==
    ASSUME TypeOK, EvidenceIsPast
    PROVE  /\ NamePlan \subseteq Namings /\ ArchivePlan \subseteq Moves
           /\ RepairPlan \subseteq Repairs
           /\ \A x \in RepairPlan : x.before = backfill /\ x.after.updated <= timesWritten
<1> USE CatalogueAssumption, StartsAssumption DEF TypeOK, EvidenceIsPast
<1>1. NamePlan \subseteq Namings
  BY DEF NamePlan, Namings, Unset, Listed
<1>2. ArchivePlan \subseteq Moves
  BY DEF ArchivePlan, Moves, Listed, Rows
<1>3. SettleTarget # Absent => SettleTarget \in Backfills /\ SettleTarget.updated <= timesWritten
  BY DEF SettleTarget, Backfills, Running
<1>4. QED
  BY <1>1, <1>2, <1>3 DEF RepairPlan, Repairs

\* A rebuild makes rows of the right shape.
LEMMA RowOfAPlace ==
    ASSUME NEW p \in Places, NEW n \in Names \cup {Title, Absent} PROVE Row(p, n) \in Rows
<1>1. (p = "archive") \in BOOLEAN
  OBVIOUS
<1>2. QED
  BY <1>1 DEF Row, Rows

\* The invariant holds at first.
LEMMA InitInv == Init => Inv
<1> SUFFICES ASSUME Init PROVE Inv
  OBVIOUS
<1> USE CatalogueAssumption, StartsAssumption DEF Init
<1>1. PICK s \in FirstHeld : files = s.files /\ rows = s.rows /\ backfill = s.backfill /\ boards = s.boards
  OBVIOUS
<1>2. Shown \in [Chats -> Names \cup {Absent}]
  BY <1>1 DEF Shown, Unset, Rows
<1>3. PersonNamesStand
  BY <1>1, <1>2 DEF PersonNamesStand, TypeOK, Shown, Listed, NoRun, Backfills
<1>4. QED
  BY <1>1, <1>3 DEF Inv, RunTyped, PlanOfItsKind, PlanIsPast, EvidenceIsPast, NamedIsListed, RebuildIsNewer,
     PlanStillTrue, Shown, NoRun, Planned, Copied

\* Planning: the plan is of its kind, and not newer than the database it read.
LEMMA StartStep == ASSUME Inv, NEW op \in Ops, StartRun(op) PROVE Inv'
<1> USE CatalogueAssumption, StartsAssumption DEF Inv, StartRun, codexs
<1>1. (PersonNamesStand /\ EvidenceIsPast /\ NamedIsListed)'
  BY DEF PersonNamesStand, TypeOK, Listed, EvidenceIsPast, NamedIsListed
<1>2. Changes(op) # {} => run' = [pc |-> "begin", plan |-> [op |-> op, changes |-> Changes(op), fingerprint |-> timesWritten]]
  BY DEF PlanOf
<1>3. Changes(op) = {} => run'.pc = "publish" /\ run' = [pc |-> run'.pc, plan |-> run'.plan] /\ run'.plan.op = op
  BY DEF PlanOf
<1>4. TypeOK
  BY DEF PersonNamesStand
<1>5. (RunTyped /\ PlanOfItsKind /\ PlanIsPast)'
  BY <1>2, <1>3, <1>4, PlansOfTheirKind DEF RunTyped, PlanOfItsKind, PlanIsPast, Copied, Planned, Changes, TypeOK, Backfills, Repairs, Ops
<1>6. (RebuildIsNewer /\ PlanStillTrue)'
  BY <1>2, <1>3, <1>4 DEF RebuildIsNewer, PlanStillTrue, Unwritten, TypeOK
<1>7. QED
  BY <1>1, <1>5, <1>6

\* What follows the chats depends on the files and the rows, and on nothing else.
LEMMA PlanOfFilesAndRows == ASSUME UNCHANGED <<files, rows>> PROVE ArchivePlan' = ArchivePlan
  BY DEF ArchivePlan, Gone, Moved, Listed

\* What a run reads and decides, and what ends it, leaves the database and the
\* names persons gave alone.
LEMMA QuietStep ==
    ASSUME Inv
    PROVE  BeginWrite \/ CannotCopy \/ CannotReadAgain \/ GateAgain \/ WriteMarker \/ PublishNames
           \/ Kill \/ Resume \/ BackupGone => Inv'
<1> USE CatalogueAssumption, StartsAssumption
    DEF Inv, codexs, RunAt, RunTo, Stop, PersonNamesStand, TypeOK, Listed, EvidenceIsPast, NamedIsListed, RunTyped,
        PlanOfItsKind, PlanIsPast, Copied, Planned, RebuildIsNewer, PlanStillTrue, Unwritten, NoRun
<1>1. BeginWrite => Inv'
  BY DEF BeginWrite
<1>2. CannotCopy => Inv'
  BY DEF CannotCopy
<1>3. CannotReadAgain => Inv'
  BY DEF CannotReadAgain
<1>4. GateAgain => Inv'
  BY PlanOfFilesAndRows DEF GateAgain
<1>5. WriteMarker => Inv'
  BY DEF WriteMarker
<1>6. PublishNames => Inv'
  BY DEF PublishNames, Shown, Unset, Rows
<1>7. Kill => Inv'
  BY DEF Kill
<1>8. Resume => Inv'
  BY DEF Resume
<1>9. BackupGone => Inv'
  BY PlanOfFilesAndRows DEF BackupGone
<1>10. QED
  BY <1>1, <1>2, <1>3, <1>4, <1>5, <1>6, <1>7, <1>8, <1>9

\* The plan is made again: it stands for the files and rows that are there.
LEMMA CheckStep == ASSUME Inv, Check PROVE Inv'
<1> USE DEF Inv, codexs, RunAt, RunTo, Stop, Check, PersonNamesStand, TypeOK, Listed, EvidenceIsPast, NamedIsListed, RunTyped,
        PlanOfItsKind, PlanIsPast, Copied, Planned, RebuildIsNewer, Unwritten, NoRun
<1>1. (PersonNamesStand /\ RunTyped /\ PlanOfItsKind /\ PlanIsPast /\ EvidenceIsPast
       /\ NamedIsListed /\ RebuildIsNewer)'
  OBVIOUS
<1>2. ArchivePlan' = ArchivePlan
  BY PlanOfFilesAndRows
<1>3. PlanStillTrue'
  BY <1>2 DEF PlanStillTrue, StillPlanned, PlanOf, Changes
<1>4. QED
  BY <1>1, <1>3

\* The look after the transaction keeps the invariant.
LEMMA VerifyStep == ASSUME Inv, Verify PROVE Inv'
  BY CatalogueAssumption, StartsAssumption DEF Inv, codexs, RunAt, RunTo, Stop, Verify, PersonNamesStand, TypeOK, Listed, EvidenceIsPast, NamedIsListed, RunTyped,
        PlanOfItsKind, PlanIsPast, Copied, Planned, RebuildIsNewer, PlanStillTrue, Unwritten, NoRun

\* The transaction never writes the row of a rebuild that runs: a request wants a
\* complete one, and a repair the row it read, which was stamped since.
LEMMA RebuildKept == ASSUME Inv, Write, codexIs = "rebuilding" PROVE backfill' = backfill
<1> DEFINE plan == run.plan
<1> USE DEF Inv, RunAt, Write
<1>1. run.pc = "write" /\ (~Holds(plan) => backfill' = backfill)
  OBVIOUS
<1>2. Holds(plan) => plan.op # "refresh"
  BY DEF Holds, RebuildIsNewer
<1>3. ASSUME Holds(plan), plan.op = "repair" PROVE FALSE
  <2>1. PICK x \in plan.changes : backfill = x.before /\ x.before.updated <= plan.fingerprint
    BY <1>1, <1>3 DEF Holds, RowAsRead, PlanOfItsKind, PlanIsPast, Planned, Copied
  <2>2. backfill.updated > plan.fingerprint /\ plan.fingerprint \in Nat /\ backfill.updated \in Nat
    BY <1>1, <1>3 DEF RebuildIsNewer, Unwritten, PlanIsPast, Planned, Copied, PersonNamesStand, TypeOK, Backfills
  <2>3. QED
    BY <2>1, <2>2
<1>4. QED
  BY <1>1, <1>2, <1>3 DEF BackfillAfter

\* What the transaction writes.
LEMMA WriteStep == ASSUME Inv, Write PROVE Inv'
<1> USE CatalogueAssumption, StartsAssumption
    DEF Inv, codexs, RunAt, RunTo, Stop, Write
<1>1. TypeOK
  BY DEF PersonNamesStand
<1>2. ASSUME NEW c \in Touched(run.plan) PROVE Of(run.plan, c) \in run.plan.changes /\ Of(run.plan, c).chat = c
  BY <1>2 DEF Touched, Of
<1>3. CASE Holds(run.plan)
  <2> DEFINE plan == run.plan
  <2>1. plan.op = "names" => rows' = [c \in Chats |-> IF c \in Touched(plan) THEN [rows[c] EXCEPT !.name = Of(plan, c).after] ELSE rows[c]]
    BY <1>3 DEF RowsAfter
  <2>2. plan.op = "archive" => rows' = [c \in Chats |-> IF c \in Touched(plan) THEN Row(Of(plan, c).after, rows[c].name) ELSE rows[c]]
    BY <1>3 DEF RowsAfter
  <2>3. plan.op \notin {"names", "archive"} => rows' = rows
    BY <1>1, <1>3 DEF RowsAfter, TypeOK
  <2>4. ASSUME plan.op = "names", NEW c \in Touched(plan)
        PROVE  c \in Chats /\ rows[c] # Absent /\ Unset(rows[c].name) /\ Of(plan, c).after \in Names
    BY <1>2, <1>3, <2>4 DEF Touched, Holds, NameUnmoved, PlanOfItsKind, Planned, Copied, Namings, Unset
  <2>5. ASSUME plan.op = "archive", NEW c \in Touched(plan)
        PROVE  c \in Chats /\ rows[c] # Absent /\ Of(plan, c).after \in Places
    BY <1>2, <1>3, <2>5 DEF Touched, Holds, RowUnmoved, PlanOfItsKind, Planned, Copied, Moves
  <2>6. rows' \in [Chats -> Rows \cup {Absent}] /\ \A c \in Chats : rows'[c] = Absent <=> rows[c] = Absent
    <3>1. CASE plan.op = "names"
      <4>1. ASSUME NEW c \in Touched(plan) PROVE [rows[c] EXCEPT !.name = Of(plan, c).after] \in Rows
        BY <1>1, <2>4, <3>1 DEF TypeOK, Rows
      <4>2. \A c \in Touched(plan) : [rows[c] EXCEPT !.name = Of(plan, c).after] # Absent
        BY <4>1
      <4>3. QED
        BY <1>1, <2>1, <2>4, <3>1, <4>1, <4>2 DEF TypeOK
    <3>2. CASE plan.op = "archive"
      <4>1. ASSUME NEW c \in Touched(plan) PROVE Row(Of(plan, c).after, rows[c].name) \in Rows
        BY <1>1, <2>5, <3>2, RowOfAPlace DEF TypeOK, Rows
      <4>2. QED
        BY <1>1, <2>2, <2>5, <3>2, <4>1 DEF TypeOK
    <3>3. QED
      BY <1>1, <2>3, <3>1, <3>2 DEF TypeOK
  <2>7. ASSUME NEW c \in Chats, rows[c] # Absent, named[c] # Absent PROVE rows'[c].name = rows[c].name
    <3>1. CASE plan.op = "names"
      BY <1>1, <2>1, <2>4, <2>7, <3>1 DEF TypeOK, PersonNamesStand, Listed, Unset
    <3>2. CASE plan.op = "archive"
      BY <2>2, <2>5, <3>2 DEF Row
    <3>3. QED
      BY <2>3, <3>1, <3>2
  <2>8. backfill' \in Backfills /\ backfill'.updated <= timesWritten'
    BY <1>1, <1>3 DEF BackfillAfter, TypeOK, Backfills, Running, PlanOfItsKind, PlanIsPast, Planned, Copied, Repairs
  <2>9. codexIs = "rebuilding" => backfill' = backfill
    BY RebuildKept
  <2>10. PersonNamesStand' /\ NamedIsListed'
    BY <1>1, <1>3, <2>6, <2>7, <2>8 DEF PersonNamesStand, TypeOK, Listed, NamedIsListed, RunTyped, Copied
  <2>11. run' = [pc |-> "verify", plan |-> plan, copied |-> run.copied] /\ run.pc = "write"
    BY <1>3 DEF RunTyped, Copied
  <2>12. (RunTyped /\ PlanOfItsKind)'
    BY <2>11 DEF RunTyped, PlanOfItsKind, Planned, Copied, NoRun
  <2>13. (PlanIsPast /\ EvidenceIsPast)'
    <3>1. timesWritten' = timesWritten + 1 /\ timesWritten \in Nat /\ evidence' = evidence
      BY <1>1, <1>3 DEF TypeOK
    <3>2. run.copied.updated \in Nat /\ run.copied.updated <= timesWritten
      BY <2>11 DEF RunTyped, PlanIsPast, Copied, Planned, Backfills
    <3>3. plan.op = "repair" => \A x \in plan.changes : x.after.updated \in Nat
      BY <2>11 DEF PlanOfItsKind, Planned, Copied, Repairs, Backfills
    <3>4. evidence # Absent => evidence.updated \in Nat
      BY <1>1 DEF TypeOK, Backfills
    <3>5. QED
      BY <2>11, <3>1, <3>2, <3>3, <3>4 DEF PlanIsPast, EvidenceIsPast, Planned, Copied
  <2>14. (RebuildIsNewer /\ PlanStillTrue)'
    BY <1>3, <2>9, <2>11 DEF RebuildIsNewer, PlanStillTrue, Unwritten
  <2>15. QED
    BY <2>10, <2>12, <2>13, <2>14
<1>4. CASE ~Holds(run.plan)
  BY <1>4 DEF PersonNamesStand, TypeOK, Listed, EvidenceIsPast, NamedIsListed, RunTyped, PlanOfItsKind, PlanIsPast,
     Copied, Planned, RebuildIsNewer, PlanStillTrue, Unwritten, NoRun
<1>5. QED
  BY <1>3, <1>4


\* Codex writes its database and stamps what it writes: no plan made before still
\* carries the fingerprint.
LEMMA StampedStep ==
    ASSUME Inv, CodexKeeps, timesWritten' = timesWritten + 1,
           files' \in [Chats -> SUBSET Places], rows' \in [Chats -> Rows \cup {Absent}],
           named' \in [Chats -> Names \cup {Absent}], codexIs' \in {"closed", "open", "rebuilding"},
           \A c \in Chats : named'[c] # Absent => rows'[c] # Absent /\ rows'[c].name = named'[c],
           \/ backfill' = backfill /\ codexIs' # "rebuilding"
           \/ backfill' \in Backfills /\ backfill'.updated = timesWritten + 1
              /\ (codexIs' = "rebuilding" => backfill'.status = "running")
    PROVE  Inv'
<1> USE DEF Inv, CodexKeeps, tools
<1>1. TypeOK
  BY DEF PersonNamesStand
<1>2. timesWritten \in Nat /\ timesWritten' = timesWritten + 1 /\ UNCHANGED <<run, evidence, boards, own, leftOpen>>
  BY <1>1 DEF TypeOK
<1>3. backfill.updated \in Nat /\ backfill.updated <= timesWritten
  BY <1>1 DEF TypeOK, Backfills
<1>4. TypeOK'
  BY <1>1, <1>2, <1>3 DEF TypeOK
<1>5. (PersonNamesStand /\ NamedIsListed)'
  BY <1>4 DEF PersonNamesStand, Listed, NamedIsListed
<1>6. (RunTyped /\ PlanOfItsKind)'
  BY <1>2 DEF RunTyped, PlanOfItsKind
<1>7. (PlanIsPast /\ EvidenceIsPast)'
  <2>1. run.pc \in Copied => run.copied.updated \in Nat
    BY DEF RunTyped, Backfills
  <2>2. run.pc \in Planned /\ run.plan.op = "repair" => \A x \in run.plan.changes : x.after.updated \in Nat
    BY DEF PlanOfItsKind, Repairs, Backfills
  <2>3. evidence # Absent => evidence.updated \in Nat
    BY <1>1 DEF TypeOK, Backfills
  <2>4. QED
    BY <1>2, <2>1, <2>2, <2>3 DEF PlanIsPast, EvidenceIsPast
<1>8. run.pc \in Unwritten => run.plan.fingerprint \in Nat /\ run.plan.fingerprint <= timesWritten
  BY DEF PlanIsPast, Unwritten, Planned, Copied
<1>9. (RebuildIsNewer /\ PlanStillTrue)'
  BY <1>2, <1>8 DEF RebuildIsNewer, PlanStillTrue, Unwritten
<1>10. QED
  BY <1>5, <1>6, <1>7, <1>9

\* Codex, persons, peers and transfers.
LEMMA OthersStep == ASSUME Inv, Codex \/ Others PROVE Inv'
<1> USE CatalogueAssumption, StartsAssumption
    DEF Inv, codexs, tools, PersonNamesStand, TypeOK, Listed, EvidenceIsPast, NamedIsListed, RunTyped,
        PlanOfItsKind, PlanIsPast, Copied, Planned, RebuildIsNewer, PlanStillTrue, Unwritten, NoRun
<1>0. /\ timesWritten \in Nat /\ rows \in [Chats -> Rows \cup {Absent}] /\ named \in [Chats -> Names \cup {Absent}]
      /\ files \in [Chats -> SUBSET Places] /\ backfill \in Backfills
      /\ \A c \in Chats : named[c] # Absent => rows[c] # Absent /\ rows[c].name = named[c]
      /\ \A c \in Listed : rows[c] \in Rows /\ rows[c].name \in Names \cup {Title, Absent}
  BY DEF Rows
<1>1. CodexOpens => Inv'
  <2>1. CASE CodexOpens /\ codexIs' = "rebuilding"
    BY <1>0, <2>1, StampedStep DEF CodexOpens, Stamped, Backfills, Running
  <2>2. CASE CodexOpens /\ codexIs' # "rebuilding"
    BY <2>2, PlanOfFilesAndRows DEF CodexOpens, CodexKeeps
  <2>3. QED
    BY <2>1, <2>2
<1>2. CodexTakesOver => Inv'
  BY <1>0, StampedStep DEF CodexTakesOver, Stamped, Backfills, Running
<1>3. CodexFinishes => Inv'
  BY <1>0, StampedStep DEF CodexFinishes, Stamped, Backfills, Running
<1>4. CodexCloses => Inv'
  BY PlanOfFilesAndRows DEF CodexCloses, CodexKeeps
<1>5. ASSUME NEW c \in Chats, NEW p \in Places, CodexLists(c, p) PROVE Inv'
  <2>1. rows' = [rows EXCEPT ![c] = Row(p, IF rows[c] = Absent THEN Absent ELSE rows[c].name)] /\ UNCHANGED <<files, named, codexIs>>
    BY <1>5 DEF CodexLists
  <2>2. Row(p, IF rows[c] = Absent THEN Absent ELSE rows[c].name) \in Rows
    BY <1>0, RowOfAPlace DEF Rows
  <2>3. rows' \in [Chats -> Rows \cup {Absent}]
    BY <1>0, <2>1, <2>2
  <2>4. \A d \in Chats : named'[d] # Absent => rows'[d] # Absent /\ rows'[d].name = named'[d]
    BY <1>0, <2>1, <2>2 DEF Row
  <2>5. backfill' \in Backfills /\ backfill'.updated = timesWritten + 1 /\ backfill'.status = "running" /\ timesWritten' = timesWritten + 1
    BY <1>0, <1>5 DEF CodexLists, Stamped, Backfills, Running
  <2>6. QED
    BY <1>0, <1>5, <2>1, <2>3, <2>4, <2>5, StampedStep DEF CodexLists
<1>6. ASSUME NEW c \in Chats, NEW p \in Places, MoveInCodex(c, p) PROVE Inv'
  <2>1. rows' = [rows EXCEPT ![c] = Row(p, rows[c].name)] /\ UNCHANGED <<named, codexIs, backfill>>
        /\ codexIs = "open" /\ rows[c] # Absent /\ timesWritten' = timesWritten + 1 /\ CodexKeeps
    BY <1>0, <1>6 DEF MoveInCodex
  <2>2. Row(p, rows[c].name) \in Rows
    BY <1>0, <2>1, RowOfAPlace DEF Rows
  <2>3. rows' \in [Chats -> Rows \cup {Absent}] /\ files' \in [Chats -> SUBSET Places]
    BY <1>0, <1>6, <2>1, <2>2 DEF MoveInCodex
  <2>4. \A d \in Chats : named'[d] # Absent => rows'[d] # Absent /\ rows'[d].name = named'[d]
    BY <1>0, <2>1, <2>2 DEF Row
  <2>5. QED
    BY <1>0, <2>1, <2>3, <2>4, StampedStep
<1>7. ASSUME NEW c \in Chats, NEW n \in Names, Rename(c, n) PROVE Inv'
  <2>1. rows' = [rows EXCEPT ![c] = [rows[c] EXCEPT !.name = n]] /\ named' = [named EXCEPT ![c] = n]
        /\ UNCHANGED <<files, codexIs, backfill>> /\ codexIs = "open" /\ rows[c] # Absent /\ timesWritten' = timesWritten + 1 /\ CodexKeeps
    BY <1>0, <1>7 DEF Rename
  <2>2. [rows[c] EXCEPT !.name = n] \in Rows
    BY <1>0, <2>1 DEF Rows
  <2>3. rows' \in [Chats -> Rows \cup {Absent}] /\ named' \in [Chats -> Names \cup {Absent}]
    BY <1>0, <2>1, <2>2
  <2>4. \A d \in Chats : named'[d] # Absent => rows'[d] # Absent /\ rows'[d].name = named'[d]
    BY <1>0, <2>1, <2>2 DEF Rows
  <2>5. QED
    BY <1>0, <2>1, <2>3, <2>4, StampedStep
<1>8. ASSUME NEW c \in Chats, NEW from \in Places \cup {Absent}, NEW to \in Places, Carry(c, from, to) PROVE Inv'
  BY <1>8 DEF Carry, Unlocked
<1>9. ASSUME NEW p \in Peers, NEW c \in Chats, NEW n \in Names, PeerNames(p, c, n) PROVE Inv'
  BY <1>9, PlanOfFilesAndRows DEF PeerNames
<1>10. QED
  BY <1>1, <1>2, <1>3, <1>4, <1>5, <1>6, <1>7, <1>8, <1>9 DEF Codex, Others

\* Nothing moves the invariant when nothing moves.
LEMMA StutterStep == ASSUME Inv, UNCHANGED vars PROVE Inv'
  BY PlanOfFilesAndRows DEF vars, codexs, tools, Inv, PersonNamesStand, TypeOK, Listed, EvidenceIsPast, NamedIsListed, RunTyped,
     PlanOfItsKind, PlanIsPast, RebuildIsNewer, PlanStillTrue

\* The invariant holds in every state a history reaches.
THEOREM Invariance == Spec => []Inv
<1>1. Inv /\ [Next]_vars => Inv'
  <2> SUFFICES ASSUME Inv, [Next]_vars PROVE Inv'
    OBVIOUS
  <2>1. CASE Refresh \/ SetNames \/ FollowArchive \/ Repair
    BY <2>1, StartStep DEF Refresh, SetNames, FollowArchive, Repair, Ops
  <2>2. CASE Tool
    BY <2>2, QuietStep, CheckStep, WriteStep, VerifyStep DEF Tool
  <2>3. CASE CannotCopy \/ CannotReadAgain \/ Kill \/ Resume \/ BackupGone
    BY <2>3, QuietStep
  <2>4. CASE Codex \/ Others
    BY <2>4, OthersStep
  <2>5. CASE UNCHANGED vars
    BY <2>5, StutterStep
  <2>6. QED
    BY <2>1, <2>2, <2>3, <2>4, <2>5 DEF Next
<1>2. QED
  BY <1>1, InitInv, PTL DEF Spec


\* A name a person gave a chat in Codex on this machine stays the name the
\* catalogue shows: apply_names writes only where the row still has the unset
\* name the plan read.
THEOREM NamesOfPersonsStand == Spec => []PersonNamesStand
<1>1. Inv => PersonNamesStand
  BY DEF Inv
<1>2. QED
  BY <1>1, Invariance, PTL

\* While Codex rebuilds its list, no run declares the rebuild complete or pending
\* again, however late it comes to its transaction.
THEOREM RebuildsAreNotCutShort == Spec => RebuildNotCutShort
<1>1. Inv /\ [Next]_vars => ((codexIs = "rebuilding" /\ RunAt("write") /\ run' # run) => UNCHANGED backfill)
  <2> SUFFICES ASSUME Inv, [Next]_vars, codexIs = "rebuilding", run.pc = "write", run' # run PROVE backfill' = backfill
    BY DEF RunAt
  <2>1. CASE Write
    BY <2>1, RebuildKept
  <2>2. CASE Kill
    BY <2>2 DEF Kill, codexs
  <2>3. CASE Tool /\ ~Write
    BY <2>3 DEF Tool, BeginWrite, Check, GateAgain, Verify, WriteMarker, PublishNames, RunAt
  <2>4. CASE Refresh \/ SetNames \/ FollowArchive \/ Repair \/ CannotCopy \/ CannotReadAgain \/ Resume \/ BackupGone
    BY <2>4 DEF Refresh, SetNames, FollowArchive, Repair, StartRun, NoRun, CannotCopy, CannotReadAgain, Resume, BackupGone, RunAt
  <2>5. CASE Codex \/ Others
    BY <2>5 DEF Codex, Others, CodexOpens, CodexTakesOver, CodexFinishes, CodexCloses, CodexLists, MoveInCodex, Rename,
       Carry, PeerNames, CodexKeeps, tools
  <2>6. QED
    BY <2>1, <2>2, <2>3, <2>4, <2>5 DEF Next, vars, tools
<1>2. QED
  BY <1>1, Invariance, PTL DEF Spec, RebuildNotCutShort

\* With Codex closed, a row is pointed only from a file that is gone to one that is
\* there: what follow_chat_archive planned under the lock still stands when its
\* transaction runs, whatever a transfer of chats did before.
THEOREM RowsAreFollowedToFiles == Spec => RowsFollowFiles
<1>1. ASSUME Inv, Write, RunAt("write") => timesWritten = run.plan.fingerprint, NEW c \in Chats, Repointed(c)
      PROVE  rows[c].at \notin files[c] /\ rows'[c].at \in files'[c] /\ rows'[c].archived = (rows'[c].at = "archive")
  <2> DEFINE plan == run.plan
  <2>1. run.pc = "write" /\ rows' = RowsAfter(plan) /\ files' = files /\ timesWritten = plan.fingerprint /\ Holds(plan)
    BY <1>1 DEF Write, RunAt, Repointed
  <2>2. c \in Touched(plan) /\ plan.op = "archive"
    BY <1>1, <2>1 DEF RowsAfter, Repointed, Touched
  <2>3. plan.changes = ArchivePlan
    BY <1>1, <2>1, <2>2 DEF Inv, PlanStillTrue
  <2>4. Of(plan, c) \in ArchivePlan /\ Of(plan, c).chat = c
    BY <2>2, <2>3 DEF Touched, Of
  <2>5. Gone(c) /\ Moved(c) = {Of(plan, c).after}
    <3>1. PICK y \in Listed \X Places : /\ Gone(y[1]) /\ Moved(y[1]) = {y[2]}
                                       /\ Of(plan, c) = [chat |-> y[1], before |-> rows[y[1]].at, after |-> y[2]]
      BY <2>4 DEF ArchivePlan
    <3>2. QED
      BY <2>4, <3>1
  <2>6. Moved(c) \subseteq files[c]
    BY DEF Moved, Active
  <2>7. rows'[c] = Row(Of(plan, c).after, rows[c].name)
    BY <2>1, <2>2 DEF RowsAfter
  <2>8. QED
    BY <2>1, <2>5, <2>6, <2>7 DEF Gone, Row
<1>2. ASSUME Inv, Next, ~Write, codexIs = "closed", codexIs' = "closed" PROVE rows' = rows
  BY <1>2 DEF Next, Refresh, SetNames, FollowArchive, Repair, StartRun, Tool, BeginWrite, Check, GateAgain, Verify, WriteMarker,
     PublishNames, CannotCopy, CannotReadAgain, Kill, Resume, BackupGone, Codex, Others, CodexOpens, CodexTakesOver,
     CodexFinishes, CodexCloses, CodexLists, MoveInCodex, Rename, Carry, PeerNames, codexs
<1>3. Inv /\ [Next]_vars =>
        ((codexIs = "closed" /\ codexIs' = "closed" /\ (RunAt("write") => timesWritten = run.plan.fingerprint)) =>
          \A c \in Chats : Repointed(c) => /\ rows[c].at \notin files[c] /\ rows'[c].at \in files'[c]
                                           /\ rows'[c].archived = (rows'[c].at = "archive"))
  BY <1>1, <1>2 DEF Repointed, vars, codexs
<1>4. QED
  BY <1>3, Invariance, PTL DEF Spec, RowsFollowFiles

=============================================================================
