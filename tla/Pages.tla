-------------------------------- MODULE Pages --------------------------------
(***************************************************************************)
(* The window's pages (gui/window.py, gui/jobs.py, gui/widgets.py and      *)
(* gui/screens).  A page starts a job and is busy until its result comes   *)
(* back; the job runs on another thread, reads the settings and the state  *)
(* when its turn comes, and its result is applied on the window's thread,  *)
(* where meanwhile the person chose something else, answered a question,   *)
(* stopped waiting, saved the settings or opened another file.  What the   *)
(* pages do with a job is a table: one row per button.                     *)
(***************************************************************************)
EXTENDS Integers, FiniteSets

CONSTANTS
    Configs,     \* settings files a person may open
    Options,     \* what may be chosen on a page: machines, a folder, a snapshot
    Usual,       \* the machines the Sessions page starts with
    Features,    \* which rows a behaviour exercises, with its budget
    MaxJobs,     \* bound: jobs at one time, those nobody waits for included
    Nothing, Failed, Done

ASSUME PagesAssumption == Configs # {} /\ Usual \in Options /\ MaxJobs \in Nat

VARIABLES
    open,        \* the settings file of this window
    era,         \* how many it has opened: each brings new models
    generation,  \* how often settings of the open file were announced as saved
    rules,       \* what each file says, as a version
    told,        \* the rules of the open file when last announced
    world,       \* Codex's state and the mirror, as a version
    model,       \* what each page shows
    kept,        \* the plans kept on disk, by the file they are for
    jobs,        \* started and not yet over, watched or not
    question,    \* the confirmation in front of everything, if there is one
    saving,      \* settings written by this window and not announced yet
    wrote,       \* per page and field, the world its last own write left
    scope        \* the rows in use and what the budget still allows

pagesVars == <<open, era, generation, rules, told, world, model, kept, jobs, question, saving, wrote, scope>>

-----------------------------------------------------------------------------
(* What a page keeps, and what it forgets when the settings were saved. *)

Fields(flags, shown) == [f \in flags \cup shown |-> IF f \in flags THEN FALSE ELSE Nothing]

SessionsModel ==
    [Fields({"busy", "acting", "loading", "scoping", "indexing"}, {"pair", "rule", "scan", "dir", "index"})
        EXCEPT !.pair = Usual]
ProjectsModel ==
    Fields({"busy", "scanning", "acting", "moving", "filing", "placing"},
           {"dir", "scan", "inputs", "moveScan", "checked", "files", "places"})
ChatsModel == Fields({"busy", "moving"}, {"dir", "request", "preview"})
SyncModel == Fields({"looking", "running", "reading"}, {"preview", "result", "history"})
OverviewModel == Fields({"busy", "drying"}, {"state", "dry"})
AutomationModel == Fields({"running", "boarding"}, {"result", "board"})
GuardianModel ==
    Fields({"busy", "snapping", "restoring", "accepting"}, {"list", "selected", "preview", "checked", "accept"})
RecoveryModel == Fields({"busy", "acting", "codexBusy"}, {"list", "checked", "health", "rebuild"})
BackupsModel == Fields({"busy", "acting", "copying"}, {"list", "checked", "copies"})
HomeModel == Fields({"busy", "recounting"}, {"summary", "recount"})
Models ==
    [sessions |-> SessionsModel, projects |-> ProjectsModel, chats |-> ChatsModel, sync |-> SyncModel,
     overview |-> OverviewModel, automation |-> AutomationModel, guardian |-> GuardianModel,
     recovery |-> RecoveryModel, backups |-> BackupsModel, home |-> HomeModel]

SessionsPlans == {"rule", "scan", "dir"}
ProjectsPlans == {"dir", "scan", "moveScan", "checked", "files"}
ChatPlans == {"dir", "request", "preview"}
SyncPlans == {"preview", "result", "history"}
AutomationPlans == {"board"}
GuardianPlans == {"preview", "checked"}
BackupsPlans == {"checked", "copies"}
HomePlans == {"summary", "recount"}
PagePlans ==
    [sessions |-> SessionsPlans, projects |-> ProjectsPlans, chats |-> ChatPlans, sync |-> SyncPlans,
     overview |-> {}, automation |-> AutomationPlans, guardian |-> GuardianPlans, recovery |-> {},
     backups |-> BackupsPlans, home |-> HomePlans]
Forgotten(m, fields) == [f \in DOMAIN m |-> IF f \in fields THEN Nothing ELSE m[f]]
ResetPlans(page, m) == Forgotten(m, PagePlans[page])

-----------------------------------------------------------------------------
(* The buttons: what keeps one grey (the pages' render methods).  `blocked'   *)
(* names flags of the page, `unless' kinds of work of any page, `needs' the   *)
(* list something is chosen from, `checks' the mark a dry run of the same     *)
(* subject leaves, without which the real one cannot be pressed.              *)

Both == {"dry_run", "full_sync"}
IndexButton(w) == [w EXCEPT !.blocked = {"indexing"}]
ScopeButtons(w) == [w EXCEPT !.blocked = {"scoping"}]
ScanButton(w) == [w EXCEPT !.blocked = {"busy", "acting"}]
ResolutionButtons(w) == [w EXCEPT !.blocked = {"acting"}]
PlanButtons(w) == [w EXCEPT !.blocked = {"busy", "acting"}, !.dry = TRUE]
ProjectsButton(w) == [w EXCEPT !.blocked = {"busy"}, !.unless = {"chat_list"}]
RepairButtons(w) == [w EXCEPT !.blocked = {"scanning", "acting"}, !.dry = TRUE]
FolderButtons(w) == [w EXCEPT !.blocked = {"moving"}, !.dry = TRUE, !.checks = "checked"]
FilesButton(w) == [w EXCEPT !.blocked = {"filing"}]
PlacesButtons(w) == [w EXCEPT !.blocked = {"placing"}, !.needs = "places"]
ChatsButton(w) == [w EXCEPT !.blocked = {"busy"}]
PreviewButtons(w) == [w EXCEPT !.blocked = {"moving"}, !.needs = "dir"]
MoveButtons(w) == [w EXCEPT !.blocked = {"moving"}, !.dry = TRUE]
RunButtons(w) == [w EXCEPT !.blocked = {"looking", "running"}, !.unless = Both]
HistoryButton(w) == [w EXCEPT !.blocked = {"reading"}]
StateButton(w) == [w EXCEPT !.blocked = {"busy"}]
DryRunButton(w) == [w EXCEPT !.blocked = {"drying"}, !.unless = Both]
HandoffButtons(w) == [w EXCEPT !.blocked = {"running"}, !.unless = {"full_sync"}]
SnapshotsButton(w) == [w EXCEPT !.blocked = {"busy"}]
RestoreButtons(w) == [w EXCEPT !.blocked = {"restoring"}, !.dry = TRUE, !.checks = "checked"]
AcceptButtons(w) == [w EXCEPT !.blocked = {"accepting"}]
JournalsButton(w) == [w EXCEPT !.blocked = {"busy"}]
JournalButtons(w) == [w EXCEPT !.blocked = {"acting"}, !.needs = "list", !.dry = TRUE, !.checks = "checked"]
CodexButtons(w) == [w EXCEPT !.blocked = {"codexBusy"}]
BackupButtons(w) == [w EXCEPT !.blocked = {"acting"}, !.needs = "list", !.dry = TRUE, !.checks = "checked"]
CopiesButton(w) == [w EXCEPT !.blocked = {"copying"}]
HomeButton(w) == [w EXCEPT !.blocked = {"busy"}]
RecountButton(w) == [w EXCEPT !.blocked = {"recounting"}]

-----------------------------------------------------------------------------
(* The rows.  `flag' is the page's busy flag, `shows' the field its result    *)
(* goes to, `plan' the field that holds what it applies, `again' what it      *)
(* reads after its write.                                                     *)

Job(page, flag) ==
    [page |-> page, flag |-> flag, blocked |-> {flag}, kind |-> Nothing, unless |-> {}, reads |-> FALSE,
     late |-> FALSE, needs |-> Nothing, about |-> Nothing, picks |-> FALSE, matches |-> FALSE, drops |-> {},
     shows |-> Nothing, keeps |-> FALSE, plan |-> Nothing, rebuilds |-> TRUE, dry |-> FALSE, checks |-> Nothing,
     forgets |-> {}, after |-> {}, again |-> Nothing, strict |-> FALSE, remembers |-> FALSE]
Read(grey, field) == [grey EXCEPT !.reads = TRUE, !.shows = field, !.dry = FALSE, !.checks = Nothing]

ScanSessions ==
    [Read(ScanButton(Job("sessions", "busy")), "scan") EXCEPT !.about = "pair", !.keeps = TRUE]
Resolve ==
    [ResolutionButtons(Job("sessions", "acting")) EXCEPT
        !.about = "pair", !.plan = "scan", !.rebuilds = FALSE, !.keeps = TRUE, !.again = "scan", !.strict = TRUE]
ResolveFormats == Resolve
ApplySessions ==
    [PlanButtons(Job("sessions", "acting")) EXCEPT !.plan = "scan", !.keeps = TRUE, !.forgets = {"scan"}]
SessionIndex == Read(IndexButton(Job("sessions", "indexing")), "index")
LoadProjects ==
    [Read(Job("sessions", "loading"), "dir") EXCEPT
        !.kind = "chat_list", !.unless = {"chat_list"}, !.late = TRUE]
TakeWorkingSet == [ScopeButtons(Job("sessions", "scoping")) EXCEPT !.needs = "dir", !.about = "pair"]
ClearWorkingSet == [ScopeButtons(Job("sessions", "scoping")) EXCEPT !.about = "pair"]

RefreshProjects ==
    [Read(ProjectsButton(Job("projects", "busy")), "dir") EXCEPT !.kind = "chat_list", !.late = TRUE]
ScanRepair == [Read(RepairButtons(Job("projects", "scanning")), "scan") EXCEPT !.picks = TRUE, !.keeps = TRUE]
ApplyRepair ==
    [RepairButtons(Job("projects", "acting")) EXCEPT !.plan = "scan", !.keeps = TRUE, !.forgets = {"scan", "dir"}]
ScanMove ==
    [Read(FolderButtons(Job("projects", "moving")), "moveScan") EXCEPT
        !.about = "inputs", !.matches = TRUE, !.keeps = TRUE, !.drops = {"moveScan", "checked"}]
ApplyMove ==
    [FolderButtons(Job("projects", "moving")) EXCEPT
        !.plan = "moveScan", !.keeps = TRUE, !.forgets = {"moveScan", "checked", "dir"}]
CheckFiles == [Read(FilesButton(Job("projects", "filing")), "files") EXCEPT !.late = TRUE]
CheckPlaces == [Read(Job("projects", "placing"), "places") EXCEPT !.late = TRUE]
AnswerPlace ==
    [PlacesButtons(Job("projects", "placing")) EXCEPT
        !.picks = TRUE, !.late = TRUE, !.again = "places", !.strict = TRUE]

RefreshChats == Read(ChatsButton(Job("chats", "busy")), "dir")
PreviewChats ==
    [Read(PreviewButtons(Job("chats", "moving")), "preview") EXCEPT
        !.about = "request", !.picks = TRUE, !.drops = {"preview"}]
MoveChats ==
    [MoveButtons(Job("chats", "moving")) EXCEPT
        !.about = "request", !.plan = "preview", !.forgets = {"preview", "request", "dir"}]

CheckPlan == Read(RunButtons(Job("sync", "looking")), "preview")
LoadHistory == [Read(HistoryButton(Job("sync", "reading")), "history") EXCEPT !.late = TRUE]
DryRun ==
    [Read(RunButtons(Job("sync", "running")), "result") EXCEPT !.kind = "dry_run", !.drops = {"result"}]
\* Asked for from the Sessions page too, where a preview under way is not in the way.
FullSync ==
    [Job("sync", "running") EXCEPT
        !.unless = Both, !.kind = "full_sync", !.drops = {"result"}, !.shows = "result", !.forgets = {"preview"},
        !.after = {"history"}]
DecideSync == [FullSync EXCEPT !.remembers = TRUE]
DryRunHere == [Read(DryRunButton(Job("overview", "drying")), "dry") EXCEPT !.kind = "dry_run", !.drops = {"dry"}]
Environment == [Read(StateButton(Job("overview", "busy")), "state") EXCEPT !.drops = {"state"}]
HandoffNow ==
    [HandoffButtons(Job("automation", "running")) EXCEPT
        !.kind = "full_sync", !.drops = {"result"}, !.shows = "result", !.after = {"board"}]
HandoffBoard == Read(Job("automation", "boarding"), "board")

Inventory == Read(SnapshotsButton(Job("guardian", "busy")), "list")
TakeSnapshot == [Job("guardian", "snapping") EXCEPT !.again = "list"]
PreviewRestore ==
    [Read(RestoreButtons(Job("guardian", "restoring")), "preview") EXCEPT
        !.about = "selected", !.matches = TRUE, !.drops = {"checked"}]
RestoreState ==
    [RestoreButtons(Job("guardian", "restoring")) EXCEPT
        !.plan = "preview", !.forgets = {"preview", "checked"}, !.again = "list"]
PreviewAccept == Read(AcceptButtons(Job("guardian", "accepting")), "accept")
AcceptState ==
    [AcceptButtons(Job("guardian", "accepting")) EXCEPT !.plan = "accept", !.forgets = {"accept"}, !.again = "list"]

Journals == Read(JournalsButton(Job("recovery", "busy")), "list")
ActOnJournal ==
    [JournalButtons(Job("recovery", "acting")) EXCEPT !.picks = TRUE, !.forgets = {"checked"}, !.again = "list"]
CheckCodex == Read(CodexButtons(Job("recovery", "codexBusy")), "health")
RepairCodex ==
    [CodexButtons(Job("recovery", "codexBusy")) EXCEPT !.plan = "health", !.forgets = {"rebuild"}, !.again = "health"]
PrepareRebuild == Read(CodexButtons(Job("recovery", "codexBusy")), "rebuild")
RequestRebuild ==
    [CodexButtons(Job("recovery", "codexBusy")) EXCEPT !.plan = "rebuild", !.forgets = {"rebuild"}, !.again = "health"]

ListBackups == Read(Job("backups", "busy"), "list")
RestoreBackup ==
    [BackupButtons(Job("backups", "acting")) EXCEPT !.picks = TRUE, !.forgets = {"checked", "list"}]
CopiesFolder == Read(CopiesButton(Job("backups", "copying")), "copies")
HomeSummary == Read(HomeButton(Job("home", "busy")), "summary")
Recount == [Read(RecountButton(Job("home", "recounting")), "recount") EXCEPT !.drops = {"recount"}]

Rows ==
    [scanSessions |-> ScanSessions, resolve |-> Resolve, resolveFormats |-> ResolveFormats,
     applySessions |-> ApplySessions, sessionIndex |-> SessionIndex, loadProjects |-> LoadProjects,
     takeWorkingSet |-> TakeWorkingSet, clearWorkingSet |-> ClearWorkingSet, refreshProjects |-> RefreshProjects,
     scanRepair |-> ScanRepair, applyRepair |-> ApplyRepair, scanMove |-> ScanMove, applyMove |-> ApplyMove,
     checkFiles |-> CheckFiles, checkPlaces |-> CheckPlaces, answerPlace |-> AnswerPlace,
     refreshChats |-> RefreshChats, previewChats |-> PreviewChats, moveChats |-> MoveChats, checkPlan |-> CheckPlan,
     loadHistory |-> LoadHistory, dryRun |-> DryRun, fullSync |-> FullSync, decideSync |-> DecideSync,
     dryRunHere |-> DryRunHere, environment |-> Environment, handoffNow |-> HandoffNow,
     handoffBoard |-> HandoffBoard, inventory |-> Inventory, takeSnapshot |-> TakeSnapshot,
     previewRestore |-> PreviewRestore, restoreState |-> RestoreState, previewAccept |-> PreviewAccept,
     acceptState |-> AcceptState, journals |-> Journals, actOnJournal |-> ActOnJournal, checkCodex |-> CheckCodex,
     repairCodex |-> RepairCodex, prepareRebuild |-> PrepareRebuild, requestRebuild |-> RequestRebuild,
     listBackups |-> ListBackups, restoreBackup |-> RestoreBackup, copiesFolder |-> CopiesFolder,
     homeSummary |-> HomeSummary, recount |-> Recount]
\* One page's plans and its own writes: the read and the write share a flag.
OwnPlans ==
    {<<"sessions", "scan">>, <<"projects", "scan">>, <<"projects", "moveScan">>, <<"chats", "preview">>,
     <<"guardian", "preview">>, <<"guardian", "accept">>, <<"recovery", "rebuild">>}

Row(j) == Rows[j.work]
\* The pages a behaviour uses, as a file just opened finds them.
Fresh(rows) == [page \in {Rows[name].page : name \in rows} |-> Models[page]]
Blank(rows) == [w \in {v \in OwnPlans : v[1] \in DOMAIN Fresh(rows)} |-> 0]

\* The table names no field and no kind of work as the mark for none.
ASSUME NothingAssumption ==
    /\ \A page \in DOMAIN Models : Nothing \notin DOMAIN Models[page]
    /\ Nothing \notin Both \cup {"chat_list"}
\* A behaviour exercises rows of the table.
ASSUME FeaturesAssumption == Features \subseteq [rows : SUBSET DOMAIN Rows, start : Nat, event : Nat]

-----------------------------------------------------------------------------
(* A job starts: the page is busy, and what the call needs is taken now.      *)

Ok(out) == out \notin {Nothing, Failed}
Busy(st, kinds) == \E j \in st.jobs : j.watched /\ j.era = st.era /\ Row(j).kind \in kinds
Can(st, name) ==
    LET w == Rows[name]
    IN  /\ name \in scope.rows /\ Cardinality(st.jobs) < MaxJobs
        /\ \A flag \in w.blocked : ~st.model[w.page][flag]
        /\ ~Busy(st, w.unless)
Begun(w, m, choice) ==
    [f \in DOMAIN m |->
        IF f = w.flag THEN TRUE ELSE IF w.picks /\ f = w.about THEN choice ELSE IF f \in w.drops THEN Nothing ELSE m[f]]
Begin(st, name, choice, subject, dry) ==
    LET w == Rows[name]
        m == st.model[w.page]
        id == CHOOSE i \in 1..MaxJobs : \A j \in st.jobs : j.id # i
    IN  [st EXCEPT !.model[w.page] = Begun(w, m, choice),
                   !.jobs = @ \cup
            {[id |-> id, work |-> name, era |-> st.era, since |-> st.since, file |-> st.file, about |-> choice,
              rule |-> IF w.page = "sessions" THEN m.rule ELSE Nothing, subject |-> subject, dry |-> dry,
              watched |-> TRUE, at |-> "waits", out |-> Nothing, more |-> Nothing, world |-> 0]}]
Now == [model |-> model, jobs |-> jobs, era |-> era, since |-> generation, file |-> open]
Become(st) == model' = st.model /\ jobs' = st.jobs

\* What the page that is shown reads by itself.
ReadsNow(st, name) ==
    LET w == Rows[name]
    IN  IF Can(st, name) /\ (name = "journals" \/ st.model[w.page][w.shows] = Nothing)
        THEN Begin(st, name, Nothing, Nothing, FALSE) ELSE st
Arrive(st, page) ==
    CASE page = "guardian" -> ReadsNow(st, "inventory")
      [] page = "recovery" -> ReadsNow(st, "journals")
      [] page = "backups" -> ReadsNow(ReadsNow(st, "listBackups"), "copiesFolder")
      [] page = "overview" -> ReadsNow(st, "environment")
      [] page = "home" -> ReadsNow(st, "homeSummary")
      [] page = "sync" -> ReadsNow(st, "loadHistory")
      [] page = "automation" -> ReadsNow(st, "handoffBoard")
      [] OTHER -> st

-----------------------------------------------------------------------------
(* The person. *)

Spend(kind) == scope[kind] > 0 /\ scope' = [scope EXCEPT ![kind] = @ - 1]
Subject(w, m, choice) == IF w.plan = Nothing THEN choice ELSE m[w.plan]
Offered(name, choice) ==
    LET w == Rows[name]
        m == model[w.page]
    IN  /\ question = Nothing /\ Can(Now, name)
        /\ choice = IF w.about = Nothing \/ w.picks THEN choice ELSE m[w.about]
        /\ (w.picks \/ w.about # Nothing) <=> (choice # Nothing)
        /\ \A field \in {w.needs, w.plan} \ {Nothing} : Ok(m[field])

Unasked == {"resolve", "resolveFormats", "takeWorkingSet", "clearWorkingSet", "takeSnapshot", "answerPlace"}
\* A scan of the sessions asks for the tree of projects as well.
Alongside(st, name) ==
    IF name = "scanSessions" /\ st.model.sessions.dir = Nothing /\ Can(st, "loadProjects")
    THEN Begin(st, "loadProjects", Nothing, Nothing, FALSE) ELSE st
Press(name, choice, dry) ==
    LET w == Rows[name]
    IN  /\ Offered(name, choice) /\ Spend("start")
        /\ IF dry THEN w.dry ELSE w.reads \/ name \in Unasked
        /\ LET st == Alongside(Now, name)
           IN  Can(st, name) /\ Become(Begin(st, name, choice, Subject(w, model[w.page], choice), dry))
        /\ UNCHANGED <<open, era, generation, rules, told, world, kept, question, saving, wrote>>
DecideAll ==
    /\ "scanSessions" \in scope.rows
    /\ LET ruled == [Now EXCEPT !.model.sessions.rule = "rule"]
       IN  /\ Ok(model.sessions.scan) /\ Offered("scanSessions", model.sessions.pair) /\ Spend("start")
           /\ LET st == Alongside(ruled, "scanSessions")
              IN  Can(st, "scanSessions")
                  /\ Become(Begin(st, "scanSessions", model.sessions.pair, model.sessions.pair, FALSE))
    /\ UNCHANGED <<open, era, generation, rules, told, world, kept, question, saving, wrote>>

\* The dialog is in front of everything, but results go on arriving behind it.
Ask(name, choice) ==
    LET w == Rows[name]
        subject == Subject(w, model[w.page], choice)
    IN  /\ ~w.reads /\ name \notin Unasked /\ Offered(name, choice) /\ scope.start > 0
        /\ w.checks # Nothing => model[w.page][w.checks] = subject
        /\ question' = [work |-> name, about |-> choice, subject |-> subject]
        /\ UNCHANGED <<open, era, generation, rules, told, world, model, kept, jobs, saving, wrote, scope>>
\* A move of chats takes its request only now; a save may have taken it away.
Held(name) == name = "moveChats" => model.chats.request # Nothing
Answer(yes) ==
    /\ question # Nothing /\ question' = Nothing
    /\ IF yes /\ Held(question.work)
       THEN /\ Cardinality(jobs) < MaxJobs /\ Spend("start")
            /\ Become(Begin(Now, question.work, question.about, question.subject, FALSE))
       ELSE UNCHANGED <<model, jobs, scope>>
    /\ UNCHANGED <<open, era, generation, rules, told, world, kept, saving, wrote>>

Choose(page, field, choice, forgets) ==
    /\ question = Nothing /\ page \in DOMAIN model /\ Spend("event") /\ model[page][field] # choice
    /\ model' = [model EXCEPT ![page] = Forgotten([@ EXCEPT ![field] = choice], forgets)]
    /\ UNCHANGED <<open, era, generation, rules, told, world, kept, jobs, question, saving, wrote>>
SelectSnapshot(snapshot) ==
    /\ "guardian" \in DOMAIN model /\ Ok(model.guardian.list)
    /\ Choose("guardian", "selected", snapshot, {"preview", "checked"})
ChangeMove(inputs) == Choose("projects", "inputs", inputs, {"moveScan", "checked"})
ChangePair(pair) ==
    Choose("sessions", "pair", pair, {"rule"}) /\ ~model.sessions.scoping

\* Another settings file: every page starts afresh, the jobs of the old ones run on.
OpenConfig(file) ==
    /\ question = Nothing /\ file # open /\ Spend("event")
    /\ open' = file /\ era' = era + 1 /\ told' = rules[file]
    /\ \E front \in DOMAIN model :
         Become(Arrive([Now EXCEPT !.model = Fresh(scope.rows), !.era = era + 1, !.file = file], front))
    /\ wrote' = Blank(scope.rows)
    /\ UNCHANGED <<generation, rules, world, kept, question, saving>>

\* What a result does to the page that waited for it.
Delivered(m, j, out) ==
    LET w == Rows[j.work]
        written == out = Done /\ ~j.dry
    IN  [f \in DOMAIN m |->
            IF f = w.flag THEN FALSE
            ELSE IF f = w.shows /\ (w.matches => m[w.about] = j.about) THEN out
            ELSE IF f = w.again /\ j.more # Nothing /\ (w.strict => Ok(j.more)) THEN j.more
            ELSE IF f = w.checks /\ out = Done /\ j.dry THEN j.subject
            ELSE IF (f \in w.forgets /\ written) \/ (f \in w.after) THEN Nothing
            ELSE m[f]]

\* The person stops waiting for a read: the thread runs on, its result is dropped.
CancelJob(j) ==
    /\ question = Nothing /\ j.watched /\ Row(j).reads /\ Spend("event")
    /\ jobs' = (jobs \ {j}) \cup {[j EXCEPT !.watched = FALSE]}
    /\ model' = IF j.era = era THEN [model EXCEPT ![Row(j).page] = Delivered(@, j, Failed)] ELSE model
    /\ UNCHANGED <<open, era, generation, rules, told, world, kept, question, saving, wrote>>

-----------------------------------------------------------------------------
(* The thread of a job. *)

\* Rows that look the settings file up only when their turn comes.
Under(j) == IF Row(j).late THEN open ELSE j.file
Item(j, file) == [by |-> Row(j).page, about |-> j.about, rule |-> j.rule, file |-> file,
                  rules |-> rules[file], world |-> world, asked |-> Row(j).reads]
Place(item) == <<item.file, item.by, item.about>>
Keep(j, item) ==
    kept' = IF Row(j).keeps /\ item # Failed
            THEN [place \in DOMAIN kept \cup {Place(item)} |-> IF place = Place(item) THEN item ELSE kept[place]]
            ELSE kept
Stands(item, file) == item.file = file /\ item.rules = rules[file] /\ item.world = world
\* What a write finds under the id it was given.
Found(j) == IF Row(j).keeps /\ Place(j.subject) \in DOMAIN kept THEN kept[Place(j.subject)] ELSE j.subject
\* A mutant: whatever plan is kept for the page is applied.
IsAnyPlan(j) == TRUE
IsConfirmed(j) == Found(j) = j.subject
May(j, file) ==
    Row(j).plan # Nothing => IsConfirmed(j) /\ (Row(j).rebuilds => Stands(Found(j), file))

Over(j, changes) == jobs' = (jobs \ {j}) \cup {changes}
ReadInJob(j) ==
    /\ j.at = "waits" /\ Row(j).reads
    /\ \E item \in {Item(j, Under(j)), Failed} :
         Over(j, [j EXCEPT !.at = "done", !.out = item]) /\ Keep(j, item)
    /\ UNCHANGED <<open, era, generation, rules, told, world, model, question, saving, wrote, scope>>
Remember(j) == rules' = [rules EXCEPT ![Under(j)] = @ + 1]
WriteInJob(j) ==
    /\ j.at = "waits" /\ ~Row(j).reads /\ ~j.dry /\ May(j, Under(j))
    /\ world' = world + 1
    /\ Over(j, [j EXCEPT !.at = IF Row(j).again = Nothing THEN "done" ELSE "wrote", !.out = Done, !.world = world + 1])
    /\ IF Row(j).remembers THEN rules' = rules \/ Remember(j) ELSE rules' = rules
    /\ UNCHANGED <<open, era, generation, told, model, kept, question, saving, wrote, scope>>
\* A dry run that finds nothing in the way; or a refusal, the gate's or anyone's.
EndWithout(j) ==
    /\ j.at = "waits" /\ ~Row(j).reads
    /\ \E out \in {Failed} \cup IF j.dry /\ May(j, Under(j)) THEN {Done} ELSE {} :
         Over(j, [j EXCEPT !.at = "done", !.out = out])
    /\ UNCHANGED <<open, era, generation, rules, told, world, model, kept, question, saving, wrote, scope>>
ReadAgain(j) ==
    /\ j.at = "wrote"
    /\ \E item \in {Item(j, Under(j)), Failed} :
         Over(j, [j EXCEPT !.at = "done", !.more = item]) /\ Keep(j, item)
    /\ UNCHANGED <<open, era, generation, rules, told, world, model, question, saving, wrote, scope>>

-----------------------------------------------------------------------------
(* The window's thread: a result is applied, settings are announced. *)

SharingPages(kind, page) ==
    (CASE kind = "dry_run" -> {"overview", "sync"} [] kind = "full_sync" -> {"sync", "automation"}
       [] kind = "chat_list" -> {"projects", "sessions"} [] OTHER -> {}) \ {page}
SessionsReceive(m, out) == [m EXCEPT !.dir = out]
ProjectsReceive(m, out) == [m EXCEPT !.dir = out]
OverviewReceive(m, out) == [m EXCEPT !.dry = out]
AutomationReceive(m, out) == [m EXCEPT !.result = out, !.board = Nothing]
SyncReceive(m, kind, out) ==
    IF kind = "dry_run" THEN [m EXCEPT !.result = out]
    ELSE [m EXCEPT !.result = out, !.history = Nothing, !.preview = IF Ok(out) THEN Nothing ELSE @]
Receive(page, m, kind, out) ==
    CASE page = "sessions" -> SessionsReceive(m, out) [] page = "projects" -> ProjectsReceive(m, out)
      [] page = "overview" -> OverviewReceive(m, out) [] page = "automation" -> AutomationReceive(m, out)
      [] page = "sync" -> SyncReceive(m, kind, out)
\* A mutant: nobody counts the saves.
NeverStale(j) == FALSE
Stale(j) == Row(j).reads /\ j.since # generation
Applied(j) ==
    LET w == Row(j)
        out == IF Stale(j) THEN Failed ELSE j.out
        own == Delivered(model[w.page], j, out)
    IN  [page \in DOMAIN model |->
            IF page = w.page THEN IF Stale(j) THEN ResetPlans(page, own) ELSE own
            ELSE IF page \in SharingPages(w.kind, w.page) /\ ~Stale(j) THEN Receive(page, model[page], w.kind, out)
            ELSE model[page]]
Written(j) == j.out = Done /\ ~j.dry
Deliver(j, inFront) ==
    /\ j.at = "done" /\ (inFront => Stale(j))
    /\ IF ~j.watched \/ j.era # era
       THEN ~inFront /\ jobs' = jobs \ {j} /\ UNCHANGED <<model, wrote>>
       ELSE LET st == [Now EXCEPT !.model = Applied(j), !.jobs = jobs \ {j}]
            IN  /\ Become(IF inFront THEN Arrive(st, Row(j).page) ELSE st)
                /\ wrote' = [w \in DOMAIN wrote |->
                                IF Written(j) /\ w[1] = Row(j).page /\ w[2] \in Row(j).forgets
                                THEN j.world ELSE wrote[w]]
    /\ UNCHANGED <<open, era, generation, rules, told, world, kept, question, saving, scope>>

SaveSettings(here) ==
    /\ (here => question = Nothing /\ ~saving) /\ Spend("event")
    /\ rules' = [rules EXCEPT ![open] = @ + 1] /\ saving' = (saving \/ here)
    /\ UNCHANGED <<open, era, generation, told, world, model, kept, jobs, question, wrote>>
\* The result of the save arrives: every page forgets its plans.
ConfigChanged(front) ==
    /\ saving /\ saving' = FALSE /\ generation' = generation + 1 /\ told' = rules[open]
    /\ Become(Arrive([Now EXCEPT !.since = generation + 1,
                               !.model = [page \in DOMAIN model |-> ResetPlans(page, @[page])]], front))
    /\ UNCHANGED <<open, era, rules, world, kept, question, wrote, scope>>
WorldMoves ==
    /\ Spend("event") /\ world' = world + 1
    /\ UNCHANGED <<open, era, generation, rules, told, model, kept, jobs, question, saving, wrote>>

-----------------------------------------------------------------------------
PagesInit ==
    /\ open = (CHOOSE file \in Configs : TRUE) /\ era = 1 /\ generation = 0 /\ told = 0 /\ world = 0
    /\ rules = [file \in Configs |-> 0] /\ kept = <<>>
    /\ scope \in Features /\ model = Fresh(scope.rows) /\ jobs = {} /\ question = Nothing /\ saving = FALSE
    /\ wrote = Blank(scope.rows)
Person ==
    \/ \E name \in scope.rows, choice \in Options \cup {Nothing}, dry \in BOOLEAN : Press(name, choice, dry)
    \/ DecideAll
    \/ \E name \in scope.rows, choice \in Options \cup {Nothing} : Ask(name, choice)
    \/ \E yes \in BOOLEAN : Answer(yes)
    \/ \E choice \in Options : SelectSnapshot(choice)
    \/ \E choice \in Options : ChangeMove(choice)
    \/ \E choice \in Options : ChangePair(choice)
    \/ \E file \in Configs : OpenConfig(file)
    \/ \E j \in jobs : CancelJob(j)
Threads == \E j \in jobs : ReadInJob(j) \/ WriteInJob(j) \/ EndWithout(j) \/ ReadAgain(j)
Around ==
    \/ \E j \in jobs, inFront \in BOOLEAN : Deliver(j, inFront)
    \/ \E here \in BOOLEAN : SaveSettings(here)
    \/ \E front \in DOMAIN model : ConfigChanged(front)
    \/ WorldMoves
PagesNext == Person \/ Threads \/ Around
PagesSpec == PagesInit /\ [][PagesNext]_pagesVars

-----------------------------------------------------------------------------
\* A page is busy exactly while a job of its own that somebody waits for runs:
\* no lost or refused result leaves it busy for good, and no second job starts
\* under the same flag; nor do two pages that offer the same run start it twice
\* (window.py `run', jobs.py, widgets.py).
BusyWhileItRuns ==
    /\ \A name \in scope.rows :
           LET w == Rows[name]
               running == {j \in jobs : j.watched /\ j.era = era /\ Row(j).page = w.page /\ Row(j).flag = w.flag}
           IN  IF model[w.page][w.flag] THEN Cardinality(running) = 1 ELSE running = {}
    /\ Cardinality({j \in jobs : j.watched /\ j.era = era /\ Row(j).kind = "full_sync"}) <= 1

\* What a page offers to apply was read from the file that is open, after its
\* own last write, and -- where a save takes plans away -- under the settings
\* last announced (base.py, reset_plans); and it is about what is chosen on the
\* page (guardian.py, projects.py, chats.py).
About(page, plan, choice) ==
    page \in DOMAIN model /\ Ok(model[page][plan]) => model[page][plan].about = model[page][choice]
PlansStayCurrent ==
    /\ \A w \in DOMAIN wrote :
           LET item == model[w[1]][w[2]]
           IN  Ok(item) =>
                   /\ item.file = open /\ item.world >= wrote[w]
                   /\ (w[2] \in PagePlans[w[1]] /\ item.asked) => item.rules >= told
    /\ About("guardian", "preview", "selected") /\ About("projects", "moveScan", "inputs")
    /\ About("chats", "preview", "request")
\* Whatever is saved, opened, answered or given up behind a job, what the pages
\* show of it stays true: what is under way, and what may be applied.
PagesStayTrue == BusyWhileItRuns /\ PlansStayCurrent

\* A write is the one that was confirmed: the plan shown then, and the settings
\* file open then, whatever was scanned, saved or opened in between.
ConfirmedIsDone ==
    [][\A j \in jobs :
        (j.work # "answerPlace" /\ \E k \in jobs' : k.id = j.id /\ k.world > j.world) =>
            /\ Under(j) = j.file
            /\ Row(j).plan # Nothing => Found(j) = j.subject /\ j.subject.file = j.file]_pagesVars
=============================================================================
