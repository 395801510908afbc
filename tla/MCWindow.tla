------------------------------ MODULE MCWindow ------------------------------
(***************************************************************************)
(* The app with its server; a CLI in a terminal with its server, alone and *)
(* beside the app; the server a CLI left.  Pages that share a plan, a      *)
(* flag or a kind of work.                                                 *)
(***************************************************************************)
EXTENDS Window

Alive(pid, parent, kind) == [pid |-> pid, parent |-> parent, kind |-> kind, birth |-> pid, root |-> pid]
App == {Alive(1, 0, "app"), Alive(2, 1, "server")}
Terminal == {Alive(1, 0, "other"), Alive(2, 1, "cli")}
Rest == {Alive(1, 0, "daemon")}
FewStarts ==
    {[platform |-> "windows", procs |-> run] : run \in {App, Terminal}} \cup
    {[platform |-> "linux", procs |-> run] : run \in {{}, App, Terminal, Rest}} \cup
    {[platform |-> "macos", procs |-> {Alive(1, 0, "app")}]}

With(rows, start, event) == [rows |-> rows, start |-> start, event |-> event]
FewFeatures == {
    With({}, 0, 0),
    With({"scanSessions", "applySessions", "resolve"}, 3, 2),
    With({"scanSessions", "resolveFormats", "loadProjects"}, 2, 2),
    With({"loadProjects", "refreshProjects", "takeWorkingSet", "clearWorkingSet", "sessionIndex"}, 2, 2),
    With({"scanRepair", "applyRepair", "refreshProjects"}, 3, 1),
    With({"scanMove", "applyMove"}, 4, 3),
    With({"checkFiles", "checkPlaces", "answerPlace"}, 3, 1),
    With({"refreshChats", "previewChats", "moveChats"}, 4, 1),
    With({"checkPlan", "fullSync", "handoffNow"}, 3, 1),
    With({"dryRun", "dryRunHere", "decideSync", "loadHistory"}, 2, 1),
    With({"environment", "handoffBoard", "handoffNow", "dryRunHere"}, 2, 1),
    With({"inventory", "previewRestore", "restoreState"}, 4, 2),
    With({"inventory", "takeSnapshot", "previewAccept", "acceptState"}, 3, 1),
    With({"journals", "actOnJournal"}, 3, 1),
    With({"checkCodex", "repairCodex", "prepareRebuild", "requestRebuild"}, 3, 1),
    With({"listBackups", "restoreBackup", "copiesFolder"}, 3, 1),
    With({"homeSummary", "recount"}, 2, 2)}
=============================================================================
