# codexSync, specified in TLA+

codexSync hands the state of Codex (its sessions, projects and settings under
`.codex`) from one of a person's computers to another through a folder that a
cloud client keeps in step. It is a Python program of some 36,000 lines
(`src/src/codexsync`): a command line, a window, and a scheduled task that call
the same operations. What it must never do is lose a version of a file, write
under a running Codex, or leave a half-applied plan that nobody notices. This
directory models those operations, checks them with TLC and proves the central
results with TLAPS.

Paths below are relative to `src/src/codexsync` unless they start with `docs/`
or `tests/` (of `src/`).

## 1. Inventory

### Components, state, operations

| Component | State it keeps | Operations | What makes it correct |
|---|---|---|---|
| Mutation journal (`mutation_journal.py`) | one JSON file per operation in the shared workspace: PREPARED, BACKED_UP, COMMITTING, COMMITTED, FAILED, RECOVERY_REQUIRED | `begin` (close abandoned, scan, open), `transition`, `load` | evidence of a half-applied plan survives every crash; a terminal journal stays as it is |
| Operation lock (`operation_lock.py`) | an OS lock per state root and machine | acquire, release (also by death) | one mutation per Codex folder |
| Sync engine, replace (`sync_engine.py`, `fs_replace.py`) | staged siblings, the plan | stage, backup, gate, replace with retries, delete, verify | no replace under a running Codex, none without backup |
| Backup manager (`backup.py`) | snapshot folders with a manifest | `backup_file`, `finalize`, `prune` | what was overwritten can be put back |
| Recovery, restore (`recovery.py`, `restore.py`) | none of its own | list, resume, rollback, restore | every block has a way out, and no other process's journal is touched |
| Sync planner, manifest (`planner.py`, `manifest.py`, `scanner.py`) | a baseline per machine in one shared file | plan, build, load, save | no silent loss of a version; convergence |
| Guardian (`guardian_*.py`, `stable_reader.py`) | generations of the global state: staging, published snapshots, COMMITTED markers, the latest-good pointer, quarantine, accept decisions | `commit`, `quarantine`, `resolve_or_restore`, prune, watch, accept, restore | generations grow; the pointer names a good one; retention keeps what the pointer, the decisions and a restore need |
| Handoff and watcher (`handoff.py`, parts of `app.py`) | one board file per machine in the cloud folder | `record_handoff`, `mark_working`, delivery wait, `run_handoff`, `watch_handoff` | a machine starts work on what was delivered in full, and says so |
| Session transfer (`semantic_*.py`, `session_*.py`) | a semantic manifest per machine, pinned resolutions | scan, classify, resolve, apply, record | a chat changed on both sides is a conflict, never overwritten; one file per chat |
| Codex catalogue (`chat_*.py`, `thread_catalogue.py`, `codex_health.py`) | rows and a backfill marker in Codex's SQLite file, boards of names | refresh, set names, follow archive moves, repair | rows say what the files say; a person's names stand; a rebuild is not cut short |
| Global state (`app.commit_global_state`, `project_move.py`, `repair_plan.py`, `chat_move.py`) | `.codex-global-state.json`, saved plans, staged folders | move of a project or a chat, repair, restore, rollback | what Codex wrote is never replaced; a folder arrives whole |
| Project lists (`project_sync.py`, `path_*.py`, `peer_board.py`, `sidebar_sections.py`) | one list per machine in the cloud folder, answers about folders | merge, preview, apply, publish, place | different folders stay different projects; a list is taken once |
| Settings (`config*.py`, form and settings pages) | `config.toml` | read, save, upgrade, console `config set` | no edit is written over unread; the window shows what is in force |
| Automation (`automation.py`, `system_scheduler.py`) | four tasks of the operating system | apply, remove, status | the tasks are the ones the settings ask for |
| State backup (`state_backup.py`) | zip archives | copy, prune | a copy is of one moment; pruning keeps the newest |
| Process detector, safety gate, closing Codex (`process_detector.py`, `safety_gate.py`, `codex_closer.py`) | none | two listings, stable window, ask to quit | nobody but Codex is asked; a sync goes on only when Codex is gone |
| Window (`gui/`) | pages, plans shown, jobs under way | start, deliver, cancel, save | what a person confirmed is what is done; a plan shown is still the plan |
| Scanner, diagnostics, logs | indexes, reports | | read only: not modelled |

### Interaction

`app.build_context` proves that Codex is stopped, scans both trees and computes
a plan. `run_sync` takes the lock, opens a journal, executes the plan through the
engine, scans again, saves the manifest and closes the journal. A restore, a
rollback and the global-state commit run in the same envelope. `run_handoff`
composes: wait for delivery, sync, session transfer, project and catalogue
steps, board. Machines share nothing but the cloud folder: mirror, journals,
backups, manifests, boards, lists. The lock and `.codex` belong to one machine.
Codex is an independent process that only the process detector sees. The window
runs the same calls as jobs on one worker thread and is told of the result later.

### What is hard here

* Several processes of one machine, and several machines without a common lock.
* Codex or the cloud client writing between any two steps of a run.
* A kill, or a refused write of the journal itself, between any two steps.
* A retried replace that waits while Codex may start.
* Baselines: what is recorded as agreed, from which scan, by whom.
* Plans that are shown, left alone, and confirmed after the world moved.
* Clocks of different machines, restamped files, equal times, clocks set back.
* Delivery: a folder that is empty, a file that is torn, because it has not arrived.
* Process numbers that are used again between a listing and a request to quit.

`PROJECT.json` lists each hazard at its line with the properties that cover it.

## 2. Plan

The most important behaviour first. Every module is written without RECURSIVE
operators and with its parameters as CONSTANTS under named assumptions, so that
it can be proved about as well as checked.

| Stage | Module | What it adds | State |
|---|---|---|---|
| 1 | `MutationEnvelope` and its proofs | lock, journal, backup, gate, replace, failure, recover | checked; its safety proved |
| 1 | `SyncPlanner`, `BaselineSync` and their proofs | decisions of the planner; runs of several machines over one mirror, with their baselines | checked; safety proved for calm runs |
| 1 | `GuardianStore` and its proofs | snapshots, generations, latest-good, quarantine, retention, watch, accept | checked; safety proved |
| 1 | `Handoff` and its proofs | boards, delivery wait, the two halves of a full sync, the watcher, a replica of the mirror per machine | checked; safety proved |
| 2 | `AtomicMutation`, with proofs in `MutationEnvelopeProofs` | the promise of the envelope, and that the envelope keeps it | checked and proved |
| 2 | `SessionTransfer` and its proofs | one chat on two machines and in the mirror | checked; safety proved |
| 2 | `CodexState` and its proofs | every edit of the global state, with the move of a folder | checked; safety proved |
| 2 | `CodexCatalogue` and its proofs | what is written into Codex's catalogue | checked; safety proved |
| 2 | `ProjectLists` and its proofs | merge of project lists and answers about folders | checked; safety proved |
| 2 | `Settings`, `Automation`, `StateBackup`, `Backups`, composed in `Desk`, and its proofs | what surrounds a sync on one machine | checked; safety proved |
| 2 | `CodexClosing`, `Pages`, composed in `Window`, and their proofs | the window, its jobs, and asking Codex to quit | checked; safety proved |

Left to TLC: liveness (section 6).

## 3. Modules and the code

### `MutationEnvelope`

A process (`Procs`) is one codexSync program; `MachineOf` says where it runs.
`data` is the local root of each machine and the mirror; `journal`, `owner`,
`planned`, `snap`, `stamped` are the files of the shared workspace (journals and
backup snapshots); `lock` is the operating system's lock of each machine; `pc`,
`op`, `mem`, `plan`, `todo`, `tries`, `source` are the local variables of a run.
`mem` is the journal *object* a process holds, `journal` the *file*: the code
checks its transitions against the object. `applied`, `overwrote`, `disturbed`,
`closedBy`, `since` are history variables; only `Verify` reads one (`applied`), to
tell which destination the code's loop has just replaced.

| Code | Actions |
|---|---|
| `build_context` proves Codex stopped, `OperationLock.__enter__` | `Start`, `LockFree` |
| `JournalStore.begin`: `close_abandoned`, scan, write | `CloseAbandoned`, `ScanClear`, `ScanBlocked`, `OpenJournal`, `BeginRefused` |
| `SyncEngine.execute`: staging, backup, `finalize` | `Stage`, `BackupFile`, `BackupDone`, `Finalize` |
| the hooks `after_backup`, `pre_commit`, `before_replace_check` | `AfterBackupHook`, `PreCommitGate`, `PreCommit`, `ReplaceGate` |
| `replace_with_retry`, unlink, verification | `Replace`, `ReplaceLocked`, `Verify`, `AllReplaced` |
| `run_sync`: commit, prune; its failure handler | `Commit`, `Prune`; `Raise`, `Fail`, `FailUnrecorded` |
| `resume_operation`, `rollback_operation`, `_close` | `LoadToClose`, `Acknowledge`, `ResumeClose`; `PlanRollback`, `RollbackLock`, `RollbackRefused`, `RollbackClose`, `RecoverRefused` |
| a killed process, Codex, the cloud client | `Crash`; `StartCodex`, `StopCodex`, `Edit` |

A rollback goes on as a run of its own, with `source` set: the restore it performs
passes through the same `begin` ... `prune`. `RecoverAlone` is a precondition on the
person: TRUE means that recover is used only on a journal no live process works on.

`AtomicMutation` is what a caller of the envelope may rely on: an operation is
opened with a plan, its actions take effect once each and in order, and it ends
with all of them (`Complete`), with none (`Abandon`) or because a person
ended it (`EndByPerson`). At the end of `MutationEnvelope` an `INSTANCE ... WITH` maps
journal, plan and history to it; `MutationIsAtomic` is its specification.

### `SyncPlanner` and `BaselineSync`

`SyncPlanner` is the loop body of `build_sync_plan` for one path: which side
changed since the baseline, whether a deletion is proved, what a policy decides.
`BaselineSync` runs it: `Plan` is `build_context` (both indexes and the own
baseline are read, the direction applied, a conflict ends the run), then `Scan`,
`Open`, `Stage`, `Apply` (one destination per step, in the engine's order),
`Rescan`, `Load` and `Save` (`run_sync`, `load_manifest`, `save_manifest`). `Fail` and
`CannotStage` end a run at any step, `Resume` is the person's. Around them `Write`,
`Remove`, `Restamp` (the cloud client does not keep modification times) and
`EmptyRoot` (a mirror that is missing). `Quiet` (nobody writes while a run is under way) and `OneAtATime` are
preconditions, not guards of the code; section 7 says what happens without them.

Two histories say what "lost" means. `saw` relates an older content of a path to a newer
one: the author of the newer had the older in hand, or a rule of the person or a first
sync preferred the newer; a version that is overwritten or deleted must come before
what replaces it, or it is in `lost`. `revived` holds what a run put back on a side that
had removed it. `mirror` follows each root that goes missing: `emptied` until a run copies
into it, then `refilled`. Once it is refilled the rule that holds deletions back no longer
applies and the baselines speak of files the mirror does not have: what happens
then is excepted by `NothingLostUnasked`.

### `GuardianStore`

`live` is the state file with its stat signature; `snap` the snapshot directories
with their stage (staged, published, committed, removed), generation, content,
predecessor and whether a person accepted them; `pointer` the latest-good file;
`events` the quarantine; `lock` the runner lock; `run` what each program
remembers. `held` is a file of the store that another program keeps from being
read, `aged` the leftovers older than `staging_retention_hours`.

| Code | Actions |
|---|---|
| `GuardianRunner.watch`, `once`, `accept`, `preview_accept` | `StartWatch`, `StartOnce`, `StartAccept`, `Preview`, `Stop` |
| `_watch_locked`, `_verify_store` | `PollChanged`, `PollFallback`, `VerifyStore` |
| `_process_candidate`, `StableReader.read_stable` | `Debounce`, `ReadFirst`, `ReadAgain`, `Note`, `Assess`; `Confirm` in accept |
| `GuardianStore.commit` | `Baseline` (with the sweep), `Stage`/`Refused`, `Publish`, `Mark`, `Point`, `Prune` |
| `GuardianStore.quarantine` | `Quarantine`, `Supersede` |
| `_survive`; a killed program | `Fail`; `Crash` |
| Codex; another program; time | `Write`, `SilentWrite`; `Hold`, `Release`; `Age` |

The writer lock is left out because every caller of the store holds the runner
lock. Two samples stand for `stable_reads`. Retention by count and age removes any
subset of what is not protected. What matters of a content is whether it
validates and one count (the code compares two counts by the same rule).

### `Handoff`

`local`, `cloud` and `board` are what a machine has on its disk: its `.codex`, its
replica of the mirror, its board file; `server` is the newest content of the
mirror, which `DeliverFile` brings to each replica file by file, and `seen` the boards
of the others as they arrived (`DeliverBoard`, `DeliverPart`). `base` is the baseline
of the settings. A content is a number, and `past` says which contents it
continues: a chat that continues another replaces it. `prog` is the watcher and
the run it has under way. `over`, `touched`, `loose`, `half`, `misled`, `crossed`, `left`,
`stray` and `forgot` are history: no guard reads them.

Two things happen in silence, and the model has both. A machine that cannot read its own
board (`Own(m, FALSE)`) goes on from a blank record, in `mark_working`, at the start of a run
and in `record_handoff`; what it writes then has forgotten its last handoff and what it had
taken (`forgot` counts that). And a chat that a standing limit holds back
(`_CHATS_LEFT_IN_THE_MIRROR`, or a chat outside the working set or the direction) stops no
run: `Plan` picks any set of chats to be held back, `ChatDecision` leaves them, and the run
records its handoff all the same (`left`, `stray`). Which limit it is does not matter here;
`SessionTransfer` has those it tells apart.

| Code | Actions |
|---|---|
| `watch_handoff`, `mark_working` | `StartWatch`, `StartUnsure`, `PollOpened`, `PollClosed`, `MarkFails` |
| `run_handoff`: gate and boards, `_wait_for_delivery` | `Begin`, `Arrived`, `NotDelivered`; `ByHand` for the command |
| its chat plan, `run_sync`, `apply_session_transfer` | `Plan`, `SyncSettings`, `SyncChats`; `Refused` |
| `record_handoff`; the own board, where it cannot be read | `RecordHandoff`; `Own`, `Reads`, `Writes` |
| an exception; the end of the program | `Fail`; `Crash` |
| the person and Codex | `OpenCodex`, `CloseCodex`, `Work` |

`MyTurn` is the protocol of docs/en/SYNC.md: Codex on one machine at a time, opened
after the last handoff was loaded, open and closed long enough for one look of the
watcher. To break it, or to use `--accept-undelivered`, spends a `breach`. Each half of
a sync is one step here; what happens inside the first is `MutationEnvelope`, inside
the second `SessionTransfer`.

### `SessionTransfer`

One chat, on several machines and in the mirror. A history is the set of numbers
of its records; `files` holds the chat's file in each folder and container of each side,
`kept` the branches in bundles, `entry` the state each machine recorded as agreed,
`resolution` the choice a person pinned, `row` and `projected` what Codex's catalogue says,
`pending` the machines whose journal asks for recovery. `run` is an apply with its item;
`To` moves it from phase to phase.

| Code | Actions |
|---|---|
| `scan_sessions`, `build_transfer_plan` (every decision) | `Scan` |
| `sessions resolve`, `sessions resolve-migration` | `Resolve`, `ResolveMigration` |
| `apply_session_transfer`: scan again under the lock, compare plan ids | `Rebuild`, `RecordOnly` |
| its journal: prepare, gate, replace, remove, verify | `Prepare`, `Commit`, `Replace`, `Remove`, `Verify` |
| `_record_semantic_manifest` | `Record` |
| refusals, failures, kill, `recover resume` | `Refuse`, `Fail`, `Crash`, `Resume` |
| `follow_archive_moves` | `FollowArchive` |
| Codex | `OpenCodex`, `CloseCodex`, `Work`, `Archive`, `Upgrade`, `Project`, `Compress`, `List` |
| the cloud client | `Tear`, `Deliver` |

### `ProjectLists`

`state` is the project part of each machine's global state, `board` the list it
published, `seen` what its replica holds of every list, `places` what a person
answered about folders, `shown` a plan a person reads. `Merge` is
`build_project_merge` with `apply_path_mapping`: recursive functions over one list after
the other (`Merged`) and over the projects of each (`MergeProjects`), since a project added
is a candidate for the next. Machines, projects and sections are numbers, in the order of
their names and ids, which is the order of these loops. A plan's id is the record of what
its digest covers. `run` is what a sync that has begun remembers of its plan; `chosen` and
`applied` are history: what a person last did with a chat, and which edition of each list a
machine merged last.

| Code | Actions |
|---|---|
| `sync_projects` without and with a confirmed plan | `Preview`, `Begin`, `PlanChanged` |
| `commit_global_state` as it is called here | `Commit`, `CommitRefused` |
| `_publish_projects` | `Publish` |
| `place_project`, `skip`, `forget` | `Place`, `Skip`, `Forget` |
| Codex and persons | `NewProject`, `RemoveProject`, `Bind`, `TakeOut`, `Pin`, `PutInSection`, `MakeFolder` |
| a kill; the cloud client | `Crash`; `Deliver`, `HoldBack` |

### `CodexCatalogue`

One machine's thread catalogue: `files` (where each chat's file is), `rows`,
`backfill` (Codex's marker of a rebuild), `boards` of names of other machines, and
`run`, which plans, backs the database up and writes in one transaction that
repeats the checks.

| Code | Actions |
|---|---|
| `refresh_thread_catalogue`, `set_chat_names`, `follow_archive_moves`, repair | `Refresh`, `SetNames`, `FollowArchive`, `Repair` |
| `_write_codex_catalogue`: journal, copy, check, gate, transaction | `BeginWrite`, `Check`, `GateAgain`, `Write`, `Verify`; `CannotCopy`, `CannotReadAgain` |
| after it: the marker, the published names | `WriteMarker`, `PublishNames` |
| kill, resume, a backup that is gone | `Kill`, `Resume`, `BackupGone` |
| Codex, transfers, other machines | `CodexOpens`, `CodexTakesOver`, `CodexLists`, `CodexFinishes`, `CodexCloses`, `Rename`, `MoveInCodex`; `Carry`, `PeerNames` |

### `CodexState`

Every edit of `.codex-global-state.json` that a person asks for. A plan is made
(`Scan`), kept, and carried out only if it would be made again (`Confirm`,
`StillPlanned`). The move of a project copies its folder first.

| Code | Actions |
|---|---|
| `chats move`, `repair`, `guardian restore`, `project move`: plan, confirm | `Scan`, `Confirm` |
| `project_move`: staging, marker, copy, verification, rename | `Prepare`, `Mark`, `Copy`, `Verify`, `Rename`, `RenameRefused`, `Clean`, `Unstamp` |
| `commit_global_state` | `BeginCommit`, `EnterCommit`, `LastLook`, `Replace`, `ReplaceRefused`, `Settle`, `Forget`; its own rollback `SettleFails`, `Undo` |
| kill, `recover resume`, `recover rollback` | `Kill`, `Resume`, `RollBack` |
| Codex and persons | `CodexStarts`, `CodexQuits`, `CodexWrites`, `ChatArrives`, `EditFile`, `FolderAppears` |

### `Settings`, `Automation`, `StateBackup`, `Backups`, composed in `Desk`

`Settings` is `config.toml` under a person's editor, the console, a form and the
upgrade card: `Look`, `LookAgain` and `Replace` are a save in its steps, `AskRead`,
`ReadFile`, `DeliverRead`, `CancelRead` the window's read in the background,
`CheckForm`, `ConfirmSave`, `ApplyUpgrade`, `DeliverSave` its pages. `Automation`
installs or removes four tasks one command at a time (`Register`, `Delete`, `Retire`
on Windows; `WritePlist`, `Bootout`, `Bootstrap`, `Unload` on macOS; `WriteUnits`,
`Enable`, `Restart`, `Disable` on Linux), each of which may fail and end the apply.
`StateBackup` waits, selects, reads file by file, compares, passes the last gate,
commits and prunes. `Desk` runs an apply from the settings that stand when it
begins; copies are a task like the others and otherwise independent.

`Backups` is the backup folder of one machine (`snaps`: what is there of each
snapshot, what its manifest lists) with the operations that write and need it.
`MutationEnvelope` has the same operations with machines, gates and retries and
leaves the contents of a snapshot out; here the contents are the point.

| Code | Actions |
|---|---|
| the envelope of a sync, a restore or a rollback | `OpenOperation`, `LockBusy`, `Stage`, `BackUp`, `EnterCommit`, `Put`, `Commit`; `RunFails`, `KillRun` |
| `BackupManager.prune`: age and number, then file by file | `PickStale`, `RemovePayload`, `RemoveManifest`, `EndRun` |
| `restore_from_backup`: choose and verify, plan, both before the lock | `ChooseSnapshot`, `PlanRestore` |
| `resume_operation`, `rollback_operation` | `AskResume`; `RollBackNothing`, `AskRollBack`, `CloseAndUndo` |
| persons and the cloud client | `EditItem`, `PeerArrives` |

### `CodexClosing` and `Pages`, composed in `Window`

`CodexClosing` has the processes as its environment (`procs`, with births, so that a
number can be used again). `ReadOnce`, `FirstListing`, `SecondListing` are a reading
of the detector, `Declines` and `AskWindows`, `AskTray`, `AskWindow`, `NoAppToAsk`,
`StopDaemons` the closer on each platform, `BeginSync` and `EndSync` the sync that
wants it. `Pages` is a table, one row per button: what greys it, what its job reads,
whether it may be cancelled, what it asks before it writes, what its result sets.
`Press`, `Ask`, `Answer`, `ReadInJob`, `WriteInJob`, `Deliver`, `CancelJob`,
`SaveSettings`, `ConfigChanged`, `OpenConfig` interpret the table. In `Window` the job
of a full sync is the one that asks Codex to quit.

## 4. Runs

| Run | Instance | Shows |
|---|---|---|
| `EnvelopeOneMachine` | one machine, two processes, two files, two operations, a plan of two copies and one of a copy and a deletion; any two of: crash, refused journal write, foreign edit, start of Codex (a refusal and an edit not together) | `OneMutationPerCodexFolder`, `HalfAppliedBlocks`, `OneReplaceAfterCodexStarts`, and the refinement `MutationIsAtomic` |
| `EnvelopeTwoMachines` | one process on each of two machines, two files, two operations; one crash | `RollbackStaysPossible` also while one machine prunes; `EveryBlockEnds` |
| `BaselineSafety` | two machines, two files of one root, four events (three when two of them are not writes), every direction, two policies, `propagate` | no silent loss (before a run copies into a mirror that went missing), no revived deletion (while no run fails), baselines are agreements |
| `BaselineConverges` | two machines, one file, two writes, a removal, a failed run, at any moment | `Converges` |
| `Guardian` | two programs, three contents (one of them a suspicious drop of another) and torn writes, two writes, one mishap, four snapshots | safety of the store and `SettledStateIsSeen` |
| `Handoff` | two machines, one of which lets a rule decide conflicts, a setting and a chat, two sessions of Codex, two writes, two handoffs, two failures of any kind, an own board that cannot be read and chats held back by a limit among them (both, then up to the second write), or one breach by the person (then up to the second handoff) | what is called handed off is in the mirror, what is called taken was loaded, records that are read do not forget |
| `Chats` | one chat on two machines and in the mirror, three starts, two sets of settings, four records, two events and one mishap | no history is lost, one file per chat, a person's move is not undone, a projected history is only continued |
| `Projects` | two machines of different systems, one with two projects and a bound chat; two events, of which one may be a kill or a list held back | `ProjectsStayApart`, `ListsNotAppliedAgain` |
| `Catalogue` | two chats, two names, another machine's board, a set-aside folder; three events, two runs, one mishap; a start with a chat unlisted and one with a rebuild ended part-way | names stand, rows follow files, no rebuild is cut short, Codex starts again |
| `CodexState` | two projects, two chats below the one that moves and one bound to it by hand whose own folder leads to the other, two files, three events, one mishap | markers vouch for copies, nothing is left behind, Codex's writes stand, a move ends |
| `Desk` | two writers of two settings at a time, four tasks on three platforms with a foreign owner of one; copies of two files with one kept, a clock set back; two files on two sides, four operations of which at most two are syncs and one a restore, one kept snapshot, one of a peer and one without a manifest, folders or archives, one mishap (two without a restore) | the view is current, tasks follow settings, no edit is lost, copies can be used; `KeptIsPutBack`: a restore puts back all its manifest lists, a rollback all its operation replaced, and no unfinished operation is a dead end |
| `Window` | sixteen sets of buttons with a budget each, two jobs at a time; closing Codex on three platforms with three process numbers | `PagesStayTrue` (a page's plan is current, its buttons are grey while their job runs), a confirmed plan is what is done, only Codex is asked, a sync goes on only when Codex is gone |

Bounds. Two actors are enough for every race of this code: its locks, scans and
re-reads relate one process to one other. Two operations let one run meet what
another left; a rollback needs a second operation for its restore. Two files give
a plan a middle: one replaced, one not. Two attempts (`MaxTries`) let a gate run
between two attempts of one replace. Four snapshots are one more than a chain
latest-good, predecessor, older, so retention has something to remove. Three process
numbers are an application, what it started and one that is reused; four births are
one more. The event bounds (`Max...`) count what the environment does; each is spent in
the run that needs it. `EnvelopeOneMachine` and `BaselineSafety` bound the *sum* of
events by a CONSTRAINT (`FewMishaps`, `FewEvents`), `Handoff` what comes after two failures
or with and after a breach of the protocol (`MishapBound`), and the runs a person starts to
those that have something to load or to hand off (`Useful`, an ACTION_CONSTRAINT; the watcher
starts its runs anyhow; 1.8 million states, and the theorems need neither bound), `Chats` what
follows a move (`FewMoves`), since three different
mishaps at once multiply states and no new interaction. `Pages` exercises a few
buttons at a time (`Features`): those that share a flag, a page's plan or a kept file.
`Desk` explores settings and tasks, copies, and backups in a behaviour each, `Window` the
pages or the closing of Codex: the parts share no variable. Symmetry is used only in
runs without liveness.

The runs that switch deadlock detection off are those where the system may stop: a
conflict under `manual_abort` stops every machine until somebody edits a file, a
watcher or a window that waits has nothing to do, and the bound on events may be
spent by then.

What the properties except. `RollbackStaysPossible` excepts files that somebody else
changed after their backup (`disturbed`): the engine does not look again, so that
version is in no backup. `HalfAppliedBlocks` counts a rollback as the person's
decision, although its restore may still be refused afterwards. The decisions half of
`NothingNeededPruned` and `NothingSuspiciousUnasked` are stated for stores whose files
could always be read; `NothingLostUnasked` until a run copies into a mirror that went
missing, `DeletedStaysDeleted` while no run fails past its first write; `NothingLost`
except where two applies overlapped beside an apply that ended unrecorded or a mirror file
without a header, `ProjectionHolds` except where two applies overlapped;
`HandedOffIsInCloud` for a person who keeps to the protocol, as
long as no run stopped with only a part of its files written (`half`), no machine wrote its
record without reading it (`forgot`) and Codex was
never opened on a board that hid the work of another machine (`misled`), and but for chats
that some run left where they were (`stray`); `TakenIsLoaded`
for files no run replaced by a replica that was behind (`crossed`), chats the last sync of
that machine did not have to leave (`left`), and machines whose
person did not waive the wait (`loose`); `NothingForgotten` steps that write a record anew
because it could not be read;
`MoveLosesNothing` a chat bound by hand whose own folder a repair leads to another
project (`LedElsewhere`); `MoveFinishes`
excepts what needs a hand (`NeedsHand`); `NoEditLost` edits that land between the last
look and the replace; `ConfirmedIsDone` the button `answerPlace`; `KeptIsPutBack` a snapshot pruned between
a restore's verification and its lock (`hurt`), and what others changed since the
operation began (`touched`). Section 7 says what
happens in each exception.

## 5. Fairness

* A process that was started goes on (`WF` of its steps): they are straight-line
  code with bounded waits (`fs_replace.REPLACE_ATTEMPTS`, the gate window,
  `poll_interval_seconds`).
* The person closes Codex sooner or later and goes on using codexSync on every
  machine (`WF` of `StopCodex`, `CodexQuits`, `SF` of `Start`, `StartSync`,
  `StartWatch`, `Scan`): codexSync is started at login, by a timer and by the person.
  `SF`, because a busy lock, an open journal or a running Codex may refuse any one
  attempt.
* The person confirms a plan that is shown (`WF` of `Confirm`), repairs a catalogue that
  keeps Codex from starting (`WF` of `Repair`) and ends what `recover` lists
  (`PersonResumes`, `SF` of `Resume`). In the envelope this is assumed only for
  journals past their commit phase: a journal left before it must be closed by the
  code itself, so its closing follows from `Fairness` alone.
* A file that another program holds is released, and time passes over leftovers.

`BaselineConverges` assumes `OneAtATime`: two machines that always reach the
journal scan together can refuse each other for ever, and nothing in the code
rules that out. `SettledStateIsSeen` assumes that leftovers age, that is
`staging_retention_hours > 0`.

## 6. Proofs

`MutationEnvelopeProofs` proves, for every set of machines, processes, files,
contents, operations and plans, every bound and both values of `RecoverAlone`,
from `EnvelopeAssumption` alone:

* `TypeInvariant`: `Spec => []TypeOK`;
* `MutualExclusion`: `OneMutationPerCodexFolder`;
* `JournalIsEvidence`: `EvidenceBeforeReplace`;
* `GateHolds`: `OneReplaceAfterCodexStarts`;
* `HalfAppliedStaysOpen`: `HalfAppliedBlocks`;
* `CommittedMeansApplied`: `CommittedIsComplete`.

None of the last five is inductive. The invariant `Inv` adds what ties a run to
its journal: whoever is inside holds its machine's lock (`LockHeld`), a run's
operation is of its own machine and has a journal (`OwnJournal`), no two runs
share one (`OneRunPerJournal`), what a run remembers of its journal follows from
where it stands (`Remembers`), an operation without a journal has no history
(`FreshOps`), a run before its commit phase has replaced nothing (`NothingYet`), a
journal closed by `begin` has no run (`AbandonedIsOver`), a run in its commit phase
has an open journal unless a person closed it (`CommitIsOpen`), and its plan is
split into what took effect and what is to do (`PlanSplit`).

`LockHeld`, `OwnJournal` and `OneRunPerJournal` carry the argument. Only `begin`
closes a journal without being asked, and it closes journals of its own machine
that are before their commit phase. The run such a journal belongs to would hold
the same machine's lock that `begin` holds; so it is over, and by `NothingYet` it
replaced nothing. That is why the lock must cover `begin`, and why
`close_abandoned` must look at the owner. `HalfAppliedBlocks` then follows from
what the failure handler remembers (`Remembers`, `CommitIsOpen`), and
`CommittedIsComplete` from `PlanSplit` with nothing left to do. `GateHolds` uses
`LockHeld` and `GateFirst`: once Codex runs, a machine that has replaced something since
has no run past its gate, because every further attempt passes the gate again.

It also proves `EnvelopeIsAtomic`: with `RecoverAlone`,
`Spec => MutationIsAtomic`. Each step of the envelope maps to a step of `AtomicMutation`
or a stutter (`StepSimulates`). The mapping needs more than `Inv`: `AloneInv` says that a
run and the journal it writes agree (`RunsKnow`), that a recover works on a journal
without a run (`RecoverersKnow`, `RecoverersApart`), and that an open journal of nobody
stays so (`OpenIsNobodys`). Without the assumption it is false: a recover could close
a journal that a run is still writing.

`HandoffProofs` proves, for every set of machines, settings, chats and contents and
every bound, from `HandoffAssumption` alone:

* `TypeInvariant`: `Spec => []TypeOK`;
* `RecordsGrow`: `NothingForgotten`, of records that are read;
* `TakenWasLoaded`: `TakenIsLoaded`;
* `HandedOffReached`: `HandedOffIsInCloud`.

A step that reads its own record could still forget in two ways: take an id below the one
it had, or write over what it had accepted from another machine with an older
board. Ids are drawn from `used["handoff"]`, so no board's id exceeds it (`Spent`).
What a machine has accepted of another is at most
the other's id now (`TakenIsOld`) and at most the id in its copy of the other's
board, while that copy can be read (`CopyIsOld`). Between its look at the boards and
its record a run holds boards that may have been overtaken; their ids lie between
what was accepted before and what the copy and the board say now
(`RunIsBetween`). A record written anew has no id (0) and has taken nothing, so the order is
stated of ids other than 0 (`Rewrites`); ids are drawn once, so a later handoff is again above
all that came before. The invariant `Order` is these four with `TypeOK`.

What is taken was loaded (`Loads`, with `Order`): a replace only adds to what a content
covers (`ContentsGrow`), so what any board names stays covered by the mirror
(`MirrorCovers`), from its arrival on by the replica of the run that waited for it, and from
each half of the sync on by what that machine has (`RunsLoad`). The id a run records stands
for the files it waited for because two copies of one handoff name the same ones
(`OneIdOneHandoff`), and each half carries over every file that differs: a setting because
its baseline is one content (`BasesAgree`), a chat because the plan that was checked is the
plan that is made (`PlansDecide`), but for those its limits hold back (`LeftIsStray`). What was
taken stays covered by the replica, those chats too (`TakenIsHere`): they are there when the
limit goes.

Whoever says handed off has its work in the mirror (`Protocol`, with `Loads`): while the
person keeps to the protocol, no run stopped half way, no record was written anew and no board
hid work (`Safe`), one machine at a time has anything to save (`OneWriter`), it continues the
newest of the mirror (`WriterIsCurrent`), and what the others have is in their replicas
(`OthersAreBehind`), so they only load (`SettingsCarried`, `ChatsCarried`). The step to look at is the opening of
Codex (`OpenKept`): the machine has taken what every board says, hence loaded it; the boards
together name the whole mirror unless a run has yet to record (`MirrorIsNamed`); so it has
the newest of every file before it writes the first one. All of it is said of the files no
limit ever left behind (`stray`): the others go their own way.

`BaselineProofs` proves, for every set of machines, files and roots, every policy,
direction, size, tolerance and bound, from `BaselineAssumption` and under `Calm`:

* `BaselinesAgree`: `BaselineIsAgreement`;
* `NothingIsLost`: `NothingLostUnasked`;
* `RemovedStaysRemoved`: `DeletedStaysDeleted`.

`Calm` is `OneAtATime`, `Quiet` and no two writes stamped within the tolerance: what the
docs ask of a person, and without which the properties are false (section 7). `Inv` has
three parts. `Data` holds at any time: two times in use are told apart and one time is one
content (`TimesTellApart`), a baseline records both sides alike (`RecordsStand`), `saw` is
an order (`SawIsOrder`), and what a baseline recorded comes before what is on both sides
now (`RecordedIsBelow`). That last one carries the argument: a side that is as its baseline
knows it holds what the other side's author had in hand. `Runs` says that a plan still
holds when it is carried out (`PlansHold`, `StagedIsSource`, `IndexIsCurrent`,
`LoadedIsCurrent`, `Alone`). `Private` is needed for deletions: what is not in a machine's
baseline nobody else has yet (`NewIsPrivate`), and what is in the mirror and not in the
baseline is new to the machine (`UnknownIsNew`).

`RollbackIsKeptPossible` (in `MutationEnvelopeProofs`) proves `RollbackStaysPossible`,
with `RecoverAlone`. Its invariant `RollbackInv` follows a version into its snapshot: what a
run is done backing up is held (`BackedHeld`), a snapshot begins empty, grows only by its
run and has its manifest from the commit phase on (`SnapGrows`), and an action is replaced
once (`ReplacedOnce`), so that the version in the snapshot is the one of before. That a
snapshot has one entry per path rests on `PlansAssumption`: the planner goes path by path
and a restore refuses duplicate entries. `prune` keeps what an open journal names; without
`RecoverAlone` a resume could reopen a journal after its snapshot was pruned.

`GuardianProofs` proves, for every set of programs, states and snapshots and every shrink
policy and bound, from the assumptions of `GuardianStore` alone:

* `NumbersAreUnique`: `GenerationsUnique`;
* `WhatIsNeededStays`: `NothingNeededPruned`;
* `DropsAreConfirmed`: `NothingSuspiciousUnasked`.

The runner lock carries it (`LockHeld`): the snapshot a run writes is its own and its
number is higher than any on disk (`NewIsMine`), the baseline it follows stands until its
successor is marked (`BaseStands`), and what it is about to commit was judged against the
latest-good there is (`Judged`) or shown to a person (`Confirmed`). `_next_generation` is a
maximum over a set; that it exists follows from a bound on the numbers issued (`Numbered`)
and the well-founded order of the naturals (`GreatestExists`), so no induction over the
store is needed.

`DeskCatalogueProofs` has two parts. The first proves, for every set of chats, names, peers and folders, from
`CatalogueAssumption` and `StartsAssumption` (what the catalogue may look like at first):

* `NamesOfPersonsStand`: `PersonNamesStand`;
* `RebuildsAreNotCutShort`: `RebuildNotCutShort`;
* `RowsAreFollowedToFiles`: `RowsFollowFiles`.

A run writes only what its plan says, and only into the rows its plan read
(`PlanOfItsKind`). The repeated checks make a late transaction harmless: what a run goes by
was read before a rebuild began (`PlanIsPast`, `RebuildIsNewer`), so the `updated` column of
the marker has moved and the transaction refuses; from the gate on the plan of an archive
move is what it would be again (`PlanStillTrue`).

`CodexWindowProofs` has three parts. The first proves, for every set of projects, chats, folders
and files, from `StateAssumption`:

* `CopiesHaveTheirMarker`: `CopyHasItsMarker`;
* `WhatCodexWroteStands`: `CodexWritesStand`;
* `MovesLoseNothing`: `MoveLosesNothing`.

The marker is written before the rename and removed after the edit (`MarkerFirst`), what is
under the new name is what was copied and looked at (`MoveOnItsWay`), a plan keeps the chats
it knew with their project (`PlansKeepChats`), and from the last look on the state is the
plan's unless Codex started (`LookedAt`).

The second proves of `CodexClosing`, for every set of numbers, of processes at first, and any
number of starts and samples, from `ClosingAssumption` (what runs at first is in order,
`Orderly`: no number or start is had twice, and who is older and has a parent's number is the
parent; a number may still name a parent that ended):

* `ClosingCorrect`: the invariant below;
* `WritesWhenGone`: `GoesOnWhenGone`;
* `AsksOnlyCodex`: `OnlyCodexAsked`.

A reading covers whatever is older than it (`ReadingCovers`): who was read and still runs is
in its listing, so when the first listing has no codex every codex started after the reading
began, and when the second finds nothing known, neither is anything else older; a sandbox that
starts then works for a codex that is younger itself. What the list says stays true of who
still runs (`ListHolds`): on Windows the paths and starts are of who had the number when they
were read, and the request compares the start; on Linux the numbers only count up. A CLI whose
terminal is listed, or that has none, is under no app in the list: without the two, the rest of
the list is closed under children (`NotBelow`), which is why it is a reason to refuse
(`CliRefused`).

The third proves of `Pages`, for every set of rows in use, files, choices and jobs, from
`PagesAssumption`, `NothingAssumption` (the mark for none is no field and no kind of work) and
`FeaturesAssumption` (a behaviour uses rows of the table):

* `PagesInvariant`: the invariant below;
* `PagesAlwaysStayTrue`: `PagesStayTrue`;
* `OnlyTheConfirmedIsDone`: `ConfirmedIsDone`.

What depends on the single button is shown once, row by row (`RowsAreSound`): the flag of a job
is among those that grey its button, the read of a plan and the write that uses it up grey each
other, no result goes into a flag or a choice, a full sync waits for another, and what a page reads when it
comes to the front greys no button that asks. The rest treats the rows alike. `PagesInv`
is about the jobs somebody waits for in the present era. A flag is up exactly while one
of them holds it up (`FlagsUp`). What is shown is current (`PlansShown`), and so is every result
not yet delivered (`PlansComing`), since a write of the page would have been greyed (`Apart`) and a
save makes the read stale; with this a result needs no look when it arrives but the one the
code takes. A plan is about what is chosen (`ChoicesKept`); on the chats' page that takes an argument of
its own: a save takes the request away, and until the list has been read anew no preview can
be asked for, so a preview that is not stale was asked with the request there is. The page of an open
question has only read meanwhile (`Asked`), which is why the answer may still begin its job. That only the
confirmed is done follows from the jobs alone: a job keeps what it was given (`SameJob`), no
other step moves its world (`NothingWritten`), and the write compares what it finds.

The second part of `DeskCatalogueProofs` proves of `Desk`, for every platform and every set of files, edits, trees, items, budgets
and numbers kept, from `SettingsAssumption`, `AutomationAssumption`, `StateBackupAssumption`,
`AbsentAssumption`, `BackupsAssumption` and `BackupTypes`:

* `ViewStaysCurrent`: `ViewIsCurrent`;
* `TasksKeepFollowing`: `TasksFollowSettings`;
* `EditsAreNotLost`: `NoEditLost`;
* `CopiesStayGood`: `CopiesCanBeUsed`;
* `KeptCanBePutBack`: `KeptIsPutBack`.

A step of `Desk` is one of settings and tasks, of the copies or of the backups (`DeskParts`),
so the invariant is that of each part. Settings: between its two looks a save has kept in the
history what it is about to replace (`SaveStands`), and a read that no save overtook has read
what was there after the last one (`ReadStands`, `TasksSeen`). Tasks: the slots an apply is
through with follow its settings (`DoneFollow`), and each of the remaining commands finds what
those before it left (`CommandFits`), which on macOS and Linux differs from one slot to the
next. Copies: a copy that reads holds the lock (`LockHeld`), and as long as Codex stays closed
each file is as it was when the copying began, or gone (`Reads`); the prune never reaches the
newest (`LastThere`). Backups: whoever works holds the lock and every other operation is over
(`LocksHold`, `Alone`); what an open operation replaced is in its snapshot and listed there
(`AllKept`), and a prune passes over it; how far backup and replacement have come, up to what
persons and the cloud client change meanwhile, is `Progress`; what a restore or a rollback
goes by was verified before the lock and still stands after it (`Source`, `Undoes`); an
operation that has not begun has nothing under its number (`Fresh`, `Numbered`).

`SessionTransferProofs` proves, for every set of machines, settings and starts and every
bound, from `TransferAssumption` (at the start a side holds the chat once and wholly, and where
a machine has agreed it lies where it agreed):

* `TypeCorrect`: `TypeOK`;
* `NothingIsLost`: `NothingLost`;
* `ChatIsOneFile`: `OneFilePerChat`;
* `ProjectedIsHeld`: `ProjectionHolds`;
* `MoverIsFollowed`: `MoverWins`.

`Base` says what an item that writes, an apply and a staged file are; what a plan may overwrite
is shown once, of `Decide` and all it calls (`DecideSound`). Each invariant below is
a theorem too: `AloneCorrect`, `RecordedCorrect`, `OneCorrect`, `MovesCorrect`. That no history is lost has two
reasons, each with an invariant of its own and each enough by itself. As long as no two applies
overlap (`InvAlone`), nobody else writes between the plan and the last removal: what an apply
has still to overwrite is continued by what it writes or lies in a bundle (`Flights`, with
`Neighbours` and `Pairs` for the second container a file may have). As long as every apply past
COMMITTING was recorded (`InvRecorded`), overlaps do no harm: what is in the mirror is in a
bundle, or held by a machine that has agreed to its place and so takes nothing over its own
file from there, or every apply about to write over it goes on from it (`MirrorHeld`). Where
both conditions fail the property is false. `InvOne` adds, where nothing overlaps, is cut off
or lacks a header, that an apply into the mirror meets only what it replaces. Under the same
condition `InvMoves` follows the moves of a person: they are numbered in the order they are
made, two machines know of the same one only through the mirror (`Shared`), and a side that
stands elsewhere than a machine agreed has seen a move the other side has not (`LocalMoves`,
`MirrorMoves`). Replacing a file of the mirror is the step that needs it all: the machine that
agreed to the old folder has moved, no third machine can know of that move, so the mirror is
now ahead of each of them.

`ProjectListsProofs` proves, for any number of machines, projects and sections, every set of
chats and folders, all answers, mappings and starts and every bound, from `ProjectAssumption`,
`NoneAssumption` (the mark for none is no project, folder or list) and `WorldAssumption` (a
machine has folders of its own system, and what is pinned or bound at first is a project there
is):

* `ProjectsAreKeptApart`: `ProjectsStayApart`, with `TypeOK`;
* `ListsAreNotAppliedAgain`: `ListsNotAppliedAgain`.

A merge is three loops, and each has its invariant. That it holds to the end is shown by the
least number at which it would not (`LeastNumber`), since the naturals are well founded: an
induction over numbers, not over data. Project after project of one list (`ListInv`): nothing
here is removed, and what stood here keeps its folder or moves from one that is not there to
its place (`Grown`); what was decided for a project stands while the others are decided
(`ItemStands`), in particular one that became another project is not among those whose folders
the rules make one. Two of a list that become one project and both stand where the rules put
them would be among those, unless neither became another, and then they are the same
(`ListApart`). List after list (`PlanInv`): projects are kept apart in each, and a chat stays,
goes where a list not taken yet has it, or goes into a project that is new (`Moved`). Chats that
only a folder connects come last and have no project before (`GoesBy`).

The steps of all machines then need little of the merge (`ListsInv`). A sync holds what it read
until it ends (`PlanHeld`, `RunReads`), as answers and deliveries wait for it (`BetweenSyncs`, a
bound) and only one runs (`OneSync`). That a list it takes is newer than what was merged here
before needs editions (`Numbered`: one edition is one content, no copy is newer than the list)
and what a machine has published as accepted (`Knows`), which a kill may lose: hence
`spent.mishaps = 0` in `ListsNotAppliedAgain`. A choice knows of nothing merged later, and a chat
without a project by choice is among those taken out, so no folder binds it (`ChoiceStands`).

What the proof attempts showed about the models. The first forms of six properties
held in the runs and failed on larger instances. `NothingLostUnasked` and
`DeletedStaysDeleted` were stated with the contents one author had seen, which says nothing
about a third version; now they are stated with an order and except a refilled mirror and a
failed run. `ChatsComeAlong` is false for a chat bound by hand to one project whose own folder
the rules lead to another: a repair gives it to that one (`LedElsewhere`), and the run has
such a chat now. `TakenIsLoaded` held with two machines and was false
with three: while one waits, a run on another whose replica is behind replaces the version
that was handed off; the first sees its files arrive, and between that look and its plan the
other version (section 7). Its run does not know the version it records as taken, and the
property excepts such files now (`crossed`). `HandedOffIsInCloud` needs two failures to break: a machine that could not
be marked goes on working while its board says handed off, its watcher ends, and the next
machine opens on that word (`misled`). `NothingLost` and `ProjectionHolds` held on two
machines with two events and failed beyond: a source is staged as it is then, not as the plan
compared it, so an apply that overlaps another takes a mirror nobody looked at (section 7).
`ProjectsStayApart` was stated of all projects of one list whose folders differ here. With three
machines, or a project that stands here elsewhere than the rules say, two of them can become
one (section 7): the code asks where the rules put them, not where they stand. It is stated
now of projects that stand where the rules put them.

Every safety property and every action property of the runs is proved. Only model-checked, and
out of the prover's reach: liveness (`EveryBlockEnds`, `Converges`, `SettledStateIsSeen`,
`CodexStartsAgain`, `MoveFinishes`), since it needs ENABLED and fairness.

## 7. What the models showed about the code

Places where the code does something else than a comment, a document or a test
says, or where a property holds only under the exception it states. Each was met
while modelling; the model has the code's behaviour.

Recovery
* `recover resume` closes a journal from a copy it read before its gate window,
  without the lock, and can write FAILED over COMMITTED of a live run
  (recovery.py:282 against mutation_journal.py:43 and tests/test_recovery.py:204).
  `RecoverAlone` excludes it.
* A rollback run on another machine writes that machine's local files into the folder
  of the machine it is run on (recovery.py:504 against recovery.py:301-302).
* `restore` verifies its snapshot and makes its plan from it before it takes the lock
  (restore.py:192-204). A sync that ends in between may prune a part of the snapshot;
  the restore then plans what is left and reports success. `KeptIsPutBack` excepts it.
* Without a name, `restore` takes the newest snapshot that has a manifest, of whichever
  machine (restore.py:317-324): a peer's newer snapshot in a shared folder comes first.
* The comment that `sync` and `restore` take different operation locks (sync_engine.py:290-291)
  is older than restore.py:224-226: they take the same one.
* A file held by another program survives the removal of its folder, the manifest does
  not (backup.py:237-238): what is left is offered as a legacy snapshot.
* `recover resume` refuses when the snapshot does not match its manifest, like
  `recover rollback` (recovery.py:266-269, 345): a snapshot damaged from outside blocks
  both ways out, until somebody removes it by hand. codexSync itself never damages one
  that an unfinished journal names (`WayOutStands`).

Baselines
* An edit made during a run is recorded as synchronised, because the baseline is built
  from a rescan; a later run overwrites it without a conflict (app.py:3062 against
  docs/en/SYNC.md:115). `Quiet` excludes it.
* Two runs save the one shared manifest, and the later save puts back the other
  machine's older baseline (app.py:3073). `OneAtATime` excludes it.
* A mirror that went missing and that one machine then copied a file into is no longer
  empty: what is still missing below the root reads as deleted by a person, and another
  machine deletes its own copies (planner.py:171). `NothingLostUnasked` ends there.
* A run that fails between its first replace and its manifest leaves a baseline that knows
  nothing of the copies it made; a file removed on one side then reads as new on the other
  and comes back. `DeletedStaysDeleted` ends there.

Guardian and handoff
* While latest-good cannot be read a candidate is judged against nothing, and a
  suspicious drop becomes latest-good unasked (guardian_runner.py:318 against
  docs/en/GUARDIAN.md:46-47).
* A full sync fails after its settings half; the run that finishes it has nothing left
  to write and records a handoff without a new id. The other machine sees nothing to
  wait for (app.py:3514).
* A failed `mark_working` is logged and not repeated (app.py:3821): if the watcher then ends
  while Codex is open, the board says handed off over the work of that machine.
* A machine that cannot read its own board, if only for a moment, writes a blank record in its
  place: `mark_working` says "the last handoff stays as it was" (handoff.py:272), and writes
  one without a handoff (handoff.py:274); `record_handoff` says "the previous handoff is kept
  exactly" (handoff.py:297-298), and drops it (handoff.py:308-311). A handoff that is
  forgotten so is one no other machine waits for: the next may open Codex and upload before it
  arrived there, and the board of the first says handed off over work the mirror no longer
  has. `HandedOffIsInCloud` and `NothingForgotten` except it. What was taken is forgotten too: a handoff of another machine
  taken long ago is waited for again, and once the mirror moved on it is never delivered
  without `--accept-undelivered`. `TakenIsLoaded` holds nevertheless.
* A chat that a standing limit holds back stops no run (app.py:3429), so its handoff is
  recorded as taken, or made, without it (app.py:3515), and nobody waits for it again. Those of
  `_CHATS_LEFT_IN_THE_MIRROR` are counted ("\"loaded\" must not be said of work that stayed
  behind", app.py:3139-3142), those outside the working set or the direction are not. A chat
  that was left on one machine may then be continued on another: the two have diverged when the
  limit goes. `TakenIsLoaded` excepts such chats on the machine that left them, and
  `HandedOffIsInCloud` everywhere.
* The wait for delivery looks at the replica once it is complete and not again
  (app.py:3263-3269); what the cloud client brings between that look and the plan
  (app.py:3416) is loaded in its place and the handoff is recorded as taken.
* With three machines, a handoff whose files a later machine changed never counts as
  delivered on the third, because each record's fingerprints are compared alone: it waits
  until a person runs `--accept-undelivered`.

Chats and catalogue
* An archive move killed between replace and removal, then `recover resume`, leaves two
  files of one chat (recovery.py:256-262, 399-408).
* A kill between COMMITTED and the semantic manifest leaves a stale agreed state, and a
  later un-archiving is undone (app.py:2862-2872).
* An apply stages its source as it is by then (app.py:2622-2637) and compares with the plan
  only after the replace (`_verify_transferred_branches`, app.py:2911). One machine is killed
  between COMMITTED and its record and plans to take the mirror's file; another that had
  rebuilt its plan before replaces that file by a continuation of the older one; the first
  then writes it over records that only its backup still has. `NothingLost` excepts it, and
  `ProjectionHolds` the same race over a projected chat.
* Two machines that rebuild their plan before the lock can leave two mirror files of
  one chat; a mirror file without a header and an archived one do the same.
* The repair of a catalogue may use a copy older than Codex's last rebuild; a kill
  between commit and marker asks twice; Codex starting between commit and
  verification leaves RECOVERY_REQUIRED (thread_catalogue.py:188 against
  docs/en/RECOVERY.md:167-169). A row that changes and changes back between the last
  gate and the UPDATE is not noticed.

Projects and the global state
* A content id that returns (A, B, A) reads as taken; a kill between commit and publish,
  or an own board that cannot be read, applies a taken list again (against
  docs/en/PROJECTS.md:87-88); simultaneous syncs can swap bindings for
  ever; a removed project comes back from a list that is taken later; `forget` leaves
  the answer for the parent folder.
* `_collapsing_ids` is asked only for projects that are not here yet: two that were
  carried with the other machine's folders and are placed later both get the one folder
  the rules send them to (project_sync.py:781 against docs/en/PROJECTS.md:151-152).
  For the same reason a project that stands here elsewhere than its folder maps to does not
  count: another project of the same list whose folder maps to where it stands becomes one
  with it (project_sync.py:801-815). So does one whose folder has no place here, with the
  project that another machine has in a folder of that name (project_sync.py:809-820). The
  comment on `_collapsing_ids` (746-753) calls such folders two projects.
* A list taken before still binds a chat that a person took out of every project here,
  when its project is added or placed now (project_sync.py:618 against
  docs/en/PROJECTS.md:147-150).
* A repair of two remapped projects at once takes a chat that a person bound to one of them
  by hand to the other, when the chat's own folder maps there (repair_plan.py:125-142).
* A repair plan is not compared with the chats there now (repair_plan.py:144 against
  docs/en/PROJECTS.md:234-236), and a repair after an interrupted move can point the
  project at an older copy.
* A kill between the making of a staging folder and its marker, or while it is removed,
  leaves STAGING_OCCUPIED for the same plan for ever (project_move.py:578-585).
* The in-process rollback of a commit does not check that the file is still its own.

Settings, tasks, copies
* A save of one window can overwrite an edit made between its last look and the
  replace, also by another save of the same window (config_edit.py:1016 against
  docs/en/GUI.md:351-355); what is typed into a page while its own save runs is dropped.
* An apply that stops part-way leaves the handoff and the sign-in sync both installed;
  after a failed `daemon-reload` or `restart` the status still says enabled; a failed
  `disable --now` or `bootout` on removal is ignored; on macOS an apply boots out the
  running job; a legacy task stays beside the new one when the SID cannot be read;
  saving any scheduler field drops `interval_minutes`.
* Codex opened and closed within the window of a copy gives a copy of no single moment
  (state_backup.py:453); "the newest is never beyond keep" (state_backup.py:368) is wrong
  when the clock was once ahead: every new copy is then deleted by the next.

Window and closing Codex
* Several calls look the controller up on the worker thread, so an answer started just
  before another file is opened is written under the other file's settings
  (`answer_place` is the one that writes; `ConfirmedIsDone` excepts it).
* A result of a read begun before a save and delivered after it replaces plans made since
  (gui/window.py:296-298); acceptance previews and everything on Recovery survive a save
  although gui/window.py:483-486 says every plan is forgotten; another pair chosen on
  Sessions keeps the old pair's plan shown and applicable; `check_files` is a read that
  may be cancelled and publishes; `remember_conflict_policy` saves unannounced; a real
  handoff may be started during a dry run.
* On Windows the detector knows only names of `codex.exe`, so `ChatGPT.exe` still closing
  reads as stopped (codex_closer.py:6-9); a CLI of a dead terminal whose number the
  application took counts as the application's. On Linux an application that replaces
  itself between the two listings can be missed, and a CLI started after the listing
  gets its daemon stopped. macOS is never asked.

## 8. Not modelled, and why

* Outside `Handoff`, `Chats` and `Projects` the mirror, journals, backups and manifests are
  one shared store: what one machine writes every other sees at once. The conflicting
  copies some cloud clients keep beside a file are not modelled.
* Handoff: two handoffs at once on one machine, what a one-way direction does to the
  settings (chats it leaves are modelled), two chats that claim one place (it stops a run as
  a conflict does), more than two machines in a run, and the steps after the two halves
  (projects, names, catalogue), which are logged and retried.
* The copy that the engine falls back to when a replace fails (sync_engine.py:212) is not
  atomic; every caller of the envelope passes `fail_on_unknown = True` and never
  reaches it.
* Case-insensitive collisions (planner.py:129-139), include and exclude patterns,
  link handling: which paths are considered at all is data. A mirror that is *partly*
  missing is taken for deletions by the code; the model removes whole roots, or fewer
  files than a root has (`MaxRemovals`).
* Backups: several copies of one path in one snapshot, the modification times by which
  snapshots are sorted (a snapshot is as old as its operation), and the paths that a
  restore filters out or refuses.
* Guardian: missing and too large sources, schema changes, the retention of
  quarantine and staging, counts of rewrites, the inventory.
* Session transfer: several pages of one chat, two chats that want one path, volatile
  plans, the session index (audited, never written), byte handling of the codec.
* Projects: entries with several roots or none, nested roots, the legacy schema, names
  and order of sections, links and special files in a folder that moves.
* Settings: the parsing of TOML and the loader's other checks. Window: the working set's
  contents, wording, the creation of a first file behind a dialog.
* Closing Codex: the 60 seconds it waits are a refusal that may come at any time.
* Scanner, diagnostics, reports, logging: they read, or write only output.
