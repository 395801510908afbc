------------------------------ MODULE Settings ------------------------------
(***************************************************************************)
(* config.toml and everyone who writes it (config_edit.py,                 *)
(* config_migrate.py, gui/window.py, gui/screens/config_form.py and        *)
(* settings.py): a person's editor, the console, a form of the window and  *)
(* the migration card beside it.  A save replaces the file in steps, and   *)
(* the window shows what it read in the background until it is told that   *)
(* the file changed.                                                       *)
(***************************************************************************)
EXTENDS Integers, FiniteSets, SequencesExt

CONSTANTS
    Starts,        \* bound: how a behaviour begins: [file, left, machine], see `left`
    Template,      \* the file the program writes where there is none
    Edits,         \* the values persons change
    KnownNames,    \* the processes of Codex this version knows
    OwnedRoots,    \* roots no version copies
    MinSeconds, MaxSeconds,   \* the periods the loader takes
    PerMinute,     \* seconds in a minute
    None, Odd      \* an absent value; a period that is no number

Authors == {"form", "upgrade", "console"}
Views == {"form", "upgrade", "tasks"}

ASSUME SettingsAssumption ==
    /\ MinSeconds \in Nat \ {0} /\ MaxSeconds \in Nat /\ MinSeconds <= MaxSeconds /\ PerMinute \in Nat
    /\ None # Odd

VARIABLES
    file,         \* the file, or None
    version,      \* how often it was written; no step of the program reads it
    history,      \* the replaced files that were kept
    saves,        \* the save each author has under way, or None
    generation,   \* how often the window was told that the file changed
    shown,        \* what each view shows: [doc, seen, wrote, codes, fresh], or None
    reads,        \* the read each view waits for, or None
    draft,        \* what is typed in the form
    check,        \* the text a form is proving before it asks, or None
    saved,        \* history: the version of the window's last finished save
    wrote,        \* how often the window started to write the tasks
    left          \* bound: how often each event may still happen

settingsVars == <<file, version, history, saves, generation, shown, reads, draft, check, saved>>

Spend(kind) == left[kind] > 0 /\ left' = [left EXCEPT ![kind] = @ - 1]

-----------------------------------------------------------------------------
(* One file: what the loader and the commands take, and the edits of a value. *)

Off(value) == value \in {None, FALSE}
PeriodLoads(doc) == doc.seconds # None => doc.seconds \in MinSeconds..MaxSeconds
\* The watcher takes what a sign-in sync would take too.
OneAtSignIn(doc) == Off(doc.handoff) \/ Off(doc.login)
Loads(doc) == PeriodLoads(doc) /\ OneAtSignIn(doc)
CommandsRun(doc) == Off(doc.terminate)

SetValue(doc, key, value) == [doc EXCEPT ![key] = value]
RemoveKey(doc, key) == [doc EXCEPT ![key] = None]
AppendItems(doc, key, items) == [doc EXCEPT ![key] = items \cup IF @ = None THEN {} ELSE @]
DropItems(doc, key, items) == IF doc[key] = None THEN doc ELSE [doc EXCEPT ![key] = @ \ items]
ReplaceRules(doc, rules) == [doc EXCEPT !.mappings = rules]

Edited(edit, doc) ==
    CASE edit.op = "set" -> SetValue(doc, edit.key, edit.value)
      [] edit.op = "remove" -> RemoveKey(doc, edit.key)
      [] edit.op = "rule" -> ReplaceRules(doc, doc.mappings \cup {edit.value})
      [] edit.op = "unrule" -> ReplaceRules(doc, doc.mappings \ {edit.value})

-----------------------------------------------------------------------------
(* The migration: what this version would have written differently. *)

Blockers(doc) ==
    (IF Off(doc.terminate) THEN {} ELSE {"terminate"}) \cup
    (IF doc.seconds # None /\ doc.seconds \in 1..MinSeconds - 1 THEN {"short"} ELSE {})
Detection(doc) == IF doc.names # None /\ ~(KnownNames \subseteq doc.names) THEN {"names"} ELSE {}
\* The period an older file gives in minutes is still what the person chose.
CarriesPeriod(doc) == doc.minutes \notin {None, Odd} /\ doc.seconds = None
Correctness(doc) ==
    (IF doc.roots # None /\ doc.roots \cap OwnedRoots # {} THEN {"roots"} ELSE {}) \cup
    (IF CarriesPeriod(doc) THEN {"period"} ELSE {}) \cup
    (IF doc.minutes # None /\ ~CarriesPeriod(doc) THEN {"legacy"} ELSE {})
Findings(doc) == Blockers(doc) \cup Detection(doc) \cup Correctness(doc)

Clamp(seconds) ==
    CASE seconds < MinSeconds -> MinSeconds
      [] seconds > MaxSeconds -> MaxSeconds
      [] OTHER -> seconds

Settle(code, plan, doc) ==
    CASE code = "terminate" -> SetValue(doc, "terminate", FALSE)
      [] code = "short" -> SetValue(doc, "seconds", MinSeconds)
      [] code = "names" -> AppendItems(doc, "names", KnownNames \ plan.names)
      [] code = "roots" -> DropItems(doc, "roots", plan.roots \cap OwnedRoots)
      [] code = "period" -> RemoveKey(SetValue(doc, "seconds", Clamp(plan.minutes * PerMinute)), "minutes")
      [] code = "legacy" -> RemoveKey(doc, "minutes")

Order == <<"short", "terminate", "names", "legacy", "period", "roots">>
\* A blocker cannot be kept.
Skips(plan) == SUBSET (Findings(plan) \ Blockers(plan))
Migrated(plan, skip) ==
    FoldLeft(LAMBDA doc, code : Settle(code, plan, doc), plan,
             SelectSeq(Order, LAMBDA code : code \in Findings(plan) \ skip))

-----------------------------------------------------------------------------
(* A save: look, keep what is replaced, look again, replace, read back. *)

Job(base, text, skip) == [pc |-> "look", base |-> base, text |-> text, skip |-> skip, looked |-> 0]   \* `looked`: the version it last knew
\* Nothing is begun with a text that does not load or that every command refuses.
Accepts(text) == Loads(text) /\ CommandsRun(text)
Start(a, base, text, skip) ==
    saves' = [saves EXCEPT ![a] = IF Accepts(text) THEN Job(base, text, skip) ELSE None]
Step(a, pc) == saves' = [saves EXCEPT ![a].pc = pc]

RequireBase(a) == file = saves[a].base
\* A mutant: the file is not looked at again before it is replaced.
TakeTheFirstLook(a) == TRUE
RequireBaseAgain(a) == file = saves[a].base

Keep(a) == IF file # None /\ Loads(file) THEN history \cup {file} ELSE history
Look(a) ==
    /\ saves[a] # None /\ saves[a].pc = "look"
    /\ IF RequireBase(a)
       THEN history' = Keep(a) /\ Step(a, "again")
       ELSE Step(a, "failed") /\ UNCHANGED history
    /\ UNCHANGED <<file, version, generation, shown, reads, draft, check, saved, wrote, left>>

LookAgain(a) ==
    /\ saves[a] # None /\ saves[a].pc = "again"
    /\ saves' = IF RequireBaseAgain(a)
                THEN [saves EXCEPT ![a].pc = "replace", ![a].looked = version]
                ELSE [saves EXCEPT ![a].pc = "failed"]
    /\ UNCHANGED <<file, version, history, generation, shown, reads, draft, check, saved, wrote, left>>

Replace(a) ==
    /\ saves[a] # None /\ saves[a].pc = "replace"
    /\ file' = saves[a].text /\ version' = version + 1
    /\ saves' = [saves EXCEPT ![a].pc = "read", ![a].looked = version + 1]
    /\ UNCHANGED <<history, generation, shown, reads, draft, check, saved, wrote, left>>

\* The name of the history entry is taken, a write is refused.
SaveFails(a) ==
    /\ saves[a] # None /\ saves[a].pc \in {"look", "replace"}
    /\ Spend("mishap")
    /\ Step(a, "failed")
    /\ UNCHANGED <<file, version, history, generation, shown, reads, draft, check, saved, wrote>>

ReadBack(a) ==
    /\ saves[a] # None /\ saves[a].pc = "read"
    /\ Step(a, IF file = saves[a].text THEN "done" ELSE "failed")
    /\ UNCHANGED <<file, version, history, generation, shown, reads, draft, check, saved, wrote, left>>

Saving(a) == Look(a) \/ LookAgain(a) \/ Replace(a) \/ SaveFails(a) \/ ReadBack(a)

-----------------------------------------------------------------------------
(* The console, and persons with an editor. *)

PersonEdits ==
    /\ Spend("edit") /\ version' = version + 1
    /\ file' \in {None} \cup {Edited(e, file) : e \in IF file = None THEN {} ELSE Edits}
    /\ file' # file
    /\ UNCHANGED <<history, saves, generation, shown, reads, draft, check, saved, wrote>>

ConsoleSaves(base, text, skip) ==
    /\ saves.console = None /\ Spend("console") /\ text # base
    /\ Start("console", base, text, skip)
    /\ UNCHANGED <<file, version, history, generation, shown, reads, draft, check, saved, wrote>>

\* A rule is added once, and only one that is there is removed.
Refused(edit, doc) ==
    \/ edit.op = "rule" /\ edit.value \in doc.mappings
    \/ edit.op = "unrule" /\ edit.value \notin doc.mappings
ChangeValue == file # None /\ \E e \in Edits : ~Refused(e, file) /\ ConsoleSaves(file, Edited(e, file), None)
CreateConfig == file = None /\ ConsoleSaves(None, Template, None)
\* The plan shown before names the file's digest: only the same file is upgraded.
ConsoleUpgrades ==
    file # None /\ \E skip \in Skips(file) : ConsoleSaves(file, Migrated(file, skip), skip)
ConsoleEnds ==
    /\ saves.console # None /\ saves.console.pc \in {"done", "failed"}
    /\ saves' = [saves EXCEPT !.console = None]
    /\ UNCHANGED <<file, version, history, generation, shown, reads, draft, check, saved, wrote, left>>

-----------------------------------------------------------------------------
(* The window: background reads, the form, and the migration card. *)

View(codes, fresh) == [doc |-> file, seen |-> version, wrote |-> wrote, codes |-> codes, fresh |-> fresh]
AskRead(v) ==
    /\ reads[v] = None /\ Spend("read")
    /\ reads' = [reads EXCEPT ![v] = [generation |-> generation, wrote |-> wrote, got |-> None]]
    /\ UNCHANGED <<file, version, history, saves, generation, shown, draft, check, saved, wrote>>

\* `codes`: what is wrong with the task of the periodic job, on the page of the tasks.
ReadFile(v, codes) ==
    /\ reads[v] # None /\ reads[v].got = None
    /\ reads' = [reads EXCEPT ![v].got = View(codes, TRUE)]
    /\ UNCHANGED <<file, version, history, saves, generation, shown, draft, check, saved, wrote, left>>

\* A mutant: a read that a save overtook is shown.
NeverStale(job) == FALSE
Stale(job) == job.generation # generation
\* The tasks were written since: what was read of them is not kept.
Overtaken(v) == v = "tasks" /\ reads[v].wrote # wrote
Readable(v, view) == view.doc # None /\ (v = "tasks" => Loads(view.doc))
\* What the file says anyway is no draft any more.
StillPending(doc) == {e \in draft : Edited(e, doc) # doc}
DeliverRead(v) ==
    /\ reads[v] # None /\ reads[v].got # None
    /\ shown' = [shown EXCEPT ![v] =
                    CASE Stale(reads[v]) -> None
                      [] ~Stale(reads[v]) /\ Overtaken(v) -> @
                      [] OTHER -> IF Readable(v, reads[v].got) THEN reads[v].got ELSE None]
    /\ draft' = IF v = "form" /\ shown'[v] # None THEN StillPending(shown'[v].doc) ELSE draft
    /\ reads' = [reads EXCEPT ![v] = None]
    /\ UNCHANGED <<file, version, history, saves, generation, check, saved, wrote, left>>

\* A person stops waiting: the late answer is dropped.
CancelRead(v) ==
    /\ reads[v] # None
    /\ shown' = IF Overtaken(v) THEN shown ELSE [shown EXCEPT ![v] = None]
    /\ reads' = [reads EXCEPT ![v] = None]
    /\ UNCHANGED <<file, version, history, saves, generation, draft, check, saved, wrote, left>>

Type ==
    /\ shown.form # None /\ Spend("type")
    /\ \E e \in Edits : ~Refused(e, shown.form.doc) /\ Edited(e, shown.form.doc) # shown.form.doc
                        /\ draft' = {d \in draft : d.key # e.key} \cup {e}
    /\ UNCHANGED <<file, version, history, saves, generation, shown, reads, check, saved, wrote>>

Drafted(doc) == FoldLeft(LAMBDA d, e : Edited(e, d), doc, SetToSeq(draft))
CheckForm ==
    /\ shown.form # None /\ draft # {} /\ check = None /\ saves.form = None
    /\ check' = [generation |-> generation, base |-> shown.form.doc, text |-> Drafted(shown.form.doc)]
    /\ UNCHANGED <<file, version, history, saves, generation, shown, reads, draft, saved, wrote, left>>

\* Proven text is shown as a difference and confirmed, whatever the file is by now.
ConfirmSave ==
    /\ check # None /\ ~Stale(check) /\ Loads(check.text)
    /\ Start("form", check.base, check.text, None)
    /\ check' = None
    /\ UNCHANGED <<file, version, history, generation, shown, reads, draft, saved, wrote, left>>
DropCheck ==
    /\ check # None
    /\ check' = None
    /\ shown' = IF Stale(check) THEN [shown EXCEPT !.form = None] ELSE shown
    /\ UNCHANGED <<file, version, history, saves, generation, reads, draft, saved, wrote, left>>

ApplyUpgrade ==
    /\ shown.upgrade # None /\ saves.upgrade = None
    /\ \E skip \in Skips(shown.upgrade.doc) :
          LET text == Migrated(shown.upgrade.doc, skip)
              same == file = shown.upgrade.doc /\ text # file
          IN /\ IF same THEN Start("upgrade", file, text, skip) ELSE UNCHANGED saves
             /\ shown' = IF same THEN shown ELSE [shown EXCEPT !.upgrade = None]
    /\ UNCHANGED <<file, version, history, generation, reads, draft, check, saved, wrote, left>>

\* The window forgets every plan and reading that describes the file from before.
ConfigChanged == [v \in Views |-> None]
Delivered(a) == IF saves[a].pc = "done" THEN saves[a].looked ELSE saved
DeliverSave(a) ==
    /\ a # "console" /\ saves[a] # None /\ saves[a].pc \in {"done", "failed"}
    /\ saved' = Delivered(a)
    /\ generation' = IF saves[a].pc = "done" THEN generation + 1 ELSE generation
    /\ shown' = CASE saves[a].pc = "done" -> ConfigChanged
                  [] a = "upgrade" /\ saves[a].pc = "failed" -> [shown EXCEPT !.upgrade = None]
                  [] OTHER -> shown
    /\ draft' = IF a = "form" /\ saves[a].pc = "done" THEN {} ELSE draft
    /\ saves' = [saves EXCEPT ![a] = None]
    /\ UNCHANGED <<file, version, history, reads, check, wrote, left>>

SettingsInit ==
    /\ \E start \in Starts : file = start.file /\ left = start.left
    /\ version = 0 /\ history = {}
    /\ saves = [a \in Authors |-> None]
    /\ generation = 0 /\ saved = 0 /\ wrote = 0
    /\ shown = [v \in Views |-> None] /\ reads = [v \in Views |-> None]
    /\ draft = {} /\ check = None

SettingsNext ==
    \/ PersonEdits \/ ChangeValue \/ CreateConfig \/ ConsoleUpgrades \/ ConsoleEnds
    \/ \E a \in Authors : Saving(a) \/ DeliverSave(a)
    \/ \E v \in Views : AskRead(v) \/ DeliverRead(v) \/ CancelRead(v)
    \/ ReadFile("form", {}) \/ ReadFile("upgrade", {})
    \/ Type \/ CheckForm \/ ConfirmSave \/ DropCheck \/ ApplyUpgrade

-----------------------------------------------------------------------------
(* Properties *)

\* A save replaces the file its author opened, and that file is in the history if it loaded;
\* another file only if it appeared after the save had looked for the last time
\* (config_edit.save_config_text: two looks, a history entry, a replace).
NoEditLost ==
    [][\A a \in Authors : saves[a] # None /\ saves[a].pc = "replace" /\ file' # file /\ saves'[a].pc = "read" =>
          \/ version > saves[a].looked
          \/ file = saves[a].base /\ (file # None /\ Loads(file) => file \in history)]_<<settingsVars, left>>

=============================================================================
