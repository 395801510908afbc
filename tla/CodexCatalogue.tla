--------------------------- MODULE CodexCatalogue ---------------------------
(***************************************************************************)
(* What codexSync writes into the thread catalogue of Codex on one machine *)
(* (thread_catalogue.py, chat_names.py, chat_archive.py, codex_health.py,  *)
(* app._write_codex_catalogue).  A run plans from the catalogue and the    *)
(* chat files, backs the database up, checks that the plan still stands,   *)
(* and writes in one transaction that repeats the checks which matter.     *)
(* Codex, persons, other machines and a transfer of chats act in between.  *)
(***************************************************************************)
EXTENDS Integers, FiniteSets

CONSTANTS
    Chats,         \* thread ids
    Names,         \* names persons give to chats
    Title,         \* the first message of a chat, shown when it has no name
    Peers,         \* other machines
    Talking,       \* bound: the other machines that go on naming chats
    Asides,        \* folders below sessions/ other than the one a file's date gives
    Ignored,       \* chats whose file Codex never lists
    FirstHeld,     \* what the folder of Codex holds at first
    MaxEvents,     \* bound: what Codex, persons, peers and a transfer do
    MaxRuns,       \* bound: the runs that refresh, name or follow
    MaxMishaps,    \* bound: kills, backups removed, files that cannot be copied
    Absent

ASSUME CatalogueAssumption ==
    /\ Title \notin Names /\ Absent \notin Names \cup {Title} /\ Ignored \subseteq Chats
    /\ {"dated", "archive"} \cap Asides = {} /\ Talking \subseteq Peers
    /\ MaxEvents \in Nat /\ MaxRuns \in Nat /\ MaxMishaps \in Nat

VARIABLES
    files,          \* the folders that hold a file of each chat
    rows,           \* the row of each chat in `threads`, or Absent
    backfill,       \* the row of `backfill_state`
    timesWritten,   \* how often the database was written: what its fingerprint tells
    codexIs,        \* "closed", "open", or "rebuilding" its list while it starts
    boards,         \* the names each other machine published
    own,            \* the names this machine published
    marker,         \* the files Codex was last asked for, or Absent
    run,            \* the run that writes, or NoRun
    leftOpen,       \* the state of a journal a run left open, or Absent
    evidence,       \* the row in the backup of the newest committed request, or Absent
    named,          \* history: the name a person gave a chat here last, or Absent
    asked,          \* history: the files of the last request, unless a kill came before the marker
    spent           \* [events, runs, mishaps]

codexs == <<files, rows, backfill, timesWritten, codexIs>>
tools == <<own, marker, run, leftOpen, evidence>>
vars == <<codexs, boards, tools, named, asked, spent>>

Active == {"dated"} \cup Asides
Places == Active \cup {"archive"}
Row(place, name) == [at |-> place, archived |-> place = "archive", name |-> name]
Listed == {c \in Chats : rows[c] # Absent}
Running == {"pending", "running"}
NoRun == [pc |-> "idle"]

Rows == [at : Places, archived : BOOLEAN, name : Names \cup {Title, Absent}]
Backfills == [status : Running \cup {"complete"}, mark : {Absent, "part"}, success : Nat \cup {Absent}, updated : Nat]
\* What Codex wrote before the first run: its clock stands at `timesWritten`.
ASSUME StartsAssumption ==
    /\ Absent \notin Rows /\ Absent \notin Backfills /\ Absent \notin Nat
    /\ \A s \in FirstHeld :
          /\ s.files \in [Chats -> SUBSET Places] /\ s.rows \in [Chats -> Rows \cup {Absent}]
          /\ s.backfill \in Backfills /\ s.backfill.updated = 0
          /\ s.boards \in [Peers -> [Chats -> Names \cup {Absent}]]

-----------------------------------------------------------------------------
(* The plans. *)

\* A file the catalogue does not lead to.
Placement(c) == IF rows[c] = Absent THEN Absent ELSE rows[c].at
LeadsTo(c, p) == Placement(c) = p \/ Placement(c) \in files[c]
Unnamed == {x \in Chats \X Places : x[2] \in files[x[1]] /\ ~LeadsTo(x[1], x[2])}

RefreshStatus ==
    CASE Unnamed = {} -> "NOT_NEEDED"
      [] Unnamed # {} /\ backfill.status # "complete" -> "ALREADY_PENDING"
      [] Unnamed # {} /\ backfill.status = "complete" /\ marker = Unnamed -> "ALREADY_ASKED"
      [] OTHER -> "NEEDED"

RefreshPlan == IF RefreshStatus = "NEEDED" THEN {Unnamed} ELSE {}

\* A mutant: only a rebuild that has not begun is put back.
PendingOnly == IF backfill.status = "pending" THEN [backfill EXCEPT !.status = "complete", !.mark = Absent] ELSE Absent
\* Where a rebuild that is not complete is put back to.
SettleTarget ==
    IF backfill.status \notin Running THEN Absent
    ELSE IF evidence # Absent /\ evidence.status = "complete" THEN evidence
    ELSE [backfill EXCEPT !.status = "complete", !.mark = Absent,
                          !.success = IF @ = Absent THEN backfill.updated ELSE @]

RepairPlan == IF SettleTarget = Absent THEN {} ELSE {[before |-> backfill, after |-> SettleTarget]}

Unset(name) == name \in {Absent, Title}
Shown == [c \in Chats |-> IF rows[c] # Absent /\ ~Unset(rows[c].name) THEN rows[c].name ELSE Absent]
Offered(c) == {boards[p][c] : p \in Peers} \ {Absent}
\* A name other machines agree on, for a listed chat that has none here.
NamePlan == {[chat |-> x[1], before |-> rows[x[1]].name, after |-> x[2]] :
               x \in {y \in Listed \X Names : Offered(y[1]) = {y[2]} /\ Unset(rows[y[1]].name)}}

\* A mutant: a row is moved though its own file is still there.
GoneOrNot(c) == TRUE
Gone(c) == rows[c].at \notin files[c]
\* The file of that name in the other folder; a dated folder goes before the rest.
Moved(c) == CASE rows[c].at \in Active -> files[c] \cap {"archive"}
              [] rows[c].at = "archive" /\ "dated" \in files[c] -> {"dated"}
              [] OTHER -> files[c] \cap Asides
ArchivePlan == {[chat |-> x[1], before |-> rows[x[1]].at, after |-> x[2]] :
                  x \in {y \in Listed \X Places : Gone(y[1]) /\ Moved(y[1]) = {y[2]}}}

Changes(op) == CASE op = "refresh" -> RefreshPlan
                 [] op = "repair" -> RepairPlan
                 [] op = "names" -> NamePlan
                 [] op = "archive" -> ArchivePlan
\* The id of a plan that writes covers the bytes of the database.
PlanOf(op) == [op |-> op, changes |-> Changes(op), fingerprint |-> IF Changes(op) = {} THEN Absent ELSE timesWritten]

-----------------------------------------------------------------------------
(* The transaction: every guard again, then every change, or nothing. *)

\* Mutants: a guard of the transaction is left out, or reads less of the row.
AnyName(x) == TRUE
StatusOnly(x) == backfill.status = x.before.status

NameUnmoved(x) == rows[x.chat] # Absent /\ rows[x.chat].name = x.before
RowUnmoved(x) == rows[x.chat] # Absent /\ rows[x.chat].at = x.before
                 /\ rows[x.chat].archived = (x.before = "archive")
RowAsRead(x) == backfill = x.before /\ x.after.status = "complete"

Holds(plan) ==
    CASE plan.op = "refresh" -> backfill.status = "complete"
      [] plan.op = "repair" -> \A x \in plan.changes : RowAsRead(x)
      [] plan.op = "names" -> \A x \in plan.changes : NameUnmoved(x)
      [] plan.op = "archive" -> \A x \in plan.changes : RowUnmoved(x)

Of(plan, c) == CHOOSE x \in plan.changes : x.chat = c
Touched(plan) == IF plan.op \in {"names", "archive"} THEN {x.chat : x \in plan.changes} ELSE {}
RowsAfter(plan) ==
    [c \in Chats |->
        CASE c \in Touched(plan) /\ plan.op = "names" -> [rows[c] EXCEPT !.name = Of(plan, c).after]
          [] c \in Touched(plan) /\ plan.op = "archive" -> Row(Of(plan, c).after, rows[c].name)
          [] OTHER -> rows[c]]
BackfillAfter(plan) ==
    CASE plan.op = "refresh" -> [status |-> "pending", mark |-> Absent, success |-> Absent, updated |-> timesWritten + 1]
      [] plan.op = "repair" -> (CHOOSE x \in plan.changes : TRUE).after
      [] OTHER -> backfill

\* What the database says once the transaction is over.
ReadsBack(plan) ==
    CASE plan.op = "refresh" -> backfill.status = "pending"
      [] plan.op = "repair" -> \A x \in plan.changes : backfill = x.after
      [] plan.op = "names" -> \A x \in plan.changes : rows[x.chat] # Absent /\ rows[x.chat].name = x.after
      [] plan.op = "archive" -> \A x \in plan.changes : rows[x.chat] = Row(x.after, rows[x.chat].name)

-----------------------------------------------------------------------------
Init ==
    /\ \E s \in FirstHeld : files = s.files /\ rows = s.rows /\ backfill = s.backfill /\ boards = s.boards
    /\ timesWritten = 0 /\ codexIs = "closed"
    /\ own = [c \in Chats |-> Absent]
    /\ marker = Absent /\ run = NoRun /\ leftOpen = Absent /\ evidence = Absent
    /\ named = Shown
    /\ asked = Absent
    /\ spent = [events |-> 0, runs |-> 0, mishaps |-> 0]

SpendOn(what, bound) == spent[what] < bound /\ spent' = [spent EXCEPT ![what] = @ + 1]
Event == SpendOn("events", MaxEvents)
Mishap == SpendOn("mishaps", MaxMishaps)
RunTo(pc) == run' = [run EXCEPT !.pc = pc]
Stop == run' = NoRun
RunAt(pc) == run.pc = pc

(* A run.  Its journal is open from `check` to `verify`. *)

\* Codex is closed for the whole window of the gate while the plan is built.
StartRun(op) ==
    /\ run = NoRun /\ codexIs = "closed"
    /\ Changes(op) # {} \/ op = "names"
    /\ IF op = "repair" THEN UNCHANGED spent ELSE SpendOn("runs", MaxRuns)
    /\ run' = [pc |-> IF Changes(op) # {} THEN "begin" ELSE "publish", plan |-> PlanOf(op)]
    /\ UNCHANGED <<codexs, boards, own, marker, leftOpen, evidence, named, asked>>

Refresh == StartRun("refresh")
SetNames == StartRun("names")
FollowArchive == StartRun("archive")
Repair == StartRun("repair")

\* An own journal that never entered its commit phase is closed by the next run.
Blocks(state) == state \in {"COMMITTING", "RECOVERY_REQUIRED"}

\* The lock, the journal and the verified copy of the database.
BeginWrite ==
    /\ RunAt("begin")
    /\ \/ /\ ~Blocks(leftOpen)
          /\ leftOpen' = Absent
          /\ run' = [pc |-> "check", plan |-> run.plan, copied |-> backfill]
       \/ /\ Blocks(leftOpen) /\ Stop /\ UNCHANGED leftOpen
    /\ UNCHANGED <<codexs, boards, own, marker, evidence, named, asked, spent>>

\* The copy cannot be made: the journal closes as FAILED.
CannotCopy ==
    /\ RunAt("begin") /\ ~Blocks(leftOpen) /\ Mishap
    /\ leftOpen' = Absent /\ Stop
    /\ UNCHANGED <<codexs, boards, own, marker, evidence, named, asked>>

\* Busy, or changed while it was read, the catalogue says nothing: not the plan.
CannotReadAgain ==
    /\ RunAt("check") /\ Mishap /\ Stop
    /\ UNCHANGED <<codexs, boards, own, marker, leftOpen, evidence, named, asked>>

StillPlanned == PlanOf(run.plan.op) = run.plan
Check ==
    /\ RunAt("check")
    /\ IF codexIs = "closed" /\ StillPlanned THEN RunTo("gate") ELSE Stop
    /\ UNCHANGED <<codexs, boards, own, marker, leftOpen, evidence, named, asked, spent>>

\* The journal says COMMITTING; Codex is looked for once more.
GateAgain ==
    /\ RunAt("gate")
    /\ IF codexIs = "closed" THEN RunTo("write") ELSE Stop
    /\ UNCHANGED <<codexs, boards, own, marker, leftOpen, evidence, named, asked, spent>>

Write ==
    /\ RunAt("write")
    /\ \/ /\ Holds(run.plan)
          /\ rows' = RowsAfter(run.plan) /\ backfill' = BackfillAfter(run.plan)
          /\ timesWritten' = timesWritten + 1
          /\ asked' = IF run.plan.op = "refresh" THEN Unnamed ELSE asked
          /\ RunTo("verify")
       \/ ~Holds(run.plan) /\ Stop /\ UNCHANGED <<rows, backfill, timesWritten, asked>>
    /\ UNCHANGED <<files, codexIs, boards, own, marker, leftOpen, evidence, named, spent>>

\* Read back: COMMITTED, or an open journal that says a person has to look.
Verify ==
    /\ RunAt("verify")
    /\ \/ /\ ReadsBack(run.plan)
          /\ evidence' = IF run.plan.op = "refresh" THEN run.copied ELSE evidence
          /\ CASE run.plan.op = "refresh" -> RunTo("mark")
               [] run.plan.op = "names" -> RunTo("publish")
               [] OTHER -> Stop
          /\ UNCHANGED <<leftOpen, asked>>
       \/ /\ ~ReadsBack(run.plan)
          /\ leftOpen' = "RECOVERY_REQUIRED" /\ asked' = Absent
          /\ Stop /\ UNCHANGED evidence
    /\ UNCHANGED <<codexs, boards, own, marker, named, spent>>

\* Which files Codex was asked for, beside the journals.
WriteMarker ==
    /\ RunAt("mark")
    /\ marker' = (CHOOSE u \in run.plan.changes : TRUE)
    /\ Stop
    /\ UNCHANGED <<codexs, boards, own, leftOpen, evidence, named, asked, spent>>

\* The names shown here, for the other machines.
PublishNames ==
    /\ RunAt("publish")
    /\ own' = Shown
    /\ Stop
    /\ UNCHANGED <<codexs, boards, marker, leftOpen, evidence, named, asked, spent>>

Kill ==
    /\ run # NoRun /\ Mishap
    /\ leftOpen' = CASE RunAt("check") -> "BACKED_UP"
                 [] run.pc \in {"gate", "write", "verify"} -> "COMMITTING"
                 [] OTHER -> leftOpen
    /\ asked' = IF run.pc \in {"verify", "mark"} THEN Absent ELSE asked
    /\ Stop
    /\ UNCHANGED <<codexs, boards, own, marker, evidence, named>>

\* `recover resume` closes a journal; a catalogue write is never rolled back.
Resume ==
    /\ leftOpen # Absent /\ run = NoRun /\ codexIs = "closed"
    /\ leftOpen' = Absent
    /\ UNCHANGED <<codexs, boards, own, marker, run, evidence, named, asked, spent>>

\* Retention, or a person, removes the backup of the newest request.
BackupGone ==
    /\ evidence # Absent /\ Mishap
    /\ evidence' = Absent
    /\ UNCHANGED <<codexs, boards, own, marker, run, leftOpen, named, asked>>

(* Codex. *)
CodexKeeps == UNCHANGED <<boards, tools, asked>>
Stamped(status, mark, success) ==
    /\ backfill' = [status |-> status, mark |-> mark, success |-> success, updated |-> timesWritten + 1]
    /\ timesWritten' = timesWritten + 1

\* With a rebuild marked as running, Codex waits for it and exits.
CodexOpens ==
    /\ codexIs = "closed" /\ Event
    /\ \/ /\ backfill.status = "complete" /\ codexIs' = "open" /\ UNCHANGED <<backfill, timesWritten>>
       \/ /\ backfill.status = "pending" /\ codexIs' = "rebuilding"
          /\ Stamped("running", backfill.mark, backfill.success)
    /\ UNCHANGED <<files, rows, named>> /\ CodexKeeps

\* A lease on a rebuild runs out, and a later start goes on with it.
CodexTakesOver ==
    /\ codexIs = "closed" /\ backfill.status = "running" /\ Event
    /\ codexIs' = "rebuilding" /\ Stamped("running", backfill.mark, backfill.success)
    /\ UNCHANGED <<files, rows, named>> /\ CodexKeeps

Missed == {x \in Unnamed : x[1] \notin Ignored}
CodexLists(c, p) ==
    /\ codexIs = "rebuilding" /\ <<c, p>> \in Missed
    /\ rows' = [rows EXCEPT ![c] = Row(p, IF rows[c] = Absent THEN Absent ELSE rows[c].name)]
    /\ Stamped("running", "part", backfill.success)
    /\ UNCHANGED <<files, codexIs, named, spent>> /\ CodexKeeps

CodexFinishes ==
    /\ codexIs = "rebuilding" /\ Missed = {}
    /\ codexIs' = "open" /\ Stamped("complete", backfill.mark, timesWritten + 1)
    /\ UNCHANGED <<files, rows, named, spent>> /\ CodexKeeps

\* Ended part-way, a rebuild stays marked as running.
CodexCloses ==
    /\ codexIs # "closed" /\ codexIs' = "closed"
    /\ UNCHANGED <<files, rows, backfill, timesWritten, named, spent>> /\ CodexKeeps

Rename(c, n) ==
    /\ codexIs = "open" /\ c \in Listed /\ n # rows[c].name /\ Event
    /\ rows' = [rows EXCEPT ![c].name = n] /\ named' = [named EXCEPT ![c] = n]
    /\ timesWritten' = timesWritten + 1
    /\ UNCHANGED <<files, backfill, codexIs>> /\ CodexKeeps

\* A person archives a chat, or brings it back: the file and its row move.
MoveInCodex(c, p) ==
    /\ codexIs = "open" /\ c \in Listed /\ rows[c].at \in files[c] /\ Event
    /\ p = IF rows[c].at = "archive" THEN "dated" ELSE "archive"
    /\ p \notin files[c]
    /\ files' = [files EXCEPT ![c] = (@ \ {rows[c].at}) \cup {p}]
    /\ rows' = [rows EXCEPT ![c] = Row(p, @.name)]
    /\ timesWritten' = timesWritten + 1
    /\ UNCHANGED <<backfill, codexIs, named>> /\ CodexKeeps

(* Others. *)

\* A transfer of chats holds the lock, with Codex closed: a file arrives, or
\* follows an archive move of another machine.
Unlocked == run.pc \in {"idle", "begin", "mark", "publish"} /\ ~Blocks(leftOpen)
Carry(c, from, to) ==
    /\ codexIs = "closed" /\ Unlocked /\ Event
    /\ from # to /\ to \in {"dated", "archive"} \ files[c]
    /\ IF from = Absent THEN files[c] = {} ELSE from \in files[c] /\ (from = "archive") # (to = "archive")
    /\ files' = [files EXCEPT ![c] = (@ \ {from}) \cup {to}]
    /\ UNCHANGED <<rows, backfill, timesWritten, codexIs, boards, tools, named, asked>>

PeerNames(p, c, n) ==
    /\ boards[p][c] # n /\ Event
    /\ boards' = [boards EXCEPT ![p][c] = n]
    /\ UNCHANGED <<codexs, tools, named, asked>>

Tool == BeginWrite \/ Check \/ GateAgain \/ Write \/ Verify \/ WriteMarker \/ PublishNames
Codex == \/ CodexOpens \/ CodexTakesOver \/ CodexFinishes \/ CodexCloses
         \/ \E c \in Chats : \/ \E p \in Places : CodexLists(c, p) \/ MoveInCodex(c, p)
                             \/ \E n \in Names : Rename(c, n)
Others == \E c \in Chats : \/ \E from \in Places \cup {Absent}, to \in Places : Carry(c, from, to)
                           \/ \E p \in Talking, n \in Names : PeerNames(p, c, n)

Next == \/ Refresh \/ SetNames \/ FollowArchive \/ Repair
        \/ Tool \/ CannotCopy \/ CannotReadAgain \/ Kill \/ Resume \/ BackupGone \/ Codex \/ Others

Spec == Init /\ [][Next]_vars
\* A run that was started goes on; a person repairs what does not start, and
\* resumes what blocks.
FairSpec == Spec /\ WF_vars(Tool) /\ WF_vars(Repair) /\ SF_vars(Resume)

-----------------------------------------------------------------------------
(* Properties. *)

TypeOK ==
    /\ files \in [Chats -> SUBSET Places]
    /\ rows \in [Chats -> Rows \cup {Absent}] /\ named \in [Chats -> Names \cup {Absent}]
    /\ backfill \in Backfills /\ backfill.updated <= timesWritten /\ evidence \in Backfills \cup {Absent}
    /\ timesWritten \in Nat /\ codexIs \in {"closed", "open", "rebuilding"}
    /\ boards \in [Peers -> [Chats -> Names \cup {Absent}]] /\ own \in [Chats -> Names \cup {Absent}]
    /\ run.pc \in {"idle", "begin", "check", "gate", "write", "verify", "mark", "publish"}
    /\ leftOpen \in {Absent, "BACKED_UP", "COMMITTING", "RECOVERY_REQUIRED"}

\* A name a person gave a chat here stays the name the catalogue shows, also
\* when the chat is renamed while names of other machines are being written
\* (chat_names.is_unset and the guard of apply_names).
PersonNamesStand == TypeOK /\ \A c \in Listed : named[c] # Absent => rows[c].name = named[c]

Repointed(c) == rows[c] # Absent /\ rows'[c] # Absent /\ rows'[c].at # rows[c].at
\* Outside Codex a row is pointed only from a file that is gone to one that is
\* there, in the other kind of folder (follow_chat_archive), whatever a transfer
\* did since the plan.  A Codex that starts, moves the file back and quits
\* between the last look at it and the transaction is the exception: the guard
\* of apply_archive_changes reads the row and not the file.
RowsFollowFiles ==
    [][(codexIs = "closed" /\ codexIs' = "closed" /\ (RunAt("write") => timesWritten = run.plan.fingerprint)) =>
          \A c \in Chats : Repointed(c) => /\ rows[c].at \notin files[c] /\ rows'[c].at \in files'[c]
                                           /\ rows'[c].archived = (rows'[c].at = "archive")]_vars

\* While Codex rebuilds its list no run declares the rebuild complete, or
\* pending again: settle_backfill and reset_backfill compare under the lock.
RebuildNotCutShort == [][(codexIs = "rebuilding" /\ RunAt("write") /\ run' # run) => UNCHANGED backfill]_vars

\* A Codex that cannot start, for a rebuild nobody does, can start again: no
\* journal, stale plan or old backup stands in the way of repair_codex for ever.
CodexStartsAgain == (codexIs = "closed" /\ backfill.status = "running") ~>
                    (codexIs # "closed" \/ backfill.status = "complete")

=============================================================================
