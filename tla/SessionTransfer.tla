-------------------------- MODULE SessionTransfer --------------------------
(***************************************************************************)
(* One chat of Codex carried between the machines of a person through the  *)
(* cloud mirror: what is read of it on both sides, what a plan decides,    *)
(* the pinned decisions of a person, the apply, the record of what both    *)
(* sides agreed on, and Codex's catalogue following an archive move.       *)
(*                                                                         *)
(* A history is the set of numbers of its records, numbered over all       *)
(* machines in the order they are written, so the numbers are also their   *)
(* times; a record format rewrites every record.  The chat's file keeps    *)
(* one name: its path is the state folder and the container it is in.      *)
(* Modelled from semantic_transfer, semantic_merge, semantic_store,        *)
(* session_catalog, chat_archive and app.apply_session_transfer.           *)
(***************************************************************************)
EXTENDS Integers, FiniteSets, Functions

CONSTANTS
    Machines, Mirror,
    None, Absent,
    Setups,        \* the settings the machines may have
    Starts,        \* the folders and catalogues the chat may start from
    MaxRecords,    \* bound: records of the chat
    MaxUsed,       \* bound: how often each event of Events may happen
    MaxMishaps,    \* bound: how many of the Mishaps in all
    MaxEvents      \* bound: how many events in all

Sides == Machines \union {Mirror}
Places == {"sessions", "archived_sessions"}
Boxes == {"jsonl", "packed"}
Paths == [place : Places, box : Boxes]
At(place, box) == [place |-> place, box |-> box]

\* "torn": some records cannot be read; "headless": not even the first.
History == [recs : SUBSET (1 .. MaxRecords), format : 0 .. 1,
            read : {"whole", "torn", "headless"}]
Stored == History \union {Absent}

Rules == {"ask", "newer", "local", "remote"}
Setting == [rule : Rules, direction : {"bidirectional", "to_cloud", "to_local"},
            newChats : {"keep_in_cloud", "same_path"}, box : Boxes,
            inSet : BOOLEAN]
Choices == {"local", "remote", "defer"}
Mishaps == {"upgrade", "project", "compress", "torn", "headless", "fail",
            "crash"}
Events == Mishaps \union {"turn", "move", "resolve"}
Phases == {"rebuilt", "prepared", "committing", "replaced", "removed",
           "committed"}

\* What a plan says of the chat, a saved decision and an apply in progress.
PathOrNone == Paths \union {None}
PlanItem == [action : {"write", "noop", "conflict", "left"},
             side : {"mirror", "local", "none"},
             by : {"ancestry", "rule", "person", "none"},
             from : PathOrNone, to : PathOrNone, old : PathOrNone,
             local : Stored, remote : Stored, place : Places \union {None}]
Decision == [local : Stored, remote : Stored, choice : Choices]
ApplyRun == [phase : Phases, item : PlanItem, staged : Stored]

\* A side of a start holds the chat once and wholly: second files and files in
\* part come from the events.
OnceAndWhole(held) ==
    /\ \A p \in Paths : held[p] # Absent => held[p].read = "whole"
    /\ \A p, q \in Paths : held[p] # Absent /\ held[q] # Absent => p = q

\* Where a machine has agreed at the start, the chat is where it agreed: the
\* moves since then are the ones of the behaviour.
AsAgreed(start, m) ==
    start.entry[m] # None =>
       /\ \E p \in Paths : start.files[Mirror][p] # Absent
       /\ \A s \in {m, Mirror}, p \in Paths :
             start.files[s][p] # Absent => p.place = start.entry[m]

ASSUME TransferAssumption ==
    /\ Mirror \notin Machines
    /\ Absent \notin History
    /\ None \notin Paths \union Places
    /\ None \notin PlanItem /\ None \notin Decision /\ None \notin ApplyRun
    /\ Setups \subseteq [Machines -> Setting]
    /\ Starts \subseteq [files : [Sides -> [Paths -> Stored]],
                         row : [Machines -> Places \union {"unlisted"}],
                       entry : [Machines -> Places \union {None}]]
    /\ \A start \in Starts, s \in Sides : OnceAndWhole(start.files[s])
    /\ \A start \in Starts, m \in Machines : AsAgreed(start, m)
    /\ MaxRecords \in Nat /\ MaxUsed \in [Events -> Nat]
    /\ MaxMishaps \in Nat /\ MaxEvents \in Nat

VARIABLES
    setting,       \* the configuration of each machine
    codex,         \* is Codex open there
    files,         \* the chat's files in each .codex and in the mirror
    row,           \* the folder Codex's catalogue names the chat in
    projected,     \* Codex has projected the chat into its history store
    entry,         \* the state each machine's manifest entry says was agreed
    kept,          \* the branches in committed bundles
    resolution,    \* the decision each machine's resolutions file holds
    plan,          \* the saved plan of each machine
    run,           \* the apply in progress on each machine
    pending,       \* machines with a journal in RECOVERY_REQUIRED or COMMITTING
    written,       \* history variable: every history Codex has had
    seen,          \* history variable: the moves and decisions each side reflects
    overlap,       \* history variable: two applies ran at once
    interrupted,   \* history variable: an apply past COMMITTING met Codex, or ended
                   \* unrecorded
    used

codexState == <<codex, row, projected>>
decisions == <<resolution, plan>>
ghosts == <<written, seen, overlap, interrupted>>
vars == <<setting, codexState, files, entry, kept, decisions, run, pending,
          ghosts, used>>

UsedOf(S) == FoldFunctionOnSet(+, 0, used, S)
\* Bound: an interrupted or overlapping apply counts as an event of its own.
Spend(what) ==
    /\ used[what] < MaxUsed[what]
    /\ what \in Mishaps => UsedOf(Mishaps) < MaxMishaps
    /\ UsedOf(Events) + (IF overlap \/ interrupted THEN 1 ELSE 0) < MaxEvents
    /\ used' = [used EXCEPT ![what] = @ + 1]
The(S) == CHOOSE x \in S : TRUE
Last(h) == CHOOSE r \in h.recs : \A q \in h.recs : q <= r

-----------------------------------------------------------------------------
(***************************************************************************)
(* What is read of the chat on each side.                                  *)
(***************************************************************************)
Present(s) == {p \in Paths : files[s][p] # Absent}

\* The files whose first record could be read, so the chat is known by them.
Copies(s) == {p \in Present(s) : files[s][p].read # "headless"}

\* prefer_catalogued_copies: a duplicate here is settled by the catalogue when
\* it names exactly one copy and every copy is readable.
Named(m) == {p \in Copies(m) : p = At(row[m], "jsonl")}
Settled(m) == IF /\ Cardinality(Copies(m)) > 1 /\ Named(m) # {}
                 /\ \A p \in Copies(m) : files[m][p].read = "whole"
              THEN Named(m) ELSE Copies(m)

Unusable(m) ==
    \/ Cardinality(Settled(m)) > 1 \/ Cardinality(Copies(Mirror)) > 1
    \/ \E p \in Settled(m) : files[m][p].read # "whole"
    \/ \E p \in Copies(Mirror) : files[Mirror][p].read # "whole"

\* The records g go on where the records h end.
Continues(h, g) == h \subseteq g /\ \A x \in g \ h, y \in h : y < x

\* _read_pair: h is a prefix of g.
Prefix(h, g) == h.format = g.format /\ Continues(h.recs, g.recs)
Related(h, g) == Prefix(h, g) \/ Prefix(g, h)

\* compare_session_branches, states included.
Relation(l, r, sameState, base) ==
    CASE ~Related(l, r) -> "DIVERGED"
      [] Related(l, r) /\ ~sameState /\ ~base -> "MISSING_BASE"
      [] Related(l, r) /\ ~sameState /\ base -> "ARCHIVE_TRANSITION"
      [] l.recs = r.recs /\ Prefix(l, r) /\ sameState -> "IDENTICAL"
      [] Prefix(l, r) /\ l.recs # r.recs /\ sameState -> "FAST_FORWARD_LOCAL"
      [] OTHER -> "FAST_FORWARD_REMOTE"

\* confirmed_bases: some machine recorded that both sides held one history.
HasBase == \E m \in Machines : entry[m] # None

-----------------------------------------------------------------------------
(***************************************************************************)
(* Decisions about a divergence.                                           *)
(***************************************************************************)
FormatMigration(l, r) == ~Related(l, r) /\ l.format # r.format
NewerFormat(l, r) == IF l.format > r.format THEN "local" ELSE "remote"
OlderHasLater(l, r) ==
    IF l.format > r.format THEN Last(r) > Last(l) ELSE Last(l) > Last(r)

RuleChoice(rule, l, r) ==
    CASE rule \in {"local", "remote"} -> rule
      [] rule = "newer" /\ Last(l) > Last(r) -> "local"
      [] rule = "newer" /\ Last(l) < Last(r) -> "remote"
      [] rule = "newer" /\ Last(l) = Last(r) /\ FormatMigration(l, r) ->
             NewerFormat(l, r)
      [] OTHER -> "block"

\* BranchResolution.matches: a decision is about exactly these bytes.
Matches(d, l, r) == d # None /\ d.local = l /\ d.remote = r

\* conflict_item: a person's decision, "later" included, outranks the rule.
Choice(m, rule, l, r) ==
    IF Matches(resolution[m], l, r)
    THEN [keep |-> IF resolution[m].choice = "defer" THEN "block"
                   ELSE resolution[m].choice, by |-> "person"]
    ELSE [keep |-> RuleChoice(rule, l, r), by |-> "rule"]

-----------------------------------------------------------------------------
(***************************************************************************)
(* Where a branch may be written, and the one item of a plan.              *)
(***************************************************************************)
Content(s, p) == IF p = None THEN Absent ELSE files[s][p]

Item(m, action, side, by, lp, rp, to, old) ==
    [action |-> action, side |-> side, by |-> by,
     from |-> IF side = "mirror" THEN lp ELSE rp, to |-> to, old |-> old,
     local |-> Content(m, lp), remote |-> Content(Mirror, rp),
     place |-> IF side = "local" THEN rp.place
               ELSE IF lp = None THEN None ELSE lp.place]
Left(m, lp, rp) == Item(m, "left", "none", "none", lp, rp, None, None)

\* _destination_check: a file of that name, in any container.
Occupied(s, place) == \E p \in Present(s) : p.place = place

ConfiguredBox(rp, box) == box
\* The mirror keeps the container, and the path, it already stores the chat
\* under; only a new chat gets the configured container.
KeptBox(rp, box) == IF rp = None THEN box ELSE rp.box
ToMirror(m, st, by, lp, rp) ==
    LET moving == rp # None /\ rp.place # lp.place
        to == At(lp.place, KeptBox(rp, st.box))
    IN  IF (rp = None \/ moving) /\ Occupied(Mirror, lp.place)
        THEN Left(m, lp, rp)
        ELSE Item(m, "write", "mirror", by, lp, rp, to,
                  IF moving THEN rp ELSE None)

InPlaceByName(m, lp, rp, replacing) == row[m] # lp.place
\* _in_place_refusal: the catalogue must name exactly this file, a container
\* is only ever continued, and a projected chat is never given other content.
InPlaceRefused(m, lp, rp, replacing) ==
    \/ lp.place = rp.place /\ lp.box = "packed" /\ replacing
    \/ row[m] # lp.place
    \/ replacing /\ projected[m]

\* _gate_write into .codex: where it lies, or where the other side keeps it.
ToLocal(m, st, by, lp, rp) ==
    LET to == At(rp.place, "jsonl")
        old == IF lp = None \/ lp = to THEN None ELSE lp
    IN  IF \/ lp = None /\ st.newChats = "keep_in_cloud"
           \/ lp = None /\ row[m] \notin {"unlisted", rp.place}
           \/ lp # None /\ InPlaceRefused(m, lp, rp, by # "ancestry")
           \/ (lp = None \/ lp.place # rp.place) /\ Occupied(m, rp.place)
           \/ old # None /\ old.place = rp.place /\ to \in Present(m)
        THEN Left(m, lp, rp)
        ELSE Item(m, "write", "local", by, lp, rp, to, old)

Resolved(m, st, lp, rp) ==
    LET c == Choice(m, st.rule, files[m][lp], files[Mirror][rp])
    IN  CASE c.keep = "local" -> ToMirror(m, st, c.by, lp, rp)
          [] c.keep = "remote" -> ToLocal(m, st, c.by, lp, rp)
          [] OTHER -> Item(m, "conflict", "none", "none", lp, rp, None, None)

FollowsMirrorAlways(m, rp) == FALSE
\* The side that no longer holds the agreed state is the one that moved.
FollowsLocal(m, rp) == entry[m] # None /\ entry[m] = rp.place

ArchiveMove(m, st, lp, rp) ==
    LET l == files[m][lp]
        r == files[Mirror][rp]
    IN  IF FollowsLocal(m, rp)
        THEN IF Cardinality(r.recs) > Cardinality(l.recs)
             THEN Resolved(m, st, lp, rp)
             ELSE ToMirror(m, st, "ancestry", lp, rp)
        ELSE IF Cardinality(l.recs) > Cardinality(r.recs)
             THEN Resolved(m, st, lp, rp)
             ELSE ToLocal(m, st, "ancestry", lp, rp)

Compared(m, st, lp, rp) ==
    LET relation == Relation(files[m][lp], files[Mirror][rp],
                             lp.place = rp.place, HasBase)
    IN  CASE relation = "IDENTICAL" ->
                 Item(m, "noop", "none", "none", lp, rp, None, None)
          [] relation \in {"DIVERGED", "MISSING_BASE"} ->
                 Resolved(m, st, lp, rp)
          [] relation = "ARCHIVE_TRANSITION" -> ArchiveMove(m, st, lp, rp)
          [] relation = "FAST_FORWARD_LOCAL" ->
                 ToLocal(m, st, "ancestry", lp, rp)
          [] OTHER -> ToMirror(m, st, "ancestry", lp, rp)

Classify(m, st) ==
    LET lp == IF Settled(m) = {} THEN None ELSE The(Settled(m))
        rp == IF Copies(Mirror) = {} THEN None ELSE The(Copies(Mirror))
    IN  CASE Unusable(m) -> Left(m, None, None)
          [] lp = None /\ rp = None -> Left(m, lp, rp)
          [] ~Unusable(m) /\ lp = None /\ rp # None ->
                 ToLocal(m, st, "ancestry", lp, rp)
          [] ~Unusable(m) /\ lp # None /\ rp = None ->
                 ToMirror(m, st, "ancestry", lp, rp)
          [] OTHER -> Compared(m, st, lp, rp)

\* _apply_scope: a chat outside the working set is not written into .codex and
\* stops being a question; the mirror is written in full.
Scoped(st, item) ==
    IF ~st.inSet /\ (item.side = "local" \/ item.action = "conflict")
    THEN [item EXCEPT !.action = "left", !.side = "none"] ELSE item

\* _apply_direction: a one-way direction holds back the writes the other way.
Directed(st, item) ==
    IF \/ item.side = "local" /\ st.direction = "to_cloud"
       \/ item.side = "mirror" /\ st.direction = "to_local"
    THEN [item EXCEPT !.action = "left", !.side = "none"] ELSE item

\* sync.direction decides before the policy does.
RuleFor(st) == CASE st.direction = "to_cloud" -> "local"
                 [] st.direction = "to_local" -> "remote"
                 [] OTHER -> st.rule

Decide(m, st) ==
    Directed(st, Scoped(st, Classify(m, [st EXCEPT !.rule = RuleFor(st)])))

NothingBundled(item) == {}
\* What an apply keeps before it writes: both branches of a divergence, only
\* the one that loses of a format rewrite.
Bundled(item) ==
    IF item.by = "ancestry" \/ item.action # "write" THEN {}
    ELSE IF FormatMigration(item.local, item.remote)
         THEN {IF item.side = "mirror" THEN item.remote ELSE item.local}
         ELSE {item.local, item.remote}

Source(item) == IF item.side = "mirror" THEN item.local ELSE item.remote

-----------------------------------------------------------------------------
TypeOK ==
    /\ setting \in Setups
    /\ codex \in [Machines -> BOOLEAN]
    /\ files \in [Sides -> [Paths -> Stored]]
    /\ row \in [Machines -> Places \union {"unlisted"}]
    /\ projected \in [Machines -> BOOLEAN]
    /\ entry \in [Machines -> Places \union {None}]
    /\ kept \subseteq History
    /\ pending \subseteq Machines
    /\ resolution \in [Machines -> Decision \union {None}]
    /\ plan \in [Machines -> PlanItem \union {None}]
    /\ run \in [Machines -> ApplyRun \union {None}]
    /\ written \subseteq SUBSET (1 .. MaxRecords)
    /\ overlap \in BOOLEAN /\ interrupted \in BOOLEAN
    /\ used \in [Events -> Nat]

Init ==
    /\ setting \in Setups
    /\ \E s \in Starts : files = s.files /\ row = s.row /\ entry = s.entry
    /\ codex = [m \in Machines |-> FALSE]
    /\ projected = [m \in Machines |-> FALSE]
    /\ kept = {} /\ pending = {} /\ overlap = FALSE /\ interrupted = FALSE
    /\ resolution = [m \in Machines |-> None]
    /\ plan = [m \in Machines |-> None]
    /\ run = [m \in Machines |-> None]
    /\ written = UNION {{files[s][p].recs : p \in Present(s)} : s \in Sides}
    /\ seen = [s \in Sides |-> {}]
    /\ used = [e \in Events |-> 0]

-----------------------------------------------------------------------------
(***************************************************************************)
(* A person, and the plans of codexSync.                                   *)
(***************************************************************************)
\* scan_session_transfer with Codex closed: the decision of this moment.
Scan(m) ==
    /\ ~codex[m] /\ run[m] = None
    /\ LET item == Decide(m, setting[m]) IN
          /\ plan[m] # item
          /\ plan' = [plan EXCEPT ![m] =
                         IF item.action = "left" THEN None ELSE item]
    /\ UNCHANGED <<setting, codexState, files, entry, kept, resolution, run,
                   pending, ghosts, used>>

\* record_branch_resolution: a choice pinned to the branches of a saved plan.
Resolve(m, choice) ==
    /\ plan[m] # None /\ plan[m].action = "conflict"
    /\ Spend("resolve")
    /\ resolution' = [resolution EXCEPT ![m] =
           [local |-> plan[m].local, remote |-> plan[m].remote,
            choice |-> choice]]
    /\ UNCHANGED <<setting, codexState, files, entry, kept, plan, run,
                   pending, ghosts>>

\* record_format_migrations: one decision for a conflict that is only a
\* rewrite, and none where the older copy holds a later record.
ResolveMigration(m) ==
    /\ plan[m] # None /\ plan[m].action = "conflict"
    /\ FormatMigration(plan[m].local, plan[m].remote)
    /\ ~OlderHasLater(plan[m].local, plan[m].remote)
    /\ Spend("resolve")
    /\ resolution' = [resolution EXCEPT ![m] =
           [local |-> plan[m].local, remote |-> plan[m].remote,
            choice |-> NewerFormat(plan[m].local, plan[m].remote)]]
    /\ UNCHANGED <<setting, codexState, files, entry, kept, plan, run,
                   pending, ghosts>>

-----------------------------------------------------------------------------
(***************************************************************************)
(* apply_session_transfer.                                                 *)
(***************************************************************************)
Phase(m) == IF run[m] = None THEN "idle" ELSE run[m].phase
To(m, phase) == run' = [run EXCEPT ![m].phase = phase]

\* _rebuild_transfer_plan: the plan rebuilt now must be the one confirmed.
Fresh(m) == plan[m] # None /\ plan[m] = Decide(m, setting[m])

\* Up to the bundles: a conflict stops the apply, a standing limit does not.
Rebuild(m) ==
    /\ ~codex[m] /\ run[m] = None
    /\ Fresh(m) /\ plan[m].action = "write"
    /\ kept' = kept \union Bundled(plan[m])
    /\ run' = [run EXCEPT ![m] =
           [phase |-> "rebuilt", item |-> plan[m], staged |-> Absent]]
    /\ plan' = [plan EXCEPT ![m] = None]
    /\ overlap' = (overlap \/ \E n \in Machines \ {m} : run[n] # None)
    /\ UNCHANGED <<setting, codexState, files, entry, resolution, pending,
                   written, seen, interrupted, used>>

\* Nothing to write: what both sides hold is still recorded as agreed.
RecordOnly(m) ==
    /\ ~codex[m] /\ run[m] = None
    /\ Fresh(m) /\ plan[m].action = "noop"
    /\ entry' = [entry EXCEPT ![m] = plan[m].place]
    /\ seen' = [s \in Sides |-> IF s \in {m, Mirror}
                                THEN seen[m] \union seen[Mirror] ELSE seen[s]]
    /\ plan' = [plan EXCEPT ![m] = None]
    /\ overlap' = (overlap \/ \E n \in Machines \ {m} : run[n] # None)
    /\ UNCHANGED <<setting, codexState, files, kept, resolution, run, pending,
                   written, interrupted, used>>

\* The lock, the journal and SyncEngine up to the verified backup: the source
\* is staged as it is now.  An open journal of any machine refuses.
Origin(m) == IF run[m].item.side = "mirror" THEN m ELSE Mirror
Dest(m) == IF run[m].item.side = "mirror" THEN Mirror ELSE m
CanPrepare(m) ==
    /\ pending = {}
    /\ \A n \in Machines \ {m} :
          Phase(n) \in {"idle", "rebuilt", "committed"}
    /\ run[m].item.from \in Present(Origin(m))
    /\ files[Origin(m)][run[m].item.from].read = "whole"
    /\ run[m].item.old # None => run[m].item.old \in Present(Dest(m))
Prepare(m) ==
    /\ Phase(m) = "rebuilt" /\ CanPrepare(m)
    /\ run' = [run EXCEPT ![m] = [@ EXCEPT !.phase = "prepared",
                  !.staged = files[Origin(m)][run[m].item.from]]]
    /\ UNCHANGED <<setting, codexState, files, entry, kept, decisions,
                   pending, ghosts, used>>

\* pre_commit: the gate once more, then COMMITTING.
Commit(m) ==
    /\ Phase(m) = "prepared" /\ ~codex[m]
    /\ To(m, "committing")
    /\ UNCHANGED <<setting, codexState, files, entry, kept, decisions,
                   pending, ghosts, used>>

\* A decision of a rule or of a person counts as a move of its own.
NextMove == 1 + Cardinality(UNION {seen[s] : s \in Sides})
Replace(m) ==
    /\ Phase(m) = "committing" /\ ~codex[m]
    /\ files' = [files EXCEPT ![Dest(m)][run[m].item.to] = run[m].staged]
    /\ LET ruled == IF run[m].item.by = "ancestry" \/ run[m].item.old = None
                    THEN {} ELSE {NextMove} IN
          seen' = [s \in Sides |->
             CASE s = Dest(m) -> seen[s] \union seen[Origin(m)] \union ruled
               [] s = Origin(m) -> seen[s] \union ruled
               [] OTHER -> seen[s]]
    /\ To(m, IF run[m].item.old = None THEN "removed" ELSE "replaced")
    /\ UNCHANGED <<setting, codexState, entry, kept, decisions, pending,
                   written, overlap, interrupted, used>>

\* A move ends with the removal of the side's old file.
Remove(m) ==
    /\ Phase(m) = "replaced" /\ ~codex[m]
    /\ files' = [files EXCEPT ![Dest(m)][run[m].item.old] = Absent]
    /\ To(m, "removed")
    /\ UNCHANGED <<setting, codexState, entry, kept, decisions, pending,
                   ghosts, used>>

\* _verify_transferred_branches: what was written is what was planned.
AsPlanned(m) == files[Dest(m)][run[m].item.to] = Source(run[m].item)
Verify(m) ==
    /\ Phase(m) = "removed" /\ AsPlanned(m)
    /\ To(m, "committed")
    /\ UNCHANGED <<setting, codexState, files, entry, kept, decisions,
                   pending, ghosts, used>>

\* _record_semantic_manifest, after COMMITTED: both sides hold this state.
Record(m) ==
    /\ Phase(m) = "committed"
    /\ entry' = [entry EXCEPT ![m] = run[m].item.place]
    /\ run' = [run EXCEPT ![m] = None]
    /\ UNCHANGED <<setting, codexState, files, kept, decisions, pending,
                   ghosts, used>>

\* A refusal of the gate, another's journal, a source that is gone or changed:
\* past COMMITTING the journal asks for recovery.
MayCommit == {"committing", "replaced", "removed"}
Blocked(m) ==
    \/ Phase(m) = "rebuilt" /\ ~CanPrepare(m)
    \/ codex[m] /\ Phase(m) \in {"prepared", "committing", "replaced"}
    \/ Phase(m) = "removed" /\ ~AsPlanned(m)
Leave(m) ==
    /\ pending' = IF Phase(m) \in MayCommit THEN pending \union {m}
                  ELSE pending
    /\ interrupted' = (interrupted \/ Phase(m) \in MayCommit \union {"committed"})
    /\ run' = [run EXCEPT ![m] = None]
    /\ UNCHANGED <<setting, codexState, files, entry, kept, decisions, written,
                   seen, overlap>>

Refuse(m) == run[m] # None /\ Blocked(m) /\ Leave(m) /\ UNCHANGED used

\* A file that cannot be staged, replaced or removed.
Fail(m) ==
    /\ Phase(m) \notin {"idle", "committed"}
    /\ Spend("fail") /\ Leave(m)

\* The program is killed; after COMMITTED only the record is missing.
Crash(m) == run[m] # None /\ Spend("crash") /\ Leave(m)

\* resume_operation: a session transfer is only ever closed, never undone.
Resume(m) ==
    /\ m \in pending /\ ~codex[m] /\ run[m] = None
    /\ pending' = pending \ {m}
    /\ UNCHANGED <<setting, codexState, files, entry, kept, decisions, run,
                   ghosts, used>>

\* follow_chat_archive: a row whose file is gone, while the file of that name
\* sits in the other state folder.
FollowArchive(m) ==
    LET other == IF row[m] = "sessions" THEN "archived_sessions"
                 ELSE "sessions"
    IN  /\ ~codex[m] /\ run[m] = None /\ row[m] # "unlisted"
        /\ ~Occupied(m, row[m])
        /\ At(other, "jsonl") \in Present(m)
        /\ row' = [row EXCEPT ![m] = other]
        /\ UNCHANGED <<setting, codex, projected, files, entry, kept,
                       decisions, run, pending, ghosts, used>>

-----------------------------------------------------------------------------
(***************************************************************************)
(* Codex, and the cloud client.                                            *)
(***************************************************************************)
\* Bounds: Codex is open on one machine at a time, and once opened stays open
\* until an apply that was running has ended (MutationEnvelope has the others).
OpenCodex(m) ==
    /\ \A n \in Machines : ~codex[n]
    /\ codex' = [codex EXCEPT ![m] = TRUE]
    /\ interrupted' = (interrupted \/ Phase(m) \in {"committing", "replaced"})
    /\ UNCHANGED <<setting, row, projected, files, entry, kept, decisions,
                   run, pending, written, seen, overlap, used>>

CloseCodex(m) ==
    /\ codex[m] /\ run[m] = None
    /\ codex' = [codex EXCEPT ![m] = FALSE]
    /\ UNCHANGED <<setting, row, projected, files, entry, kept, decisions,
                   run, pending, ghosts, used>>

\* The file Codex opens the chat by: the one its catalogue names, and the
\* compressed one only where there is no other.
Opened(m) == {p \in Present(m) : p.place = row[m]
                 /\ (p.box = "packed" => At(p.place, "jsonl") \notin Present(m))}
NextRecord == 1 + CHOOSE n \in 0 .. MaxRecords :
    /\ \A h \in written : \A r \in h : r <= n
    /\ n = 0 \/ \E h \in written : n \in h

\* A turn: a compressed file is unpacked to go on.
Work(m) ==
    /\ codex[m] /\ NextRecord <= MaxRecords /\ Spend("turn")
    /\ \E p \in Opened(m) :
          LET h == [files[m][p] EXCEPT !.recs = @ \union {NextRecord}]
          IN  /\ files' = [files EXCEPT ![m] =
                     [@ EXCEPT ![p] = Absent, ![At(p.place, "jsonl")] = h]]
              /\ written' = written \union {h.recs}
    /\ UNCHANGED <<setting, codexState, entry, kept, decisions, run, pending,
                   seen, overlap, interrupted>>

\* Archiving, or bringing back, a chat in Codex: the file and its row.
Archive(m) ==
    /\ codex[m] /\ Spend("move")
    /\ \E p \in Opened(m), place \in Places \ {row[m]} :
          /\ ~Occupied(m, place)
          /\ files' = [files EXCEPT ![m] =
                 [@ EXCEPT ![p] = Absent, ![At(place, p.box)] = files[m][p]]]
          /\ row' = [row EXCEPT ![m] = place]
    /\ seen' = [seen EXCEPT ![m] = @ \union {NextMove}]
    /\ UNCHANGED <<setting, codex, projected, entry, kept, decisions, run,
                   pending, written, overlap, interrupted>>

\* An upgrade of Codex rewrites the records of a chat.
Upgrade(m) ==
    /\ codex[m] /\ Spend("upgrade")
    /\ \E p \in Opened(m) :
          /\ files[m][p].format = 0
          /\ files' = [files EXCEPT ![m][p].format = 1]
    /\ UNCHANGED <<setting, codexState, entry, kept, decisions, run, pending,
                   ghosts>>

Project(m) ==
    /\ codex[m] /\ ~projected[m] /\ Opened(m) # {} /\ Spend("project")
    /\ projected' = [projected EXCEPT ![m] = TRUE]
    /\ UNCHANGED <<setting, codex, row, files, entry, kept, decisions, run,
                   pending, ghosts>>

Compress(m) ==
    /\ codex[m] /\ Spend("compress")
    /\ \E p \in Opened(m) :
          /\ p.box = "jsonl"
          /\ files' = [files EXCEPT ![m] =
                 [@ EXCEPT ![p] = Absent,
                           ![At(p.place, "packed")] = files[m][p]]]
    /\ UNCHANGED <<setting, codexState, entry, kept, decisions, run, pending,
                   ghosts>>

\* Codex fills its catalogue from the files of chats it does not list.
List(m) ==
    /\ codex[m] /\ row[m] = "unlisted"
    /\ \E p \in Present(m) : row' = [row EXCEPT ![m] = p.place]
    /\ UNCHANGED <<setting, codex, projected, files, entry, kept, decisions,
                   run, pending, ghosts, used>>

\* The cloud client has brought a file of the mirror in part, then wholly.
Tear(p) ==
    /\ p \in Present(Mirror) /\ files[Mirror][p].read = "whole"
    /\ \E how \in {"torn", "headless"} :
          /\ Spend(how)
          /\ files' = [files EXCEPT ![Mirror][p].read = how]
    /\ UNCHANGED <<setting, codexState, entry, kept, decisions, run, pending,
                   ghosts>>

Deliver(p) ==
    /\ p \in Present(Mirror) /\ files[Mirror][p].read # "whole"
    /\ files' = [files EXCEPT ![Mirror][p].read = "whole"]
    /\ UNCHANGED <<setting, codexState, entry, kept, decisions, run, pending,
                   ghosts, used>>

-----------------------------------------------------------------------------
Plans(m) == Scan(m) \/ ResolveMigration(m) \/ \E c \in Choices : Resolve(m, c)
Apply(m) == \/ Rebuild(m) \/ RecordOnly(m) \/ Prepare(m) \/ Commit(m)
            \/ Replace(m) \/ Remove(m) \/ Verify(m) \/ Record(m)
Exits(m) == Refuse(m) \/ Fail(m) \/ Crash(m) \/ Resume(m)
Codex(m) == \/ OpenCodex(m) \/ CloseCodex(m) \/ Work(m) \/ Archive(m)
            \/ Upgrade(m) \/ Project(m) \/ Compress(m) \/ List(m)
Client(p) == Tear(p) \/ Deliver(p)

Next == \/ \E m \in Machines :
              Plans(m) \/ Apply(m) \/ Exits(m) \/ FollowArchive(m) \/ Codex(m)
        \/ \E p \in Paths : Client(p)

Spec == Init /\ [][Next]_vars

-----------------------------------------------------------------------------
(***************************************************************************)
(* Properties.                                                             *)
(***************************************************************************)
\* No decision, move, interruption or race of two machines loses records:
\* every history Codex ever had is continued by a copy on some machine, in
\* the mirror or in a bundle (_bundle_resolved_conflicts, archive_superseded).
\* The exception is a race of two applies beside an apply whose end was not
\* recorded, or a file of the mirror that did not show its chat: then a copy
\* may be staged from a mirror that is no longer the one the plan compared,
\* over a history that only the backup of the operation still has.
Copied == (UNION {{files[s][p] : p \in Present(s)} : s \in Sides}) \union kept
Survives(h) == \E c \in Copied : Continues(h, c.recs)
NothingLost ==
    /\ TypeOK
    /\ \/ overlap /\ (interrupted \/ used["headless"] > 0)
       \/ \A h \in written : Survives(h)

\* One chat is one file on a side: the mirror's container and path are kept,
\* a move removes what it moved.  There may be two while an apply removes,
\* after one that was interrupted, when two machines applied at once, and when
\* a file of the mirror did not even show which chat it holds.
OneFilePerChat ==
    \/ overlap \/ interrupted \/ used["headless"] > 0
    \/ \A s \in Sides : Cardinality(Present(s)) <= 1
                        \/ \E m \in Machines : Phase(m) = "replaced"

\* A step replaced or removed this file.
Displaced(s, p) == files[s][p] # Absent /\ files'[s][p] # files[s][p]

\* An archive move of a person is never undone by a sync that knows no later
\* one: a branch changes its state folder by ancestry only for a move its own
\* side has not seen (D-023).  A machine with no agreement on record follows
\* the mirror; a lost record of an apply and a file that did not show its chat
\* are the other exceptions.
MovesState(m) ==
    /\ Phase(m) = "committing" /\ Phase(m)' = "replaced"
    /\ run[m].item.by = "ancestry" /\ run[m].item.old # None
    /\ run[m].item.old.place # run[m].item.to.place
    /\ entry[m] # None
Undoes(m) == IF Dest(m) = Mirror THEN seen[m] \subseteq seen[Mirror]
             ELSE seen[Mirror] \subseteq seen[m]
MoverWins ==
    [][\A m \in Machines :
          MovesState(m) /\ ~overlap /\ ~interrupted /\ used["headless"] = 0 =>
             ~Undoes(m)]_vars

\* What Codex has projected is never given other content by a sync, only a
\* continuation of what was projected (CS-426).  The exception is a race of two
\* applies: what is staged is what the mirror holds by then.
ProjectionHolds ==
    [][\A m \in Machines, p \in Paths :
          projected[m] /\ Displaced(m, p) /\ ~codex[m] /\ ~overlap =>
             \E q \in Paths : /\ files'[m][q] # Absent
                              /\ Prefix(files[m][p], files'[m][q])]_vars
=============================================================================
