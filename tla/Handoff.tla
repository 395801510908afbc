------------------------------ MODULE Handoff ------------------------------
(***************************************************************************)
(* Handing work from one machine to the next (handoff, app.run_handoff,    *)
(* app.watch_handoff): one board file per machine in the synced folder, a  *)
(* full sync (settings, then chats) that first waits for what the boards   *)
(* of the others promise, and a watcher that runs it when Codex closes.    *)
(*                                                                         *)
(* Each machine sees its own replica of the mirror and of the boards; the  *)
(* cloud client brings them file by file, in any order.  A content is a    *)
(* number; "past" says which contents it continues.                        *)
(***************************************************************************)
EXTENDS Integers, FiniteSets

CONSTANTS
    Machines,
    Settings,       \* files decided by the planner, with a baseline
    Chats,          \* files decided by their history (semantic_transfer)
    PolicyOf,       \* machine -> conflict.policy of its configuration
    None,
    MaxOpens, MaxWrites, MaxHandoffs, MaxMishaps    \* bounds

Files == Settings \union Chats
Contents == 0..MaxWrites

ASSUME HandoffAssumption ==
    /\ Settings \intersect Chats = {}
    /\ PolicyOf \in [Machines -> {"manual_abort", "prefer_local", "prefer_cloud"}]
    /\ None \notin Machines /\ None \notin Contents
    /\ MaxOpens \in Nat /\ MaxWrites \in Nat
    /\ MaxHandoffs \in Nat /\ MaxMishaps \in Nat

VARIABLES
    codex,      \* machines where Codex is open
    local,      \* machine -> file -> content in .codex
    cloud,      \* machine -> file -> content of its replica of the mirror
    server,     \* file -> newest content of the mirror, under way to the rest
    base,       \* machine -> setting -> content both sides had at its last sync
    board,      \* machine -> its board file
    seen,       \* machine -> other machine -> that board, as it arrived here
    prog,       \* machine -> its codexSync program
    past,       \* content -> the contents it continues, itself included
    over,       \* history: file -> content -> contents a rule of the person dropped for it
    touched,    \* history: machine -> files written while it did not say working
    loose,      \* history: machines told to load what had not arrived
    half,       \* history: machines a run of which stopped with files in the mirror
    misled,     \* history: machines opened on a board that hid the work of another
    crossed,    \* history: files of the mirror a run replaced by a replica behind it
    left,       \* history: machine -> chats its last sync of chats left as they were
    stray,      \* history: chats some run left as they were
    forgot,     \* history: machine -> times its record was written anew, unread
    used        \* how much of each bound is spent

vars == <<codex, local, cloud, server, base, board, seen, prog, past,
          over, touched, loose, half, misled, crossed, left, stray, forgot, used>>

Mishaps == {"breach", "failure"}       \* the person leaves the protocol, a part fails
Bounds == {"open", "write", "handoff"} \union Mishaps
Steps == {"begin", "wait", "plan", "settings", "chats", "record"}
PCs == {"off", "watch"} \union Steps
Ids == 0..MaxHandoffs       \* 0: no handoff yet

Blank == [state |-> "handed_off", id |-> 0,
          accepted |-> [o \in Machines |-> 0], files |-> [f \in Files |-> None]]
Record == [state : {"working", "handed_off"}, id : Ids,
           accepted : [Machines -> Ids], files : [Files -> Contents \union {None}]]
Idle == [pc |-> "off", last |-> "none", pend |-> {}, accept |-> FALSE,
         chats |-> [f \in Chats |-> <<0, 0>>], limited |-> {}, wrote |-> {}]
Program == [pc : PCs, last : {"none", "open", "closed"},
            pend : SUBSET [from : Machines, rec : Record], accept : BOOLEAN,
            chats : [Chats -> Contents \X Contents], limited : SUBSET Chats,
            wrote : SUBSET Files]

TypeOK ==
    /\ codex \subseteq Machines
    /\ local \in [Machines -> [Files -> Contents]]
    /\ cloud \in [Machines -> [Files -> Contents]]
    /\ server \in [Files -> Contents]
    /\ base \in [Machines -> [Settings -> Contents \X Contents]]
    /\ board \in [Machines -> Record]
    /\ seen \in [Machines -> [Machines -> Record \union {None}]]
    /\ prog \in [Machines -> Program]
    /\ past \in [Contents -> SUBSET Contents]
    /\ over \in [Files -> [Contents -> SUBSET Contents]]
    /\ touched \in [Machines -> SUBSET Files]
    /\ loose \subseteq Machines
    /\ half \subseteq Machines
    /\ misled \subseteq Machines
    /\ crossed \subseteq Files
    /\ left \in [Machines -> SUBSET Chats]
    /\ stray \subseteq Chats
    /\ forgot \in [Machines -> Nat]
    /\ used \in [Bounds -> Nat]

Init ==
    /\ codex = {}
    /\ local = [m \in Machines |-> [f \in Files |-> 0]]
    /\ cloud = local
    /\ server = [f \in Files |-> 0]
    /\ base = [m \in Machines |-> [f \in Settings |-> <<0, 0>>]]
    /\ board = [m \in Machines |-> Blank]
    /\ seen = [m \in Machines |-> [o \in Machines |-> Blank]]
    /\ prog = [m \in Machines |-> Idle]
    /\ past = [c \in Contents |-> {c}]
    /\ over = [f \in Files |-> [c \in Contents |-> {}]]
    /\ touched = [m \in Machines |-> {}]
    /\ loose = {}
    /\ half = {}
    /\ misled = {}
    /\ crossed = {}
    /\ left = [m \in Machines |-> {}]
    /\ stray = {}
    /\ forgot = [m \in Machines |-> 0]
    /\ used = [b \in Bounds |-> 0]

Spend(what, bound) ==
    /\ used[what] < bound
    /\ used' = [used EXCEPT ![what] = @ + 1]
Calm == used["breach"] + used["failure"] < MaxMishaps
Mishap(what) == Calm /\ used' = [used EXCEPT ![what] = @ + 1]
\* So far the person kept to the protocol of SYNC.md.
Orderly == used["breach"] = 0
At(m, where) == prog[m].pc = where
Go(m, where) == prog' = [prog EXCEPT ![m].pc = where]
\* The run is over; the watcher it belongs to goes on.
Ended(m) == [Idle EXCEPT !.pc = "watch", !.last = prog[m].last]
Quit(m) == prog' = [prog EXCEPT ![m] = Ended(m)]

\* What content c of file f continues, or was chosen over by a rule.
Covered(f, c) == past[c] \union over[f][c]

-----------------------------------------------------------------------------
(***************************************************************************)
(* The boards.                                                             *)
(***************************************************************************)

\* read_board: a file that cannot be believed is left out, the machine's own too.
Others(m) == {o \in Machines \ {m} : seen[m][o] # None}
Own(m, read) == IF read THEN board[m] ELSE Blank
Reads(m, read) == IF read THEN UNCHANGED used ELSE board[m] # Blank /\ Mishap("failure")
Writes(m, read) == forgot' = IF read THEN forgot ELSE [forgot EXCEPT ![m] = @ + 1]

\* Board.pending, by what was taken as far as the own record says.
Pending(m, own) ==
    {[from |-> o, rec |-> seen[m][o]] : o \in
        {x \in Others(m) : seen[m][x].id # 0 /\ own.accepted[x] # seen[m][x].id}}

\* delivery: every file the handoff names is here, as it was then.
AnythingDelivered(m, rec) == \E f \in Files : cloud[m][f] = rec.files[f]
Delivered(m, rec) ==
    \A f \in Files : rec.files[f] # None => cloud[m][f] = rec.files[f]
Late(m) == {r \in prog[m].pend : ~Delivered(m, r.rec)}

\* mark_working: the last handoff stays as it was.
WorkingAnew(own) == [Blank EXCEPT !.state = "working", !.id = own.id]
Working(own) == [own EXCEPT !.state = "working"]

\* record_handoff: a new id and fingerprint only when the mirror was written.  With no
\* own record to go on from there is no handoff before it, and nothing was taken before.
Taken(m, o) == {r.rec.id : r \in {x \in prog[m].pend : x.from = o}}
HandedOff(m, own, new) ==
    [state |-> "handed_off",
     id |-> IF prog[m].wrote # {} THEN new ELSE own.id,
     accepted |-> [o \in Machines |->
         IF Taken(m, o) = {} THEN own.accepted[o]
         ELSE CHOOSE i \in Taken(m, o) : TRUE],
     files |-> IF prog[m].wrote # {} THEN cloud[m] ELSE own.files]

-----------------------------------------------------------------------------
(***************************************************************************)
(* watch_handoff.  last is the last state of Codex the watcher was sure    *)
(* of; a look that is not sure changes nothing.                            *)
(***************************************************************************)
CodexStarted(m) ==
    /\ \E read \in BOOLEAN :
        /\ Reads(m, read) /\ Writes(m, read)
        /\ board' = [board EXCEPT ![m] = Working(Own(m, read))]
    /\ prog' = [prog EXCEPT ![m] = [Idle EXCEPT !.last = "open", !.pc = "watch"]]

Attempt(m, last, accept) ==
    /\ prog' = [prog EXCEPT ![m] = [Idle EXCEPT !.last = last, !.pc = "begin",
                                               !.accept = accept]]
    /\ UNCHANGED <<board, forgot>>

Surroundings == <<local, cloud, server, base, seen, past, over, touched, loose, misled,
                  crossed, left, stray>>

\* At sign-in: load while Codex is closed, mark the machine when it is open.
StartWatch(m) ==
    /\ At(m, "off")
    /\ IF m \in codex THEN CodexStarted(m)
       ELSE Attempt(m, "closed", FALSE) /\ UNCHANGED used
    /\ UNCHANGED <<codex, Surroundings, half>>

\* The process list could not be read at that moment.
StartUnsure(m) ==
    /\ At(m, "off")
    /\ Mishap("failure")
    /\ prog' = [prog EXCEPT ![m] = [Idle EXCEPT !.pc = "watch"]]
    /\ UNCHANGED <<codex, board, Surroundings, half, forgot>>

\* mark_working fails: the watcher goes on as if it had marked the machine.
MarkFails(m) ==
    /\ prog[m].pc \in {"off", "watch"}
    /\ m \in codex /\ prog[m].last # "open"
    /\ Mishap("failure")
    /\ prog' = [prog EXCEPT ![m] = [Idle EXCEPT !.last = "open", !.pc = "watch"]]
    /\ UNCHANGED <<codex, board, Surroundings, half, forgot>>

PollOpened(m) ==
    /\ At(m, "watch")
    /\ m \in codex /\ prog[m].last # "open"
    /\ CodexStarted(m)
    /\ UNCHANGED <<codex, Surroundings, half>>

PollClosed(m) ==
    /\ At(m, "watch")
    /\ m \notin codex /\ prog[m].last = "open"
    /\ Attempt(m, "closed", FALSE)
    /\ UNCHANGED <<codex, used, Surroundings, half>>

\* A person runs handoff sync, with or without --accept-undelivered (which is
\* to give up the protocol).
ByHand(m, accept) ==
    /\ At(m, "watch")
    /\ IF accept THEN Mishap("breach") ELSE UNCHANGED used
    /\ Attempt(m, prog[m].last, accept)
    /\ UNCHANGED <<codex, Surroundings, half>>

-----------------------------------------------------------------------------
(***************************************************************************)
(* run_handoff.                                                            *)
(***************************************************************************)

\* The gate, then the boards as they are now.
Begin(m) ==
    /\ At(m, "begin")
    /\ m \notin codex
    /\ \E read \in BOOLEAN :
        /\ Reads(m, read)
        /\ LET pending == Pending(m, Own(m, read)) IN
            prog' = [prog EXCEPT ![m].pend = pending,
                                 ![m].pc = IF pending = {} THEN "plan" ELSE "wait"]
    /\ UNCHANGED <<codex, board, Surroundings, half, forgot>>

\* _wait_for_delivery: all of it is here, or the time is up.
Arrived(m) ==
    /\ At(m, "wait")
    /\ Late(m) = {}
    /\ Go(m, "plan")
    /\ UNCHANGED <<codex, board, used, Surroundings, half, forgot>>

NotDelivered(m) ==
    /\ At(m, "wait")
    /\ Late(m) # {}
    /\ IF prog[m].accept
       THEN Go(m, "plan") /\ loose' = loose \union {m}
       ELSE Quit(m) /\ UNCHANGED loose
    /\ UNCHANGED <<codex, board, used, local, cloud, server, base, seen,
                   past, over, touched, half, misled, crossed, left, stray, forgot>>

\* The side a rule of the person keeps of two that diverged.
ByRule(m) ==
    CASE PolicyOf[m] = "prefer_local" -> "to_cloud"
      [] PolicyOf[m] = "prefer_cloud" -> "to_local"
      [] PolicyOf[m] = "manual_abort" -> "conflict"

\* semantic_transfer: a branch that continues the other replaces it.  What a standing
\* limit holds back stays as it is on both sides, and stops nothing: nothing may be
\* written into .codex (a layout not proven, a backend, a chat outside the working set
\* or the direction), or a copy cannot be used (two files of one id, one that cannot be
\* read, an occupied place).
ChatDecision(m, f, limited) ==
    IF local[m][f] = cloud[m][f] THEN "nothing"
    ELSE IF f \in limited THEN "left"
    ELSE IF local[m][f] \in past[cloud[m][f]] THEN "to_local"
    ELSE IF cloud[m][f] \in past[local[m][f]] THEN "to_cloud"
    ELSE ByRule(m)

\* planner: the side that changed since the baseline replaces the other.
SettingDecision(m, f) ==
    LET here  == local[m][f] # base[m][f][1]
        there == cloud[m][f] # base[m][f][2]
    IN
    IF local[m][f] = cloud[m][f] THEN "nothing"
    ELSE IF here /\ there THEN ByRule(m)
    ELSE IF here THEN "to_cloud" ELSE IF there THEN "to_local" ELSE "nothing"

ChatsNow(m) == [f \in Chats |-> <<local[m][f], cloud[m][f]>>]

\* Only a write can be held back by a limit.
Limitable(m) == {f \in Chats : local[m][f] # cloud[m][f]}

\* The chat plan is computed and checked before anything is written.  (Bound: limits
\* that hold back a chat count as a mishap.)
Plan(m) ==
    /\ At(m, "plan")
    /\ m \notin codex
    /\ \E limited \in SUBSET Limitable(m) :
        /\ IF limited = {} THEN UNCHANGED used ELSE Mishap("failure")
        /\ \A f \in Chats : ChatDecision(m, f, limited) # "conflict"
        /\ prog' = [prog EXCEPT ![m].chats = ChatsNow(m), ![m].limited = limited,
                                ![m].pc = "settings"]
    /\ UNCHANGED <<codex, board, Surroundings, half, forgot>>

\* One half of the sync: the files of "kind" by their decisions.
Apply(m, kind, decision) ==
    LET toLocal == {f \in kind : decision[f] = "to_local"}
        toCloud == {f \in kind : decision[f] = "to_cloud"}
        winner(f) == IF f \in toLocal THEN cloud[m][f] ELSE local[m][f]
        loser(f)  == IF f \in toLocal THEN local[m][f] ELSE cloud[m][f]
    IN
    /\ local' = [local EXCEPT ![m] =
           [f \in Files |-> IF f \in toLocal THEN cloud[m][f] ELSE @[f]]]
    /\ cloud' = [cloud EXCEPT ![m] =
           [f \in Files |-> IF f \in toCloud THEN local[m][f] ELSE @[f]]]
    /\ server' = [f \in Files |-> IF f \in toCloud THEN local[m][f] ELSE server[f]]
    /\ over' = [f \in Files |->
           IF f \in toLocal \union toCloud
           THEN [over[f] EXCEPT ![winner(f)] = @ \union Covered(f, loser(f))]
           ELSE over[f]]
    /\ touched' = [touched EXCEPT ![m] = @ \ kind]
    /\ crossed' = crossed \union {f \in toCloud : cloud[m][f] # server[f]}
    /\ prog' = [prog EXCEPT
           ![m].wrote = @ \union toCloud,
           ![m].pc = IF kind = Settings THEN "chats" ELSE "record"]

\* run_sync: the settings, and their baseline.
SyncSettings(m) ==
    LET decision == [f \in Settings |-> SettingDecision(m, f)] IN
    /\ At(m, "settings")
    /\ m \notin codex
    /\ \A f \in Settings : decision[f] # "conflict"
    /\ Apply(m, Settings, decision)
    /\ base' = [base EXCEPT ![m] =
           [f \in Settings |-> <<local'[m][f], cloud'[m][f]>>]]
    /\ UNCHANGED <<codex, board, seen, past, loose, half, misled, left, stray, forgot, used>>

\* apply_session_transfer: the plan is rebuilt and must be the same.  (A limit that came
\* or went since makes it another plan: Fail.)
SamePlan(m) == prog[m].chats = ChatsNow(m)
SyncChats(m) ==
    /\ At(m, "chats")
    /\ m \notin codex
    /\ SamePlan(m)
    /\ Apply(m, Chats, [f \in Chats |-> ChatDecision(m, f, prog[m].limited)])
    /\ left' = [left EXCEPT ![m] = prog[m].limited]
    /\ stray' = stray \union prog[m].limited
    /\ UNCHANGED <<codex, board, base, seen, past, loose, half, misled, forgot, used>>

\* record_handoff, after both halves.
RecordHandoff(m) ==
    /\ At(m, "record")
    /\ \E read \in BOOLEAN :
        /\ read \/ (board[m] # Blank /\ Calm)
        /\ prog[m].wrote # {} => used["handoff"] < MaxHandoffs
        /\ used' = [used EXCEPT !["handoff"] = IF prog[m].wrote # {} THEN @ + 1 ELSE @,
                                !["failure"] = IF read THEN @ ELSE @ + 1]
        /\ Writes(m, read)
        /\ board' = [board EXCEPT ![m] = HandedOff(m, Own(m, read), used["handoff"] + 1)]
    /\ Quit(m)
    /\ UNCHANGED <<codex, Surroundings, half>>

\* Where a run that stops goes: it records nothing.
RecordsAnyway(m) == IF At(m, "chats") THEN "record" ELSE "watch"
StopsAt(m) == "watch"
Stop(m) ==
    /\ prog' = [prog EXCEPT ![m] = IF StopsAt(m) = "watch" THEN Ended(m)
                                   ELSE [@ EXCEPT !.pc = StopsAt(m)]]
    /\ half' = IF prog[m].wrote # {} THEN half \union {m} ELSE half

\* Codex is open, a conflict is left to a person, or the chats moved on.
Refused(m) ==
    /\ prog[m].pc \in {"begin", "plan", "settings", "chats"}
    /\ \/ m \in codex
       \/ At(m, "plan") /\ \E f \in Chats : ChatDecision(m, f, {}) = "conflict"
       \/ At(m, "settings") /\ \E f \in Settings : SettingDecision(m, f) = "conflict"
       \/ At(m, "chats") /\ ~SamePlan(m)
    /\ Stop(m)
    /\ UNCHANGED <<codex, board, used, Surroundings, forgot>>

\* A step raises: an open journal, a locked file, a full disk, a limit that changed.
Fail(m) ==
    /\ prog[m].pc \in Steps
    /\ Mishap("failure")
    /\ Stop(m)
    /\ UNCHANGED <<codex, board, Surroundings, forgot>>

\* The program ends at any moment, with the sign-out or by a kill.
Crash(m) ==
    /\ ~At(m, "off")
    /\ Mishap("failure")
    /\ prog' = [prog EXCEPT ![m] = Idle]
    /\ half' = IF prog[m].wrote # {} THEN half \union {m} ELSE half
    /\ UNCHANGED <<codex, board, Surroundings, forgot>>

-----------------------------------------------------------------------------
(***************************************************************************)
(* The person, Codex, and the cloud client.                                *)
(***************************************************************************)

\* The protocol of SYNC.md: Codex was closed elsewhere, that machine handed
\* off, and all of it was loaded here.
MyTurn(m) ==
    /\ At(m, "watch") /\ prog[m].last # "open"
    /\ \A o \in Machines \ {m} :
        /\ o \notin codex
        /\ prog[o].pc \in {"off", "watch"} /\ prog[o].last # "open"
        /\ board[o].state = "handed_off"
        /\ board[o].id # 0 => board[m].accepted[o] = board[o].id

\* The board of a machine says handed off and knows nothing of what Codex wrote
\* there since.
Hides(o) == board[o].state = "handed_off" /\ touched[o] # {}
OpenCodex(m) ==
    /\ m \notin codex
    /\ used["open"] < MaxOpens /\ (MyTurn(m) \/ Calm)
    /\ used' = [used EXCEPT !["open"] = @ + 1,
                            !["breach"] = IF MyTurn(m) THEN @ ELSE @ + 1]
    /\ codex' = codex \union {m}
    /\ misled' = misled \union {x \in {m} : \E o \in Machines \ {m} : Hides(o)}
    /\ UNCHANGED <<board, local, cloud, server, base, seen, prog, past, over,
                   touched, loose, half, crossed, left, stray, forgot>>

\* Orderly: not before the watcher had a look.
CloseCodex(m) ==
    /\ m \in codex
    /\ IF At(m, "watch") /\ prog[m].last = "open" THEN UNCHANGED used
       ELSE Mishap("breach")
    /\ codex' = codex \ {m}
    /\ UNCHANGED <<board, prog, Surroundings, half, forgot>>

\* Codex writes a setting, or continues a chat.
Work(m, f) ==
    LET new == used["write"] + 1 IN
    /\ m \in codex
    /\ Spend("write", MaxWrites)
    /\ local' = [local EXCEPT ![m][f] = new]
    /\ past' = [past EXCEPT ![new] = @ \union past[local[m][f]]]
    /\ over' = [over EXCEPT ![f][new] = over[f][local[m][f]]]
    /\ touched' = [touched EXCEPT ![m] =
           IF board[m].state = "working" THEN @ ELSE @ \union {f}]
    /\ UNCHANGED <<codex, cloud, server, base, board, seen, prog, loose,
                   half, misled, crossed, left, stray, forgot>>

DeliverFile(m, f) ==
    /\ cloud[m][f] # server[f]
    /\ cloud' = [cloud EXCEPT ![m][f] = server[f]]
    /\ UNCHANGED <<codex, local, server, base, board, seen, prog, past,
                   over, touched, loose, half, misled, crossed, left, stray, forgot, used>>

\* A board that is here only in part is not believed.
DeliverPart(m, o) ==
    /\ o # m /\ seen[m][o] \notin {board[o], None}
    /\ Mishap("failure")
    /\ seen' = [seen EXCEPT ![m][o] = None]
    /\ UNCHANGED <<codex, local, cloud, server, base, board, prog, past,
                   over, touched, loose, half, misled, crossed, left, stray, forgot>>

DeliverBoard(m, o) ==
    /\ o # m /\ seen[m][o] # board[o]
    /\ seen' = [seen EXCEPT ![m][o] = board[o]]
    /\ UNCHANGED <<codex, local, cloud, server, base, board, prog, past,
                   over, touched, loose, half, misled, crossed, left, stray, forgot, used>>

-----------------------------------------------------------------------------
Watch(m) == StartWatch(m) \/ StartUnsure(m) \/ PollOpened(m) \/ PollClosed(m)
            \/ MarkFails(m)
Run(m) == Begin(m) \/ Arrived(m) \/ NotDelivered(m) \/ Plan(m)
          \/ SyncSettings(m) \/ SyncChats(m) \/ RecordHandoff(m) \/ Refused(m)
          \/ Fail(m)
Person(m) == ByHand(m, FALSE) \/ ByHand(m, TRUE) \/ OpenCodex(m) \/ CloseCodex(m)
             \/ \E f \in Files : Work(m, f)
Deliver == \/ \E m \in Machines, f \in Files : DeliverFile(m, f)
           \/ \E m, o \in Machines : DeliverBoard(m, o) \/ DeliverPart(m, o)

Next ==
    \/ \E m \in Machines : Watch(m) \/ Run(m) \/ Person(m) \/ Crash(m)
    \/ Deliver

Spec == Init /\ [][Next]_vars

-----------------------------------------------------------------------------
(***************************************************************************)
(* Properties.                                                             *)
(***************************************************************************)
\* run_handoff: a record that claims a handoff which did not happen is the lie
\* the other machine would act on.  Whoever says handed off has its work in the
\* mirror (or later work, which continues or replaces it by a rule), except
\* what Codex wrote before the watcher saw it, and chats that a limit left where
\* they were: those are only counted (chats_not_loaded).
HandedOffStands ==
    Orderly => \A m \in Machines : board[m].state = "handed_off" =>
        \A f \in Files \ (touched[m] \union stray) : local[m][f] \in Covered(f, server[f])

\* The same as long as no run stopped with only a part of its files written, no
\* machine wrote its record without reading it (nobody waits for a forgotten
\* handoff), and Codex was never opened on the word of a board that hid the work
\* of another machine (its watcher could not mark it and ended).
HandedOffIsInCloud ==
    half = {} /\ misled = {} /\ (\A m \in Machines : forgot[m] = 0) => HandedOffStands

\* A handoff is recorded as taken only when all it named was loaded (or a rule
\* of the person decided otherwise), but for the chats the last sync here had to
\* leave in the mirror, unless the person said to go on without.  It may be that
\* a run elsewhere replaced it in the mirror by a replica to which the cloud
\* client had not brought it (crossed): then that is what arrived here.  Records
\* written anew make no exception.
TakenIsLoaded ==
    \A m, o \in Machines :
        /\ m \notin loose /\ o # m /\ board[o].id # 0
        /\ board[m].accepted[o] = board[o].id
        => \A f \in Files \ (crossed \union left[m]) :
               board[o].files[f] \in Covered(f, local[m][f])

\* A machine's own record goes only forward, whatever copies of boards a run has
\* of the others, in whatever order they came: neither its last handoff nor what
\* it has taken goes back, except where the record could not be read.
NothingForgotten ==
    [][\A m \in Machines : forgot'[m] = forgot[m] =>
        /\ board'[m].id >= board[m].id
        /\ \A o \in Machines : board'[m].accepted[o] >= board[m].accepted[o]]_vars
=============================================================================
