---------------------------- MODULE CodexClosing ----------------------------
(***************************************************************************)
(* Asking Codex to quit before a sync, and the process check behind every  *)
(* write (codex_closer.py, process_detector.py, safety_gate.py).  The      *)
(* processes are the environment: they start, end and, on Windows, take    *)
(* the numbers of processes that ended, between any two readings of the    *)
(* process list.  A reading of "is Codex running" is two listings, and a   *)
(* request to quit goes to what an earlier listing said.                   *)
(***************************************************************************)
EXTENDS Integers, FiniteSets

CONSTANTS
    Starts,       \* what may run at first: [platform, procs]
    Pids,         \* bound: process numbers Windows hands out; the others count up
    LastBirth,    \* bound: how many processes ever start
    MoreSamples   \* samples of the stable window after the first one


VARIABLES
    platform,   \* "windows", "linux" or "macos"
    procs,      \* alive: [pid, parent, kind, birth, root]; a sandbox's root is whom it works for
    births,     \* how many processes have started
    sync,       \* the sync that asks: where it is and what it has seen
    asked       \* the processes its requests to quit reached

closingVars == <<platform, procs, births, sync, asked>>

-----------------------------------------------------------------------------
(* Codex and everything else that runs (external). *)

\* "server" is the app's codex; "cli" a codex in a terminal; "daemon" the server
\* a CLI leaves behind; "sandbox" what works for one of these; "other" a shell.
NamedCodex == {"server", "cli", "daemon"}
AppKinds == {"app", "helper", "server"}
Kinds == NamedCodex \cup AppKinds \cup {"sandbox", "other"}
\* The app itself is known by its path on Linux; on Windows by its codex children.
Markers == IF platform = "linux" THEN AppKinds \cup {"sandbox"} ELSE {"sandbox"}
MainKinds == NamedCodex
KnownKinds == MainKinds \cup Markers
Opens(kind) == kind \in {"app", "cli", "other"}
ParentsOf(kind) ==
    CASE kind \in {"helper", "server"} -> {"app"}
      [] kind = "daemon" -> {"cli"}
      [] kind = "sandbox" -> NamedCodex
      [] kind = "cli" -> {"other"}
      [] OTHER -> {}
Process == [pid : Nat \ {0}, parent : Nat, kind : Kinds, birth : Nat \ {0}, root : Nat]

\* What runs when so many have started: no start and no number is had twice, and
\* who has a parent's number and is older is the parent.
Orderly(system, run, count) ==
    /\ run \subseteq Process
    /\ \A p, q \in run : p.birth = q.birth \/ p.pid = q.pid => p = q
    /\ \A p \in run :
         /\ p.birth <= count
         /\ p.kind # "sandbox" => p.root = p.birth
         /\ system # "windows" => p.pid = p.birth /\ p.parent < p.birth
         /\ ParentsOf(p.kind) = {} => p.parent = 0
         /\ \A q \in run : q.pid = p.parent /\ q.birth < p.birth => q.kind \in ParentsOf(p.kind)

ASSUME ClosingAssumption ==
    /\ Pids \subseteq Nat \ {0} /\ LastBirth \in Nat /\ MoreSamples \in Nat
    /\ \A start \in Starts :
         /\ start.platform \in {"windows", "linux", "macos"} /\ IsFiniteSet(start.procs)
         /\ Orderly(start.platform, start.procs, Cardinality(start.procs))

FreePids == IF platform = "windows" THEN Pids \ {p.pid : p \in procs} ELSE {births + 1}

StartProcess ==
    /\ births < LastBirth /\ births' = births + 1
    /\ \E kind \in Kinds, pid \in FreePids :
         LET born(parent, root) ==
               [pid |-> pid, parent |-> parent, kind |-> kind, birth |-> births + 1, root |-> root]
         IN  \/ Opens(kind) /\ procs' = procs \cup {born(0, births + 1)}
             \/ \E parent \in {p \in procs : p.kind \in ParentsOf(kind)} :
                  procs' = procs \cup {born(parent.pid, IF kind = "sandbox" THEN parent.birth ELSE births + 1)}
    /\ UNCHANGED <<platform, sync, asked>>
\* Where a parent ended, its children belong to init; Windows keeps the old number.
EndProcess ==
    /\ \E gone \in procs :
         procs' = {IF platform # "windows" /\ p.parent = gone.pid THEN [p EXCEPT !.parent = 0] ELSE p
                     : p \in procs \ {gone}}
    /\ UNCHANGED <<platform, births, sync, asked>>

-----------------------------------------------------------------------------
(* Reading whether Codex runs. *)

Supported == platform # "macos"
Named(list, kinds) == {p \in list : p.kind \in kinds}

\* What descends from some of the list: in every part of it that holds these and
\* the children of what it holds.
Below(list, above) ==
    {p \in list \ above :
        \A part \in SUBSET list :
            /\ above \subseteq part
            /\ \A q \in list : q.parent \in {a.pid : a \in part} => q \in part
            => p \in part}
SandboxDetected(list) ==
    platform = "windows" /\ \E p \in Below(list, Named(list, MainKinds)) : p.kind \in Markers

Do(pc) == sync.pc = pc
Sampling(why) == [sync EXCEPT !.pc = "read", !.round = 1, !.why = why, !.left = MoreSamples]
SampleAgain == [sync EXCEPT !.pc = "read", !.round = 1, !.left = @ - 1]
Refuse(code) == [sync EXCEPT !.pc = "refused", !.code = code]
Still == UNCHANGED <<platform, procs, births>>

\* Windows: tasklist, then CIM, which knows the parents; what either saw counts.
Tasklist(seen) == {[p EXCEPT !.parent = 0] : p \in seen}
Merged(early, late) == late \cup {p \in Tasklist(early) : \A q \in late : q.pid # p.pid}
\* ps lists the names; the path of a process that ended since can no longer be read.
PathRead(p) == \E q \in procs : q.birth = p.birth
ByName(p) == p.kind \in MainKinds \cup {"sandbox"}
Listing == IF platform = "windows" THEN Merged(sync.early, procs)
           ELSE {p \in sync.early : ByName(p) \/ PathRead(p)}

ReadOnce ==
    /\ Do("read") /\ Still /\ UNCHANGED asked
    /\ sync' = [sync EXCEPT !.pc = "again", !.early = procs, !.since = IF sync.round = 1 THEN births ELSE @]
FirstListing ==
    /\ Do("again") /\ sync.round = 1 /\ Supported /\ Still /\ UNCHANGED asked
    /\ sync' = [sync EXCEPT !.pc = "read", !.round = 2, !.early = {},
                            !.main = {p.kind : p \in Named(Listing, MainKinds)}, !.sandbox = SandboxDetected(Listing)]
\* A mutant: only the processes named codex count.
MainState(background) == IF sync.main # {} THEN "RUNNING" ELSE "STOPPED"
State(background) ==
    IF sync.main # {} \/ sync.sandbox \/ background # {} THEN "RUNNING" ELSE "STOPPED"
\* Said only of what both listings found; Windows gives no path to tell a daemon by.
OnlyDaemon(background) ==
    platform = "linux" /\ ~sync.sandbox /\ sync.main \cup background = {"daemon"}

\* What a state read means to the step of the sync that asked for it.
Checked(state, daemon) ==
    LET settled == state = "STOPPED" /\ (sync.why = "final" \/ sync.left = 0) IN
    IF state = "STOPPED" /\ ~settled THEN {SampleAgain}
    ELSE CASE sync.why = "ask" -> {IF state = "RUNNING" THEN [sync EXCEPT !.pc = "list"] ELSE Sampling("require")}
           [] sync.why = "wait" -> IF settled THEN {Sampling("require")}
                                   ELSE {Sampling("wait"), Refuse("CODEX_STILL_RUNNING")}
           [] OTHER ->
              {CASE state = "RUNNING" /\ daemon -> Refuse("CODEX_CLI_DAEMON")
                 [] state = "RUNNING" /\ ~daemon -> Refuse("CODEX_RUNNING")
                 [] state = "UNKNOWN" -> Refuse("CODEX_STATE_UNKNOWN")
                 [] OTHER -> IF sync.why = "final" THEN [sync EXCEPT !.pc = "on"] ELSE Sampling("final")}
SecondListing ==
    /\ Do("again") /\ sync.round = 2 /\ Still /\ UNCHANGED asked
    /\ LET background == {p.kind : p \in Named(Listing, Markers)}
       IN  sync' \in {[next EXCEPT !.early = {}] : next \in Checked(State(background), OnlyDaemon(background))}
ListingFails ==
    /\ Do("read") \/ Do("again")
    /\ sync' \in {[next EXCEPT !.early = {}] : next \in Checked("UNKNOWN", FALSE)}
    /\ Still /\ UNCHANGED asked

-----------------------------------------------------------------------------
(* Asking. *)

\* close_codex is on, or the sync goes straight to the check.
BeginSync ==
    /\ Do("idle") /\ Still /\ UNCHANGED asked
    /\ sync' \in {Sampling("ask"), Sampling("require")}

NameOf(kind) == IF kind \in NamedCodex THEN "codex" ELSE IF kind \in AppKinds THEN "app" ELSE "else"
ProgramOf(kind) == IF kind \in AppKinds THEN "app" ELSE IF kind = "daemon" THEN "daemon" ELSE "else"
Entry(p, now) ==
    [pid |-> p.pid, parent |-> p.parent, name |-> NameOf(p.kind), path |-> ProgramOf(now.kind), started |-> now.birth]
\* Windows reads names first, and then the path and the start of whoever has the number.
Snapshot ==
    /\ Do("list") /\ platform = "windows" /\ Still /\ UNCHANGED asked
    /\ sync' = [sync EXCEPT !.pc = "details", !.at = births, !.list = procs]
Unread(p) == [Entry(p, p) EXCEPT !.path = "", !.started = 0]
Details ==
    /\ Do("details") /\ Still /\ UNCHANGED asked
    /\ sync' = [sync EXCEPT !.pc = "ask", !.list =
         {LET now == {q \in procs : q.pid = p.pid}
          IN  IF now = {} THEN Unread(p) ELSE Entry(p, CHOOSE q \in now : TRUE) : p \in @}]
ListLinux ==
    /\ Do("list") /\ platform = "linux" /\ Still /\ UNCHANGED asked
    /\ sync' = [sync EXCEPT !.pc = "ask", !.at = births, !.list = {Entry(p, p) : p \in procs}]
NotAsked == Refuse("CODEX_NOT_CLOSED")
ListFails ==
    /\ Do("list") /\ Still /\ UNCHANGED asked
    /\ sync' = NotAsked

LinuxApp(e) == e.path = "app"
PackageApp(e) == e.name = "app" /\ e.path = "app"
IsApp(e) == IF platform = "linux" THEN LinuxApp(e) ELSE PackageApp(e)
CliDaemon(e) == e.path = "daemon"
AppPids == {e.pid : e \in {x \in sync.list : IsApp(x)}}
AppRoots == {e \in sync.list : IsApp(e) /\ e.parent \notin AppPids}
UnderApp == {e.pid : e \in Below(sync.list, {x \in sync.list : IsApp(x)})}
Outside == {e \in sync.list : e.name = "codex" /\ ~IsApp(e) /\ e.pid \notin UnderApp}
Daemons == {e \in Outside : CliDaemon(e)}
Clis == Outside \ Daemons

Refused ==
    \/ Clis # {}
    \/ platform = "windows" /\ (Outside # {} \/ AppRoots = {})
    \/ platform = "linux" /\ AppPids = {} /\ Daemons = {}
Declines ==
    /\ Do("ask") /\ Refused /\ Still /\ UNCHANGED asked
    /\ sync' = NotAsked
Reach(targets) == asked' = asked \cup targets
\* A mutant: the start of the process is not compared.
SameNumber(p, e) == p.pid = e.pid
\* The Restart Manager names a process by its number and its start.
SameProcess(p, e) == p.pid = e.pid /\ p.birth = e.started
AskWindows ==
    /\ Do("ask") /\ platform = "windows" /\ ~Refused /\ Still
    /\ \/ Reach({p \in procs : \E e \in AppRoots : SameProcess(p, e)})
          /\ sync' \in {Sampling("wait"), NotAsked}
       \/ sync' = NotAsked /\ UNCHANGED asked

\* The tray's Quit of a process of the listed app; a click may fail part-way.
OfApp == {p \in procs : p.pid \in AppPids}
QuitEntries == SUBSET OfApp \ {{}}
AskTray ==
    /\ Do("ask") /\ platform = "linux" /\ ~Refused /\ Still
    /\ \E entries \in QuitEntries :
         \E clicked \in SUBSET entries :
              /\ Reach(clicked)
              /\ sync' = IF clicked = entries THEN [sync EXCEPT !.pc = "daemons"] ELSE NotAsked
\* With no icon in the tray, its windows; one that went away meanwhile is no error.
AskWindow ==
    /\ Do("ask") /\ platform = "linux" /\ ~Refused /\ AppPids # {} /\ Still
    /\ \/ \E closed \in SUBSET OfApp : Reach(closed) /\ sync' = [sync EXCEPT !.pc = "daemons"]
       \/ sync' = NotAsked /\ UNCHANGED asked
NoAppToAsk ==
    /\ Do("ask") /\ platform = "linux" /\ ~Refused /\ AppPids = {} /\ Still /\ UNCHANGED asked
    /\ sync' = [sync EXCEPT !.pc = "daemons"]
\* Codex's own command stops whatever daemon runs now.
StopDaemons ==
    /\ Do("daemons") /\ Still
    /\ IF Daemons = {} THEN sync' = Sampling("wait") /\ UNCHANGED asked
       ELSE \/ Reach({p \in procs : p.kind = "daemon"}) /\ sync' = Sampling("wait")
            \/ UNCHANGED asked /\ sync' = NotAsked

NotSyncing ==
    [pc |-> "idle", why |-> "ask", left |-> 0, round |-> 1, early |-> {}, since |-> 0, main |-> {},
     sandbox |-> FALSE, list |-> {}, at |-> 0, code |-> "none"]
\* Written, or refused; the next sync starts afresh.
EndSync ==
    /\ sync.pc \in {"on", "refused"} /\ Still
    /\ sync' = NotSyncing
    /\ asked' = {}

-----------------------------------------------------------------------------
ClosingInit ==
    /\ \E start \in Starts :
         platform = start.platform /\ procs = start.procs /\ births = Cardinality(start.procs)
    /\ sync = NotSyncing
    /\ asked = {}
ClosingNext ==
    \/ StartProcess \/ EndProcess
    \/ BeginSync \/ ReadOnce \/ FirstListing \/ SecondListing \/ ListingFails
    \/ Snapshot \/ Details \/ ListLinux \/ ListFails
    \/ Declines \/ AskWindows \/ AskTray \/ AskWindow \/ NoAppToAsk \/ StopDaemons
    \/ EndSync
ClosingSpec == ClosingInit /\ [][ClosingNext]_closingVars

-----------------------------------------------------------------------------
(* A write begins only when nothing the detector knows is left of what ran *)
(* when the last reading began, nor a sandbox started for it meanwhile: a  *)
(* Codex that ends between the two listings leaves no work unseen          *)
(* (safety_gate.py, collect_process_snapshot in runtime.py)                *)
GoesOnWhenGone == sync.pc = "on" => \A p \in procs : p.kind \in KnownKinds => p.root > sync.since

(* A request to quit reaches the app and what belongs to it, and on Linux  *)
(* the server a CLI left behind: never a terminal's Codex or a process     *)
(* that took an ended one's number.  And nothing is asked to quit beside a *)
(* CLI in a terminal that was open when the processes were listed: its     *)
(* server has a client, and the sync would be refused anyway.  On Windows  *)
(* that takes the terminal itself still to run: the number of an ended one *)
(* may be the app's by then (ask_codex_to_quit, linux_terminal_codex).     *)
InTerminal(p) ==
    p.parent = 0 \/ platform = "linux" \/ \E q \in procs : q.pid = p.parent /\ q.birth < p.birth
OnlyCodexAsked ==
    [][asked' \subseteq asked \/
       /\ \A p \in asked' : p.kind \in AppKinds \cup (IF platform = "linux" THEN {"daemon"} ELSE {})
       /\ \A p \in procs : p.kind = "cli" /\ p.birth <= sync.at => ~InTerminal(p)]_closingVars
=============================================================================
