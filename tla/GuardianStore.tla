--------------------------- MODULE GuardianStore ---------------------------
(***************************************************************************)
(* Guardian: the part of codexSync that runs while Codex is open and keeps *)
(* verified snapshots of .codex-global-state.json.  The store of one       *)
(* machine (guardian_store), its latest-good pointer (guardian_pointer)    *)
(* and retention (guardian_retention), and the programs that drive it      *)
(* (guardian_runner: watch, snapshot --once, accept).                      *)
(*                                                                         *)
(* Every caller of the store holds the runner lock (guardian_lock), so the *)
(* shorter writer lock is never contended and is left out.  A state of the *)
(* file is a Body: what matters of it is whether it validates and how many *)
(* projects it holds.                                                      *)
(***************************************************************************)
EXTENDS Integers, FiniteSets

CONSTANTS
    Procs,          \* Guardian programs
    Bodies,         \* contents of the state file
    Torn,           \* the content of a file caught in the middle of a write
    SizeOf,         \* projects in each content
    MinCount, RatioNum, RatioDen,   \* shrink_min_count and shrink_ratio
    Ids,            \* snapshot ids
    PointerFile,    \* the latest-good pointer, as a file somebody may hold
    None,
    MaxWrites, MaxMishaps, MaxHolds, MaxPreviews      \* bounds

States == Bodies \union {Torn}
Verdicts == {"pass", "suspicious", "invalid"}
Kinds == {"watch", "once", "accept"}
Stages == {"none", "staged", "published", "committed", "removed"}

ASSUME GuardianAssumption ==
    /\ Torn \notin Bodies
    /\ SizeOf \in [Bodies -> Nat]
    /\ MinCount \in Nat \ {0} /\ RatioNum \in Nat /\ RatioDen \in Nat \ {0}
    /\ None \notin Ids \union States \union Procs \union {PointerFile}
    /\ PointerFile \notin Ids
    /\ MaxWrites \in Nat /\ MaxMishaps \in Nat /\ MaxHolds \in Nat
    /\ MaxPreviews \in Nat

VARIABLES
    live,       \* the state file: its content and its stat signature
    snap,       \* snapshot id -> its directory
    pointer,    \* the snapshot latest-good names
    aged,       \* published leftovers older than staging_retention_hours
    held,       \* what another program keeps from being read now
    events,     \* quarantine events: the drop, the content, first or newest
    lock,       \* process holding the runner lock
    run,        \* process -> where it stands and what it remembers
    shown,      \* the acceptances a person was shown
    used        \* how much of each bound is spent

vars == <<live, snap, pointer, aged, held, events, lock, run, shown, used>>

NoPlan == [base |-> None, size |-> 0]
NoSnap == [stage |-> "none", gen |-> 0, body |-> None, prev |-> None,
           accepted |-> FALSE]
Idle == [pc |-> "idle", kind |-> "watch", last |-> None, body |-> None,
         sig |-> 0, base |-> None, verdict |-> "pass", new |-> None,
         plan |-> NoPlan]
Committing == {"baseline", "stage", "publish", "mark", "point", "prune"}
PCs == {"idle", "poll", "verify", "debounce", "first", "again", "note",
        "confirm", "assess", "quarantine", "supersede"} \union Committing

Plan == [base : Ids \union {None}, size : Nat]

TypeOK ==
    /\ live \in [body : States, sig : 0..MaxWrites]
    /\ snap \in [Ids -> [stage : Stages, gen : Nat,
                         body : States \union {None},
                         prev : Ids \union {None}, accepted : BOOLEAN]]
    /\ pointer \in Ids \union {None}
    /\ aged \subseteq Ids
    /\ held \in [what : Ids \union {None, PointerFile}, manifest : BOOLEAN]
    /\ events \subseteq [drop : [base : Ids \union {None}, verdict : Verdicts],
                         body : States, order : {"first", "newest", "superseded"}]
    /\ lock \in Procs \union {None}
    /\ run \in [Procs -> [pc : PCs, kind : Kinds,
                          last : (0..MaxWrites) \union {None},
                          body : States \union {None}, sig : 0..MaxWrites,
                          base : Ids \union {None}, verdict : Verdicts,
                          new : Ids \union {None}, plan : Plan]]
    /\ shown \subseteq Plan
    /\ used \in [{"write", "mishap", "hold", "preview"} -> Nat]

NotHeld == [what |-> None, manifest |-> FALSE]

Init ==
    /\ live \in [body : Bodies, sig : {0}]
    /\ snap = [i \in Ids |-> NoSnap]
    /\ pointer = None
    /\ aged = {}
    /\ held = NotHeld
    /\ events = {}
    /\ lock = None
    /\ run = [p \in Procs |-> Idle]
    /\ shown = {}
    /\ used = [b \in {"write", "mishap", "hold", "preview"} |-> 0]

Spend(what, bound) ==
    /\ used[what] < bound
    /\ used' = [used EXCEPT ![what] = @ + 1]

-----------------------------------------------------------------------------
(***************************************************************************)
(* Reading the store.                                                      *)
(***************************************************************************)

\* Published or committed: the directory lies under snapshots/<machine>.
OnDisk == {i \in Ids : snap[i].stage \in {"published", "committed"}}
Committed == {i \in Ids : snap[i].stage = "committed"}

\* _verify_candidate: committed, and manifest, marker and payload can be read
\* and agree.
Verified == {i \in Committed : held.what # i}

Highest(S) == {i \in S : \A j \in S : snap[j].gen <= snap[i].gen}

\* _scan_latest_committed: nothing, or two of one generation, is no answer.
ScanLatest ==
    LET top == Highest(Verified) IN
    IF Cardinality(top) = 1 THEN CHOOSE i \in top : TRUE ELSE None

\* find_latest_good: what the pointer names, when it verifies.
Pointed ==
    IF pointer # None /\ held.what # PointerFile /\ pointer \in Verified
    THEN pointer ELSE None

\* resolve_or_restore_latest_good; Rebuild is the pointer it leaves behind.
Resolved == IF Pointed # None THEN Pointed ELSE ScanLatest
Rebuild == pointer' = IF Resolved = None THEN pointer ELSE Resolved

\* _next_generation: past every manifest and marker on disk and past the
\* pointer.
GenerationAfterLatest ==
    1 + (IF Resolved = None THEN 0 ELSE snap[Resolved].gen)
NextGeneration ==
    LET known == OnDisk \union
            (IF pointer # None /\ held.what # PointerFile THEN {pointer} ELSE {})
    IN 1 + (IF known = {} THEN 0
            ELSE snap[CHOOSE i \in Highest(known) : TRUE].gen)
\* A manifest or marker that cannot be read now stops the numbering.
Numberable == ~(held.what \in OnDisk /\ held.manifest)

\* _is_suspicious_drop, over one count.
SuspiciousDrop(base, now) ==
    /\ base > 0 /\ now < base
    /\ \/ now = 0
       \/ base - now >= MinCount /\ (base - now) * RatioDen >= base * RatioNum

\* validate_global_state_references and assess_suspicious_shrink.
Judge(body, base) ==
    IF body = Torn THEN "invalid"
    ELSE IF base # None /\ SuspiciousDrop(SizeOf[snap[base].body], SizeOf[body])
    THEN "suspicious" ELSE "pass"

\* _same_payload: only latest-good counts.
SameAsAny(body, latest) ==
    \E i \in Verified : snap[i].body = body
SamePayload(body, latest) == latest # None /\ snap[latest].body = body

-----------------------------------------------------------------------------
(***************************************************************************)
(* The programs: watch, snapshot --once, accept.                           *)
(***************************************************************************)
At(p, where) == run[p].pc = where
Go(p, where) == run' = [run EXCEPT ![p].pc = where]
Quit(p) ==
    /\ run' = [run EXCEPT ![p] = Idle]
    /\ lock' = IF lock = p THEN None ELSE lock
\* A finished or failed step: watch goes on polling, the others end.
Return(p, last) ==
    IF run[p].kind = "watch"
    THEN /\ run' = [run EXCEPT ![p] =
                        [Idle EXCEPT !.pc = "poll", !.last = last]]
         /\ UNCHANGED lock
    ELSE Quit(p)

RunnerFree(p) == lock = None

\* The runner lock; a busy one refuses, which leaves nothing behind.
StartAs(p, kind, confirmed) ==
    /\ At(p, "idle")
    /\ RunnerFree(p)
    /\ lock' = p
    /\ run' = [run EXCEPT ![p] = [Idle EXCEPT !.pc = "verify", !.kind = kind,
                                             !.plan = confirmed]]
    /\ UNCHANGED <<live, snap, pointer, aged, held, events, shown, used>>
StartWatch(p) == StartAs(p, "watch", NoPlan)
StartOnce(p) == StartAs(p, "once", NoPlan)
StartAccept(p) == \E confirmed \in shown : StartAs(p, "accept", confirmed)

\* _verify_store.
VerifyStore(p) ==
    /\ At(p, "verify")
    /\ Rebuild
    /\ Go(p, "debounce")
    /\ UNCHANGED <<live, snap, aged, held, events, lock, shown, used>>

\* watch: a signature that moved is looked at; a full look comes with time.
PollChanged(p) ==
    /\ At(p, "poll")
    /\ live.sig # run[p].last
    /\ Go(p, "debounce")
    /\ UNCHANGED <<live, snap, pointer, aged, held, events, lock, shown, used>>

FallbackDue(p) == live.sig = run[p].last
PollFallback(p) ==
    /\ At(p, "poll")
    /\ FallbackDue(p)
    /\ Go(p, "verify")
    /\ UNCHANGED <<live, snap, pointer, aged, held, events, lock, shown, used>>

\* The signature of a quiet interval is remembered before the file is read.
Debounce(p) ==
    /\ At(p, "debounce")
    /\ run' = [run EXCEPT ![p].last = live.sig, ![p].pc = "first"]
    /\ UNCHANGED <<live, snap, pointer, aged, held, events, lock, shown, used>>

\* StableReader.read_stable: its first sample, and the later ones.
ReadFirst(p) ==
    /\ At(p, "first")
    /\ run' = [run EXCEPT ![p].body = live.body, ![p].sig = live.sig,
                          ![p].pc = "again"]
    /\ UNCHANGED <<live, snap, pointer, aged, held, events, lock, shown, used>>

Stable(p) == live = [body |-> run[p].body, sig |-> run[p].sig]
ReadAgain(p) ==
    /\ At(p, "again")
    /\ IF Stable(p)
       THEN /\ run' = [run EXCEPT ![p].sig = 0,
                  ![p].pc = IF run[p].kind = "accept" THEN "confirm" ELSE "note"]
            /\ UNCHANGED lock
       ELSE Return(p, run[p].last)
    /\ UNCHANGED <<live, snap, pointer, aged, held, events, shown, used>>

\* The signature is taken once more after the reads.
Note(p) ==
    /\ At(p, "note")
    /\ run' = [run EXCEPT ![p].last = live.sig, ![p].pc = "assess"]
    /\ UNCHANGED <<live, snap, pointer, aged, held, events, lock, shown, used>>

PlanFor(base, body) == [base |-> base, size |-> SizeOf[body]]
StillSuspicious(p) == Judge(run[p].body, Resolved) = "suspicious"
AsConfirmed(p) ==
    StillSuspicious(p) /\ PlanFor(Resolved, run[p].body) = run[p].plan

\* accept: the plan is rebuilt and must be the one the person confirmed.
Confirm(p) ==
    /\ At(p, "confirm")
    /\ Rebuild
    /\ IF AsConfirmed(p)
       THEN Go(p, "assess") /\ UNCHANGED lock
       ELSE Quit(p)
    /\ UNCHANGED <<live, snap, aged, held, events, shown, used>>

\* _assess_shrink against latest-good.  accept commits what is suspicious, the
\* others what passes; accept never commits an invalid state.
Assess(p) ==
    /\ At(p, "assess")
    /\ Rebuild
    /\ LET v == Judge(run[p].body, Resolved) IN
       /\ run' = [run EXCEPT
              ![p].verdict = v,
              ![p].pc = IF v = "pass" \/ run[p].kind = "accept"
                        THEN "baseline" ELSE "quarantine"]
    /\ UNCHANGED <<live, snap, aged, held, events, lock, shown, used>>

-----------------------------------------------------------------------------
(***************************************************************************)
(* GuardianStore.commit.                                                   *)
(***************************************************************************)

\* prune_uncommitted_snapshots: leftovers of a crash, once they are old.
Swept == {i \in aged : snap[i].stage = "published"}

\* The baseline the new snapshot follows; a state equal to it is no news.
Baseline(p) ==
    /\ At(p, "baseline")
    /\ snap' = [i \in Ids |->
                   IF i \in Swept THEN [snap[i] EXCEPT !.stage = "removed"]
                   ELSE snap[i]]
    /\ Rebuild
    /\ IF SamePayload(run[p].body, Resolved)
       THEN Return(p, run[p].last)
       ELSE /\ run' = [run EXCEPT ![p].base = Resolved, ![p].pc = "stage"]
            /\ UNCHANGED lock
    /\ UNCHANGED <<live, aged, held, events, shown, used>>

Fresh == {i \in Ids : snap[i].stage = "none"}

\* The snapshot is numbered, written to staging and verified there.  A store
\* whose snapshots do not resolve gets no second chain (Refused).
Stage(p) ==
    /\ At(p, "stage")
    /\ Numberable
    /\ run[p].base = None => NextGeneration = 1
    /\ Fresh # {}
    /\ LET i == CHOOSE i \in Fresh : TRUE IN
        /\ snap' = [snap EXCEPT ![i] =
               [stage |-> "staged", gen |-> NextGeneration,
                body |-> run[p].body, prev |-> run[p].base,
                accepted |-> run[p].kind = "accept"]]
        /\ run' = [run EXCEPT ![p].new = i, ![p].pc = "publish"]
    /\ UNCHANGED <<live, pointer, aged, held, events, lock, shown, used>>

Refused(p) ==
    /\ At(p, "stage")
    /\ ~Numberable \/ (run[p].base = None /\ NextGeneration # 1)
    /\ Return(p, None)
    /\ UNCHANGED <<live, snap, pointer, aged, held, events, shown, used>>

Advance(p, from, stage, to) ==
    /\ At(p, from)
    /\ snap' = [snap EXCEPT ![run[p].new].stage = stage]
    /\ Go(p, to)
    /\ UNCHANGED <<live, pointer, aged, held, events, lock, shown, used>>

\* The staged directory is renamed into place; then its COMMITTED marker.
Publish(p) == Advance(p, "publish", "published", "mark")
Mark(p) == Advance(p, "mark", "committed", "point")

\* publish_latest_good: only to a verified, strictly newer, distinct snapshot.
Newer(i, current) ==
    \/ current = None
    \/ /\ snap[current].gen < snap[i].gen
       /\ snap[current].body # snap[i].body
Point(p) ==
    /\ At(p, "point")
    /\ IF run[p].new \in Verified
       THEN /\ pointer' = IF Newer(run[p].new, Resolved) THEN run[p].new
                          ELSE Resolved
            /\ Go(p, "prune")
            /\ UNCHANGED lock
       ELSE Return(p, None) /\ UNCHANGED pointer
    /\ UNCHANGED <<live, snap, aged, held, events, shown, used>>

\* prune_snapshots: never latest-good, the snapshot before it, a snapshot a
\* person accepted or the baseline it overrode.
Before(latest) ==
    IF latest = None THEN {}
    ELSE Highest({i \in Verified : snap[i].gen < snap[latest].gen})
Decisions ==
    LET accepted == {i \in Verified : snap[i].accepted}
    IN accepted \union {snap[i].prev : i \in accepted}
ProtectedDecisionsOnly(latest) == Before(latest) \union Decisions
Protected(latest) == {latest} \union Before(latest) \union Decisions

\* What is over the count or past its days is removed: any subset of the rest.
Prune(p) ==
    /\ At(p, "prune")
    /\ Rebuild
    /\ \E old \in SUBSET (Verified \ Protected(Resolved)) :
           snap' = [i \in Ids |->
                       IF i \in old THEN [snap[i] EXCEPT !.stage = "removed"]
                       ELSE snap[i]]
    /\ Return(p, run[p].last)
    /\ UNCHANGED <<live, aged, held, events, shown, used>>

-----------------------------------------------------------------------------
(***************************************************************************)
(* GuardianStore.quarantine.                                               *)
(***************************************************************************)
NamedBase == IF held.what = PointerFile THEN None ELSE pointer
Drop(p) == [base |-> NamedBase, verdict |-> run[p].verdict]
EventsOf(drop) == {e \in events : e.drop = drop}

\* A state already kept for this reason is not kept again.
Duplicate(p) ==
    \E e \in events : e.body = run[p].body /\ e.drop.verdict = run[p].verdict

\* The first event of a drop stays; the newest one takes the place of the one
\* before it, which is removed only after the newest is in place.
Quarantine(p) ==
    /\ At(p, "quarantine")
    /\ IF Duplicate(p)
       THEN Return(p, run[p].last) /\ UNCHANGED events
       ELSE /\ events' =
                   {IF e.drop = Drop(p) /\ e.order = "newest"
                    THEN [e EXCEPT !.order = "superseded"] ELSE e : e \in events}
                   \union {[drop |-> Drop(p), body |-> run[p].body,
                            order |-> IF EventsOf(Drop(p)) = {} THEN "first"
                                      ELSE "newest"]}
            /\ run' = [run EXCEPT ![p].pc = "supersede", ![p].base = NamedBase]
            /\ UNCHANGED lock
    /\ UNCHANGED <<live, snap, pointer, aged, held, shown, used>>

Supersede(p) ==
    /\ At(p, "supersede")
    /\ events' = {e \in events :
           ~(/\ e.order = "superseded"
             /\ e.drop = [base |-> run[p].base, verdict |-> run[p].verdict])}
    /\ Return(p, run[p].last)
    /\ UNCHANGED <<live, snap, pointer, aged, held, shown, used>>

-----------------------------------------------------------------------------
(***************************************************************************)
(* Failures, and everything around Guardian.                               *)
(***************************************************************************)

\* A store step fails (full disk, a file another program holds): watch forgets
\* the signature and goes on (_survive), the others end.
Fail(p) ==
    /\ run[p].pc \in Committing \union
           {"verify", "confirm", "assess", "quarantine", "supersede"}
    /\ Spend("mishap", MaxMishaps)
    /\ Return(p, None)
    /\ UNCHANGED <<live, snap, pointer, aged, held, events, shown>>

\* The program is killed at any step.
Crash(p) ==
    /\ ~At(p, "idle")
    /\ Spend("mishap", MaxMishaps)
    /\ Quit(p)
    /\ UNCHANGED <<live, snap, pointer, aged, held, events, shown>>

\* watch is stopped between two looks.
Stop(p) ==
    /\ At(p, "poll")
    /\ Quit(p)
    /\ UNCHANGED <<live, snap, pointer, aged, held, events, shown, used>>

\* guardian accept without --confirm: the plan a person is shown.  It writes
\* nothing, the pointer included.
Preview ==
    /\ used["preview"] < MaxPreviews
    /\ Pointed # None
    /\ Judge(live.body, Pointed) = "suspicious"
    /\ shown' = shown \union {PlanFor(Pointed, live.body)}
    /\ used' = [used EXCEPT !["preview"] = @ + 1]
    /\ UNCHANGED <<live, snap, pointer, aged, held, events, lock, run>>

\* Codex writes the file, or a restore puts an older state back.  A torn write
\* stays as it is when Codex dies.
Write ==
    /\ Spend("write", MaxWrites)
    /\ \E b \in States \ {live.body} :
           live' = [body |-> b, sig |-> live.sig + 1]
    /\ UNCHANGED <<snap, pointer, aged, held, events, lock, run, shown>>

\* A replacement that keeps size, time and identity of the file.
SilentWrite ==
    /\ used["write"] < MaxWrites /\ used["mishap"] < MaxMishaps
    /\ used' = [used EXCEPT !["write"] = @ + 1, !["mishap"] = @ + 1]
    /\ \E b \in Bodies \ {live.body} : live' = [live EXCEPT !.body = b]
    /\ UNCHANGED <<snap, pointer, aged, held, events, lock, run, shown>>

\* A cloud client or a scanner opens a file of the store for a while.
Hold ==
    /\ held = NotHeld
    /\ used["hold"] < MaxHolds /\ used["mishap"] < MaxMishaps
    /\ used' = [used EXCEPT !["hold"] = @ + 1, !["mishap"] = @ + 1]
    /\ \E i \in Committed \union {PointerFile}, m \in BOOLEAN :
           held' = [what |-> i, manifest |-> m]
    /\ UNCHANGED <<live, snap, pointer, aged, events, lock, run, shown>>

Release ==
    /\ held # NotHeld
    /\ held' = NotHeld
    /\ UNCHANGED <<live, snap, pointer, aged, events, lock, run, shown, used>>

\* Time passes over a leftover nobody is working on.
Age(i) ==
    /\ snap[i].stage = "published" /\ i \notin aged
    /\ \A p \in Procs : run[p].new # i
    /\ aged' = aged \union {i}
    /\ UNCHANGED <<live, snap, pointer, held, events, lock, run, shown, used>>

-----------------------------------------------------------------------------
Look(p) == VerifyStore(p) \/ PollChanged(p) \/ PollFallback(p) \/ Debounce(p)
           \/ ReadFirst(p) \/ ReadAgain(p) \/ Note(p) \/ Confirm(p) \/ Assess(p)
Commit(p) == Baseline(p) \/ Stage(p) \/ Refused(p) \/ Publish(p) \/ Mark(p)
             \/ Point(p) \/ Prune(p)
Keep(p) == Quarantine(p) \/ Supersede(p)
Step(p) == Look(p) \/ Commit(p) \/ Keep(p)
Start(p) == StartWatch(p) \/ StartOnce(p) \/ StartAccept(p)
Around == Preview \/ Write \/ SilentWrite \/ Hold \/ Release
          \/ \E i \in Ids : Age(i)

Next ==
    \/ \E p \in Procs : Step(p) \/ Start(p) \/ Stop(p) \/ Fail(p) \/ Crash(p)
    \/ Around

Spec == Init /\ [][Next]_vars

\* Programs run on, the watcher is started again after it ended and is not
\* stopped for ever, a held file is released, time passes.
Fairness ==
    /\ \A p \in Procs : WF_vars(Step(p)) /\ SF_vars(StartWatch(p))
    /\ WF_vars(Release)
    /\ \A i \in Ids : WF_vars(Age(i))
FairSpec == Spec /\ Fairness

-----------------------------------------------------------------------------
(***************************************************************************)
(* Properties.                                                             *)
(***************************************************************************)

\* CS-297: one number is never issued twice, or the scan that rebuilds the
\* pointer has no answer any more -- also after a crash between the marker and
\* the pointer, and while a file of the store cannot be read.
GenerationsUnique ==
    TypeOK /\ \A i, j \in OnDisk : i # j => snap[i].gen # snap[j].gen

\* The snapshot latest-good names is there and committed, whatever retention,
\* crashes and rebuilt pointers did.
LatestGoodStands == pointer # None => snap[pointer].stage = "committed"

\* D-014: retention never prunes an accepted snapshot's baseline, as long as
\* every file of the store could be read.
DecisionsKept ==
    used["hold"] = 0 =>
        \A i \in Committed : snap[i].accepted /\ snap[i].prev # None =>
            snap[i].prev \in Committed

\* No snapshot that something still refers to is ever taken away.
NothingNeededPruned == LatestGoodStands /\ DecisionsKept

\* A step that replaces latest-good by a newer snapshot replaces it by a state
\* that is no suspicious shrink of it, or by the very drop that a person was
\* shown and confirmed.
Shrinks(i, j) == SuspiciousDrop(SizeOf[snap[i].body], SizeOf[snap'[j].body])
Asked(i, j) == snap'[j].accepted /\ PlanFor(i, snap'[j].body) \in shown
MovesOnlyAsked ==
    pointer # None /\ pointer' # pointer /\ snap'[pointer'].gen > snap[pointer].gen
        => ~Shrinks(pointer, pointer') \/ Asked(pointer, pointer')
NothingSuspiciousUnasked == [][used["hold"] = 0 => MovesOnlyAsked]_vars

\* When Codex leaves the file alone, what it holds ends up as latest-good or
\* in quarantine: no change is missed for good, whatever signature it has and
\* whatever step failed or crashed.
Seen ==
    \/ pointer # None /\ snap[pointer].body = live.body
    \/ \E e \in events : e.body = live.body
SettledStateIsSeen == <>[]Seen
=============================================================================
