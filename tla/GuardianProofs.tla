--------------------------- MODULE GuardianProofs ---------------------------
(***************************************************************************)
(* What the Guardian store keeps, for every set of programs, states and    *)
(* snapshots, every shrink policy and every bound, whatever fails, crashes *)
(* or is held by another program.                                          *)
(***************************************************************************)
EXTENDS GuardianStore, FiniteSetTheorems, WellFoundedInduction, TLAPS

Writing == {"publish", "mark", "point"}
Decided == {"baseline", "stage"} \cup Writing
Reading == {"again", "note", "confirm", "assess", "quarantine"}

\* Whoever works in the store holds the runner lock.
LockHeld == \A p \in Procs : run[p].pc # "idle" => lock = p

\* What is judged or kept was read.
BodyRead == \A p \in Procs : run[p].pc \in Reading => run[p].body # None

\* How far the snapshot a run writes has come; its number is not in use.
NewIsMine ==
    \A p \in Procs : run[p].pc \in Writing =>
        LET i == run[p].new
        IN /\ i \in Ids /\ snap[i].body = run[p].body /\ snap[i].prev = run[p].base
           /\ snap[i].accepted = (run[p].kind = "accept")
           /\ snap[i].stage = CASE run[p].pc = "publish" -> "staged"
                                [] run[p].pc = "mark" -> "published"
                                [] run[p].pc = "point" -> "committed"
           /\ run[p].pc = "publish" => \A j \in OnDisk : snap[j].gen < snap[i].gen

\* The baseline a run follows is there until its snapshot is.
BaseStands ==
    \A p \in Procs : run[p].pc \in {"stage", "publish", "mark"} /\ run[p].base # None => run[p].base \in Committed

\* Nothing is held before somebody opens a file, and a signature is a write.
HoldsAndWritesCount ==
    /\ used["hold"] = 0 => held = NotHeld
    /\ live.sig <= used["write"]

\* What a run is about to commit was judged against the latest-good there is.
Judged ==
    used["hold"] = 0 => \A p \in Procs : run[p].pc \in Decided =>
        /\ run[p].kind # "accept" =>
              /\ pointer # None => ~SuspiciousDrop(SizeOf[snap[pointer].body], SizeOf[run[p].body])
              /\ pointer = None /\ run[p].pc # "point" => Committed = {}

\* A person was shown what an acceptance commits.
Confirmed ==
    \A p \in Procs : run[p].kind = "accept" =>
        /\ run[p].pc # "note" /\ run[p].plan \in shown
        /\ used["hold"] = 0 /\ run[p].pc \in {"assess"} \cup Decided =>
              pointer # None /\ PlanFor(pointer, run[p].body) = run[p].plan

Inv ==
    /\ GenerationsUnique /\ NothingNeededPruned /\ LockHeld /\ NewIsMine /\ BaseStands
    /\ HoldsAndWritesCount /\ Judged /\ Confirmed /\ BodyRead

\* No number is higher than some number.
Numbered == \E n \in Nat : \A i \in Ids : snap[i].gen <= n

IInv == Inv /\ Numbered

SnapRec == [stage : Stages, gen : Nat, body : States \union {None}, prev : Ids \union {None}, accepted : BOOLEAN]
RunRec == [pc : PCs, kind : Kinds, last : (0..MaxWrites) \union {None}, body : States \union {None},
           sig : 0..MaxWrites, base : Ids \union {None}, verdict : Verdicts, new : Ids \union {None}, plan : Plan]

-----------------------------------------------------------------------------
(* What reading the store gives. *)

\* Of a set with bounded numbers some member has the greatest.
LEMMA GreatestExists ==
    ASSUME NEW S, NEW f, NEW n \in Nat, \A i \in S : f[i] \in Nat /\ f[i] <= n, S # {}
    PROVE  \E i \in S : \A j \in S : f[j] <= f[i]
<1> DEFINE T == {n - f[i] : i \in S}
<1>1. T \subseteq Nat /\ T # {}
  OBVIOUS
<1> HIDE DEF T
<1>2. PICK x \in T : \A y \in T : ~(y < x)
  <2>1. PICK x \in T : \A y \in T : <<y, x>> \notin OpToRel(<, Nat)
    BY <1>1, WFMin, NatLessThanWellFounded
  <2>2. QED
    BY <1>1, <2>1 DEF OpToRel
<1>3. PICK i \in S : x = n - f[i]
  BY <1>2 DEF T
<1>4. \A j \in S : n - f[i] <= n - f[j]
  BY <1>2, <1>3 DEF T
<1>5. QED
  BY <1>4

\* Of a set of snapshots some member has the highest generation.
LEMMA HighestExists ==
    ASSUME TypeOK, Numbered, NEW S, S \subseteq Ids, S # {} PROVE Highest(S) # {}
<1> DEFINE gen == [i \in Ids |-> snap[i].gen]
<1>1. PICK n \in Nat : \A i \in Ids : gen[i] <= n
  BY DEF Numbered
<1>2. \A i \in S : gen[i] \in Nat /\ gen[i] <= n
  BY <1>1 DEF TypeOK
<1> HIDE DEF gen
<1>3. \E i \in S : \A j \in S : gen[j] <= gen[i]
  BY <1>1, <1>2, GreatestExists
<1>4. QED
  BY <1>3 DEF Highest, gen

\* What is verified is committed, and what is committed is on disk.
LEMMA StoreSets == Verified \subseteq Committed /\ Committed \subseteq OnDisk /\ OnDisk \subseteq Ids
  BY DEF Verified, Committed, OnDisk

\* What resolves is a verified snapshot; nothing resolves only where there is none.
LEMMA ResolvedIsThere ==
    ASSUME TypeOK
    PROVE  /\ Resolved # None => Resolved \in Verified
           /\ GenerationsUnique /\ Numbered /\ Resolved = None => Verified = {}
<1>1. ASSUME Cardinality(Highest(Verified)) = 1 PROVE Highest(Verified) # {}
  BY <1>1, FS_EmptySet
<1>2. Highest(Verified) \subseteq Verified
  BY DEF Highest
<1>3. ScanLatest # None => ScanLatest \in Verified
  BY <1>1, <1>2 DEF ScanLatest
<1>4. ASSUME GenerationsUnique, Numbered, Verified # {} PROVE ScanLatest # None
  <2>1. PICK i \in Highest(Verified) : TRUE
    BY <1>4, HighestExists, StoreSets
  <2>2. Highest(Verified) = {i}
    <3>1. ASSUME NEW j \in Highest(Verified) PROVE j = i
      <4>1. i \in OnDisk /\ j \in OnDisk /\ snap[i].gen \in Nat /\ snap[j].gen \in Nat
        BY <2>1, StoreSets DEF Highest, TypeOK
      <4>2. snap[i].gen <= snap[j].gen /\ snap[j].gen <= snap[i].gen
        BY <2>1 DEF Highest
      <4>3. QED
        BY <1>4, <4>1, <4>2 DEF GenerationsUnique
    <3>2. QED
      BY <2>1, <3>1
  <2>3. ScanLatest \in Ids
    BY <2>2, FS_Singleton, StoreSets, <1>2 DEF ScanLatest
  <2>4. QED
    BY <2>3, GuardianAssumption
<1>5. QED
  BY <1>3, <1>4 DEF Resolved, Pointed

\* With every file readable, what the pointer names resolves.
LEMMA PointerResolves ==
    ASSUME TypeOK, LatestGoodStands, held = NotHeld
    PROVE  Verified = Committed /\ (pointer # None => Resolved = pointer)
<1>1. Verified = Committed
  BY GuardianAssumption DEF Verified, NotHeld, Committed
<1>2. QED
  BY <1>1, GuardianAssumption DEF Resolved, Pointed, NotHeld, LatestGoodStands, Committed, TypeOK

\* A number that is issued is higher than every number on disk.
LEMMA NextIsHigher ==
    ASSUME TypeOK, Numbered, LatestGoodStands
    PROVE  /\ NextGeneration \in Nat /\ \A i \in OnDisk : snap[i].gen < NextGeneration
           /\ \E n \in Nat : NextGeneration <= n /\ \A i \in Ids : snap[i].gen <= n
<1> DEFINE known == OnDisk \union (IF pointer # None /\ held.what # PointerFile THEN {pointer} ELSE {})
<1>1. known \subseteq Ids
  BY StoreSets DEF TypeOK
<1>2. CASE known = {}
  BY <1>2 DEF NextGeneration, Numbered, TypeOK
<1>3. CASE known # {}
  <2> DEFINE top == CHOOSE i \in Highest(known) : TRUE
  <2>1. top \in Highest(known)
    BY <1>1, <1>3, HighestExists
  <2>2. top \in Ids /\ \A j \in known : snap[j].gen <= snap[top].gen
    BY <1>1, <2>1 DEF Highest
  <2>3. NextGeneration = 1 + snap[top].gen
    BY <1>3 DEF NextGeneration
  <2> HIDE DEF top
  <2>4. PICK n \in Nat : \A i \in Ids : snap[i].gen <= n
    BY DEF Numbered
  <2>5. snap[top].gen \in Nat /\ \A i \in Ids : snap[i].gen \in Nat
    BY <2>2 DEF TypeOK
  <2>6. n + 1 \in Nat /\ NextGeneration <= n + 1 /\ \A i \in Ids : snap[i].gen <= n + 1
    BY <2>2, <2>3, <2>4, <2>5
  <2>7. \A i \in OnDisk : snap[i].gen < NextGeneration
    BY <1>1, <2>2, <2>3, <2>5
  <2>8. QED
    BY <2>3, <2>5, <2>6, <2>7
<1>4. QED
  BY <1>2, <1>3

-----------------------------------------------------------------------------
\* A process that does nothing is a process.
LEMMA IdleIsRun == Idle \in RunRec
  BY GuardianAssumption DEF Idle, RunRec, PCs, Kinds, Verdicts, NoPlan, Plan

\* The invariant holds at first.
LEMMA InitInv == Init => IInv
<1> SUFFICES ASSUME Init PROVE IInv
  OBVIOUS
<1> USE GuardianAssumption DEF Init
<1>1. Idle \in RunRec
  BY IdleIsRun
<1>2. NoSnap \in SnapRec
  BY DEF NoSnap, SnapRec, Stages
<1>3. TypeOK
  BY <1>1, <1>2 DEF TypeOK, RunRec, SnapRec, States, NotHeld
<1>4. OnDisk = {} /\ Committed = {}
  BY DEF OnDisk, Committed, NoSnap
<1>5. \A i \in Ids : snap[i].gen <= 0
  BY DEF NoSnap
<1>6. GenerationsUnique /\ NothingNeededPruned /\ Numbered
  BY <1>3, <1>4, <1>5 DEF GenerationsUnique, NothingNeededPruned, LatestGoodStands, DecisionsKept, Numbered
<1>7. \A p \in Procs : run[p].pc = "idle" /\ run[p].kind = "watch"
  BY DEF Idle
<1>8. LockHeld /\ NewIsMine /\ BaseStands /\ Judged /\ Confirmed /\ BodyRead
  BY <1>7 DEF LockHeld, NewIsMine, BaseStands, Judged, Confirmed, BodyRead, Writing, Decided, Reading
<1>9. HoldsAndWritesCount
  BY DEF HoldsAndWritesCount
<1>10. QED
  BY <1>6, <1>8, <1>9 DEF IInv, Inv

Dropped(gone) == [i \in Ids |-> IF i \in gone THEN [snap[i] EXCEPT !.stage = "removed"] ELSE snap[i]]

\* A step of the program that holds the lock, while its snapshot is not being
\* written: it moves on, it may take snapshots away, it may rebuild the pointer.
LEMMA RunStep ==
    ASSUME IInv, NEW p \in Procs, NEW r \in RunRec, NEW gone \in SUBSET OnDisk,
           lock \in {p, None}, run' = [run EXCEPT ![p] = r], lock' = p \/ (r.pc = "idle" /\ lock' = None),
           UNCHANGED <<live, aged, held, shown>>, snap' = Dropped(gone),
           events' \subseteq [drop : [base : Ids \union {None}, verdict : Verdicts],
                              body : States, order : {"first", "newest", "superseded"}],
           used' \in [{"write", "mishap", "hold", "preview"} -> Nat],
           used'["hold"] = used["hold"], used'["write"] = used["write"],
           pointer' # None => pointer' \in Committed \ gone,
           DecisionsKept',
           r.pc \notin Writing,
           r.pc = "stage" /\ r.base # None => r.base \in Committed \ gone,
           r.kind = "accept" => r.pc # "note" /\ r.plan \in shown,
           r.pc \in Reading => r.body # None,
           used["hold"] = 0 /\ r.kind # "accept" /\ r.pc \in {"baseline", "stage"} =>
              /\ pointer' # None => ~SuspiciousDrop(SizeOf[snap[pointer'].body], SizeOf[r.body])
              /\ pointer' = None => Committed \ gone = {},
           used["hold"] = 0 /\ r.kind = "accept" /\ r.pc \in {"assess", "baseline", "stage"} =>
              pointer' # None /\ PlanFor(pointer', r.body) = r.plan
    PROVE  IInv'
<1> USE DEF IInv, Inv
<1>1. TypeOK /\ run \in [Procs -> RunRec] /\ snap \in [Ids -> SnapRec]
  BY DEF GenerationsUnique, TypeOK, RunRec, SnapRec
<1>2. run' \in [Procs -> RunRec] /\ run'[p] = r /\ \A q \in Procs : q # p => run'[q] = run[q]
  BY <1>1
<1>3. snap' \in [Ids -> SnapRec]
      /\ \A i \in Ids : /\ snap'[i].gen = snap[i].gen /\ snap'[i].body = snap[i].body
                        /\ snap'[i].stage = IF i \in gone THEN "removed" ELSE snap[i].stage
  BY <1>1 DEF Dropped, SnapRec, Stages
<1>4. Committed' = Committed \ gone /\ OnDisk' = OnDisk \ gone
  BY <1>3 DEF Committed, OnDisk
<1>5. TypeOK'
  BY <1>1, <1>2, <1>3, StoreSets DEF TypeOK, RunRec, SnapRec
<1>6. Numbered'
  BY <1>3 DEF Numbered
<1>7. GenerationsUnique'
  BY <1>3, <1>4, <1>5, StoreSets DEF GenerationsUnique
<1>8. NothingNeededPruned'
  BY <1>3, <1>4, StoreSets DEF NothingNeededPruned, LatestGoodStands, Committed
<1>9. \A q \in Procs : q # p => run'[q].pc = "idle"
  BY <1>2, GuardianAssumption DEF LockHeld
<1>10. (LockHeld /\ NewIsMine /\ BaseStands)'
  BY <1>2, <1>4, <1>9 DEF LockHeld, NewIsMine, BaseStands, Writing
<1>11. HoldsAndWritesCount'
  BY DEF HoldsAndWritesCount
<1>12. Judged'
  <2>1. ASSUME used'["hold"] = 0, NEW q \in Procs, run'[q].pc \in Decided, run'[q].kind # "accept"
        PROVE  /\ pointer' # None => ~SuspiciousDrop(SizeOf[snap'[pointer'].body], SizeOf[run'[q].body])
               /\ pointer' = None => Committed' = {}
    <3>1. q = p /\ r.pc \in {"baseline", "stage"}
      BY <1>2, <1>9, <2>1 DEF Decided, Writing
    <3>2. pointer' # None => snap'[pointer'].body = snap[pointer'].body
      BY <1>3, <1>5 DEF TypeOK
    <3>3. QED
      BY <1>2, <1>4, <2>1, <3>1, <3>2
  <2>2. QED
    BY <2>1 DEF Judged, SuspiciousDrop
<1>13. Confirmed'
  <2>1. ASSUME NEW q \in Procs, run'[q].kind = "accept" PROVE run'[q].pc # "note" /\ run'[q].plan \in shown'
    BY <1>2, <2>1 DEF Confirmed
  <2>2. ASSUME NEW q \in Procs, run'[q].kind = "accept", used'["hold"] = 0, run'[q].pc \in {"assess"} \cup Decided
        PROVE  pointer' # None /\ PlanFor(pointer', run'[q].body) = run'[q].plan
    BY <1>2, <1>9, <2>2 DEF Decided, Writing
  <2>3. QED
    BY <2>1, <2>2 DEF Confirmed, PlanFor
<1>14. BodyRead'
  BY <1>2, <1>9 DEF BodyRead, Reading
<1>15. QED
  BY <1>6, <1>7, <1>8, <1>10, <1>11, <1>12, <1>13, <1>14

-----------------------------------------------------------------------------
(* The steps of a program, as instances of RunStep. *)

\* A step that takes no snapshot away and leaves the pointer where it was.
LEMMA QuietStep ==
    ASSUME IInv, NEW p \in Procs, NEW r \in RunRec,
           lock \in {p, None}, run' = [run EXCEPT ![p] = r], lock' = p \/ (r.pc = "idle" /\ lock' = None),
           UNCHANGED <<live, snap, pointer, aged, held, shown>>,
           events' \subseteq [drop : [base : Ids \union {None}, verdict : Verdicts],
                              body : States, order : {"first", "newest", "superseded"}],
           used' \in [{"write", "mishap", "hold", "preview"} -> Nat],
           used'["hold"] = used["hold"], used'["write"] = used["write"],
           r.pc \notin {"assess"} \cup Decided \/ (r.pc = "assess" /\ r.kind # "accept"),
           r.kind = "accept" => r.pc # "note" /\ r.plan \in shown,
           r.pc \in Reading => r.body # None
    PROVE  IInv'
<1>1. snap' = Dropped({})
  BY DEF IInv, Inv, GenerationsUnique, TypeOK, Dropped
<1>2. pointer' # None => pointer' \in Committed \ {}
  BY DEF IInv, Inv, NothingNeededPruned, LatestGoodStands, GenerationsUnique, TypeOK, Committed
<1>3. DecisionsKept'
  BY DEF IInv, Inv, NothingNeededPruned, DecisionsKept, Committed
<1>4. r.pc \notin Writing \cup {"baseline", "stage"}
  BY DEF Decided, Writing
<1>5. {} \in SUBSET OnDisk
  OBVIOUS
<1>6. QED
  BY <1>1, <1>2, <1>3, <1>4, <1>5, RunStep DEF Writing

\* A program that ends or goes back to polling gives up what it held.
LEMMA Returning ==
    ASSUME IInv, NEW p \in Procs, run[p].pc # "idle", NEW last \in (0..MaxWrites) \union {None},
           Return(p, last) \/ Quit(p)
    PROVE  \E r \in RunRec : /\ run' = [run EXCEPT ![p] = r] /\ (lock' = p \/ (r.pc = "idle" /\ lock' = None))
                             /\ r.pc \in {"idle", "poll"} /\ r.kind = "watch"
<1>1. lock = p
  BY DEF IInv, Inv, LockHeld
<1>2. Idle \in RunRec /\ [Idle EXCEPT !.pc = "poll", !.last = last] \in RunRec
  BY IdleIsRun DEF RunRec, PCs
<1>3. CASE Quit(p)
  BY <1>1, <1>2, <1>3 DEF Quit, Idle
<1>4. CASE Return(p, last) /\ run[p].kind = "watch"
  BY <1>1, <1>2, <1>4 DEF Return, Idle
<1>5. QED
  BY <1>3, <1>4 DEF Return

\* What a bounded event counts goes up by one, the other counts stand.
LEMMA Spent ==
    ASSUME TypeOK, NEW what \in {"write", "mishap", "hold", "preview"}, NEW bound \in Nat, Spend(what, bound)
    PROVE  /\ used' \in [{"write", "mishap", "hold", "preview"} -> Nat]
           /\ used'[what] = used[what] + 1 /\ used[what] < bound
           /\ \A b \in {"write", "mishap", "hold", "preview"} \ {what} : used'[b] = used[b]
  BY DEF TypeOK, Spend

\* What a rebuilt pointer names, and that nothing moves it while all can be read.
LEMMA Rebuilt ==
    ASSUME IInv, Rebuild
    PROVE  /\ pointer' # None => pointer' \in Committed
           /\ Resolved # None => Resolved \in Verified /\ pointer' = Resolved
           /\ Resolved = None => Verified = {}
           /\ used["hold"] = 0 => /\ pointer' = Resolved /\ (pointer # None => pointer' = pointer)
                                  /\ pointer' = None => Committed = {}
                                  /\ Verified = Committed
<1>1. TypeOK /\ LatestGoodStands /\ (used["hold"] = 0 => held = NotHeld)
  BY DEF IInv, Inv, GenerationsUnique, NothingNeededPruned, HoldsAndWritesCount
<1>2. (Resolved # None => Resolved \in Verified) /\ (Resolved = None => Verified = {})
  BY <1>1, ResolvedIsThere DEF IInv, Inv
<1>3. pointer # None => pointer \in Committed
  BY <1>1 DEF LatestGoodStands, Committed, TypeOK
<1>4. pointer' = IF Resolved = None THEN pointer ELSE Resolved
  BY DEF Rebuild
<1>5. used["hold"] = 0 => Verified = Committed /\ (pointer # None => Resolved = pointer)
  BY <1>1, PointerResolves
<1>6. QED
  BY <1>2, <1>3, <1>4, <1>5, StoreSets

\* A process that starts to watch, to look once or to accept keeps the invariant.
LEMMA StartInv == ASSUME IInv, NEW p \in Procs, Start(p) PROVE IInv'
<1> USE DEF IInv, Inv
<1>1. PICK kind \in Kinds, confirmed \in Plan : StartAs(p, kind, confirmed) /\ (kind = "accept" => confirmed \in shown)
  BY GuardianAssumption DEF Start, StartWatch, StartOnce, StartAccept, Kinds, NoPlan, Plan, GenerationsUnique, TypeOK
<1> DEFINE r == [Idle EXCEPT !.pc = "verify", !.kind = kind, !.plan = confirmed]
<1>2. r \in RunRec /\ r.pc = "verify" /\ r.kind = kind /\ r.plan = confirmed
  BY IdleIsRun DEF RunRec, PCs
<1>3. /\ run' = [run EXCEPT ![p] = r] /\ lock = None /\ lock' = p
      /\ UNCHANGED <<live, snap, pointer, aged, held, events, shown, used>>
  BY <1>1 DEF StartAs, RunnerFree
<1> HIDE DEF r
<1>4. used' \in [{"write", "mishap", "hold", "preview"} -> Nat]
      /\ events' \subseteq [drop : [base : Ids \union {None}, verdict : Verdicts],
                              body : States, order : {"first", "newest", "superseded"}]
  BY <1>3 DEF GenerationsUnique, TypeOK
<1>5. r.pc \notin {"assess"} \cup Decided \cup Reading /\ r.pc # "note" /\ (r.kind = "accept" => r.plan \in shown)
  BY <1>1, <1>2 DEF Decided, Writing, Reading
<1>6. used'["hold"] = used["hold"] /\ used'["write"] = used["write"]
      /\ UNCHANGED <<live, snap, pointer, aged, held, shown>>
  BY <1>3
<1>7. QED
  BY <1>2, <1>3, <1>4, <1>5, <1>6, QuietStep

\* What every step of a program may rely on.
LEMMA AtWork ==
    ASSUME IInv, NEW p \in Procs, run[p].pc # "idle"
    PROVE  /\ lock = p /\ run[p] \in RunRec /\ run \in [Procs -> RunRec] /\ live.sig \in 0..MaxWrites /\ live.body \in States
           /\ run[p].kind = "accept" => run[p].plan \in shown
           /\ run[p].pc \in Reading => run[p].body # None
           /\ used \in [{"write", "mishap", "hold", "preview"} -> Nat]
           /\ events \subseteq [drop : [base : Ids \union {None}, verdict : Verdicts],
                              body : States, order : {"first", "newest", "superseded"}]
           /\ snap = Dropped({})
           /\ TypeOK
  BY DEF IInv, Inv, LockHeld, GenerationsUnique, TypeOK, RunRec, Confirmed, BodyRead, Dropped

\* Looking, waiting and reading keep the invariant.
LEMMA QuietLookInv ==
    ASSUME IInv, NEW p \in Procs,
           PollChanged(p) \/ PollFallback(p) \/ Debounce(p) \/ ReadFirst(p) \/ ReadAgain(p) \/ Note(p)
    PROVE  IInv'
<1> USE DEF At
<1>1. run[p].pc # "idle" /\ UNCHANGED <<live, snap, pointer, aged, held, events, shown, used>>
  BY DEF PollChanged, PollFallback, Debounce, ReadFirst, ReadAgain, Note
<1>2. /\ lock = p /\ run[p] \in RunRec /\ run \in [Procs -> RunRec] /\ live.sig \in 0..MaxWrites /\ live.body \in States
      /\ run[p].kind = "accept" => run[p].plan \in shown
      /\ run[p].pc \in Reading => run[p].body # None
  BY <1>1, AtWork
<1>3. used' \in [{"write", "mishap", "hold", "preview"} -> Nat]
      /\ events' \subseteq [drop : [base : Ids \union {None}, verdict : Verdicts],
                              body : States, order : {"first", "newest", "superseded"}]
  BY <1>1, AtWork
<1>4. SUFFICES ASSUME TRUE
               PROVE \E r \in RunRec :
                  /\ run' = [run EXCEPT ![p] = r] /\ (lock' = p \/ (r.pc = "idle" /\ lock' = None))
                  /\ r.pc \notin {"assess"} \cup Decided \/ (r.pc = "assess" /\ r.kind # "accept")
                  /\ r.kind = "accept" => r.pc # "note" /\ r.plan \in shown
                  /\ r.pc \in Reading => r.body # None
  <2>1. PICK r \in RunRec :
           /\ run' = [run EXCEPT ![p] = r] /\ (lock' = p \/ (r.pc = "idle" /\ lock' = None))
           /\ r.pc \notin {"assess"} \cup Decided \/ (r.pc = "assess" /\ r.kind # "accept")
           /\ r.kind = "accept" => r.pc # "note" /\ r.plan \in shown
           /\ r.pc \in Reading => r.body # None
    BY <1>4
  <2>2. used'["hold"] = used["hold"] /\ used'["write"] = used["write"] /\ UNCHANGED <<live, snap, pointer, aged, held, shown>>
    BY <1>1
  <2>3. QED
    <3>1. lock \in {p, None} /\ run' = [run EXCEPT ![p] = r] /\ (lock' = p \/ (r.pc = "idle" /\ lock' = None))
      BY <1>2, <2>1
    <3>2. (r.pc \notin {"assess"} \cup Decided \/ (r.pc = "assess" /\ r.kind # "accept"))
          /\ (r.kind = "accept" => r.pc # "note" /\ r.plan \in shown) /\ (r.pc \in Reading => r.body # None)
      BY <2>1
    <3>3. QED
      BY <1>3, <2>2, <3>1, <3>2, QuietStep
<1> USE DEF Decided, Writing, Reading
<1>5. CASE PollChanged(p)
  <2>1. [run[p] EXCEPT !.pc = "debounce"] \in RunRec
    BY <1>2 DEF RunRec, PCs
  <2>2. QED
    BY <1>2, <1>5, <2>1 DEF PollChanged, Go, RunRec
<1>6. CASE PollFallback(p)
  <2>1. [run[p] EXCEPT !.pc = "verify"] \in RunRec
    BY <1>2 DEF RunRec, PCs
  <2>2. QED
    BY <1>2, <1>6, <2>1 DEF PollFallback, Go, RunRec
<1>7. CASE Debounce(p)
  <2>1. [run[p] EXCEPT !.last = live.sig, !.pc = "first"] \in RunRec
    BY <1>2 DEF RunRec, PCs
  <2>2. QED
    BY <1>2, <1>7, <2>1 DEF Debounce, RunRec
<1>8. CASE ReadFirst(p)
  <2> DEFINE r == [run[p] EXCEPT !.body = live.body, !.sig = live.sig, !.pc = "again"]
  <2>1. r \in RunRec /\ r.pc = "again" /\ r.body = live.body /\ r.kind = run[p].kind /\ r.plan = run[p].plan
    BY <1>2 DEF RunRec, PCs
  <2>2. run' = [run EXCEPT ![p] = r] /\ lock' = p
    BY <1>2, <1>8 DEF ReadFirst
  <2>3. live.body # None
    BY <1>2, GuardianAssumption
  <2> HIDE DEF r
  <2>4. QED
    BY <1>2, <2>1, <2>2, <2>3
<1>9. CASE ReadAgain(p) /\ Stable(p)
  <2> DEFINE to == IF run[p].kind = "accept" THEN "confirm" ELSE "note"
  <2>1. 0 \in 0..MaxWrites /\ to \in PCs
    BY GuardianAssumption DEF PCs
  <2>2. [run[p] EXCEPT !.sig = 0, !.pc = to] \in RunRec
    BY <1>2, <2>1 DEF RunRec
  <2>3. QED
    BY <1>2, <1>9, <2>2 DEF ReadAgain, RunRec
<1>10. CASE ReadAgain(p) /\ ~Stable(p)
  <2>1. run[p].last \in (0..MaxWrites) \union {None} /\ Return(p, run[p].last)
    BY <1>2, <1>10 DEF ReadAgain, RunRec
  <2>2. QED
    BY <1>1, <2>1, Returning
<1>11. CASE Note(p)
  <2>1. [run[p] EXCEPT !.last = live.sig, !.pc = "assess"] \in RunRec
    BY <1>2 DEF RunRec, PCs
  <2>2. run[p].kind # "accept"
    BY <1>11 DEF Note, IInv, Inv, Confirmed
  <2>3. QED
    BY <1>2, <1>11, <2>1, <2>2 DEF Note, RunRec
<1>12. QED
  BY <1>5, <1>6, <1>7, <1>8, <1>9, <1>10, <1>11

\* The looks that rebuild the pointer: nothing resolves that is not there, and
\* what is judged or asked is judged or asked of the pointer they leave.
LEMMA RebuildingLookInv ==
    ASSUME IInv, NEW p \in Procs, VerifyStore(p) \/ Confirm(p) \/ Assess(p)
    PROVE  IInv'
<1> USE DEF At
<1>1. run[p].pc # "idle" /\ UNCHANGED <<live, snap, aged, held, events, shown, used>> /\ Rebuild
  BY DEF VerifyStore, Confirm, Assess
<1>2. /\ lock = p /\ run[p] \in RunRec /\ run \in [Procs -> RunRec] /\ live.sig \in 0..MaxWrites /\ live.body \in States
      /\ run[p].kind = "accept" => run[p].plan \in shown
      /\ run[p].pc \in Reading => run[p].body # None
      /\ snap = Dropped({})
  BY <1>1, AtWork
<1>3. used' \in [{"write", "mishap", "hold", "preview"} -> Nat]
      /\ events' \subseteq [drop : [base : Ids \union {None}, verdict : Verdicts],
                              body : States, order : {"first", "newest", "superseded"}]
  BY <1>1, AtWork
<1>4. /\ pointer' # None => pointer' \in Committed
      /\ used["hold"] = 0 => pointer' = Resolved /\ (pointer # None => pointer' = pointer) /\ (pointer' = None => Committed = {})
  BY <1>1, Rebuilt
<1>5. DecisionsKept'
  BY <1>1 DEF IInv, Inv, NothingNeededPruned, DecisionsKept, Committed
<1>6. SUFFICES ASSUME TRUE
               PROVE \E r \in RunRec :
                  /\ run' = [run EXCEPT ![p] = r] /\ (lock' = p \/ (r.pc = "idle" /\ lock' = None))
                  /\ r.pc \notin Writing \cup {"stage"}
                  /\ r.kind = "accept" => r.pc # "note" /\ r.plan \in shown
                  /\ r.pc \in Reading => r.body # None
                  /\ used["hold"] = 0 /\ r.kind # "accept" /\ r.pc = "baseline" =>
                        (Resolved # None => ~SuspiciousDrop(SizeOf[snap[Resolved].body], SizeOf[r.body]))
                  /\ used["hold"] = 0 /\ r.kind = "accept" /\ r.pc \in {"assess", "baseline"} =>
                        Resolved # None /\ PlanFor(Resolved, r.body) = r.plan
  <2>1. PICK r \in RunRec :
                  /\ run' = [run EXCEPT ![p] = r] /\ (lock' = p \/ (r.pc = "idle" /\ lock' = None))
                  /\ r.pc \notin Writing \cup {"stage"}
                  /\ r.kind = "accept" => r.pc # "note" /\ r.plan \in shown
                  /\ r.pc \in Reading => r.body # None
                  /\ used["hold"] = 0 /\ r.kind # "accept" /\ r.pc = "baseline" =>
                        (Resolved # None => ~SuspiciousDrop(SizeOf[snap[Resolved].body], SizeOf[r.body]))
                  /\ used["hold"] = 0 /\ r.kind = "accept" /\ r.pc \in {"assess", "baseline"} =>
                        Resolved # None /\ PlanFor(Resolved, r.body) = r.plan
    BY <1>6
  <2>2. {} \in SUBSET OnDisk /\ snap' = Dropped({}) /\ (pointer' # None => pointer' \in Committed \ {})
        /\ used'["hold"] = used["hold"] /\ used'["write"] = used["write"] /\ UNCHANGED <<live, aged, held, shown>>
    BY <1>1, <1>2, <1>4
  <2>3. used["hold"] = 0 /\ r.kind # "accept" /\ r.pc \in {"baseline", "stage"} =>
              /\ pointer' # None => ~SuspiciousDrop(SizeOf[snap[pointer'].body], SizeOf[r.body])
              /\ pointer' = None => Committed \ {} = {}
    BY <1>4, <2>1
  <2>4. used["hold"] = 0 /\ r.kind = "accept" /\ r.pc \in {"assess", "baseline", "stage"} =>
              pointer' # None /\ PlanFor(pointer', r.body) = r.plan
    BY <1>4, <2>1
  <2>5. r.pc \notin Writing /\ (r.pc = "stage" /\ r.base # None => r.base \in Committed \ {})
    BY <2>1
  <2>6. QED
    BY <1>2, <1>3, <1>5, <2>1, <2>2, <2>3, <2>4, <2>5, RunStep
<1> USE DEF Writing, Reading
<1>7. CASE VerifyStore(p)
  <2>1. [run[p] EXCEPT !.pc = "debounce"] \in RunRec
    BY <1>2 DEF RunRec, PCs
  <2>2. QED
    BY <1>2, <1>7, <2>1 DEF VerifyStore, Go, RunRec
<1>8. CASE Confirm(p) /\ AsConfirmed(p)
  <2>1. [run[p] EXCEPT !.pc = "assess"] \in RunRec
    BY <1>2 DEF RunRec, PCs
  <2>2. Resolved # None /\ PlanFor(Resolved, run[p].body) = run[p].plan
    BY <1>8 DEF AsConfirmed, StillSuspicious, Judge
  <2>3. QED
    BY <1>2, <1>8, <2>1, <2>2 DEF Confirm, Go, RunRec
<1>9. CASE Confirm(p) /\ ~AsConfirmed(p)
  <2>1. None \in (0..MaxWrites) \union {None} /\ Quit(p)
    BY <1>9 DEF Confirm
  <2>2. QED
    BY <1>1, <2>1, Returning
<1>10. CASE Assess(p)
  <2> DEFINE v == Judge(run[p].body, Resolved)
             to == IF v = "pass" \/ run[p].kind = "accept" THEN "baseline" ELSE "quarantine"
  <2>1. v \in Verdicts /\ to \in PCs
    BY DEF Judge, Verdicts, PCs, Committing
  <2>2. v = "pass" => (Resolved # None => ~SuspiciousDrop(SizeOf[snap[Resolved].body], SizeOf[run[p].body]))
    BY DEF Judge
  <2>3. run[p].kind = "accept" /\ used["hold"] = 0 => Resolved # None /\ PlanFor(Resolved, run[p].body) = run[p].plan
    <3>1. run[p].kind = "accept" /\ used["hold"] = 0 => pointer # None /\ PlanFor(pointer, run[p].body) = run[p].plan
      BY <1>10 DEF Assess, IInv, Inv, Confirmed
    <3>2. QED
      BY <1>4, <3>1
  <2>4. run' = [run EXCEPT ![p].verdict = v, ![p].pc = to] /\ lock' = p
    BY <1>2, <1>10 DEF Assess
  <2>5. to \in {"baseline", "quarantine"} /\ (to = "baseline" => v = "pass" \/ run[p].kind = "accept")
    OBVIOUS
  <2> DEFINE r == [run[p] EXCEPT !.verdict = v, !.pc = to]
  <2> HIDE DEF v, to
  <2>6. r \in RunRec /\ r.kind = run[p].kind /\ r.plan = run[p].plan /\ r.body = run[p].body /\ r.pc = to
    BY <1>2, <2>1 DEF RunRec
  <2>7. run' = [run EXCEPT ![p] = r]
    BY <1>2, <2>4
  <2>8. run[p].body # None
    BY <1>2, <1>10 DEF Assess
  <2> HIDE DEF r
  <2>9. QED
    BY <1>2, <2>2, <2>3, <2>4, <2>5, <2>6, <2>7, <2>8
<1>11. QED
  BY <1>7, <1>8, <1>9, <1>10

\* Failing, ending, keeping a state in quarantine: nothing of the store moves.
LEMMA EndingInv ==
    ASSUME IInv, NEW p \in Procs,
           Refused(p) \/ Quarantine(p) \/ Supersede(p) \/ Fail(p) \/ Crash(p) \/ Stop(p)
    PROVE  IInv'
<1> USE DEF At
<1>1. run[p].pc # "idle" /\ UNCHANGED <<live, snap, pointer, aged, held, shown>>
  BY DEF Refused, Quarantine, Supersede, Fail, Crash, Stop, Committing
<1>2. /\ lock = p /\ run[p] \in RunRec /\ run \in [Procs -> RunRec]
      /\ run[p].kind = "accept" => run[p].plan \in shown
      /\ run[p].pc \in Reading => run[p].body # None
      /\ TypeOK
  BY <1>1, AtWork
<1>3. used' \in [{"write", "mishap", "hold", "preview"} -> Nat] /\ used'["hold"] = used["hold"] /\ used'["write"] = used["write"]
  <2>1. CASE Fail(p) \/ Crash(p)
    <3>1. Spend("mishap", MaxMishaps)
      BY <2>1 DEF Fail, Crash
    <3>2. QED
      BY <1>2, <3>1, Spent, GuardianAssumption
  <2>2. CASE UNCHANGED used
    BY <1>2, <2>2 DEF TypeOK
  <2>3. QED
    BY <2>1, <2>2 DEF Refused, Quarantine, Supersede, Stop
<1>4. NamedBase \in Ids \union {None}
  BY <1>2 DEF NamedBase, TypeOK
<1>5. events' \subseteq [drop : [base : Ids \union {None}, verdict : Verdicts],
                         body : States, order : {"first", "newest", "superseded"}]
  <2> DEFINE E == [drop : [base : Ids \union {None}, verdict : Verdicts],
                   body : States, order : {"first", "newest", "superseded"}]
  <2>1. events \subseteq E
    BY <1>2 DEF TypeOK
  <2>2. CASE Quarantine(p) /\ ~Duplicate(p)
    <3>1. Drop(p) \in [base : Ids \union {None}, verdict : Verdicts]
      BY <1>2, <1>4 DEF Drop, RunRec
    <3>2. run[p].body \in States
      BY <2>2, <1>2 DEF Quarantine, Reading, RunRec
    <3> DEFINE order == IF EventsOf(Drop(p)) = {} THEN "first" ELSE "newest"
               kept == {IF e.drop = Drop(p) /\ e.order = "newest"
                        THEN [e EXCEPT !.order = "superseded"] ELSE e : e \in events}
    <3>3. [drop |-> Drop(p), body |-> run[p].body, order |-> order] \in E
      BY <3>1, <3>2
    <3>4. kept \subseteq E
      BY <2>1
    <3>5. events' = kept \union {[drop |-> Drop(p), body |-> run[p].body, order |-> order]}
      BY <2>2 DEF Quarantine
    <3>6. QED
      BY <3>3, <3>4, <3>5
  <2>3. CASE Supersede(p)
    BY <2>1, <2>3 DEF Supersede
  <2>4. QED
    BY <2>1, <2>2, <2>3 DEF Refused, Quarantine, Fail, Crash, Stop
<1>6. SUFFICES ASSUME TRUE
               PROVE \E r \in RunRec :
                  /\ run' = [run EXCEPT ![p] = r] /\ (lock' = p \/ (r.pc = "idle" /\ lock' = None))
                  /\ r.pc \notin {"assess"} \cup Decided
                  /\ r.kind = "accept" => r.pc # "note" /\ r.plan \in shown
                  /\ r.pc \in Reading => r.body # None
  BY <1>1, <1>2, <1>3, <1>5, QuietStep
<1> USE DEF Decided, Writing, Reading
<1>7. CASE Quarantine(p) /\ ~Duplicate(p)
  <2>1. [run[p] EXCEPT !.pc = "supersede", !.base = NamedBase] \in RunRec
    BY <1>2, <1>4 DEF RunRec, PCs
  <2>2. QED
    BY <1>2, <1>7, <2>1 DEF Quarantine, RunRec
<1>8. ASSUME NEW last \in (0..MaxWrites) \union {None}, Return(p, last) \/ Quit(p)
      PROVE \E r \in RunRec :
                  /\ run' = [run EXCEPT ![p] = r] /\ (lock' = p \/ (r.pc = "idle" /\ lock' = None))
                  /\ r.pc \notin {"assess"} \cup Decided
                  /\ r.kind = "accept" => r.pc # "note" /\ r.plan \in shown
                  /\ r.pc \in Reading => r.body # None
  BY <1>1, <1>8, Returning
<1>9. run[p].last \in (0..MaxWrites) \union {None} /\ None \in (0..MaxWrites) \union {None}
  BY <1>2 DEF RunRec
<1>10. QED
  BY <1>7, <1>8, <1>9 DEF Refused, Quarantine, Supersede, Fail, Crash, Stop

-----------------------------------------------------------------------------
(* The steps of a commit. *)

\* The sweep takes only what was never committed; the baseline resolves.
LEMMA BaselineInv == ASSUME IInv, NEW p \in Procs, Baseline(p) PROVE IInv'
<1> USE DEF At
<1>1. run[p].pc = "baseline" /\ UNCHANGED <<live, aged, held, events, shown, used>> /\ Rebuild
  BY DEF Baseline
<1>2. /\ lock = p /\ run[p] \in RunRec /\ run \in [Procs -> RunRec]
      /\ run[p].kind = "accept" => run[p].plan \in shown
      /\ run[p].pc \in Reading => run[p].body # None
      /\ TypeOK
  BY <1>1, AtWork
<1>3. /\ pointer' # None => pointer' \in Committed
      /\ Resolved # None => Resolved \in Verified /\ pointer' = Resolved
      /\ used["hold"] = 0 =>
            pointer' = Resolved /\ (pointer # None => pointer' = pointer) /\ (pointer' = None => Committed = {})
  BY <1>1, Rebuilt
<1>4. Swept \in SUBSET OnDisk /\ Committed \ Swept = Committed /\ snap' = Dropped(Swept)
  BY <1>2 DEF Swept, OnDisk, Committed, Dropped, Baseline, TypeOK
<1>5. DecisionsKept'
  <2>1. \A i \in Ids : snap'[i].stage = "committed" <=> i \in Committed
    BY <1>2, <1>4 DEF Dropped, Committed, Swept, TypeOK
  <2>2. \A i \in Ids : snap'[i].accepted = snap[i].accepted /\ snap'[i].prev = snap[i].prev
    BY <1>2, <1>4 DEF Dropped, TypeOK
  <2>3. Committed' = Committed
    BY <2>1 DEF Committed
  <2>4. QED
    BY <1>1, <2>2, <2>3, StoreSets DEF DecisionsKept, IInv, Inv, NothingNeededPruned
<1>6. SUFFICES ASSUME TRUE
               PROVE \E r \in RunRec :
                  /\ run' = [run EXCEPT ![p] = r] /\ (lock' = p \/ (r.pc = "idle" /\ lock' = None))
                  /\ r.pc \notin Writing \cup {"assess", "baseline"}
                  /\ r.pc = "stage" /\ r.base # None => r.base \in Committed
                  /\ r.kind = "accept" => r.pc # "note" /\ r.plan \in shown
                  /\ r.pc \in Reading => r.body # None
                  /\ used["hold"] = 0 /\ r.kind # "accept" /\ r.pc = "stage" =>
                        (Resolved # None => ~SuspiciousDrop(SizeOf[snap[Resolved].body], SizeOf[r.body]))
                  /\ used["hold"] = 0 /\ r.kind = "accept" /\ r.pc = "stage" =>
                        Resolved # None /\ PlanFor(Resolved, r.body) = r.plan
  <2>1. PICK r \in RunRec :
                  /\ run' = [run EXCEPT ![p] = r] /\ (lock' = p \/ (r.pc = "idle" /\ lock' = None))
                  /\ r.pc \notin Writing \cup {"assess", "baseline"}
                  /\ r.pc = "stage" /\ r.base # None => r.base \in Committed
                  /\ r.kind = "accept" => r.pc # "note" /\ r.plan \in shown
                  /\ r.pc \in Reading => r.body # None
                  /\ used["hold"] = 0 /\ r.kind # "accept" /\ r.pc = "stage" =>
                        (Resolved # None => ~SuspiciousDrop(SizeOf[snap[Resolved].body], SizeOf[r.body]))
                  /\ used["hold"] = 0 /\ r.kind = "accept" /\ r.pc = "stage" =>
                        Resolved # None /\ PlanFor(Resolved, r.body) = r.plan
    BY <1>6
  <2>2. used' \in [{"write", "mishap", "hold", "preview"} -> Nat] /\ used'["hold"] = used["hold"] /\ used'["write"] = used["write"]
        /\ events' \subseteq [drop : [base : Ids \union {None}, verdict : Verdicts],
                              body : States, order : {"first", "newest", "superseded"}]
        /\ UNCHANGED <<live, aged, held, shown>>
    BY <1>1, <1>2 DEF TypeOK
  <2>3. pointer' # None => pointer' \in Committed \ Swept
    BY <1>3, <1>4
  <2>4. used["hold"] = 0 /\ r.kind # "accept" /\ r.pc \in {"baseline", "stage"} =>
              /\ pointer' # None => ~SuspiciousDrop(SizeOf[snap[pointer'].body], SizeOf[r.body])
              /\ pointer' = None => Committed \ Swept = {}
    BY <1>3, <2>1
  <2>5. used["hold"] = 0 /\ r.kind = "accept" /\ r.pc \in {"assess", "baseline", "stage"} =>
              pointer' # None /\ PlanFor(pointer', r.body) = r.plan
    BY <1>3, <2>1
  <2>6. r.pc \notin Writing /\ (r.pc = "stage" /\ r.base # None => r.base \in Committed \ Swept)
    BY <1>4, <2>1
  <2>7. QED
    BY <1>2, <1>4, <1>5, <2>1, <2>2, <2>3, <2>4, <2>5, <2>6, RunStep
<1> USE DEF Writing, Reading
<1>7. CASE SamePayload(run[p].body, Resolved)
  <2>1. run[p].last \in (0..MaxWrites) \union {None} /\ Return(p, run[p].last)
    BY <1>2, <1>7 DEF Baseline, RunRec
  <2>2. QED
    BY <1>1, <2>1, Returning
<1>8. CASE ~SamePayload(run[p].body, Resolved)
  <2>1. Resolved \in Ids \union {None} /\ (Resolved # None => Resolved \in Committed)
    BY <1>3, StoreSets
  <2> DEFINE r == [run[p] EXCEPT !.base = Resolved, !.pc = "stage"]
  <2>2. run' = [run EXCEPT ![p] = r] /\ lock' = p
    BY <1>2, <1>8 DEF Baseline
  <2>3. r \in RunRec /\ r.kind = run[p].kind /\ r.plan = run[p].plan /\ r.body = run[p].body /\ r.pc = "stage" /\ r.base = Resolved
    BY <1>2, <2>1 DEF RunRec, PCs, Committing
  <2>4. used["hold"] = 0 /\ run[p].kind # "accept" /\ Resolved # None
           => ~SuspiciousDrop(SizeOf[snap[Resolved].body], SizeOf[run[p].body])
    <3>1. ASSUME used["hold"] = 0, run[p].kind # "accept", pointer = None PROVE Resolved = None
      BY <1>1, <1>3, <3>1, StoreSets DEF IInv, Inv, Judged, Decided
    <3>2. ASSUME used["hold"] = 0, run[p].kind # "accept", pointer # None
          PROVE  Resolved = pointer /\ ~SuspiciousDrop(SizeOf[snap[pointer].body], SizeOf[run[p].body])
      BY <1>1, <1>3, <3>2 DEF IInv, Inv, Judged, Decided
    <3>3. QED
      BY <3>1, <3>2
  <2>5. used["hold"] = 0 /\ run[p].kind = "accept" => Resolved # None /\ PlanFor(Resolved, run[p].body) = run[p].plan
    BY <1>1, <1>3 DEF IInv, Inv, Confirmed, Decided
  <2> HIDE DEF r
  <2>6. QED
    BY <1>2, <2>1, <2>2, <2>3, <2>4, <2>5
<1>9. QED
  BY <1>7, <1>8

\* Retention takes nothing that is protected, and only where the pointer resolves.
LEMMA PruneInv == ASSUME IInv, NEW p \in Procs, Prune(p) PROVE IInv'
<1> USE DEF At
<1>1. run[p].pc = "prune" /\ UNCHANGED <<live, aged, held, events, shown, used>> /\ Rebuild
  BY DEF Prune
<1>2. /\ lock = p /\ run[p] \in RunRec /\ run \in [Procs -> RunRec]
      /\ TypeOK
  BY <1>1, AtWork
<1>3. /\ pointer' # None => pointer' \in Committed
      /\ Resolved # None => Resolved \in Verified /\ pointer' = Resolved
      /\ Resolved = None => Verified = {}
      /\ used["hold"] = 0 => Verified = Committed
  BY <1>1, Rebuilt
<1>4. PICK old \in SUBSET (Verified \ Protected(Resolved)) : snap' = Dropped(old)
  BY DEF Prune, Dropped
<1>5. old \in SUBSET OnDisk /\ (pointer' # None => pointer' \in Committed \ old)
  BY <1>3, <1>4, StoreSets DEF Protected
<1>6. DecisionsKept'
  <2>1. \A i \in Ids : /\ snap'[i].accepted = snap[i].accepted /\ snap'[i].prev = snap[i].prev
                       /\ snap'[i].stage = IF i \in old THEN "removed" ELSE snap[i].stage
    BY <1>2, <1>4 DEF Dropped, TypeOK
  <2>2. Committed' = Committed \ old
    BY <2>1 DEF Committed
  <2>3. ASSUME used["hold"] = 0, NEW i \in Committed \ old, snap[i].accepted, snap[i].prev # None
        PROVE  snap[i].prev \in Committed \ old
    <3>1. snap[i].prev \in Committed
      BY <2>3 DEF IInv, Inv, NothingNeededPruned, DecisionsKept
    <3>2. snap[i].prev \in Decisions
      BY <1>3, <2>3 DEF Decisions
    <3>3. QED
      BY <1>4, <3>1, <3>2 DEF Protected
  <2>4. QED
    BY <1>1, <2>1, <2>2, <2>3, StoreSets DEF DecisionsKept
<1>7. PICK r \in RunRec : /\ run' = [run EXCEPT ![p] = r] /\ (lock' = p \/ (r.pc = "idle" /\ lock' = None))
                          /\ r.pc \in {"idle", "poll"} /\ r.kind = "watch"
  <2>1. run[p].last \in (0..MaxWrites) \union {None} /\ Return(p, run[p].last)
    BY <1>2 DEF Prune, RunRec
  <2>2. QED
    BY <1>1, <2>1, Returning
<1>8. used' \in [{"write", "mishap", "hold", "preview"} -> Nat] /\ used'["hold"] = used["hold"] /\ used'["write"] = used["write"]
      /\ events' \subseteq [drop : [base : Ids \union {None}, verdict : Verdicts],
                            body : States, order : {"first", "newest", "superseded"}]
      /\ UNCHANGED <<live, aged, held, shown>>
  BY <1>1, <1>2 DEF TypeOK
<1>9. r.pc \notin Writing \cup Reading \cup {"assess", "baseline", "stage"}
  BY <1>7 DEF Writing, Reading
<1>10. QED
  BY <1>2, <1>4, <1>5, <1>6, <1>7, <1>8, <1>9, RunStep

\* The pointer is moved to the new snapshot only where that one was verified.
LEMMA PointInv == ASSUME IInv, NEW p \in Procs, Point(p) PROVE IInv'
<1> USE DEF At
<1>1. run[p].pc = "point" /\ UNCHANGED <<live, snap, aged, held, events, shown, used>>
  BY DEF Point
<1>2. /\ lock = p /\ run[p] \in RunRec /\ run \in [Procs -> RunRec]
      /\ run[p].kind = "accept" => run[p].plan \in shown
      /\ TypeOK /\ snap = Dropped({})
  BY <1>1, AtWork
<1>3. pointer' # None => pointer' \in Committed
  <2>1. CASE run[p].new \in Verified
    <3>1. Resolved # None => Resolved \in Verified
      BY <1>2, ResolvedIsThere
    <3>2. pointer' \in {run[p].new, Resolved}
      BY <2>1 DEF Point
    <3>3. QED
      BY <2>1, <3>1, <3>2, StoreSets
  <2>2. CASE run[p].new \notin Verified
    BY <1>2, <2>2 DEF Point, IInv, Inv, NothingNeededPruned, LatestGoodStands, Committed, TypeOK
  <2>3. QED
    BY <2>1, <2>2
<1>4. PICK r \in RunRec : /\ run' = [run EXCEPT ![p] = r] /\ (lock' = p \/ (r.pc = "idle" /\ lock' = None))
                          /\ r.pc \in {"idle", "poll", "prune"} /\ (r.kind = "accept" => r.plan \in shown)
  <2>1. CASE run[p].new \in Verified
    <3> DEFINE r == [run[p] EXCEPT !.pc = "prune"]
    <3>1. r \in RunRec /\ r.pc = "prune" /\ r.kind = run[p].kind /\ r.plan = run[p].plan
      BY <1>2 DEF RunRec, PCs, Committing
    <3>2. run' = [run EXCEPT ![p] = r] /\ lock' = p
      BY <1>2, <2>1 DEF Point, Go
    <3> HIDE DEF r
    <3>3. QED
      BY <1>2, <3>1, <3>2
  <2>2. CASE run[p].new \notin Verified
    <3>1. None \in (0..MaxWrites) \union {None} /\ Return(p, None)
      BY <2>2 DEF Point
    <3>2. QED
      BY <1>1, <3>1, Returning
  <2>3. QED
    BY <2>1, <2>2
<1>5. used' \in [{"write", "mishap", "hold", "preview"} -> Nat] /\ used'["hold"] = used["hold"] /\ used'["write"] = used["write"]
      /\ events' \subseteq [drop : [base : Ids \union {None}, verdict : Verdicts],
                            body : States, order : {"first", "newest", "superseded"}]
      /\ UNCHANGED <<live, aged, held, shown>>
  BY <1>1, <1>2 DEF TypeOK
<1>6. r.pc \notin Writing \cup Reading \cup {"note", "assess", "baseline", "stage"}
  BY <1>4 DEF Writing, Reading
<1>7. DecisionsKept'
  BY <1>1 DEF IInv, Inv, NothingNeededPruned, DecisionsKept, Committed
<1>8. {} \in SUBSET OnDisk /\ snap' = Dropped({}) /\ (pointer' # None => pointer' \in Committed \ {})
  BY <1>1, <1>2, <1>3
<1>9. QED
  BY <1>2, <1>4, <1>5, <1>6, <1>7, <1>8, RunStep

\* The snapshot a program writes, one step further: it is not on disk before
\* it is published, and it carries a number nothing on disk has.
LEMMA WritingStep ==
    ASSUME IInv, NEW p \in Procs, NEW i \in Ids, NEW s \in SnapRec, NEW r \in RunRec,
           lock = p, run' = [run EXCEPT ![p] = r], UNCHANGED <<live, pointer, aged, held, events, lock, shown, used>>,
           snap' = [snap EXCEPT ![i] = s],
           i \notin Committed, r.pc \in Writing,
           r.new = i /\ s.body = r.body /\ s.prev = r.base /\ s.accepted = (r.kind = "accept"),
           s.stage = CASE r.pc = "publish" -> "staged" [] r.pc = "mark" -> "published" [] r.pc = "point" -> "committed",
           \A j \in OnDisk \ {i} : snap[j].gen < s.gen \/ (r.pc # "publish" /\ s.gen # snap[j].gen),
           r.pc = "publish" => i \notin OnDisk,
           \E n \in Nat : s.gen <= n /\ \A j \in Ids : snap[j].gen <= n,
           r.base # None => r.base \in Committed,
           run[p].pc \in Decided \ {"point"}, r.kind = run[p].kind, r.body = run[p].body, r.plan = run[p].plan
    PROVE  IInv'
<1> USE DEF IInv, Inv
<1>1. TypeOK /\ run \in [Procs -> RunRec] /\ snap \in [Ids -> SnapRec]
  BY DEF GenerationsUnique, TypeOK, RunRec, SnapRec
<1>2. run' \in [Procs -> RunRec] /\ run'[p] = r /\ \A q \in Procs : q # p => run'[q] = run[q]
  BY <1>1
<1>3. snap' \in [Ids -> SnapRec] /\ snap'[i] = s /\ \A j \in Ids \ {i} : snap'[j] = snap[j]
  BY <1>1
<1>4. s.stage \in {"staged", "published", "committed"}
      /\ Committed' = (IF r.pc = "point" THEN Committed \cup {i} ELSE Committed)
      /\ OnDisk' = (IF r.pc = "publish" THEN OnDisk ELSE OnDisk \cup {i})
  BY <1>3 DEF Committed, OnDisk, Writing
<1>5. TypeOK'
  BY <1>1, <1>2, <1>3 DEF TypeOK, RunRec, SnapRec
<1>6. Numbered'
  BY <1>3 DEF Numbered
<1>7. \A q \in Procs : q # p => run'[q].pc = "idle"
  BY <1>2, GuardianAssumption DEF LockHeld
<1>8. pointer # None => pointer \in Committed /\ pointer # i /\ snap'[pointer] = snap[pointer]
  BY <1>1, <1>3 DEF NothingNeededPruned, LatestGoodStands, Committed, TypeOK
<1>9. GenerationsUnique'
  <2>1. \A j \in OnDisk \ {i} : snap[j].gen # s.gen
    BY <1>1, StoreSets DEF SnapRec
  <2>2. QED
    BY <1>3, <1>4, <1>5, <2>1, StoreSets DEF GenerationsUnique
<1>10. LatestGoodStands'
  BY <1>4, <1>5, <1>8 DEF LatestGoodStands, Committed, TypeOK
<1>11. DecisionsKept'
  BY <1>3, <1>4, StoreSets DEF NothingNeededPruned, DecisionsKept
<1>12. (LockHeld /\ BaseStands)'
  BY <1>2, <1>4, <1>7 DEF LockHeld, BaseStands, Writing
<1>13. NewIsMine'
  <2>1. r.pc = "publish" => \A j \in OnDisk' : snap'[j].gen < snap'[i].gen
    BY <1>3, <1>4, StoreSets
  <2>2. QED
    BY <1>2, <1>3, <1>7, <2>1 DEF NewIsMine, Writing
<1>14. HoldsAndWritesCount'
  BY DEF HoldsAndWritesCount
<1>15. Judged'
  <2>1. ASSUME used["hold"] = 0, r.kind # "accept"
        PROVE  /\ pointer # None => ~SuspiciousDrop(SizeOf[snap[pointer].body], SizeOf[r.body])
               /\ pointer = None /\ r.pc # "point" => Committed = {}
    BY <2>1 DEF Judged
  <2>2. ASSUME used'["hold"] = 0, NEW q \in Procs, run'[q].pc \in Decided, run'[q].kind # "accept"
        PROVE  /\ pointer' # None => ~SuspiciousDrop(SizeOf[snap'[pointer'].body], SizeOf[run'[q].body])
               /\ pointer' = None /\ run'[q].pc # "point" => Committed' = {}
    <3>1. q = p
      BY <1>7, <2>2 DEF Decided, Writing
    <3>2. QED
      BY <1>2, <1>4, <1>8, <2>1, <2>2, <3>1
  <2>3. QED
    BY <2>2 DEF Judged, SuspiciousDrop
<1>16. Confirmed'
  <2>1. ASSUME NEW q \in Procs, run'[q].kind = "accept" PROVE run'[q].pc # "note" /\ run'[q].plan \in shown
    BY <1>2, <2>1 DEF Confirmed, Writing
  <2>2. ASSUME NEW q \in Procs, run'[q].kind = "accept", used["hold"] = 0, run'[q].pc \in {"assess"} \cup Decided
        PROVE  pointer # None /\ PlanFor(pointer, run'[q].body) = run'[q].plan
    <3>1. q = p
      BY <1>7, <2>2 DEF Decided, Writing
    <3>2. QED
      BY <1>2, <2>2, <3>1 DEF Confirmed
  <2>3. QED
    BY <2>1, <2>2 DEF Confirmed, PlanFor
<1>17. BodyRead'
  BY <1>2, <1>7 DEF BodyRead, Reading, Writing
<1>18. QED
  BY <1>6, <1>9, <1>10, <1>11, <1>12, <1>13, <1>14, <1>15, <1>16, <1>17 DEF NothingNeededPruned

\* Writing a snapshot into staging keeps the invariant.
LEMMA StageInv == ASSUME IInv, NEW p \in Procs, Stage(p) PROVE IInv'
<1> USE DEF At
<1>1. run[p].pc = "stage" /\ UNCHANGED <<live, pointer, aged, held, events, lock, shown, used>>
  BY DEF Stage
<1>2. lock = p /\ run[p] \in RunRec /\ run \in [Procs -> RunRec] /\ TypeOK
  BY <1>1, AtWork
<1> DEFINE i == CHOOSE i \in Fresh : TRUE
           s == [stage |-> "staged", gen |-> NextGeneration, body |-> run[p].body, prev |-> run[p].base,
                 accepted |-> run[p].kind = "accept"]
           r == [run[p] EXCEPT !.new = i, !.pc = "publish"]
<1>3. i \in Ids /\ snap[i].stage = "none"
  BY DEF Stage, Fresh
<1>4. snap' = [snap EXCEPT ![i] = s] /\ run' = [run EXCEPT ![p] = r]
  BY <1>2 DEF Stage
<1>5. /\ NextGeneration \in Nat /\ \A j \in OnDisk : snap[j].gen < NextGeneration
      /\ \E n \in Nat : NextGeneration <= n /\ \A j \in Ids : snap[j].gen <= n
  BY <1>2, NextIsHigher DEF IInv, Inv, NothingNeededPruned
<1> HIDE DEF i
<1>6. (run[p].kind = "accept") \in BOOLEAN
  OBVIOUS
<1>7. s \in SnapRec /\ s.stage = "staged" /\ s.gen = NextGeneration /\ s.body = run[p].body /\ s.prev = run[p].base
      /\ s.accepted = (run[p].kind = "accept")
  BY <1>2, <1>5, <1>6 DEF SnapRec, RunRec, Stages
<1>8. r \in RunRec /\ r.pc = "publish" /\ r.new = i /\ r.body = run[p].body /\ r.base = run[p].base /\ r.kind = run[p].kind
      /\ r.plan = run[p].plan
  BY <1>2, <1>3 DEF RunRec, PCs, Committing
<1>9. i \notin OnDisk /\ i \notin Committed
  BY <1>3 DEF OnDisk, Committed
<1>10. run[p].base # None => run[p].base \in Committed
  BY <1>1 DEF IInv, Inv, BaseStands
<1> HIDE DEF s, r
<1>11. r.pc \in Writing /\ run[p].pc \in Decided \ {"point"}
       /\ s.stage = (CASE r.pc = "publish" -> "staged" [] r.pc = "mark" -> "published" [] r.pc = "point" -> "committed")
  BY <1>1, <1>7, <1>8 DEF Writing, Decided
<1>12. QED
  BY <1>1, <1>2, <1>3, <1>4, <1>5, <1>7, <1>8, <1>9, <1>10, <1>11, WritingStep

\* Publishing a snapshot and marking it committed keep the invariant.
LEMMA AdvanceInv == ASSUME IInv, NEW p \in Procs, Publish(p) \/ Mark(p) PROVE IInv'
<1> USE DEF At
<1>1. /\ run[p].pc \in {"publish", "mark"} /\ UNCHANGED <<live, pointer, aged, held, events, lock, shown, used>>
      /\ run[p].pc = "publish" => Advance(p, "publish", "published", "mark")
      /\ run[p].pc = "mark" => Advance(p, "mark", "committed", "point")
  BY DEF Publish, Mark, Advance
<1>2. lock = p /\ run[p] \in RunRec /\ run \in [Procs -> RunRec] /\ TypeOK /\ snap \in [Ids -> SnapRec]
  BY <1>1, AtWork DEF TypeOK, SnapRec
<1> DEFINE i == run[p].new
           stage == IF run[p].pc = "publish" THEN "published" ELSE "committed"
           to == IF run[p].pc = "publish" THEN "mark" ELSE "point"
           s == [snap[i] EXCEPT !.stage = stage]
           r == [run[p] EXCEPT !.pc = to]
<1>3. /\ i \in Ids /\ snap[i].body = run[p].body /\ snap[i].prev = run[p].base
      /\ snap[i].accepted = (run[p].kind = "accept")
      /\ snap[i].stage = IF run[p].pc = "publish" THEN "staged" ELSE "published"
      /\ run[p].pc = "publish" => \A j \in OnDisk : snap[j].gen < snap[i].gen
  BY <1>1 DEF IInv, Inv, NewIsMine, Writing
<1>4. snap' = [snap EXCEPT ![i] = s] /\ run' = [run EXCEPT ![p] = r]
  BY <1>1, <1>2, <1>3 DEF Advance, Go
<1>5. \A j \in OnDisk \ {i} : snap[j].gen # snap[i].gen
  <2>1. CASE run[p].pc = "publish"
    BY <1>2, <1>3, <2>1, StoreSets DEF SnapRec
  <2>2. CASE run[p].pc = "mark"
    BY <1>3, <2>2 DEF IInv, Inv, GenerationsUnique, OnDisk
  <2>3. QED
    BY <1>1, <2>1, <2>2
<1>6. \E n \in Nat : snap[i].gen <= n /\ \A j \in Ids : snap[j].gen <= n
  BY <1>3 DEF IInv, Numbered
<1>7. stage \in Stages /\ to \in PCs /\ to \in {"mark", "point"}
      /\ stage = (CASE to = "publish" -> "staged" [] to = "mark" -> "published" [] to = "point" -> "committed")
  BY DEF Stages, PCs, Committing
<1> HIDE DEF i, stage, to
<1>8. s \in SnapRec /\ s.stage = stage /\ s.gen = snap[i].gen /\ s.body = snap[i].body /\ s.prev = snap[i].prev
      /\ s.accepted = snap[i].accepted
  BY <1>2, <1>3, <1>7 DEF SnapRec
<1>9. r \in RunRec /\ r.pc = to /\ r.new = i /\ r.body = run[p].body /\ r.base = run[p].base /\ r.kind = run[p].kind
      /\ r.plan = run[p].plan
  BY <1>2, <1>7 DEF RunRec, i
<1>10. i \notin Committed
  BY <1>3 DEF Committed
<1>11. run[p].base # None => run[p].base \in Committed
  BY <1>1 DEF IInv, Inv, BaseStands
<1> HIDE DEF s, r
<1>12. r.pc \in Writing /\ r.pc # "publish" /\ run[p].pc \in Decided \ {"point"}
       /\ s.stage = (CASE r.pc = "publish" -> "staged" [] r.pc = "mark" -> "published" [] r.pc = "point" -> "committed")
       /\ s.accepted = (r.kind = "accept")
  BY <1>1, <1>3, <1>7, <1>8, <1>9 DEF Writing, Decided
<1>13. \A j \in OnDisk \ {i} : snap[j].gen < s.gen \/ (r.pc # "publish" /\ s.gen # snap[j].gen)
  BY <1>5, <1>8, <1>12
<1>14. (\E n \in Nat : s.gen <= n /\ \A j \in Ids : snap[j].gen <= n)
       /\ r.new = i /\ s.body = r.body /\ s.prev = r.base /\ (r.base # None => r.base \in Committed)
  BY <1>3, <1>6, <1>8, <1>9, <1>11
<1>15. QED
  BY <1>1, <1>2, <1>3, <1>4, <1>8, <1>9, <1>10, <1>12, <1>13, <1>14, WritingStep

-----------------------------------------------------------------------------
(* What happens around the programs. *)

\* A step that leaves store, pointer, lock and processes alone keeps the invariant.
LEMMA AroundStep ==
    ASSUME IInv, UNCHANGED <<snap, pointer, lock, run>>, TypeOK', shown \subseteq shown', HoldsAndWritesCount',
           used'["hold"] = 0 => used["hold"] = 0
    PROVE  IInv'
<1> USE DEF IInv, Inv
<1>1. Committed' = Committed /\ OnDisk' = OnDisk
  BY DEF Committed, OnDisk
<1>2. (GenerationsUnique /\ NothingNeededPruned)'
  BY <1>1 DEF GenerationsUnique, NothingNeededPruned, LatestGoodStands, DecisionsKept
<1>3. (LockHeld /\ NewIsMine /\ BaseStands /\ BodyRead)'
  BY <1>1 DEF LockHeld, NewIsMine, BaseStands, BodyRead
<1>4. Judged'
  BY <1>1 DEF Judged, SuspiciousDrop
<1>5. Confirmed'
  BY DEF Confirmed, PlanFor
<1>6. Numbered'
  BY DEF Numbered
<1>7. QED
  BY <1>2, <1>3, <1>4, <1>5, <1>6

\* What happens around the store keeps the invariant.
LEMMA AroundInv == ASSUME IInv, Around PROVE IInv'
<1>1. TypeOK /\ HoldsAndWritesCount
  BY DEF IInv, Inv, GenerationsUnique
<1> USE GuardianAssumption
<1>2. CASE Preview
  <2>1. Pointed \in Ids /\ live.body \in Bodies
    BY <1>1, <1>2 DEF Preview, Pointed, Judge, TypeOK, States
  <2>2. PlanFor(Pointed, live.body) \in Plan
    BY <2>1 DEF PlanFor, Plan
  <2>3. TypeOK' /\ used'["hold"] = used["hold"] /\ used'["write"] = used["write"]
    BY <1>1, <1>2, <2>2 DEF Preview, TypeOK
  <2>4. HoldsAndWritesCount' /\ shown \subseteq shown' /\ UNCHANGED <<snap, pointer, lock, run>>
    BY <1>1, <1>2, <2>3 DEF Preview, HoldsAndWritesCount
  <2>5. QED
    BY <2>3, <2>4, AroundStep
<1>3. CASE Write
  <2>1. PICK b \in States \ {live.body} : live' = [body |-> b, sig |-> live.sig + 1]
    BY <1>3 DEF Write
  <2>2. /\ used' \in [{"write", "mishap", "hold", "preview"} -> Nat] /\ used'["hold"] = used["hold"]
        /\ used'["write"] = used["write"] + 1 /\ used["write"] < MaxWrites
    BY <1>1, <1>3, Spent DEF Write
  <2>3. live.sig \in 0..MaxWrites /\ live.sig <= used["write"] /\ used["write"] \in Nat
    BY <1>1 DEF TypeOK, HoldsAndWritesCount
  <2>4. live'.sig \in 0..MaxWrites /\ live'.sig <= used'["write"]
    BY <2>1, <2>2, <2>3
  <2>5. TypeOK'
    <3>1. live' \in [body : States, sig : 0..MaxWrites]
      BY <2>1, <2>4
    <3>2. QED
      BY <1>1, <1>3, <2>2, <3>1 DEF Write, TypeOK
  <2>6. HoldsAndWritesCount' /\ shown \subseteq shown' /\ UNCHANGED <<snap, pointer, lock, run>>
    BY <1>1, <1>3, <2>2, <2>4 DEF Write, HoldsAndWritesCount
  <2>7. QED
    BY <2>2, <2>5, <2>6, AroundStep
<1>4. CASE SilentWrite
  <2>1. PICK b \in Bodies \ {live.body} : live' = [live EXCEPT !.body = b]
    BY <1>4 DEF SilentWrite
  <2>2. /\ used' \in [{"write", "mishap", "hold", "preview"} -> Nat] /\ used'["hold"] = used["hold"]
        /\ used'["write"] = used["write"] + 1 /\ used["write"] \in Nat
    BY <1>1, <1>4 DEF SilentWrite, TypeOK
  <2>3. live' \in [body : States, sig : 0..MaxWrites] /\ live'.sig = live.sig /\ live.sig \in Nat
    BY <1>1, <2>1 DEF TypeOK, States
  <2>4. TypeOK'
    BY <1>1, <1>4, <2>2, <2>3 DEF SilentWrite, TypeOK
  <2>5. HoldsAndWritesCount' /\ shown \subseteq shown' /\ UNCHANGED <<snap, pointer, lock, run>>
    BY <1>1, <1>4, <2>2, <2>3 DEF SilentWrite, HoldsAndWritesCount
  <2>6. QED
    BY <2>2, <2>4, <2>5, AroundStep
<1>5. CASE Hold
  <2>1. /\ used' \in [{"write", "mishap", "hold", "preview"} -> Nat]
        /\ used'["hold"] = used["hold"] + 1 /\ used'["write"] = used["write"] /\ used["hold"] \in Nat
    BY <1>1, <1>5 DEF Hold, TypeOK
  <2>2. held' \in [what : Ids \union {None, PointerFile}, manifest : BOOLEAN]
    BY <1>5, StoreSets DEF Hold
  <2>3. TypeOK'
    BY <1>1, <1>5, <2>1, <2>2 DEF Hold, TypeOK
  <2>4. HoldsAndWritesCount' /\ shown \subseteq shown' /\ UNCHANGED <<snap, pointer, lock, run>> /\ used'["hold"] # 0
    BY <1>1, <1>5, <2>1 DEF Hold, HoldsAndWritesCount
  <2>5. QED
    BY <2>3, <2>4, AroundStep
<1>6. CASE Release
  <2>1. NotHeld \in [what : Ids \union {None, PointerFile}, manifest : BOOLEAN]
    BY DEF NotHeld
  <2>2. TypeOK' /\ HoldsAndWritesCount' /\ shown \subseteq shown' /\ UNCHANGED <<snap, pointer, lock, run, used>>
    BY <1>1, <1>6, <2>1 DEF Release, TypeOK, HoldsAndWritesCount
  <2>3. QED
    BY <2>2, AroundStep
<1>7. CASE \E i \in Ids : Age(i)
  <2>1. TypeOK' /\ HoldsAndWritesCount' /\ shown \subseteq shown' /\ UNCHANGED <<snap, pointer, lock, run, used>>
    BY <1>1, <1>7 DEF Age, TypeOK, HoldsAndWritesCount
  <2>2. QED
    BY <2>1, AroundStep
<1>8. QED
  BY <1>2, <1>3, <1>4, <1>5, <1>6, <1>7 DEF Around

\* A step that changes nothing keeps the invariant.
LEMMA StutterInv == ASSUME IInv, UNCHANGED vars PROVE IInv'
<1>1. TypeOK' /\ HoldsAndWritesCount'
  BY DEF vars, IInv, Inv, GenerationsUnique, TypeOK, HoldsAndWritesCount
<1>2. QED
  BY <1>1, AroundStep DEF vars

-----------------------------------------------------------------------------
(* The invariant, and what follows from it. *)

\* Every step keeps the invariant.
LEMMA StepInv == IInv /\ [Next]_vars => IInv'
<1> SUFFICES ASSUME IInv, [Next]_vars PROVE IInv'
  OBVIOUS
<1>1. CASE UNCHANGED vars
  BY <1>1, StutterInv
<1>2. CASE Around
  BY <1>2, AroundInv
<1>3. ASSUME NEW p \in Procs, Step(p) \/ Start(p) \/ Stop(p) \/ Fail(p) \/ Crash(p) PROVE IInv'
  <2>1. CASE Start(p)
    BY <2>1, StartInv
  <2>2. CASE Stop(p) \/ Fail(p) \/ Crash(p) \/ Keep(p)
    BY <2>2, EndingInv DEF Keep
  <2>3. CASE Look(p)
    BY <2>3, QuietLookInv, RebuildingLookInv DEF Look
  <2>4. CASE Commit(p)
    BY <2>4, BaselineInv, StageInv, AdvanceInv, PointInv, PruneInv, EndingInv DEF Commit
  <2>5. QED
    BY <1>3, <2>1, <2>2, <2>3, <2>4 DEF Step
<1>4. QED
  BY <1>1, <1>2, <1>3 DEF Next

\* Guardian's store is consistent at every step of every program.
THEOREM Invariance == Spec => []Inv
<1>1. IInv => Inv
  BY DEF IInv
<1>2. QED
  BY <1>1, InitInv, StepInv, PTL DEF Spec

\* No generation number is issued twice (guardian_store._next_generation),
\* whatever program crashed between marker and pointer and whatever file could
\* not be read when the number was taken.
THEOREM NumbersAreUnique == Spec => []GenerationsUnique
<1>1. Inv => GenerationsUnique
  BY DEF Inv
<1>2. QED
  BY <1>1, Invariance, PTL

\* Retention and a rebuilt pointer never leave latest-good naming a snapshot
\* that is gone, nor an accepted snapshot without the baseline it overrode
\* (guardian_retention.prune_snapshots).
THEOREM WhatIsNeededStays == Spec => []NothingNeededPruned
<1>1. Inv => NothingNeededPruned
  BY DEF Inv
<1>2. QED
  BY <1>1, Invariance, PTL

\* While every file can be read, only a commit gives latest-good another name.
LEMMA OnlyPointMovesPointer ==
    ASSUME IInv, [Next]_vars, used["hold"] = 0, pointer # None, pointer' # pointer
    PROVE  \E p \in Procs : Point(p) /\ run[p].new \in Verified /\ pointer' = run[p].new
<1>1. TypeOK /\ LatestGoodStands /\ held = NotHeld
  BY DEF IInv, Inv, GenerationsUnique, NothingNeededPruned, HoldsAndWritesCount
<1>2. Resolved = pointer
  BY <1>1, PointerResolves
<1>3. ~Rebuild
  BY <1>2 DEF Rebuild
<1>4. PICK p \in Procs : Step(p) \/ Start(p) \/ Stop(p) \/ Fail(p) \/ Crash(p)
  BY DEF Next, vars, Around, Preview, Write, SilentWrite, Hold, Release, Age
<1>5. ~Start(p) /\ ~Stop(p) /\ ~Fail(p) /\ ~Crash(p) /\ ~Keep(p)
  BY DEF Start, StartWatch, StartOnce, StartAccept, StartAs, Stop, Fail, Crash, Keep, Quarantine, Supersede
<1>6. ~Look(p)
  BY <1>3 DEF Look, VerifyStore, PollChanged, PollFallback, Debounce, ReadFirst, ReadAgain, Note, Confirm, Assess
<1>7. Point(p)
  BY <1>3, <1>4, <1>5, <1>6 DEF Step, Commit, Baseline, Stage, Refused, Publish, Mark, Advance, Prune
<1>8. QED
  BY <1>2, <1>7 DEF Point

\* As long as every file of the store can be read, latest-good moves to a newer
\* snapshot only if that is no suspicious shrink of it, or if a person was
\* shown and confirmed this very drop (guardian_runner.accept, _assess_shrink).
THEOREM DropsAreConfirmed == Spec => NothingSuspiciousUnasked
<1>1. IInv /\ [Next]_vars => [used["hold"] = 0 => MovesOnlyAsked]_vars
  <2> SUFFICES ASSUME IInv, [Next]_vars, used["hold"] = 0, pointer # None, pointer' # pointer
               PROVE  ~Shrinks(pointer, pointer') \/ Asked(pointer, pointer')
    BY DEF MovesOnlyAsked
  <2>1. PICK p \in Procs : Point(p) /\ run[p].new \in Verified /\ pointer' = run[p].new
    BY OnlyPointMovesPointer
  <2> DEFINE i == run[p].new
  <2>2. run[p].pc = "point" /\ UNCHANGED snap
    BY <2>1 DEF Point, At
  <2>3. snap[i].body = run[p].body /\ snap[i].accepted = (run[p].kind = "accept")
    BY <2>2 DEF IInv, Inv, NewIsMine, Writing
  <2>4. run[p].pc \in Decided
    BY <2>2 DEF Decided, Writing
  <2>5. CASE run[p].kind # "accept"
    <3>1. ~SuspiciousDrop(SizeOf[snap[pointer].body], SizeOf[run[p].body])
      BY <2>4, <2>5 DEF IInv, Inv, Judged
    <3>2. QED
      BY <2>1, <2>2, <2>3, <3>1 DEF Shrinks
  <2>6. CASE run[p].kind = "accept"
    <3>1. run[p].plan \in shown /\ PlanFor(pointer, run[p].body) = run[p].plan
      BY <2>4, <2>6 DEF IInv, Inv, Confirmed
    <3>2. QED
      BY <2>1, <2>2, <2>3, <2>6, <3>1 DEF Asked
  <2>7. QED
    BY <2>5, <2>6
<1>2. QED
  BY <1>1, InitInv, StepInv, PTL DEF Spec, NothingSuspiciousUnasked
=============================================================================
