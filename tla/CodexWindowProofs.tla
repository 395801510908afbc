------------------------- MODULE CodexWindowProofs -------------------------
(***************************************************************************)
(* First: what an edit of .codex-global-state.json never does, for every   *)
(* set of projects, chats, folders and files and every bound, whatever     *)
(* Codex, persons, kills and refused renames do in between.  Second: what  *)
(* asking Codex to quit never does, and when a write may begin, whatever   *)
(* processes start, end and take numbers between any two readings.  Third: *)
(* what the window's pages show and apply, whatever is pressed, saved,     *)
(* opened, answered or given up while their jobs run.                      *)
(***************************************************************************)
EXTENDS CodexState, CodexClosing, Pages, FiniteSetTheorems, TLAPS

Ops == {"chats", "repair", "restore", "move", "rollback"}
PlanType == [op : Ops, original : States, after : States, inv : Content \cup {None}, complete : BOOLEAN]
BeforeCopy == {"prepare", "mark", "copy"}
Commit == {"begin", "enter", "look", "replace"}
PCs == BeforeCopy \cup {"rename", "clean", "unstamp"} \cup Commit \cup {"settle", "forget", "undo"}
RunType == [pc : PCs, plan : PlanType, copied : SUBSET Files, looked : Content, raced : BOOLEAN, seen : SUBSET Chats]

Typed ==
    /\ saved = None \/ saved \in [plan : PlanType, seen : SUBSET Chats]
    /\ run = Idle \/ run \in RunType
    /\ left \in States \cup {None}
    /\ stagings \subseteq [plan : PlanType, marked : BOOLEAN]
    /\ files \in [Places -> Content \cup {None}]
    /\ stamped \in BOOLEAN /\ spent \in [events : Nat, runs : Nat, mishaps : Nat]

\* A chat the plan knew of stays with a project whose root the plan rewrites.
Keeps(plan, seen) ==
    \A c \in seen :
        LET p == Belongs(plan.original, c)
        IN p # None /\ plan.after.root[p] # plan.original.root[p] =>
              \/ Belongs(plan.after, c) = p
              \/ /\ plan.op = "repair" /\ Home[c] # plan.original.root[p]
                 /\ Belongs(plan.after, c) \in RootedAt(plan.original, Rule[Home[c]]) \cup RootedAt(plan.after, Rule[Home[c]])
PlansKeepChats ==
    /\ saved # None /\ saved.plan.op = "repair" => Keeps(saved.plan, saved.seen)
    /\ run # Idle /\ run.plan.op \in {"move", "repair"} => Keeps(run.plan, run.seen)

\* Until its edit is made, a move has the project in its old folder; what is
\* under the new name is what was copied, and what was looked at last.
MoveOnItsWay ==
    /\ run.pc \in BeforeCopy \cup {"rename", "clean", "unstamp"} => run.plan.op = "move"
    /\ run # Idle /\ run.plan.op = "move" =>
          /\ run.plan.inv \in Content
          /\ run.pc \notin {"settle", "forget", "undo"} => state.root[Moving] = Old
          /\ run.pc = "rename" => run.looked = run.plan.inv
          /\ run.pc \in {"unstamp"} \cup Commit => files[Target] = run.looked

\* The resume marker is there before the copy is, and goes after the edit.
MarkerFirst ==
    /\ run.pc \in BeforeCopy \cup {"rename"} => ~made
    /\ run.pc = "rename" => resume = run.plan.inv
    /\ run # Idle /\ run.plan.op = "move" /\ run.pc \in Commit \cup {"settle", "forget", "undo"} => ~stamped
    /\ run.pc = "forget" => run.plan.op = "move"

\* From the last look on, the state is the one the plan was made from, unless
\* Codex started since.
LookedAt == run.pc = "replace" => run.raced \/ (~codex /\ state = run.plan.original)

Inv == CopyHasItsMarker /\ Typed /\ PlansKeepChats /\ MoveOnItsWay /\ MarkerFirst /\ LookedAt

-----------------------------------------------------------------------------
(* What the plans are. *)

\* Only picks an element, and names the one there is.
LEMMA OnlyPicks ==
    ASSUME NEW S, IsFiniteSet(S)
    PROVE  /\ Only(S) # None => S = {Only(S)}
           /\ \A x : S = {x} => Only(S) = x
<1>1. Cardinality(S) = 1 <=> \E x : S = {x}
  BY FS_Singleton
<1>2. QED
  BY <1>1 DEF Only

\* The projects rooted at a folder are finitely many.
LEMMA RootsAreFinite == \A s, f : IsFiniteSet(RootedAt(s, f)) /\ RootedAt(s, f) \subseteq Projects
  BY StateAssumption, FS_Subset DEF RootedAt

\* The project a chat belongs to is one there is.
LEMMA BelongsSomewhere ==
    ASSUME NEW s, NEW c
    PROVE  /\ s.bind[c] # None => Belongs(s, c) = s.bind[c]
           /\ s.bind[c] = None /\ Belongs(s, c) # None => RootedAt(s, Home[c]) = {Belongs(s, c)}
  BY OnlyPicks, RootsAreFinite DEF Belongs

\* A chat that a repair gives to a project reaches it at the mapped folder, or through a root that maps there.
LEMMA GivenIsReached ==
    ASSUME NEW c \in known, Given[c] # None
    PROVE  /\ Given[c] \in Projects /\ Given[c] \in Reached(c) \cup Renamed(c)
           /\ Mapped(c) = Rule[Home[c]] /\ Mapped(c) # None
<1>1. IsFiniteSet(Reached(c) \cup Renamed(c)) /\ Reached(c) \cup Renamed(c) \subseteq Projects
  BY RootsAreFinite, FS_Subset, FS_EmptySet, StateAssumption DEF Reached, Renamed
<1>2. Given[c] = Only(Reached(c) \cup Renamed(c))
  BY DEF Given
<1>3. Given[c] \in Reached(c) \cup Renamed(c)
  BY <1>1, <1>2, OnlyPicks
<1>4. QED
  BY <1>1, <1>3 DEF Reached, Renamed, There, Mapped

\* A remapped project is the only one that has its root.
LEMMA RemappedAlone ==
    ASSUME NEW p \in Remapped, NEW q \in Projects, state.root[q] = state.root[p] PROVE q = p
  BY DEF Remapped, Renamed

\* The remapped project whose root a chat is under has that root, and is the only one with it when there is one.
LEMMA RemapsOfOldRoot ==
    ASSUME NEW c \in known
    PROVE  /\ UnderRemaps[c] # None => UnderRemaps[c] \in Remapped /\ state.root[UnderRemaps[c]] = Home[c]
           /\ \A p \in Remapped : state.root[p] = Home[c] => UnderRemaps[c] = p
<1> DEFINE S == RootedAt(state, Home[c]) \cap Remapped
<1>1. IsFiniteSet(S)
  BY RootsAreFinite, FS_Subset
<1>2. UnderRemaps[c] = Only(S)
  BY DEF UnderRemaps
<1>3. \A p \in Remapped : state.root[p] = Home[c] => S = {p}
  BY RemappedAlone DEF RootedAt, Remapped
<1>4. QED
  BY <1>1, <1>2, <1>3, OnlyPicks DEF RootedAt

\* What a repair writes: a chat under a root that is replaced is bound to its
\* project, and a plan that would leave one out is refused.
LEMMA RepairKeepsChats ==
    ASSUME TypeOK, NEW plan \in RepairPlans PROVE Keeps(plan, known)
<1> SUFFICES ASSUME NEW c \in known, NEW p, p = Belongs(state, c), p # None, plan.after.root[p] # state.root[p],
                    ~(Home[c] # state.root[p] /\ Belongs(plan.after, c) \in RootedAt(state, Rule[Home[c]]) \cup RootedAt(plan.after, Rule[Home[c]]))
             PROVE  Belongs(plan.after, c) = p
  BY DEF Keeps, RepairPlans, Plan
<1>1. /\ Orphans = {} /\ c \in Chats
      /\ plan.after.root = [q \in Projects |-> NewRoot(q)] /\ plan.after.bind[c] = Assigned(c)
  <2>1. Orphans = {} /\ plan = Plan("repair", state, [state EXCEPT !.root = [q \in Projects |-> NewRoot(q)],
                                                                !.bind = [d \in Chats |-> Assigned(d)]])
    BY DEF RepairPlans
  <2>2. c \in Chats /\ state \in States
    BY DEF TypeOK
  <2>3. QED
    BY <2>1, <2>2 DEF Plan, States
<1>2. p \in Projects
  <2>1. state.bind[c] \in Projects \cup {None}
    BY <1>1 DEF TypeOK, States
  <2>2. state.bind[c] = None => p \in RootedAt(state, Home[c])
    BY BelongsSomewhere
  <2>3. QED
    BY <2>1, <2>2, BelongsSomewhere, RootsAreFinite
<1>3. p \in Remapped
  BY <1>1, <1>2 DEF NewRoot
<1>4. Given[c] = None => Assigned(c) = p
  <2> SUFFICES ASSUME Given[c] = None PROVE Assigned(c) = p
    OBVIOUS
  <2>1. CASE UnderRemaps[c] = None
    <3>1. state.root[p] # Home[c]
      BY <1>3, <2>1, RemapsOfOldRoot, <1>2, StateAssumption
    <3>2. state.bind[c] = p
      BY <3>1, BelongsSomewhere DEF RootedAt
    <3>3. QED
      BY <2>1, <3>2 DEF Assigned
  <2>2. CASE UnderRemaps[c] # None
    <3>1. UnderRemaps[c] = p
      <4>1. CASE state.bind[c] = None
        BY <4>1, <1>3, BelongsSomewhere, RemapsOfOldRoot DEF RootedAt
      <4>2. CASE state.bind[c] # None
        BY <4>2, <2>2, <1>1, BelongsSomewhere DEF Orphans, Elsewhere
      <4>3. QED
        BY <4>1, <4>2
    <3>2. QED
      BY <2>2, <3>1 DEF Assigned
  <2>3. QED
    BY <2>1, <2>2
<1>5. Given[c] # None => Given[c] = p
  <2> SUFFICES ASSUME Given[c] # None, Given[c] # p PROVE FALSE
    OBVIOUS
  <2>1. state.root[p] # Home[c]
    <3>1. SUFFICES ASSUME state.root[p] = Home[c] PROVE FALSE
      OBVIOUS
    <3>2. UnderRemaps[c] = p
      BY <1>3, <3>1, RemapsOfOldRoot
    <3>3. QED
      BY <1>1, <3>2 DEF Orphans, Elsewhere
  <2>2. Given[c] \in Projects /\ Given[c] \in Reached(c) \cup Renamed(c) /\ Mapped(c) = Rule[Home[c]] /\ Mapped(c) # None
    BY GivenIsReached
  <2>3. plan.after.bind[c] = Given[c]
    BY <1>1 DEF Assigned
  <2>4. Belongs(plan.after, c) = Given[c]
    BY <2>3, BelongsSomewhere
  <2>5. Given[c] \in Reached(c) => Given[c] \in RootedAt(state, Rule[Home[c]])
    BY <2>2 DEF Reached
  <2>6. ASSUME Given[c] \in Renamed(c) PROVE Given[c] \in RootedAt(plan.after, Rule[Home[c]])
    <3>1. Reached(c) = {} /\ Rule[state.root[Given[c]]] = Mapped(c)
      BY <2>6 DEF Renamed
    <3>2. IsFiniteSet(Renamed(c)) /\ Given[c] = Only(Renamed(c))
      BY <3>1, StateAssumption, FS_Subset, FS_EmptySet DEF Renamed, Given
    <3>3. Renamed(c) = {Given[c]}
      BY <3>2, OnlyPicks
    <3>4. Given[c] \in Remapped /\ \A d \in known : Renamed(d) = {Given[c]} => Mapped(d) = Mapped(c)
      BY <2>2, <3>1, <3>3 DEF Remapped, Renamed
    <3>5. NewRoot(Given[c]) = Mapped(c)
      BY <3>3, <3>4 DEF NewRoot
    <3>6. QED
      BY <1>1, <2>2, <3>5 DEF RootedAt
  <2>7. QED
    BY <2>1, <2>2, <2>4, <2>5, <2>6
<1>6. QED
  <2>1. plan.after.bind[c] = p
    BY <1>1, <1>4, <1>5 DEF Assigned
  <2>2. QED
    BY <2>1, BelongsSomewhere


\* A move binds the chats that reach the project through its old folder.
LEMMA MoveKeepsChats ==
    ASSUME TypeOK, NEW plan \in MovePlans PROVE Keeps(plan, known)
<1>1. /\ plan.original = state /\ state \in States /\ known \subseteq Chats
      /\ plan.after = [state EXCEPT !.root[Moving] = Target,
                                    !.bind = [c \in Chats |-> IF c \in Pinned THEN Moving ELSE state.bind[c]]]
      /\ state.root[Moving] = Old
  BY DEF MovePlans, Movable, TypeOK
<1>2. \A c \in known : plan.after.bind[c] = IF c \in Pinned THEN Moving ELSE state.bind[c]
  BY <1>1 DEF States
<1>3. \A p : plan.after.root[p] # state.root[p] => p = Moving
  BY <1>1 DEF States
<1>4. ASSUME NEW c \in known, Belongs(state, c) = Moving PROVE Belongs(plan.after, c) = Moving
  <2>1. c \in Pinned \/ state.bind[c] = Moving
    BY <1>1, <1>4, BelongsSomewhere DEF Pinned, RootedAt
  <2>2. plan.after.bind[c] = Moving
    BY <1>2, <2>1
  <2>3. QED
    BY <2>2, BelongsSomewhere, StateAssumption
<1>5. QED
  BY <1>1, <1>3, <1>4 DEF Keeps

\* What a tool plans is a plan.
LEMMA PlanIsTyped ==
    ASSUME NEW op \in Ops, NEW s \in States, NEW t \in States
    PROVE  Plan(op, s, t) \in PlanType /\ Plan(op, s, t).op = op /\ Plan(op, s, t).inv = None
  BY DEF Plan, PlanType

\* The plans of a repair are plans.
LEMMA RepairIsTyped == ASSUME TypeOK PROVE RepairPlans \subseteq {plan \in PlanType : plan.op = "repair" /\ plan.inv = None}
<1>1. \A p \in Projects : NewRoot(p) \in Folders
  <2>1. \A c \in known : Renamed(c) # {} => Mapped(c) \in Folders
    BY StateAssumption DEF Renamed, There, Mapped, TypeOK
  <2>2. \A p \in Remapped : \E c \in known : Renamed(c) = {p}
    BY DEF Remapped
  <2>3. QED
    BY <2>1, <2>2 DEF NewRoot, TypeOK, States
<1>2. \A c \in Chats : Assigned(c) \in Projects \cup {None}
  BY GivenIsReached, RemapsOfOldRoot DEF Assigned, Remapped, TypeOK, States
<1>3. [state EXCEPT !.root = [p \in Projects |-> NewRoot(p)], !.bind = [c \in Chats |-> Assigned(c)]] \in States
  BY <1>1, <1>2 DEF TypeOK, States
<1>4. QED
  <2> DEFINE after == [state EXCEPT !.root = [p \in Projects |-> NewRoot(p)], !.bind = [c \in Chats |-> Assigned(c)]]
  <2>1. RepairPlans \subseteq {Plan("repair", state, after)}
    BY DEF RepairPlans
  <2>2. Plan("repair", state, after) \in PlanType /\ Plan("repair", state, after).op = "repair" /\ Plan("repair", state, after).inv = None
    BY <1>3, PlanIsTyped DEF Ops, TypeOK
  <2>3. QED
    BY <2>1, <2>2

\* The plans that bind chats are plans.
LEMMA ChatsAreTyped == ASSUME TypeOK PROVE ChatsPlans \subseteq {plan \in PlanType : plan.op = "chats" /\ plan.inv = None}
<1> SUFFICES ASSUME NEW x \in known \X Projects
             PROVE  Plan("chats", state, [state EXCEPT !.bind[x[1]] = x[2]]) \in PlanType
  BY DEF ChatsPlans, Plan
<1>1. [state EXCEPT !.bind[x[1]] = x[2]] \in States
  BY DEF TypeOK, States
<1>2. QED
  BY <1>1, PlanIsTyped DEF Ops, TypeOK

\* The plans of a restore are plans.
LEMMA RestoreIsTyped == ASSUME TypeOK PROVE RestorePlans \subseteq {plan \in PlanType : plan.op = "restore" /\ plan.inv = None}
  BY StateAssumption, PlanIsTyped DEF RestorePlans, Ops, TypeOK

\* The plans of a move are plans, made of the files as they were listed.
LEMMA MoveIsTyped ==
    ASSUME TypeOK
    PROVE  MovePlans \subseteq {plan \in PlanType : /\ plan.op = "move" /\ plan.inv = files[Old] /\ state.root[Moving] = Old
                                                   /\ (plan.complete <=> files[Target] # None)
                                                   /\ (plan.complete => files[Target] = files[Old])}
<1> SUFFICES ASSUME NEW plan \in MovePlans
             PROVE  /\ plan \in PlanType /\ plan.op = "move" /\ plan.inv = files[Old] /\ state.root[Moving] = Old
                    /\ (plan.complete <=> files[Target] # None)
                    /\ (plan.complete => files[Target] = files[Old])
  OBVIOUS
<1> DEFINE after == [state EXCEPT !.root[Moving] = Target,
                                  !.bind = [c \in Chats |-> IF c \in Pinned THEN Moving ELSE state.bind[c]]]
<1>1. Movable /\ plan = [op |-> "move", original |-> state, inv |-> files[Old], complete |-> files[Target] # None, after |-> after]
  BY DEF MovePlans
<1>2. after \in States
  BY StateAssumption DEF TypeOK, States, Folders, Places
<1>3. (files[Target] # None) \in BOOLEAN
  OBVIOUS
<1>4. plan \in PlanType
  BY <1>1, <1>2, <1>3 DEF PlanType, Ops, TypeOK
<1>5. QED
  BY <1>1, <1>4 DEF Movable, CopyComplete

-----------------------------------------------------------------------------
\* The invariant holds at first.
LEMMA InitInv == Init => Inv
<1> SUFFICES ASSUME Init PROVE Inv
  OBVIOUS
<1> USE StateAssumption DEF Init
<1>1. TypeOK
  <2>1. files[Old] = [x \in Files |-> 1] /\ files[Target] = None
    BY DEF Places
  <2>2. [x \in Files |-> 1] \in Content
    BY DEF Content
  <2>3. QED
    BY <2>1, <2>2 DEF TypeOK
<1>2. files \in [Places -> Content \cup {None}]
  <2>1. [x \in Files |-> 1] \in Content
    BY DEF Content
  <2>2. QED
    BY <2>1
<1>3. QED
  BY <1>1, <1>2 DEF Inv, CopyHasItsMarker, Typed, PlansKeepChats, MoveOnItsWay, MarkerFirst, LookedAt, Idle,
     BeforeCopy, Commit

\* What a preview saves is one of the plans, with the chats it knew of.
LEMMA ScanStep == ASSUME Inv, NEW op \in {"chats", "repair", "restore", "move"}, Scan(op) PROVE Inv'
<1> USE DEF Inv
<1>1. TypeOK
  BY DEF CopyHasItsMarker
<1>2. PICK plan \in ChatsPlans \cup RestorePlans \cup RepairPlans \cup MovePlans : saved' = Kept(plan)
  BY DEF Scan, Plans
<1>3. plan \in PlanType /\ (plan.op = "repair" => plan \in RepairPlans)
  BY <1>1, ChatsAreTyped, RestoreIsTyped, RepairIsTyped, MoveIsTyped
<1>4. saved' = [plan |-> plan, seen |-> known] /\ known \subseteq Chats
  BY <1>1, <1>2 DEF Kept, TypeOK
<1>5. UNCHANGED <<state, codex, known, folders, run, left>> /\ spent'.events = spent.events
  BY DEF Scan, Typed
<1>6. PlansKeepChats'
  BY <1>1, <1>3, <1>4, <1>5, RepairKeepsChats DEF PlansKeepChats, Keeps
<1>7. Typed'
  <2>1. spent' \in [events : Nat, runs : Nat, mishaps : Nat]
    BY DEF Scan, Typed
  <2>2. saved' \in [plan : PlanType, seen : SUBSET Chats]
    BY <1>3, <1>4
  <2>3. QED
    BY <1>5, <2>1, <2>2 DEF Typed, folders
<1>8. (CopyHasItsMarker /\ MoveOnItsWay /\ MarkerFirst /\ LookedAt)'
  BY <1>5 DEF CopyHasItsMarker, TypeOK, MoveOnItsWay, MarkerFirst, LookedAt, folders
<1>9. QED
  BY <1>6, <1>7, <1>8

\* What is confirmed would be planned now: a move from the state, the files and
\* the chats that are there.
LEMMA ConfirmStep == ASSUME Inv, Confirm PROVE Inv'
<1> USE DEF Inv
<1>1. TypeOK
  BY DEF CopyHasItsMarker
<1> DEFINE plan == saved.plan
<1>2. plan \in PlanType /\ saved.seen \subseteq Chats /\ run = Idle
  BY DEF Confirm, Typed
<1>3. UNCHANGED <<state, codex, known, folders, saved, left, spent>> /\ StillPlanned(plan)
  BY DEF Confirm
<1> DEFINE first == CASE plan.op # "move" -> "begin" [] plan.op = "move" /\ plan.complete -> "unstamp" [] OTHER -> "prepare"
           seen == IF plan.op = "repair" THEN saved.seen ELSE known
<1>4. run' = [pc |-> first, plan |-> plan, copied |-> {}, looked |-> files[Old], raced |-> FALSE, seen |-> seen]
  BY DEF Confirm
<1>5. first \in {"begin", "unstamp", "prepare"} /\ (plan.op # "move" => first = "begin")
      /\ (plan.op = "move" => first = IF plan.complete THEN "unstamp" ELSE "prepare")
  OBVIOUS
<1>6. seen \subseteq Chats /\ (plan.op = "repair" => seen = saved.seen) /\ (plan.op = "move" => seen = known)
  BY <1>1, <1>2 DEF TypeOK
<1> HIDE DEF first, seen
<1>11. run' \in RunType
  <2>1. files[Old] \in Content /\ first \in PCs
    BY <1>1, <1>5 DEF TypeOK, PCs, BeforeCopy, Commit
  <2>2. QED
    BY <1>2, <1>4, <1>6, <2>1 DEF RunType
<1>7. plan.op = "move" => /\ plan \in MovePlans /\ plan.inv = files[Old] /\ state.root[Moving] = Old
                          /\ (plan.complete <=> files[Target] # None) /\ (plan.complete => files[Target] = files[Old])
  BY <1>1, <1>3, MoveIsTyped DEF StillPlanned, MoveStands
<1>8. PlansKeepChats'
  <2>1. run'.plan = plan /\ (plan.op = "repair" => run'.seen = saved.seen) /\ (plan.op = "move" => run'.seen = known)
    BY <1>4, <1>6
  <2>2. plan.op = "move" => Keeps(plan, known)
    BY <1>1, <1>7, MoveKeepsChats
  <2>3. saved' = saved /\ saved # None
    BY <1>3 DEF Confirm
  <2>4. QED
    BY <2>1, <2>2, <2>3 DEF PlansKeepChats, Keeps
<1>9. MoveOnItsWay' /\ MarkerFirst' /\ LookedAt'
  <2>1. plan.op # "move" => run'.pc = "begin"
    BY <1>4, <1>5
  <2>2. plan.op = "move" => run'.pc = IF plan.complete THEN "unstamp" ELSE "prepare"
    BY <1>4, <1>5
  <2>3. files' = files /\ made' = made /\ state' = state /\ run'.plan = plan /\ run'.looked = files[Old]
    BY <1>3, <1>4 DEF folders
  <2>4. QED
    BY <1>1, <1>7, <2>1, <2>2, <2>3 DEF MoveOnItsWay, MarkerFirst, LookedAt, CopyHasItsMarker, TypeOK, BeforeCopy, Commit
<1>10. QED
  BY <1>3, <1>11, <1>8, <1>9 DEF CopyHasItsMarker, TypeOK, Typed, folders

\* A step of a run that only moves on.
LEMMA RunIsTyped ==
    ASSUME Typed, run # Idle
    PROVE  /\ run \in RunType /\ run.plan \in PlanType
           /\ \A pc \in PCs : /\ [run EXCEPT !.pc = pc] \in RunType
                              /\ [run EXCEPT !.pc = pc].pc = pc /\ [run EXCEPT !.pc = pc].plan = run.plan
                              /\ [run EXCEPT !.pc = pc].seen = run.seen /\ [run EXCEPT !.pc = pc].looked = run.looked
                              /\ [run EXCEPT !.pc = pc].raced = run.raced
  BY DEF Typed, RunType

\* No run is under way exactly when it stands at idle.
LEMMA IdleIsIdle == Typed => (run = Idle <=> run.pc = "idle") /\ (run # Idle => run.pc \in PCs)
  BY DEF Typed, RunType, Idle, PCs, BeforeCopy, Commit

\* The copy of the folder.
LEMMA PrepareStep == ASSUME Inv, Prepare PROVE Inv'
<1> USE DEF Inv
<1>1. run # Idle /\ run.pc = "prepare" /\ UNCHANGED <<state, codex, known, files, stamped, resume, made, saved, left, spent>>
  BY DEF Prepare, At, Idle
<1>2. run' = Idle \/ (run' \in RunType /\ run'.pc = "mark" /\ run'.plan = run.plan /\ run'.seen = run.seen)
  <2>1. run' = Idle \/ run' = [run EXCEPT !.pc = "mark"]
    BY DEF Prepare, Goto
  <2>2. QED
    BY <1>1, <2>1, RunIsTyped DEF PCs, BeforeCopy
<1>3. /\ stagings' \subseteq [plan : PlanType, marked : BOOLEAN]
      /\ \A s \in stagings', t \in stagings' : s.plan = t.plan => s = t
  <2>1. CASE stagings' = stagings
    BY <2>1 DEF Typed, CopyHasItsMarker, TypeOK
  <2>2. CASE /\ {s \in stagings : s.plan = run.plan} \subseteq Ours
             /\ stagings' = (stagings \ Ours) \cup {[plan |-> run.plan, marked |-> FALSE]}
    <3>1. \A s \in stagings \ Ours : s.plan # run.plan
      BY <2>2
    <3>2. \A s \in stagings, t \in stagings : s.plan = t.plan => s = t
      BY DEF CopyHasItsMarker, TypeOK
    <3>3. run.plan \in PlanType /\ stagings \subseteq [plan : PlanType, marked : BOOLEAN]
      BY <1>1, RunIsTyped DEF Typed
    <3>4. [plan |-> run.plan, marked |-> FALSE] \in [plan : PlanType, marked : BOOLEAN]
      BY <3>3
    <3>5. stagings' \subseteq [plan : PlanType, marked : BOOLEAN]
      BY <2>2, <3>3, <3>4
    <3>6. ASSUME NEW s \in stagings', NEW t \in stagings', s.plan = t.plan PROVE s = t
      <4> DEFINE new == [plan |-> run.plan, marked |-> FALSE]
      <4>1. s \in stagings \ Ours \/ s = new
        BY <2>2, <3>6
      <4>2. t \in stagings \ Ours \/ t = new
        BY <2>2, <3>6
      <4>3. new.plan = run.plan
        OBVIOUS
      <4> HIDE DEF new
      <4>4. QED
        BY <3>1, <3>2, <3>6, <4>1, <4>2, <4>3
    <3>7. QED
      BY <3>5, <3>6
  <2>3. QED
    BY <2>1, <2>2 DEF Prepare
<1>4. (Typed /\ CopyHasItsMarker)'
  BY <1>1, <1>2, <1>3 DEF Typed, CopyHasItsMarker, TypeOK
<1>5. (PlansKeepChats /\ MoveOnItsWay /\ MarkerFirst /\ LookedAt)'
  BY <1>1, <1>2 DEF PlansKeepChats, Keeps, MoveOnItsWay, MarkerFirst, LookedAt, Idle, BeforeCopy, Commit
<1>6. QED
  BY <1>4, <1>5

\* Writing the marker keeps the invariant.
LEMMA MarkStep == ASSUME Inv, Mark PROVE Inv'
<1> USE DEF Inv
<1>1. run # Idle /\ run.pc = "mark" /\ UNCHANGED <<state, codex, known, files, stamped, resume, made, saved, left, spent>>
  BY DEF Mark, At, Idle
<1>2. run' \in RunType /\ run'.pc = "copy" /\ run'.plan = run.plan /\ run'.seen = run.seen
  <2>1. run' = [run EXCEPT !.pc = "copy"]
    BY DEF Mark, Goto
  <2>2. QED
    BY <1>1, <2>1, RunIsTyped DEF PCs, BeforeCopy
<1>3. /\ stagings' \subseteq [plan : PlanType, marked : BOOLEAN]
      /\ \A s \in stagings', t \in stagings' : s.plan = t.plan => s = t
  <2> DEFINE Stamp(s) == IF s.plan = run.plan THEN [s EXCEPT !.marked = TRUE] ELSE s
  <2>1. stagings' = {Stamp(s) : s \in stagings}
    BY DEF Mark
  <2>2. \A s \in stagings : Stamp(s).plan = s.plan /\ Stamp(s) \in [plan : PlanType, marked : BOOLEAN]
    BY DEF Typed
  <2>3. \A s \in stagings, t \in stagings : s.plan = t.plan => s = t
    BY DEF CopyHasItsMarker, TypeOK
  <2> HIDE DEF Stamp
  <2>4. QED
    BY <2>1, <2>2, <2>3
<1>4. (Typed /\ CopyHasItsMarker)'
  BY <1>1, <1>2, <1>3 DEF Typed, CopyHasItsMarker, TypeOK
<1>5. (PlansKeepChats /\ MoveOnItsWay /\ MarkerFirst /\ LookedAt)'
  BY <1>1, <1>2 DEF PlansKeepChats, Keeps, MoveOnItsWay, MarkerFirst, LookedAt, Idle, BeforeCopy, Commit
<1>6. QED
  BY <1>4, <1>5

\* Copying one file keeps the invariant.
LEMMA CopyStep == ASSUME Inv, NEW x \in Files, Copy(x) PROVE Inv'
<1> USE DEF Inv
<1>1. run # Idle /\ run.pc = "copy" /\ UNCHANGED <<state, codex, known, folders, saved, left, spent>>
  BY DEF Copy, At, Idle
<1>2. run' = [run EXCEPT !.copied = @ \cup {x}] \/ run' = [run EXCEPT !.pc = "clean"]
  BY DEF Copy
<1>3. /\ run' \in RunType /\ run'.plan = run.plan /\ run'.seen = run.seen /\ run'.looked = run.looked
      /\ run'.raced = run.raced /\ run'.pc \in {"copy", "clean"}
  BY <1>1, <1>2, RunIsTyped DEF RunType, PCs, BeforeCopy
<1>4. (Typed /\ CopyHasItsMarker)'
  BY <1>1, <1>3 DEF Typed, CopyHasItsMarker, TypeOK, folders
<1>5. (PlansKeepChats /\ MoveOnItsWay /\ MarkerFirst /\ LookedAt)'
  BY <1>1, <1>3 DEF PlansKeepChats, Keeps, MoveOnItsWay, MarkerFirst, LookedAt, Idle, PCs, BeforeCopy, Commit, folders
<1>6. QED
  BY <1>4, <1>5

\* Comparing the copy keeps the invariant.
LEMMA VerifyStep == ASSUME Inv, Verify PROVE Inv'
<1> USE DEF Inv
<1>1. run # Idle /\ run.pc = "copy" /\ UNCHANGED <<state, codex, known, files, stamped, stagings, made, saved, left, spent>>
  BY DEF Verify, At, Idle
<1>2. TypeOK /\ files[Old] \in Content /\ run.plan.op = "move" /\ run.plan.inv \in Content /\ ~made
  BY <1>1 DEF CopyHasItsMarker, TypeOK, MoveOnItsWay, BeforeCopy, MarkerFirst
<1>3. \/ run' = [run EXCEPT !.pc = "clean"] /\ resume' = resume
      \/ run' = [run EXCEPT !.pc = "rename", !.looked = files[Old]] /\ resume' = run.plan.inv /\ files[Old] = run.plan.inv
  BY DEF Verify, SourceUnchanged, Goto
<1>4. /\ run' \in RunType /\ run'.plan = run.plan /\ run'.seen = run.seen /\ run'.pc \in {"clean", "rename"}
      /\ run'.pc = "rename" => run'.looked = run.plan.inv /\ resume' = run.plan.inv
  <2>1. run \in RunType
    BY <1>1 DEF Typed
  <2>2. CASE run' = [run EXCEPT !.pc = "clean"]
    BY <1>1, <2>2, RunIsTyped DEF PCs
  <2>3. CASE /\ run' = [run EXCEPT !.pc = "rename", !.looked = files[Old]]
             /\ resume' = run.plan.inv /\ files[Old] = run.plan.inv
    BY <1>2, <2>1, <2>3 DEF RunType, PCs
  <2>4. QED
    BY <1>3, <2>2, <2>3
<1>5. (Typed /\ CopyHasItsMarker)'
  BY <1>1, <1>2, <1>3, <1>4 DEF Typed, CopyHasItsMarker, TypeOK
<1>6. (PlansKeepChats /\ MoveOnItsWay /\ MarkerFirst /\ LookedAt)'
  BY <1>1, <1>2, <1>4 DEF PlansKeepChats, Keeps, MoveOnItsWay, MarkerFirst, LookedAt, Idle, PCs, BeforeCopy, Commit
<1>7. QED
  BY <1>5, <1>6

\* Renaming the copy keeps the invariant.
LEMMA RenameStep == ASSUME Inv, Rename PROVE Inv'
<1> USE DEF Inv
<1>1. run # Idle /\ run.pc = "rename" /\ UNCHANGED <<state, codex, known, resume, saved, left, spent>>
  BY DEF Rename, At, Idle
<1>2. run' \in RunType /\ run'.pc = "unstamp" /\ run'.plan = run.plan /\ run'.seen = run.seen /\ run'.looked = run.looked
  <2>1. run' = [run EXCEPT !.pc = "unstamp"]
    BY DEF Rename, Goto
  <2>2. QED
    BY <1>1, <2>1, RunIsTyped DEF PCs
<1>3. /\ run.plan.op = "move" /\ run.plan.inv \in Content /\ run.looked = run.plan.inv /\ resume = run.plan.inv
      /\ state.root[Moving] = Old
  BY <1>1 DEF MoveOnItsWay, MarkerFirst
<1>4. /\ files'[Target] = run.plan.inv /\ files'[Old] = files[Old] /\ stamped' = TRUE /\ made' = TRUE
      /\ files' \in [Places -> Content \cup {None}] /\ stagings' \subseteq stagings
  BY <1>3, StateAssumption DEF Rename, Typed, CopyHasItsMarker, TypeOK, Places
<1>5. \A x \in Files : run.plan.inv[x] >= run.plan.inv[x]
  BY <1>3, StateAssumption DEF Content
<1>6. (Typed /\ CopyHasItsMarker)'
  BY <1>1, <1>2, <1>3, <1>4, <1>5, StateAssumption DEF Typed, CopyHasItsMarker, TypeOK
<1>7. (PlansKeepChats /\ MoveOnItsWay /\ MarkerFirst /\ LookedAt)'
  BY <1>1, <1>2, <1>3, <1>4 DEF PlansKeepChats, Keeps, MoveOnItsWay, MarkerFirst, LookedAt, Idle, BeforeCopy, Commit
<1>8. QED
  BY <1>6, <1>7

\* A copy that does not become the folder leaves no marker behind it.
LEMMA FailedCopyStep == ASSUME Inv, RenameRefused \/ Clean PROVE Inv'
<1> USE DEF Inv
<1>1. run # Idle /\ run.pc \in {"rename", "clean"} /\ UNCHANGED <<state, codex, known, files, stamped, made, saved, left>>
  BY DEF RenameRefused, Clean, At, Idle
<1>2. run' = Idle \/ (run' \in RunType /\ run'.pc = "clean" /\ run'.plan = run.plan /\ run'.seen = run.seen)
  <2>1. run' = Idle \/ run' = [run EXCEPT !.pc = "clean"]
    BY DEF RenameRefused, Clean, Goto
  <2>2. QED
    BY <1>1, <2>1, RunIsTyped DEF PCs
<1>3. /\ stagings' \subseteq stagings /\ spent' \in [events : Nat, runs : Nat, mishaps : Nat]
      /\ resume' = resume \/ (resume' = None /\ ~made)
  BY DEF RenameRefused, Clean, Mishap, Typed, MarkerFirst, At
<1>4. (Typed /\ CopyHasItsMarker)'
  BY <1>1, <1>2, <1>3 DEF Typed, CopyHasItsMarker, TypeOK
<1>5. (PlansKeepChats /\ MoveOnItsWay /\ MarkerFirst /\ LookedAt)'
  BY <1>1, <1>2 DEF PlansKeepChats, Keeps, MoveOnItsWay, MarkerFirst, LookedAt, Idle, BeforeCopy, Commit
<1>6. QED
  BY <1>4, <1>5

\* Removing the marker keeps the invariant.
LEMMA UnstampStep == ASSUME Inv, Unstamp PROVE Inv'
<1> USE DEF Inv
<1>1. run # Idle /\ run.pc = "unstamp" /\ UNCHANGED <<state, codex, known, files, stagings, resume, made, saved, left, spent>> /\ stamped' = FALSE
  BY DEF Unstamp, At, Idle
<1>2. run' = Idle \/ (/\ run' \in RunType /\ run'.pc = "begin" /\ run'.plan = run.plan /\ run'.seen = run.seen /\ run'.looked = run.looked)
  <2>1. run' = Idle \/ run' = [run EXCEPT !.pc = "begin"]
    BY DEF Unstamp, Goto
  <2>2. "begin" \in PCs
    BY DEF PCs, Commit
  <2>3. QED
    BY <1>1, <2>1, <2>2, RunIsTyped
<1>3. (Typed /\ CopyHasItsMarker)'
  BY <1>1, <1>2 DEF Typed, CopyHasItsMarker, TypeOK
<1>4. (PlansKeepChats /\ MoveOnItsWay /\ MarkerFirst /\ LookedAt)'
  BY <1>1, <1>2 DEF PlansKeepChats, Keeps, MoveOnItsWay, MarkerFirst, LookedAt, Idle, BeforeCopy, Commit
<1>5. QED
  BY <1>3, <1>4

\* The edit of the state, up to the replace.
LEMMA LookStep == ASSUME Inv, BeginCommit \/ EnterCommit \/ LastLook \/ ReplaceRefused PROVE Inv'
<1> USE DEF Inv
<1>1. /\ run # Idle /\ run.pc \in Commit /\ UNCHANGED <<state, codex, known, folders, saved, left>>
      /\ spent' \in [events : Nat, runs : Nat, mishaps : Nat]
  BY DEF BeginCommit, EnterCommit, LastLook, ReplaceRefused, Mishap, At, Idle, Commit, Typed
<1>2. \/ run' = Idle
      \/ /\ run' \in RunType /\ run'.pc \in {"enter", "look", "replace"} /\ run'.plan = run.plan /\ run'.seen = run.seen
         /\ run'.looked = run.looked
         /\ run'.pc = "replace" => ~codex /\ state = run.plan.original
  <2>1. CASE BeginCommit \/ EnterCommit \/ LastLook
    <3>1. run' = Idle \/ \E pc \in {"enter", "look", "replace"} : run' = [run EXCEPT !.pc = pc] /\ (pc = "replace" => ~codex /\ state = run.plan.original)
      BY <2>1 DEF BeginCommit, EnterCommit, LastLook, StateUnchanged, Goto
    <3>2. {"enter", "look", "replace"} \subseteq PCs
      BY DEF PCs, Commit
    <3>3. ASSUME run' # Idle
          PROVE  /\ run' \in RunType /\ run'.pc \in {"enter", "look", "replace"} /\ run'.plan = run.plan
                 /\ run'.seen = run.seen /\ run'.looked = run.looked
                 /\ run'.pc = "replace" => ~codex /\ state = run.plan.original
      <4>1. PICK pc \in {"enter", "look", "replace"} :
              run' = [run EXCEPT !.pc = pc] /\ (pc = "replace" => ~codex /\ state = run.plan.original)
        BY <3>1, <3>3
      <4>2. pc \in PCs
        BY <3>2
      <4>3. QED
        BY <1>1, <4>1, <4>2, RunIsTyped
    <3>4. QED
      BY <3>3
  <2>2. CASE ReplaceRefused
    <3>1. run \in RunType /\ run' = [run EXCEPT !.pc = "look", !.raced = FALSE]
      BY <1>1, <2>2 DEF ReplaceRefused, Typed
    <3>2. QED
      BY <3>1 DEF RunType, PCs, Commit
  <2>3. QED
    BY <2>1, <2>2
<1>3. (Typed /\ CopyHasItsMarker)'
  BY <1>1, <1>2 DEF Typed, CopyHasItsMarker, TypeOK, folders
<1>4. (PlansKeepChats /\ MoveOnItsWay /\ MarkerFirst /\ LookedAt)'
  BY <1>1, <1>2 DEF PlansKeepChats, Keeps, MoveOnItsWay, MarkerFirst, LookedAt, Idle, BeforeCopy, Commit, folders
<1>5. QED
  BY <1>3, <1>4

\* The replace and what follows it.
LEMMA SettleStep == ASSUME Inv, Replace \/ Settle \/ Forget \/ SettleFails \/ Undo PROVE Inv'
<1> USE DEF Inv
<1>1. /\ run # Idle /\ run \in RunType /\ run.plan \in PlanType /\ run.pc \in {"replace", "settle", "forget", "undo"}
      /\ UNCHANGED <<codex, known, files, stamped, stagings, saved>>
      /\ spent' \in [events : Nat, runs : Nat, mishaps : Nat]
  BY DEF Replace, Settle, Forget, SettleFails, Undo, Mishap, At, Idle, Typed, RunType, folders
<1>2. \/ run' = Idle
      \/ /\ run' \in RunType /\ run'.pc \in {"settle", "forget", "undo"} /\ run'.plan = run.plan /\ run'.seen = run.seen
         /\ run'.pc = "forget" => run.plan.op = "move"
  <2>1. run' = Idle \/ \E pc \in {"settle", "forget", "undo"} : run' = [run EXCEPT !.pc = pc] /\ (pc = "forget" => run.plan.op = "move")
    BY DEF Replace, Settle, Forget, SettleFails, Undo, Goto
  <2>2. QED
    BY <1>1, <2>1, RunIsTyped DEF PCs
<1>3. state' \in States /\ left' \in States \cup {None}
  BY <1>1 DEF Replace, Settle, Forget, SettleFails, Undo, PlanType, Typed, CopyHasItsMarker, TypeOK
<1>4. UNCHANGED <<resume, made>> \/ (resume' = None /\ made' = FALSE /\ ~stamped)
  BY <1>1 DEF Replace, Settle, Forget, SettleFails, Undo, folders, At, MarkerFirst
<1>5. (Typed /\ CopyHasItsMarker)'
  <2>1. Typed'
    BY <1>1, <1>2, <1>3 DEF Typed
  <2>2. TypeOK'
    BY <1>1, <1>3, <1>4 DEF CopyHasItsMarker, TypeOK
  <2>3. QED
    BY <1>1, <1>4, <2>1, <2>2 DEF CopyHasItsMarker
<1>6. (PlansKeepChats /\ MoveOnItsWay /\ MarkerFirst /\ LookedAt)'
  BY <1>1, <1>2 DEF PlansKeepChats, Keeps, MoveOnItsWay, MarkerFirst, LookedAt, Idle, BeforeCopy, Commit
<1>7. QED
  BY <1>5, <1>6

\* A killed run keeps the invariant: the marker is still there.
LEMMA KillStep == ASSUME Inv, Kill PROVE Inv'
<1> USE DEF Inv
<1>1. /\ run # Idle /\ run.plan \in PlanType /\ run' = Idle
      /\ UNCHANGED <<state, codex, known, files, stamped, resume, saved, made>>
      /\ spent' \in [events : Nat, runs : Nat, mishaps : Nat] /\ left' \in States \cup {None}
  BY DEF Kill, Mishap, Typed, RunType, PlanType
<1>2. /\ stagings' \subseteq [plan : PlanType, marked : BOOLEAN]
      /\ \A s \in stagings', t \in stagings' : s.plan = t.plan => s = t
  <2>1. CASE stagings' = stagings
    BY <2>1 DEF Typed, CopyHasItsMarker, TypeOK
  <2>2. CASE stagings' = {[s EXCEPT !.marked = FALSE] : s \in stagings}
    <3> DEFINE Bare(s) == [s EXCEPT !.marked = FALSE]
    <3>1. \A s \in stagings : Bare(s).plan = s.plan /\ Bare(s) \in [plan : PlanType, marked : BOOLEAN]
      BY DEF Typed
    <3>2. \A s \in stagings, t \in stagings : s.plan = t.plan => s = t
      BY DEF CopyHasItsMarker, TypeOK
    <3>3. stagings' = {Bare(s) : s \in stagings}
      BY <2>2
    <3> HIDE DEF Bare
    <3>4. QED
      BY <3>1, <3>2, <3>3
  <2>3. QED
    BY <2>1, <2>2 DEF Kill
<1>3. (Typed /\ CopyHasItsMarker)'
  BY <1>1, <1>2 DEF Typed, CopyHasItsMarker, TypeOK
<1>4. (PlansKeepChats /\ MoveOnItsWay /\ MarkerFirst /\ LookedAt)'
  BY <1>1 DEF PlansKeepChats, Keeps, MoveOnItsWay, MarkerFirst, LookedAt, Idle, BeforeCopy, Commit
<1>5. QED
  BY <1>3, <1>4

\* A journal that stayed open is closed, or what it replaced goes back.
LEMMA RecoveryStep == ASSUME Inv, Resume \/ RollBack PROVE Inv'
<1> USE DEF Inv
<1>1. /\ run = Idle /\ left \in States /\ left' = None /\ state \in States /\ known \subseteq Chats /\ files[Old] \in Content
      /\ UNCHANGED <<state, codex, known, folders, saved, spent>>
  BY DEF Resume, RollBack, Typed, CopyHasItsMarker, TypeOK
<1>2. run' = Idle \/ (run' \in RunType /\ run'.pc = "begin" /\ run'.plan.op = "rollback")
  <2>1. CASE Resume
    BY <2>1, <1>1 DEF Resume
  <2>2. CASE RollBack
    <3>1. /\ Plan("rollback", state, left) \in PlanType /\ Plan("rollback", state, left).op = "rollback"
      BY <1>1, PlanIsTyped DEF Ops
    <3>2. "begin" \in PCs
      BY DEF PCs, Commit
    <3> DEFINE back == Plan("rollback", state, left)
    <3>3. run' = [pc |-> "begin", plan |-> back, copied |-> {}, looked |-> files[Old], raced |-> FALSE, seen |-> known]
      BY <2>2 DEF RollBack
    <3> HIDE DEF back
    <3>4. run' \in RunType
      BY <1>1, <3>1, <3>2, <3>3 DEF RunType, back
    <3>5. QED
      BY <3>1, <3>3, <3>4 DEF back
  <2>3. QED
    BY <2>1, <2>2
<1>3. (Typed /\ CopyHasItsMarker)'
  BY <1>1, <1>2 DEF Typed, CopyHasItsMarker, TypeOK, folders
<1>4. (PlansKeepChats /\ MoveOnItsWay /\ MarkerFirst /\ LookedAt)'
  BY <1>1, <1>2 DEF PlansKeepChats, Keeps, MoveOnItsWay, MarkerFirst, LookedAt, Idle, BeforeCopy, Commit, folders
<1>5. QED
  BY <1>3, <1>4

\* Codex, persons and a transfer of chats.
LEMMA CodexStep == ASSUME Inv, CodexStarts \/ CodexQuits \/ CodexWrites \/ ChatArrives PROVE Inv'
<1> USE DEF Inv
<1>1. /\ UNCHANGED <<folders, saved, left>> /\ spent' \in [events : Nat, runs : Nat, mishaps : Nat]
  BY DEF CodexStarts, CodexQuits, CodexWrites, ChatArrives, Event, Typed
<1>2. /\ run' = Idle \/ run' \in RunType
      /\ run # Idle => /\ run' # Idle /\ run'.pc = run.pc /\ run'.plan = run.plan /\ run'.seen = run.seen /\ run'.looked = run.looked
      /\ run = Idle => run' = Idle
  <2>1. CASE run' = run
    BY <2>1 DEF Typed
  <2>2. CASE run.pc = "replace" /\ run' = [run EXCEPT !.raced = TRUE]
    BY <2>2 DEF Typed, RunType, Idle
  <2>3. QED
    BY <2>1, <2>2 DEF CodexStarts, CodexQuits, CodexWrites, ChatArrives
<1>3. state' \in States /\ state'.root = state.root /\ known' \subseteq Chats /\ codex' \in BOOLEAN
  <2>1. state \in States /\ known \subseteq Chats /\ codex \in BOOLEAN
    BY DEF CopyHasItsMarker, TypeOK
  <2>2. CASE CodexWrites
    <3>1. spent.events + 1 \in 0..MaxEvents
      BY <2>2, StateAssumption DEF CodexWrites, Event, Typed
    <3>2. known' = known /\ codex' = codex /\ (state' = [state EXCEPT !.rest = spent.events + 1]
             \/ \E c \in known, p \in Projects : state' = [state EXCEPT !.bind[c] = p])
      BY <2>2 DEF CodexWrites
    <3>3. QED
      BY <2>1, <3>1, <3>2 DEF States
  <2>3. CASE CodexStarts \/ CodexQuits \/ ChatArrives
    BY <2>1, <2>3 DEF CodexStarts, CodexQuits, ChatArrives
  <2>4. QED
    BY <2>2, <2>3
<1>4. (Typed /\ CopyHasItsMarker)'
  BY <1>1, <1>2, <1>3 DEF Typed, CopyHasItsMarker, TypeOK, folders
<1>5. PlansKeepChats'
  BY <1>1, <1>2 DEF PlansKeepChats, Keeps
<1>6. MoveOnItsWay' /\ MarkerFirst'
  BY <1>1, <1>2, <1>3 DEF MoveOnItsWay, MarkerFirst, Idle, BeforeCopy, Commit, folders
<1>7. LookedAt'
  <2>1. CASE CodexStarts
    BY <2>1, <1>2 DEF CodexStarts, LookedAt, Typed, RunType, Idle
  <2>2. CASE CodexQuits \/ CodexWrites \/ ChatArrives
    BY <2>2 DEF CodexQuits, CodexWrites, ChatArrives, LookedAt
  <2>3. QED
    BY <2>1, <2>2
<1>8. QED
  BY <1>4, <1>5, <1>6, <1>7

\* A person works in the folder the project has, or makes the new one by hand.
LEMMA FilesStep == ASSUME Inv, (\E x \in Files : EditFile(x)) \/ FolderAppears PROVE Inv'
<1> USE StateAssumption DEF Inv
<1>1. /\ UNCHANGED <<state, codex, known, stamped, stagings, resume, made, saved, run, left>>
      /\ spent' \in [events : Nat, runs : Nat, mishaps : Nat]
  <2>1. UNCHANGED <<state, codex, known, stamped, stagings, resume, made, saved, run, left>> /\ Event
    BY DEF EditFile, FolderAppears
  <2>2. QED
    BY <2>1 DEF Event, Typed
<1>2. CASE FolderAppears
  <2>1. [x \in Files |-> Newest + 1] \in Content
    BY DEF Content
  <2>2. files[Target] = None /\ files' = [files EXCEPT ![Target] = [x \in Files |-> Newest + 1]]
    BY <1>2 DEF FolderAppears
  <2>3. files' \in [Places -> Content \cup {None}] /\ files'[Old] = files[Old] /\ files'[Target] \in Content
    BY <2>1, <2>2 DEF Typed, Places
  <2>4. (Typed /\ CopyHasItsMarker)'
    BY <1>1, <2>2, <2>3 DEF Typed, CopyHasItsMarker, TypeOK
  <2>5. MoveOnItsWay'
    <3>1. run # Idle => run.looked # None
      BY DEF Typed, RunType
    <3>2. QED
      BY <1>1, <2>2, <3>1 DEF MoveOnItsWay, Idle, Commit
  <2>6. QED
    BY <1>1, <2>4, <2>5 DEF PlansKeepChats, Keeps, MarkerFirst, LookedAt
<1>3. ASSUME NEW x \in Files, EditFile(x) PROVE Inv'
  <2> DEFINE f == state.root[Moving]
  <2>1. f \in Places /\ files[f] # None /\ files[f][x] < Newest /\ files' = [files EXCEPT ![f] = [files[f] EXCEPT ![x] = @ + 1]]
    BY <1>3 DEF EditFile
  <2>2. files[f] \in Content
    BY <2>1 DEF Typed
  <2>3. /\ [files[f] EXCEPT ![x] = @ + 1] \in Content
        /\ \A y \in Files : [files[f] EXCEPT ![x] = @ + 1][y] >= files[f][y]
    BY <2>1, <2>2 DEF Content
  <2>4. files' \in [Places -> Content \cup {None}] /\ (\A g \in Places : g # f => files'[g] = files[g]) /\ files'[f] \in Content
    BY <2>1, <2>3 DEF Typed
  <2>5. TypeOK'
    BY <1>1, <2>1, <2>4 DEF CopyHasItsMarker, TypeOK, Places
  <2>6. CopyHasItsMarker'
    <3>1. CASE f = Target
      <4>1. made => \A y \in Files : files'[Target][y] >= resume[y]
        <5> SUFFICES ASSUME made, NEW y \in Files PROVE files'[Target][y] >= resume[y]
          OBVIOUS
        <5>1. /\ files'[Target][y] >= files[Target][y] /\ files[Target][y] >= resume[y]
              /\ files'[Target][y] \in Nat /\ files[Target][y] \in Nat /\ resume[y] \in Nat
          BY <2>1, <2>2, <2>3, <2>4, <3>1 DEF CopyHasItsMarker, TypeOK, Content, Typed, Places
        <5>2. QED
          BY <5>1
      <4>2. QED
        BY <1>1, <2>4, <2>5, <3>1, <4>1 DEF CopyHasItsMarker
    <3>2. CASE f # Target
      BY <1>1, <2>4, <2>5, <3>2 DEF CopyHasItsMarker, Places
    <3>3. QED
      BY <3>1, <3>2
  <2>7. MoveOnItsWay'
    BY <1>1, <2>4 DEF MoveOnItsWay, Places, Commit, Idle
  <2>8. QED
    BY <1>1, <2>4, <2>6, <2>7 DEF Typed, PlansKeepChats, Keeps, MarkerFirst, LookedAt
<1>4. QED
  BY <1>2, <1>3

\* Types and the inductive invariant hold in every reachable state of the edits and the move of a folder.
THEOREM Invariance == Spec => []Inv
<1>1. Inv /\ [Next]_vars => Inv'
  <2> SUFFICES ASSUME Inv, [Next]_vars PROVE Inv'
    OBVIOUS
  <2>1. CASE \E op \in {"chats", "repair", "restore", "move"} : Scan(op)
    BY <2>1, ScanStep
  <2>2. CASE Confirm
    BY <2>2, ConfirmStep
  <2>3. CASE Tool
    BY <2>3, PrepareStep, MarkStep, CopyStep, VerifyStep, RenameStep, FailedCopyStep, UnstampStep, LookStep, SettleStep DEF Tool
  <2>4. CASE Faults
    BY <2>4, FailedCopyStep, LookStep, SettleStep, KillStep DEF Faults
  <2>5. CASE Resume \/ RollBack
    BY <2>5, RecoveryStep
  <2>6. CASE CodexStarts \/ CodexQuits \/ CodexWrites \/ ChatArrives
    BY <2>6, CodexStep
  <2>7. CASE (\E x \in Files : EditFile(x)) \/ FolderAppears
    BY <2>7, FilesStep
  <2>8. CASE UNCHANGED vars
    BY <2>8 DEF vars, folders, Inv, CopyHasItsMarker, TypeOK, Typed, PlansKeepChats, Keeps, MoveOnItsWay, MarkerFirst, LookedAt
  <2>9. QED
    BY <2>1, <2>2, <2>3, <2>4, <2>5, <2>6, <2>7, <2>8 DEF Next
<1>2. QED
  BY <1>1, InitInv, PTL DEF Spec

\* Whatever is interrupted, a verified copy under the new name has the resume marker
\* that lets the next scan recognise it, and the marker names what the copy holds.
THEOREM CopiesHaveTheirMarker == Spec => []CopyHasItsMarker
<1>1. Inv => CopyHasItsMarker
  BY DEF Inv
<1>2. QED
  BY <1>1, Invariance, PTL

\* The state Codex wrote is replaced only by the edit of that very state, unless
\* Codex started between the last look and the replace.
THEOREM WhatCodexWroteStands == Spec => CodexWritesStand
<1>1. Inv /\ [Next]_vars => (At("replace") /\ state' # state => state = run.plan.original \/ run.raced)
  BY DEF Inv, LookedAt, At
<1>2. QED
  BY <1>1, Invariance, PTL DEF Spec, CodexWritesStand

\* A project goes to another folder with every file its old folder held when the
\* command looked last, and with every chat the plan knew of that belonged to it.
THEOREM MovesLoseNothing == Spec => MoveLosesNothing
<1>1. ASSUME Inv, [Next]_vars, run.pc = "replace", state' # state PROVE Replace \/ CodexWrites
  <2>1. ~Tool \/ Replace
    BY <1>1 DEF Tool, Prepare, Mark, Copy, Verify, Rename, Clean, Unstamp, BeginCommit, EnterCommit, LastLook,
       Settle, Forget, Undo, At
  <2>2. ~Faults
    BY <1>1 DEF Faults, RenameRefused, ReplaceRefused, SettleFails, Kill, At
  <2>3. ~(Confirm \/ Resume \/ RollBack)
    BY <1>1 DEF Confirm, Resume, RollBack
  <2>4. ~(CodexStarts \/ CodexQuits \/ ChatArrives \/ FolderAppears \/ UNCHANGED vars)
    BY <1>1 DEF CodexStarts, CodexQuits, ChatArrives, FolderAppears, vars
  <2>5. ~(\E x \in Files : EditFile(x)) /\ ~(\E op \in {"chats", "repair", "restore", "move"} : Scan(op))
    BY <1>1 DEF EditFile, Scan
  <2>6. QED
    BY <1>1, <2>1, <2>2, <2>3, <2>4, <2>5 DEF Next
<1>2. ASSUME Inv, CodexWrites, run.pc = "replace" PROVE state'.root = state.root /\ run.raced
  BY <1>2 DEF Inv, LookedAt, CodexWrites, CopyHasItsMarker, TypeOK, States
<1>3. ASSUME Inv, Replace PROVE run # Idle /\ state' = run.plan.after /\ (~run.raced => state = run.plan.original)
  BY <1>3 DEF Inv, LookedAt, Replace, At, Idle
<1>4. Inv /\ [Next]_vars => EditsComeAlong
  <2> SUFFICES ASSUME Inv, [Next]_vars, run.pc = "replace", run.plan.op = "move", state'.root # state.root
               PROVE  files[Target] = run.looked
    BY DEF EditsComeAlong, At
  <2>1. Replace
    BY <1>1, <1>2
  <2>2. QED
    BY <1>3, <2>1 DEF Inv, MoveOnItsWay, Commit
<1>5. Inv /\ [Next]_vars => ChatsComeAlong
  <2> SUFFICES ASSUME Inv, [Next]_vars, run.pc = "replace", run.plan.op \in {"move", "repair"}, ~run.raced, state' # state
               PROVE  \A c \in run.seen :
                        LET p == Belongs(state, c)
                        IN p # None /\ state'.root[p] # state.root[p] => Belongs(state', c) = p \/ LedElsewhere(c, p, state')
    BY DEF ChatsComeAlong, At
  <2>1. Replace
    BY <1>1, <1>2
  <2>2. run # Idle /\ state' = run.plan.after /\ state = run.plan.original
    BY <1>3, <2>1
  <2>3. Keeps(run.plan, run.seen)
    BY <2>2 DEF Inv, PlansKeepChats
  <2>4. QED
    BY <2>2, <2>3 DEF Keeps, LedElsewhere
<1>6. QED
  BY <1>4, <1>5, Invariance, PTL DEF Spec, MoveLosesNothing


-----------------------------------------------------------------------------
(* Asking Codex to quit: the types.                                          *)

Systems == {"windows", "linux", "macos"}
Listed == [pid : Nat \ {0}, parent : Nat, name : {"codex", "app", "else"},
           path : {"app", "daemon", "else", ""}, started : Nat]
Whys == {"ask", "require", "wait", "final"}
SyncPCs == {"idle", "read", "again", "list", "details", "ask", "daemons", "on", "refused"}
Codes == {"none", "CODEX_NOT_CLOSED", "CODEX_STILL_RUNNING", "CODEX_RUNNING", "CODEX_CLI_DAEMON", "CODEX_STATE_UNKNOWN"}
Syncs == [pc : SyncPCs, why : Whys, left : Int, round : {1, 2}, early : SUBSET Process, since : Nat,
          main : SUBSET Kinds, sandbox : BOOLEAN, list : SUBSET (Process \cup Listed), at : Nat, code : Codes]
ClosingTyped ==
    /\ platform \in Systems /\ births \in Nat
    /\ Orderly(platform, procs, births)
    /\ sync \in Syncs /\ sync.since <= births /\ sync.at <= births
    /\ asked \subseteq Process

\* Who runs and was not read is younger than the last reading, or works for one
\* that is.
WasRead(p) == \E e \in sync.early : e.birth = p.birth /\ e.kind = p.kind
ReadingCovers ==
    /\ Do("again") /\ sync.round = 1 => \A p \in procs : p.kind \in MainKinds => p.birth > sync.since \/ WasRead(p)
    /\ (Do("read") \/ Do("again")) /\ sync.round = 2 /\ sync.main = {} =>
          \A p \in procs : p.kind \in MainKinds => p.birth > sync.since
    /\ Do("again") /\ sync.round = 2 /\ sync.main = {} =>
          \A p \in procs : p.kind \in KnownKinds => p.root > sync.since \/ WasRead(p)

\* What the list says of a process that is still the one it saw.
ListHolds ==
    /\ Do("details") =>
         /\ platform = "windows" /\ sync.list \subseteq Process
         /\ \A p, q \in sync.list : p.pid = q.pid => p = q
         /\ (\A p \in procs : p.birth <= sync.at => p \in sync.list)
    /\ Do("ask") \/ Do("daemons") =>
         /\ sync.list \subseteq Listed
         /\ \A e \in sync.list : e.path = "app" =>
              /\ \A p \in procs : p.birth = e.started => p.kind \in AppKinds
              /\ e.started <= births /\ (platform = "linux" => e.started = e.pid)
    /\ Do("ask") => platform \in {"windows", "linux"}
    /\ Do("ask") /\ platform = "windows" =>
         /\ \A d, e \in sync.list : d.pid = e.pid => d = e
         /\ \A p \in procs : p.birth <= sync.at => Entry(p, p) \in sync.list
    /\ (Do("ask") \/ Do("daemons")) /\ platform = "linux" =>
         ((\E p \in procs : p.kind = "cli" /\ p.birth <= sync.at) => Clis # {})
    /\ Do("daemons") => platform = "linux" /\ Clis = {}
AskedKinds == \A p \in asked : p.kind \in AppKinds \cup (IF platform = "linux" THEN {"daemon"} ELSE {})

ClosingInv == ClosingTyped /\ ReadingCovers /\ ListHolds /\ AskedKinds /\ GoesOnWhenGone

-----------------------------------------------------------------------------
(* What starts and what ends. *)

\* One more process, younger than all and with a number nobody has, is in order.
LEMMA OneMore ==
    ASSUME births \in Nat, Orderly(platform, procs, births), NEW b \in Process, b.birth = births + 1,
           \A q \in procs : q.pid # b.pid,
           b.kind # "sandbox" => b.root = b.birth,
           platform # "windows" => b.pid = b.birth /\ b.parent < b.birth,
           ParentsOf(b.kind) = {} => b.parent = 0,
           \A q \in procs : q.pid = b.parent => q.kind \in ParentsOf(b.kind)
    PROVE  Orderly(platform, procs \cup {b}, births + 1)
<1> DEFINE alive == procs \cup {b}
<1>0. \A q \in procs : q \in Process /\ q.birth \in Nat /\ q.birth <= births /\ q.birth < b.birth
  BY DEF Orderly, Process
<1>1. alive \subseteq Process
  BY <1>0
<1>2. \A p, q \in alive : p.birth = q.birth \/ p.pid = q.pid => p = q
  <2> SUFFICES ASSUME NEW p \in alive, NEW q \in alive, p.birth = q.birth \/ p.pid = q.pid PROVE p = q
    OBVIOUS
  <2>1. CASE p \in procs /\ q \in procs
    BY <2>1 DEF Orderly
  <2>2. CASE p = b \/ q = b
    BY <1>0, <2>2
  <2> QED BY <2>1, <2>2
<1>3. ASSUME NEW p \in alive
      PROVE  /\ p.birth <= births + 1
             /\ p.kind # "sandbox" => p.root = p.birth
             /\ platform # "windows" => p.pid = p.birth /\ p.parent < p.birth
             /\ ParentsOf(p.kind) = {} => p.parent = 0
             /\ \A q \in alive : q.pid = p.parent /\ q.birth < p.birth => q.kind \in ParentsOf(p.kind)
  <2>1. CASE p \in procs
    <3>1. ASSUME NEW q \in alive, q.pid = p.parent, q.birth < p.birth PROVE q.kind \in ParentsOf(p.kind)
      <4>1. q # b
        BY <1>0, <2>1, <3>1
      <4> QED BY <2>1, <3>1, <4>1 DEF Orderly
    <3>2. p.birth <= births + 1
      BY <1>0, <2>1
    <3> HIDE DEF alive
    <3> QED BY <2>1, <3>1, <3>2 DEF Orderly
  <2>2. CASE p = b
    <3>1. ASSUME NEW q \in alive, q.pid = p.parent, q.birth < p.birth PROVE q.kind \in ParentsOf(p.kind)
      <4>1. q # b
        BY <2>2, <3>1 DEF Process
      <4> QED BY <2>2, <3>1, <4>1
    <3> QED BY <2>2, <3>1
  <2> QED BY <2>1, <2>2
<1> HIDE DEF alive
<1>4. Orderly(platform, alive, births + 1)
  BY <1>1, <1>2, <1>3 DEF Orderly
<1> QED BY <1>4 DEF alive

\* What a start adds: a process of its own, or a sandbox of a running codex.
Starting(b) ==
    /\ b \in Process /\ procs' = procs \cup {b} /\ births' = births + 1 /\ b.birth = births + 1
    /\ UNCHANGED <<platform, sync, asked>>
    /\ b.kind # "sandbox" => b.root = b.birth
    /\ b.kind = "sandbox" => \E q \in procs : q.kind \in NamedCodex /\ b.root = q.birth
    /\ Orderly(platform, procs', births')
\* A step of StartProcess adds one such process, and all stays in order.
LEMMA StartIs == ASSUME ClosingTyped, StartProcess PROVE \E b : Starting(b)
<1> USE ClosingAssumption DEF Process
<1>0. births \in Nat /\ Orderly(platform, procs, births) /\ births' = births + 1 /\ UNCHANGED <<platform, sync, asked>>
  BY DEF ClosingTyped, StartProcess
<1>1. PICK kind \in Kinds, pid \in FreePids :
        \/ /\ Opens(kind)
           /\ procs' = procs \cup {[pid |-> pid, parent |-> 0, kind |-> kind, birth |-> births + 1, root |-> births + 1]}
        \/ \E q \in {p \in procs : p.kind \in ParentsOf(kind)} :
             procs' = procs \cup {[pid |-> pid, parent |-> q.pid, kind |-> kind, birth |-> births + 1,
                                   root |-> IF kind = "sandbox" THEN q.birth ELSE births + 1]}
  BY DEF StartProcess
<1>2. pid \in Nat \ {0} /\ (\A q \in procs : q.pid # pid) /\ (platform # "windows" => pid = births + 1)
  <2>1. CASE platform = "windows"
    BY <2>1 DEF FreePids
  <2>2. CASE platform # "windows"
    <3>1. pid = births + 1
      BY <2>2 DEF FreePids
    <3>2. \A q \in procs : q.pid = q.birth /\ q.birth <= births /\ q.birth \in Nat
      BY <1>0, <2>2 DEF Orderly
    <3> QED BY <1>0, <3>1, <3>2
  <2> QED BY <2>1, <2>2
<1>3. CASE /\ Opens(kind)
           /\ procs' = procs \cup {[pid |-> pid, parent |-> 0, kind |-> kind, birth |-> births + 1, root |-> births + 1]}
  <2> DEFINE b == [pid |-> pid, parent |-> 0, kind |-> kind, birth |-> births + 1, root |-> births + 1]
  <2>1. b \in Process /\ b.birth = births + 1 /\ b.pid = pid /\ b.parent = 0 /\ b.kind = kind /\ b.root = births + 1
    BY <1>0, <1>2
  <2>2. kind # "sandbox" /\ procs' = procs \cup {b}
    BY <1>3 DEF Opens
  <2>3. \A q \in procs : q.pid # 0
    BY <1>0 DEF Orderly
  <2> HIDE DEF b
  <2>4. Orderly(platform, procs \cup {b}, births + 1)
    BY <1>0, <1>2, <2>1, <2>2, <2>3, OneMore
  <2> QED BY <1>0, <2>1, <2>2, <2>4 DEF Starting
<1>4. CASE \E q \in {p \in procs : p.kind \in ParentsOf(kind)} :
             procs' = procs \cup {[pid |-> pid, parent |-> q.pid, kind |-> kind, birth |-> births + 1,
                                   root |-> IF kind = "sandbox" THEN q.birth ELSE births + 1]}
  <2>0. PICK q \in procs :
          /\ q.kind \in ParentsOf(kind)
          /\ procs' = procs \cup {[pid |-> pid, parent |-> q.pid, kind |-> kind, birth |-> births + 1,
                                   root |-> IF kind = "sandbox" THEN q.birth ELSE births + 1]}
    BY <1>4
  <2> DEFINE b == [pid |-> pid, parent |-> q.pid, kind |-> kind, birth |-> births + 1,
                   root |-> IF kind = "sandbox" THEN q.birth ELSE births + 1]
  <2>q. q \in Process /\ q.pid \in Nat /\ q.birth \in Nat /\ q.birth <= births
    BY <1>0 DEF Orderly
  <2>1. /\ b \in Process /\ b.birth = births + 1 /\ b.pid = pid /\ b.parent = q.pid /\ b.kind = kind
        /\ b.root = IF kind = "sandbox" THEN q.birth ELSE births + 1
    BY <1>0, <1>2, <2>q
  <2>2. procs' = procs \cup {b}
    BY <2>0
  <2>3. kind = "sandbox" => q.kind \in NamedCodex
    BY <2>0 DEF ParentsOf
  <2>4. \A p \in procs : p.pid = q.pid => p.kind \in ParentsOf(kind)
    <3>1. \A p \in procs : p.pid = q.pid => p = q
      BY <1>0 DEF Orderly
    <3> QED BY <3>1, <2>0
  <2>5. platform # "windows" => q.pid = q.birth
    BY <1>0 DEF Orderly
  <2>6. ParentsOf(kind) # {}
    BY <2>0
  <2> HIDE DEF b
  <2>7. platform # "windows" => b.pid = b.birth /\ b.parent < b.birth
    BY <1>0, <1>2, <2>1, <2>5, <2>q
  <2>8. Orderly(platform, procs \cup {b}, births + 1)
    BY <1>0, <1>2, <2>1, <2>4, <2>6, <2>7, OneMore
  <2> QED BY <1>0, <2>1, <2>2, <2>3, <2>8 DEF Starting
<1> QED BY <1>1, <1>3, <1>4

\* What an end leaves: who ran before, under the same number, perhaps adopted.
Survives(p, q) ==
    /\ p.pid = q.pid /\ p.kind = q.kind /\ p.birth = q.birth /\ p.root = q.root
    /\ p.parent = q.parent \/ p.parent = 0
    /\ platform = "windows" => p = q
\* A step of EndProcess leaves who ran before, in order.
LEMMA EndIs ==
    ASSUME ClosingTyped, EndProcess
    PROVE  /\ \A p \in procs' : \E q \in procs : Survives(p, q)
           /\ Orderly(platform, procs', births)
           /\ UNCHANGED <<platform, births, sync, asked>>
<1>0. births \in Nat /\ Orderly(platform, procs, births) /\ UNCHANGED <<platform, births, sync, asked>>
  BY DEF ClosingTyped, EndProcess
<1>1. PICK gone \in procs :
        procs' = {IF platform # "windows" /\ p.parent = gone.pid THEN [p EXCEPT !.parent = 0] ELSE p
                    : p \in procs \ {gone}}
  BY DEF EndProcess
<1> DEFINE adopted(p) == IF platform # "windows" /\ p.parent = gone.pid THEN [p EXCEPT !.parent = 0] ELSE p
<1>2. \A p \in procs' : \E q \in procs : p = adopted(q)
  BY <1>1
<1>3. \A q \in procs : adopted(q) \in Process /\ Survives(adopted(q), q) /\ (q.parent = 0 => adopted(q).parent = 0)
  BY <1>0 DEF Orderly, Process, Survives
<1> HIDE DEF adopted
<1>4. procs' \subseteq Process
  BY <1>2, <1>3
<1>5. \A p, q \in procs' : p.birth = q.birth \/ p.pid = q.pid => p = q
  <2> SUFFICES ASSUME NEW p \in procs', NEW q \in procs', p.birth = q.birth \/ p.pid = q.pid PROVE p = q
    OBVIOUS
  <2>1. PICK p0 \in procs : p = adopted(p0)
    BY <1>2
  <2>2. PICK q0 \in procs : q = adopted(q0)
    BY <1>2
  <2>3. p0 = q0
    BY <1>0, <1>3, <2>1, <2>2 DEF Orderly, Survives
  <2> QED BY <2>1, <2>2, <2>3
<1>6. ASSUME NEW p \in procs'
      PROVE  /\ p.birth <= births
             /\ p.kind # "sandbox" => p.root = p.birth
             /\ platform # "windows" => p.pid = p.birth /\ p.parent < p.birth
             /\ ParentsOf(p.kind) = {} => p.parent = 0
             /\ \A q \in procs' : q.pid = p.parent /\ q.birth < p.birth => q.kind \in ParentsOf(p.kind)
  <2>1. PICK p0 \in procs : p = adopted(p0)
    BY <1>2
  <2>2. Survives(p, p0) /\ (p0.parent = 0 => p.parent = 0) /\ p.birth \in Nat \ {0}
    BY <1>3, <1>4, <2>1 DEF Process
  <2>3. ASSUME NEW q \in procs', q.pid = p.parent, q.birth < p.birth PROVE q.kind \in ParentsOf(p.kind)
    <3>1. PICK q0 \in procs : q = adopted(q0)
      BY <1>2
    <3>2. Survives(q, q0) /\ q.pid # 0
      BY <1>3, <1>4, <3>1 DEF Process
    <3>3. q0.pid = p0.parent /\ q0.birth < p0.birth
      BY <2>2, <2>3, <3>2 DEF Survives
    <3>4. q0.kind \in ParentsOf(p0.kind)
      BY <1>0, <3>3 DEF Orderly
    <3> QED BY <2>2, <3>2, <3>4 DEF Survives
  <2>4. /\ p0.birth <= births
        /\ p0.kind # "sandbox" => p0.root = p0.birth
        /\ platform # "windows" => p0.pid = p0.birth /\ p0.parent < p0.birth
        /\ ParentsOf(p0.kind) = {} => p0.parent = 0
    BY <1>0 DEF Orderly
  <2>5. p.parent < p.birth \/ ~(p0.parent < p0.birth)
    BY <2>2 DEF Survives
  <2>6. ParentsOf(p.kind) = ParentsOf(p0.kind)
    BY <2>2 DEF Survives
  <2> QED BY <2>2, <2>3, <2>4, <2>5, <2>6 DEF Survives
<1>7. Orderly(platform, procs', births)
  BY <1>4, <1>5, <1>6 DEF Orderly
<1>8. \A p \in procs' : \E q \in procs : Survives(p, q)
  BY <1>2, <1>3
<1> QED BY <1>0, <1>7, <1>8

-----------------------------------------------------------------------------
(* What a reading and its verdict are. *)

\* A new sample keeps what the sync saw and begins with the first listing.
LEMMA SamplingIs ==
    ASSUME sync \in Syncs, NEW why \in Whys
    PROVE  /\ Sampling(why) \in Syncs /\ Sampling(why).pc = "read" /\ Sampling(why).round = 1
           /\ Sampling(why).since = sync.since /\ Sampling(why).at = sync.at
<1>1. MoreSamples \in Int
  BY ClosingAssumption
<1> QED BY <1>1 DEF Sampling, Syncs, SyncPCs
\* A refusal keeps the rest of what the sync saw.
LEMMA RefuseIs ==
    ASSUME sync \in Syncs, NEW code \in Codes
    PROVE  /\ Refuse(code) \in Syncs /\ Refuse(code).pc = "refused"
           /\ Refuse(code).since = sync.since /\ Refuse(code).at = sync.at
BY DEF Refuse, Syncs, SyncPCs
\* Whatever the gate makes of a reading, the write goes on only on STOPPED.
LEMMA CheckedIs ==
    ASSUME sync \in Syncs, NEW verdict \in {"RUNNING", "STOPPED", "UNKNOWN"}, NEW daemon \in BOOLEAN,
           NEW n \in {[x EXCEPT !.early = {}] : x \in Checked(verdict, daemon)}
    PROVE  /\ n \in Syncs /\ n.since = sync.since /\ n.at = sync.at
           /\ n.pc \in {"read", "list", "refused", "on"}
           /\ n.pc = "read" => n.round = 1
           /\ n.pc = "on" => verdict = "STOPPED"
<1> DEFINE Fine(x) ==
      /\ x \in Syncs /\ x.since = sync.since /\ x.at = sync.at
      /\ x.pc \in {"read", "list", "refused", "on"}
      /\ x.pc = "read" => x.round = 1
      /\ x.pc = "on" => verdict = "STOPPED"
<1>1. \A why \in Whys : Fine(Sampling(why))
  BY SamplingIs
<1>2. \A code \in Codes : Fine(Refuse(code))
  BY RefuseIs
<1>3. Fine(SampleAgain)
  <2> DEFINE fewer == sync.left - 1
  <2>1. SampleAgain = [sync EXCEPT !.pc = "read", !.round = 1, !.left = fewer]
    BY DEF SampleAgain, Syncs
  <2>2. fewer \in Int
    BY DEF Syncs
  <2> HIDE DEF fewer
  <2> QED BY <2>1, <2>2 DEF Syncs, SyncPCs
<1>4. Fine([sync EXCEPT !.pc = "list"]) /\ (verdict = "STOPPED" => Fine([sync EXCEPT !.pc = "on"]))
  BY DEF Syncs, SyncPCs
<1>5. \A x \in Checked(verdict, daemon) : x = SampleAgain \/ (\E why \in Whys : x = Sampling(why))
        \/ (\E code \in Codes : x = Refuse(code)) \/ x = [sync EXCEPT !.pc = "list"]
        \/ (verdict = "STOPPED" /\ x = [sync EXCEPT !.pc = "on"])
  BY DEF Checked, Whys, Codes
<1>6. \A x \in Checked(verdict, daemon) : Fine(x)
  <2> HIDE DEF Fine
  <2> QED BY <1>1, <1>2, <1>3, <1>4, <1>5
<1>7. PICK x \in Checked(verdict, daemon) : n = [x EXCEPT !.early = {}]
  OBVIOUS
<1>8. Fine(x)
  BY <1>6
<1>9. /\ n \in Syncs /\ n.pc = x.pc /\ n.round = x.round /\ n.since = x.since /\ n.at = x.at
  BY <1>7, <1>8 DEF Syncs
<1> QED BY <1>8, <1>9

\* A listing shows who was read and runs on; on Windows all who run now.
LEMMA ListingIs ==
    ASSUME ClosingTyped
    PROVE  /\ Listing \subseteq Process
           /\ platform = "windows" => procs \subseteq Listing
           /\ platform # "windows" => \A e \in sync.early : ByName(e) \/ PathRead(e) => e \in Listing
<1>0. procs \subseteq Process /\ sync.early \subseteq Process
  BY DEF ClosingTyped, Orderly, Syncs
<1>1. Tasklist(sync.early) \subseteq Process
  BY <1>0 DEF Tasklist, Process
<1> QED BY <1>0, <1>1 DEF Listing, Merged

\* Stopped is said only when the first listing had no codex and the second
\* none of what else is known.
LEMMA StoppedMeans ==
    ASSUME NEW background, State(background) = "STOPPED"
    PROVE  sync.main = {} /\ background = {}
BY DEF State

-----------------------------------------------------------------------------
(* The types are kept. *)

\* What runs at first is typed and in order.
LEMMA TypesStart ==
    ASSUME ClosingInit
    PROVE  ClosingTyped
<1>1. PICK start \in Starts :
        platform = start.platform /\ procs = start.procs /\ births = Cardinality(start.procs)
  BY DEF ClosingInit
<1>2. births \in Nat /\ Orderly(platform, procs, births) /\ platform \in Systems
  BY <1>1, ClosingAssumption, FS_CardinalityType DEF Systems
<1>3. sync \in Syncs /\ sync.since = 0 /\ sync.at = 0 /\ asked = {}
  BY DEF ClosingInit, NotSyncing, Syncs, SyncPCs, Whys, Codes
<1> QED BY <1>2, <1>3 DEF ClosingTyped

\* What an entry of the list says of a process.
LEMMA EntryIs ==
    ASSUME NEW p \in Process, NEW now \in Process
    PROVE  /\ Entry(p, now) \in Listed /\ Unread(p) \in Listed
           /\ Entry(p, now).pid = p.pid /\ Entry(p, now).parent = p.parent /\ Entry(p, now).name = NameOf(p.kind)
           /\ Entry(p, now).path = ProgramOf(now.kind) /\ Entry(p, now).started = now.birth
           /\ Unread(p).pid = p.pid /\ Unread(p).path = ""
<1>1. NameOf(p.kind) \in {"codex", "app", "else"} /\ ProgramOf(now.kind) \in {"app", "daemon", "else"}
      /\ ProgramOf(p.kind) \in {"app", "daemon", "else"}
  BY DEF NameOf, ProgramOf
<1> QED BY <1>1 DEF Entry, Unread, Listed, Process

\* What Details makes of a process it listed.
Detail(p) ==
    LET now == {q \in procs : q.pid = p.pid}
    IN  IF now = {} THEN Unread(p) ELSE Entry(p, CHOOSE q \in now : TRUE)
\* A detail keeps the number listed, and is of who has it now or unread.
LEMMA DetailIs ==
    ASSUME procs \subseteq Process, NEW p \in Process
    PROVE  /\ Detail(p) \in Listed /\ Detail(p).pid = p.pid
           /\ Detail(p) = Unread(p) \/ \E q \in procs : q.pid = p.pid /\ Detail(p) = Entry(p, q)
<1> DEFINE now == {q \in procs : q.pid = p.pid}
<1>1. CASE now = {}
  BY <1>1, EntryIs DEF Detail
<1>2. CASE now # {}
  <2>1. (CHOOSE q \in now : TRUE) \in now
    BY <1>2
  <2> QED BY <1>2, <2>1, EntryIs DEF Detail
<1> QED BY <1>1, <1>2
\* The step gives every listed process its detail.
LEMMA DetailsIs ==
    ASSUME Details
    PROVE  sync' = [sync EXCEPT !.pc = "ask", !.list = {Detail(p) : p \in sync.list}]
BY DEF Details, Detail

\* Every step keeps the types and the order of processes.
LEMMA TypesKept ==
    ASSUME ClosingTyped, ListHolds, [ClosingNext]_closingVars
    PROVE  ClosingTyped'
<1> DEFINE Fine == sync' \in Syncs /\ sync'.since <= births /\ sync'.at <= births
<1>0. /\ platform \in Systems /\ births \in Nat /\ Orderly(platform, procs, births) /\ sync \in Syncs
      /\ sync.since <= births /\ sync.at <= births /\ asked \subseteq Process /\ procs \subseteq Process
  BY DEF ClosingTyped, Orderly
<1>1. ASSUME StartProcess PROVE ClosingTyped'
  <2>1. PICK b : Starting(b)
    BY <1>1, StartIs
  <2>2. Orderly(platform', procs', births') /\ births' \in Nat /\ births <= births'
    BY <1>0, <2>1 DEF Starting
  <2>3. /\ platform' = platform /\ sync' = sync /\ asked' = asked
    BY <2>1 DEF Starting
  <2>4. sync.since \in Nat /\ sync.at \in Nat
    BY <1>0 DEF Syncs
  <2>5. sync.since <= births' /\ sync.at <= births'
    BY <1>0, <2>2, <2>4
  <2> QED BY <1>0, <2>2, <2>3, <2>5 DEF ClosingTyped
<1>2. ASSUME EndProcess PROVE ClosingTyped'
  BY <1>0, <1>2, EndIs DEF ClosingTyped
<1>3. ASSUME Still, Fine, asked' \subseteq Process PROVE ClosingTyped'
  BY <1>0, <1>3 DEF Still, ClosingTyped
<1>4. ASSUME BeginSync PROVE ClosingTyped'
  <2>1. Fine
    BY <1>0, <1>4, SamplingIs DEF BeginSync, Whys
  <2> QED BY <1>0, <1>3, <1>4, <2>1 DEF BeginSync
<1>5. ASSUME ReadOnce PROVE ClosingTyped'
  <2>1. Fine
    <3> DEFINE since == IF sync.round = 1 THEN births ELSE sync.since
    <3>1. sync' = [sync EXCEPT !.pc = "again", !.early = procs, !.since = since]
      BY <1>0, <1>5 DEF ReadOnce, Syncs
    <3>2. since \in Nat /\ since <= births
      BY <1>0 DEF Syncs
    <3> HIDE DEF since
    <3>3. sync' \in Syncs /\ sync'.since = since /\ sync'.at = sync.at
      BY <1>0, <3>1, <3>2 DEF Syncs, SyncPCs
    <3> QED BY <1>0, <3>2, <3>3
  <2> QED BY <1>0, <1>3, <1>5, <2>1 DEF ReadOnce
<1>6. ASSUME FirstListing PROVE ClosingTyped'
  <2>1. {p.kind : p \in Named(Listing, MainKinds)} \in SUBSET Kinds /\ SandboxDetected(Listing) \in BOOLEAN
    BY ListingIs DEF Named, Process, SandboxDetected
  <2>2. Fine
    <3> HIDE DEF Fine
    <3> DEFINE m == {p.kind : p \in Named(Listing, MainKinds)}
               s == SandboxDetected(Listing)
    <3>1. sync' = [sync EXCEPT !.pc = "read", !.round = 2, !.early = {}, !.main = m, !.sandbox = s]
      BY <1>6 DEF FirstListing
    <3>2. m \in SUBSET Kinds /\ s \in BOOLEAN
      BY <2>1
    <3> HIDE DEF m, s
    <3> QED BY <1>0, <3>1, <3>2 DEF Fine, Syncs, SyncPCs
  <2> QED BY <1>0, <1>3, <1>6, <2>2 DEF FirstListing
<1>7. ASSUME SecondListing PROVE ClosingTyped'
  <2>1. PICK background :
          sync' \in {[next EXCEPT !.early = {}] : next \in Checked(State(background), OnlyDaemon(background))}
    BY <1>7 DEF SecondListing
  <2>2. State(background) \in {"RUNNING", "STOPPED", "UNKNOWN"} /\ OnlyDaemon(background) \in BOOLEAN
    BY DEF State, OnlyDaemon
  <2>3. Fine
    BY <1>0, <2>1, <2>2, CheckedIs
  <2> QED BY <1>0, <1>3, <1>7, <2>3 DEF SecondListing
<1>8. ASSUME ListingFails PROVE ClosingTyped'
  <2>1. Fine
    BY <1>0, <1>8, CheckedIs DEF ListingFails
  <2> QED BY <1>0, <1>3, <1>8, <2>1 DEF ListingFails
<1>9. ASSUME Snapshot PROVE ClosingTyped'
  <2>1. Fine
    <3>1. sync' = [sync EXCEPT !.pc = "details", !.at = births, !.list = procs]
      BY <1>9 DEF Snapshot
    <3>2. sync' \in Syncs /\ sync'.since = sync.since /\ sync'.at = births
      BY <1>0, <3>1 DEF Syncs, SyncPCs
    <3> QED BY <1>0, <3>2
  <2> QED BY <1>0, <1>3, <1>9, <2>1 DEF Snapshot
<1>10. ASSUME Details PROVE ClosingTyped'
  <2>1. sync.list \subseteq Process
    BY <1>10 DEF Details, ListHolds
  <2>2. {Detail(p) : p \in sync.list} \subseteq Listed
    BY <1>0, <2>1, DetailIs
  <2>3. Fine
    <3> DEFINE l == {Detail(p) : p \in sync.list}
    <3>1. sync' = [sync EXCEPT !.pc = "ask", !.list = l] /\ l \subseteq Listed
      BY <1>10, <2>2, DetailsIs
    <3> HIDE DEF l
    <3> QED BY <1>0, <3>1 DEF Syncs, SyncPCs
  <2> QED BY <1>0, <1>3, <1>10, <2>3 DEF Details
<1>11. ASSUME ListLinux PROVE ClosingTyped'
  <2>1. {Entry(p, p) : p \in procs} \subseteq Listed
    BY <1>0, EntryIs
  <2>2. Fine
    <3> DEFINE l == {Entry(p, p) : p \in procs}
    <3>1. sync' = [sync EXCEPT !.pc = "ask", !.at = births, !.list = l] /\ l \subseteq Listed
      BY <1>11, <2>1 DEF ListLinux
    <3> HIDE DEF l
    <3>2. sync' \in Syncs /\ sync'.since = sync.since /\ sync'.at = births
      BY <1>0, <3>1 DEF Syncs, SyncPCs
    <3> QED BY <1>0, <3>2
  <2> QED BY <1>0, <1>3, <1>11, <2>2 DEF ListLinux
<1>12. NotAsked \in Syncs /\ NotAsked.since = sync.since /\ NotAsked.at = sync.at
  BY <1>0, RefuseIs DEF NotAsked, Codes
<1>13. Sampling("wait") \in Syncs /\ Sampling("wait").since = sync.since /\ Sampling("wait").at = sync.at
  BY <1>0, SamplingIs DEF Whys
<1>14. [sync EXCEPT !.pc = "daemons"] \in Syncs /\ [sync EXCEPT !.pc = "daemons"].since = sync.since
       /\ [sync EXCEPT !.pc = "daemons"].at = sync.at
  BY <1>0 DEF Syncs, SyncPCs
<1>15. \A targets \in SUBSET procs : Reach(targets) => asked' \subseteq Process
  BY <1>0 DEF Reach
<1>16. ASSUME sync' \in {NotAsked, Sampling("wait"), [sync EXCEPT !.pc = "daemons"]} PROVE Fine
  BY <1>0, <1>12, <1>13, <1>14, <1>16
<1>17. ASSUME ListFails \/ Declines PROVE ClosingTyped'
  <2>1. Fine
    BY <1>16, <1>17 DEF ListFails, Declines
  <2> QED BY <1>0, <1>3, <1>17, <2>1 DEF ListFails, Declines
<1>18. ASSUME AskWindows PROVE ClosingTyped'
  <2>1. Fine
    BY <1>16, <1>18 DEF AskWindows
  <2>2. asked' \subseteq Process
    BY <1>0, <1>15, <1>18 DEF AskWindows
  <2> QED BY <1>3, <1>18, <2>1, <2>2 DEF AskWindows
<1>19. ASSUME AskTray PROVE ClosingTyped'
  <2>1. Fine
    BY <1>16, <1>19 DEF AskTray
  <2>2. asked' \subseteq Process
    BY <1>15, <1>19 DEF AskTray, QuitEntries, OfApp
  <2> QED BY <1>3, <1>19, <2>1, <2>2 DEF AskTray
<1>20. ASSUME AskWindow PROVE ClosingTyped'
  <2>1. Fine
    BY <1>16, <1>20 DEF AskWindow
  <2>2. asked' \subseteq Process
    BY <1>0, <1>15, <1>20 DEF AskWindow, OfApp
  <2> QED BY <1>3, <1>20, <2>1, <2>2 DEF AskWindow
<1>21. ASSUME NoAppToAsk PROVE ClosingTyped'
  <2>1. Fine
    BY <1>16, <1>21 DEF NoAppToAsk
  <2> QED BY <1>0, <1>3, <1>21, <2>1 DEF NoAppToAsk
<1>22. ASSUME StopDaemons PROVE ClosingTyped'
  <2>1. Fine
    BY <1>16, <1>22 DEF StopDaemons
  <2>2. asked' \subseteq Process
    BY <1>0, <1>15, <1>22 DEF StopDaemons
  <2> QED BY <1>3, <1>22, <2>1, <2>2 DEF StopDaemons
<1>23. ASSUME EndSync PROVE ClosingTyped'
  <2>1. Fine
    BY <1>0, <1>23 DEF EndSync, NotSyncing, Syncs, SyncPCs, Whys, Codes
  <2> QED BY <1>3, <1>23, <2>1 DEF EndSync
<1>24. ASSUME UNCHANGED closingVars PROVE ClosingTyped'
  BY <1>0, <1>24 DEF closingVars, ClosingTyped
<1> QED BY <1>1, <1>2, <1>4, <1>5, <1>6, <1>7, <1>8, <1>9, <1>10, <1>11, <1>17, <1>18, <1>19, <1>20, <1>21,
           <1>22, <1>23, <1>24 DEF ClosingNext

-----------------------------------------------------------------------------
(* What a reading covers, and what stopped means for the write. *)

\* A step of the sync after which nothing is being read a second time.
LEMMA CoversNothing ==
    ASSUME sync'.pc \notin {"again", "on"}, sync'.pc = "read" => sync'.round = 1
    PROVE  ReadingCovers' /\ GoesOnWhenGone'
BY DEF ReadingCovers, GoesOnWhenGone, Do

\* A process that starts is younger than the reading, or a sandbox of one that is.
LEMMA CoversStart ==
    ASSUME ClosingTyped, ReadingCovers, GoesOnWhenGone, StartProcess
    PROVE  ReadingCovers' /\ GoesOnWhenGone'
<1>1. PICK b : Starting(b)
  BY StartIs
<1>2. /\ procs' = procs \cup {b} /\ sync' = sync /\ platform' = platform
      /\ b.birth = births + 1 /\ (b.kind # "sandbox" => b.root = b.birth)
      /\ b.kind = "sandbox" => \E q \in procs : q.kind \in NamedCodex /\ b.root = q.birth
  BY <1>1 DEF Starting
<1>3. b.birth > sync.since
  BY <1>2 DEF ClosingTyped, Syncs
<1>4. \A p : WasRead(p)' = WasRead(p)
  BY <1>2 DEF WasRead
<1>5. KnownKinds' = KnownKinds /\ MainKinds' = MainKinds
  BY <1>2 DEF KnownKinds, Markers, MainKinds
<1>6. ASSUME Do("again") \/ Do("on"), Do("again") => sync.round = 2 /\ sync.main = {} PROVE b.root > sync.since
  <2>1. CASE b.kind # "sandbox"
    BY <1>2, <1>3, <2>1
  <2>2. CASE b.kind = "sandbox"
    <3>1. PICK q \in procs : q.kind \in NamedCodex /\ b.root = q.birth
      BY <1>2, <2>2
    <3>2. q.kind # "sandbox" /\ q.root = q.birth
      BY <3>1 DEF NamedCodex, ClosingTyped, Orderly
    <3>3. CASE Do("again")
      BY <1>6, <3>1, <3>3 DEF ReadingCovers, MainKinds
    <3>4. CASE Do("on")
      BY <3>1, <3>2, <3>4 DEF GoesOnWhenGone, KnownKinds, MainKinds, Do
    <3> QED BY <1>6, <3>3, <3>4
  <2> QED BY <2>1, <2>2
<1>7. GoesOnWhenGone'
  BY <1>2, <1>5, <1>6 DEF GoesOnWhenGone, Do
<1>8. ReadingCovers'
  <2>1. (Do("again") /\ sync.round = 1 => \A p \in procs : p.kind \in MainKinds => p.birth > sync.since \/ WasRead(p))'
    BY <1>2, <1>3, <1>4, <1>5 DEF ReadingCovers, Do
  <2>2. ((Do("read") \/ Do("again")) /\ sync.round = 2 /\ sync.main = {} =>
          \A p \in procs : p.kind \in MainKinds => p.birth > sync.since)'
    BY <1>2, <1>3, <1>5 DEF ReadingCovers, Do
  <2>3. (Do("again") /\ sync.round = 2 /\ sync.main = {} =>
          \A p \in procs : p.kind \in KnownKinds => p.root > sync.since \/ WasRead(p))'
    BY <1>2, <1>4, <1>5, <1>6 DEF ReadingCovers, Do
  <2> QED BY <2>1, <2>2, <2>3 DEF ReadingCovers
<1> QED BY <1>7, <1>8

\* A process that ends takes nothing from what was read.
LEMMA CoversEnd ==
    ASSUME ClosingTyped, ReadingCovers, GoesOnWhenGone, EndProcess
    PROVE  ReadingCovers' /\ GoesOnWhenGone'
<1>1. (\A p \in procs' : \E q \in procs : Survives(p, q)) /\ sync' = sync /\ platform' = platform
  BY EndIs
<1>2. \A p, q : Survives(p, q) => WasRead(p)' = WasRead(q) /\ p.kind = q.kind /\ p.birth = q.birth /\ p.root = q.root
  BY <1>1 DEF WasRead, Survives
<1>3. KnownKinds' = KnownKinds /\ MainKinds' = MainKinds
  BY <1>1 DEF KnownKinds, Markers, MainKinds
<1> QED BY <1>1, <1>2, <1>3 DEF ReadingCovers, GoesOnWhenGone, Do

\* Who was read by name, or still runs, is in the listing.
LEMMA ReadIsListed ==
    ASSUME ClosingTyped, NEW p \in procs, WasRead(p)
    PROVE  \E e \in Listing : e.kind = p.kind
<1>1. PICK e \in sync.early : e.birth = p.birth /\ e.kind = p.kind
  BY DEF WasRead
<1>2. CASE platform = "windows"
  BY <1>2, ListingIs
<1>3. CASE platform # "windows"
  <2>1. PathRead(e)
    BY <1>1 DEF PathRead
  <2> QED BY <1>1, <1>3, <2>1, ListingIs
<1> QED BY <1>2, <1>3

\* When the first listing has no codex, every codex started after the reading began.
LEMMA CoversFirst ==
    ASSUME ClosingTyped, ReadingCovers, FirstListing
    PROVE  ReadingCovers' /\ GoesOnWhenGone'
<1>1. /\ Do("again") /\ sync.round = 1 /\ procs' = procs
      /\ sync' = [sync EXCEPT !.pc = "read", !.round = 2, !.early = {},
                              !.main = {p.kind : p \in Named(Listing, MainKinds)}, !.sandbox = SandboxDetected(Listing)]
  BY DEF FirstListing, Still
<1>2. /\ sync'.pc = "read" /\ sync'.round = 2 /\ sync'.since = sync.since
      /\ sync'.main = {p.kind : p \in Named(Listing, MainKinds)}
  BY <1>1 DEF ClosingTyped, Syncs
<1>3. ASSUME sync'.main = {}, NEW p \in procs, p.kind \in MainKinds PROVE p.birth > sync.since
  <2>1. ~WasRead(p)
    BY <1>2, <1>3, ReadIsListed DEF Named
  <2> QED BY <1>1, <1>3, <2>1 DEF ReadingCovers
<1>4. MainKinds' = MainKinds
  BY DEF MainKinds
<1> QED BY <1>1, <1>2, <1>3, <1>4 DEF ReadingCovers, GoesOnWhenGone, Do

\* When the second listing finds nothing known either, what is known is younger.
LEMMA CoversSecond ==
    ASSUME ClosingTyped, ReadingCovers, SecondListing
    PROVE  ReadingCovers' /\ GoesOnWhenGone'
<1> DEFINE background == {p.kind : p \in Named(Listing, Markers)}
<1>1. /\ Do("again") /\ sync.round = 2 /\ procs' = procs /\ platform' = platform
      /\ sync' \in {[next EXCEPT !.early = {}] : next \in Checked(State(background), OnlyDaemon(background))}
  BY DEF SecondListing, Still
<1>2. /\ sync \in Syncs /\ Orderly(platform, procs, births)
      /\ State(background) \in {"RUNNING", "STOPPED", "UNKNOWN"} /\ OnlyDaemon(background) \in BOOLEAN
  BY DEF State, OnlyDaemon, ClosingTyped
<1>3. /\ sync'.since = sync.since /\ sync'.pc \in {"read", "list", "refused", "on"}
      /\ sync'.pc = "read" => sync'.round = 1
      /\ sync'.pc = "on" => State(background) = "STOPPED"
  <2> HIDE DEF background
  <2> QED BY <1>1, <1>2, CheckedIs
<1>4. CASE sync'.pc # "on"
  BY <1>3, <1>4, CoversNothing
<1>5. CASE sync'.pc = "on"
  <2>1. sync.main = {} /\ background = {}
    BY <1>3, <1>5, StoppedMeans
  <2>2. ASSUME NEW p \in procs, p.kind \in KnownKinds PROVE p.root > sync.since
    <3>1. CASE p.kind \in MainKinds
      <4>1. p.birth > sync.since
        BY <1>1, <2>1, <3>1 DEF ReadingCovers
      <4> QED BY <1>2, <3>1, <4>1 DEF Orderly, MainKinds, NamedCodex
    <3>2. CASE p.kind \in Markers
      <4>1. ~WasRead(p)
        BY <2>1, <3>2, ReadIsListed DEF Named
      <4> QED BY <1>1, <2>1, <2>2, <4>1 DEF ReadingCovers
    <3> QED BY <2>2, <3>1, <3>2 DEF KnownKinds
  <2>3. KnownKinds' = KnownKinds
    BY <1>1 DEF KnownKinds, Markers, MainKinds
  <2>4. GoesOnWhenGone'
    BY <1>1, <1>3, <2>2, <2>3 DEF GoesOnWhenGone
  <2> QED BY <1>5, <2>4 DEF ReadingCovers, Do
<1> QED BY <1>4, <1>5

\* Every step keeps what the readings cover, and what stopped means.
LEMMA CoversKept ==
    ASSUME ClosingTyped, ReadingCovers, GoesOnWhenGone, [ClosingNext]_closingVars
    PROVE  ReadingCovers' /\ GoesOnWhenGone'
<1> DEFINE Quiet == sync'.pc \notin {"again", "on"} /\ (sync'.pc = "read" => sync'.round = 1)
<1>0. sync \in Syncs
  BY DEF ClosingTyped
<1>1. ASSUME ReadOnce PROVE ReadingCovers' /\ GoesOnWhenGone'
  <2>1. /\ Do("read") /\ procs' = procs
        /\ sync'.pc = "again" /\ sync'.early = procs /\ sync'.round = sync.round /\ sync'.main = sync.main
        /\ sync.round = 2 => sync'.since = sync.since
    BY <1>0, <1>1 DEF ReadOnce, Still, Syncs
  <2>2. \A p \in procs : WasRead(p)'
    BY <2>1 DEF WasRead
  <2> QED BY <2>1, <2>2 DEF ReadingCovers, GoesOnWhenGone, Do, MainKinds
<1>2. \A why \in Whys : sync' = Sampling(why) => Quiet
  BY <1>0, SamplingIs
<1>3. sync' = NotAsked => Quiet
  BY <1>0, RefuseIs DEF NotAsked, Codes
<1>4. \A pc \in {"details", "ask", "daemons", "idle"} : sync'.pc = pc => Quiet
  OBVIOUS
<1>5. ASSUME BeginSync \/ StopDaemons \/ AskWindows \/ ListFails \/ Declines PROVE Quiet
  BY <1>2, <1>3, <1>5 DEF BeginSync, StopDaemons, AskWindows, ListFails, Declines, Whys
<1>6. ASSUME Snapshot \/ Details \/ ListLinux \/ NoAppToAsk \/ EndSync PROVE Quiet
  <2>1. sync'.pc \in {"details", "ask", "daemons", "idle"}
    <3>1. Details => sync'.pc = "ask"
      BY <1>0, DetailsIs DEF Syncs
    <3>2. Snapshot => sync'.pc = "details"
      BY <1>0 DEF Snapshot, Syncs
    <3>3. ListLinux => sync'.pc = "ask"
      BY <1>0 DEF ListLinux, Syncs
    <3>4. NoAppToAsk => sync'.pc = "daemons"
      BY <1>0 DEF NoAppToAsk, Syncs
    <3>5. EndSync => sync'.pc = "idle"
      BY DEF EndSync, NotSyncing
    <3> QED BY <1>6, <3>1, <3>2, <3>3, <3>4, <3>5
  <2> QED BY <1>4, <2>1
<1>7. ASSUME AskTray \/ AskWindow PROVE Quiet
  <2>1. sync' = NotAsked \/ sync' = [sync EXCEPT !.pc = "daemons"]
    BY <1>7 DEF AskTray, AskWindow
  <2> QED BY <1>0, <1>3, <1>4, <2>1 DEF Syncs
<1>8. ASSUME ListingFails PROVE Quiet
  BY <1>0, <1>8, CheckedIs DEF ListingFails
<1>9. ASSUME UNCHANGED closingVars PROVE ReadingCovers' /\ GoesOnWhenGone'
  <2>1. procs' = procs /\ sync' = sync /\ platform' = platform
    BY <1>9 DEF closingVars
  <2> QED BY <2>1 DEF ReadingCovers, WasRead, GoesOnWhenGone, Do, KnownKinds, Markers, MainKinds
<1>10. Quiet => ReadingCovers' /\ GoesOnWhenGone'
  BY CoversNothing
<1> QED BY <1>1, <1>5, <1>6, <1>7, <1>8, <1>9, <1>10, CoversStart, CoversEnd, CoversFirst, CoversSecond DEF ClosingNext

-----------------------------------------------------------------------------
(* Who the list puts under the app. *)

\* What is no app, and whose top is none and has no parent in the list, is not
\* under the app: the rest of the list is closed under children.
LEMMA NotBelow ==
    ASSUME NEW list, NEW above \in SUBSET list, \A d, q \in list : d.pid = q.pid => d = q,
           NEW e \in list, e \notin above, NEW top \in list, top \notin above,
           top = e \/ e.parent = top.pid, \A q \in list : q.pid # top.parent
    PROVE  e.pid \notin {b.pid : b \in Below(list, above)}
<1> DEFINE part == list \ {e, top}
<1>1. part \in SUBSET list /\ above \subseteq part
  OBVIOUS
<1>2. ASSUME NEW q \in list, q.parent \in {a.pid : a \in part} PROVE q \in part
  <2>1. PICK a \in part : q.parent = a.pid
    BY <1>2
  <2>2. a \in list /\ a # e /\ a # top
    BY <2>1
  <2>3. q # top
    BY <2>1, <2>2
  <2>4. q # e
    BY <2>1, <2>2, <2>3
  <2> QED BY <2>3, <2>4
<1>3. ASSUME NEW b \in Below(list, above) PROVE b \in part
  BY <1>1, <1>2 DEF Below
<1>4. \A b \in Below(list, above) : b \in list /\ b # e
  BY <1>3
<1> QED BY <1>4

\* How a CLI looks in a list.
LEMMA CliEntry ==
    ASSUME NEW p \in Process, p.kind = "cli"
    PROVE  Entry(p, p).name = "codex" /\ Entry(p, p).path = "else"
BY EntryIs DEF NameOf, ProgramOf, NamedCodex, AppKinds
\* A terminal is listed as what it is, too.
LEMMA ShellEntry ==
    ASSUME NEW p \in Process, p.kind = "other"
    PROVE  Entry(p, p).name = "else" /\ Entry(p, p).path = "else"
BY EntryIs DEF NameOf, ProgramOf, NamedCodex, AppKinds

\* A CLI that is listed with its terminal, or has none, is not under the app.
LEMMA CliNotBelow ==
    ASSUME ClosingTyped, NEW list \in SUBSET Listed, \A d, q \in list : d.pid = q.pid => d = q,
           NEW above \in SUBSET list, \A x \in above : x.path = "app",
           NEW p \in procs, p.kind = "cli", Entry(p, p) \in list,
           \/ \A q \in list : q.pid # p.parent
           \/ \E q \in procs : q.pid = p.parent /\ q.birth < p.birth /\ Entry(q, q) \in list
    PROVE  Entry(p, p).pid \notin {b.pid : b \in Below(list, above)}
<1>1. Orderly(platform, procs, births) /\ procs \subseteq Process
  BY DEF ClosingTyped, Orderly
<1>2. /\ Entry(p, p).pid = p.pid /\ Entry(p, p).parent = p.parent /\ Entry(p, p) \notin above
  BY <1>1, EntryIs, CliEntry
<1>3. CASE \A q \in list : q.pid # p.parent
  BY <1>2, <1>3, NotBelow
<1>4. CASE \E q \in procs : q.pid = p.parent /\ q.birth < p.birth /\ Entry(q, q) \in list
  <2>1. PICK q \in procs : q.pid = p.parent /\ q.birth < p.birth /\ Entry(q, q) \in list
    BY <1>4
  <2>2. q.kind = "other"
    BY <1>1, <2>1 DEF Orderly, ParentsOf
  <2>3. q.parent = 0
    BY <1>1, <2>2 DEF Orderly, ParentsOf
  <2>4. Entry(q, q) \notin above /\ Entry(q, q).pid = q.pid /\ Entry(q, q).parent = 0
    BY <1>1, <2>2, <2>3, EntryIs, ShellEntry
  <2>5. \A x \in list : x.pid # 0
    BY DEF Listed
  <2> QED BY <1>2, <2>1, <2>4, <2>5, NotBelow
<1> QED BY <1>3, <1>4

-----------------------------------------------------------------------------
(* What the list says stays so. *)

\* A step of the sync that leaves the list.
LEMMA ListLeft ==
    ASSUME sync'.pc \notin {"details", "ask", "daemons"}
    PROVE  ListHolds'
BY DEF ListHolds, Do

\* Clis are what the list and the platform say.
LEMMA ClisSame ==
    ASSUME sync'.list = sync.list, platform' = platform
    PROVE  Clis' = Clis
BY DEF Clis, Outside, UnderApp, Daemons, IsApp, LinuxApp, PackageApp, CliDaemon

\* What starts is younger than the list, and no entry speaks of it.
LEMMA ListStart ==
    ASSUME ClosingTyped, ListHolds, StartProcess
    PROVE  ListHolds'
<1>1. PICK b : Starting(b)
  BY StartIs
<1>2. /\ procs' = procs \cup {b} /\ sync' = sync /\ platform' = platform
      /\ births' = births + 1 /\ b.birth = births + 1
  BY <1>1 DEF Starting
<1>3. births \in Nat /\ sync.at \in Nat /\ sync.at <= births
  BY DEF ClosingTyped, Syncs
<1>4. ~(b.birth <= sync.at)
  BY <1>2, <1>3
<1>5. Clis' = Clis
  BY <1>2, ClisSame
<1>6. (Do("ask") \/ Do("daemons") =>
         /\ sync.list \subseteq Listed
         /\ \A e \in sync.list : e.path = "app" =>
              /\ \A p \in procs : p.birth = e.started => p.kind \in AppKinds
              /\ e.started <= births /\ (platform = "linux" => e.started = e.pid))'
  <2> SUFFICES ASSUME Do("ask") \/ Do("daemons")
               PROVE  /\ sync.list \subseteq Listed
                      /\ \A e \in sync.list : e.path = "app" =>
                           /\ \A p \in procs \cup {b} : p.birth = e.started => p.kind \in AppKinds
                           /\ e.started <= births + 1 /\ (platform = "linux" => e.started = e.pid)
    BY <1>2 DEF Do
  <2>1. sync.list \subseteq Listed
    BY DEF ListHolds
  <2>2. ASSUME NEW e \in sync.list, e.path = "app"
        PROVE  /\ \A p \in procs \cup {b} : p.birth = e.started => p.kind \in AppKinds
               /\ e.started <= births + 1 /\ (platform = "linux" => e.started = e.pid)
    <3>1. /\ \A p \in procs : p.birth = e.started => p.kind \in AppKinds
          /\ e.started <= births /\ (platform = "linux" => e.started = e.pid)
      BY <2>2 DEF ListHolds
    <3>2. e.started \in Nat
      BY <2>1 DEF Listed
    <3>3. b.birth # e.started /\ e.started <= births + 1
      BY <1>2, <1>3, <3>1, <3>2
    <3> QED BY <3>1, <3>3
  <2> QED BY <2>1, <2>2
<1>7. (Do("details") =>
         /\ platform = "windows" /\ sync.list \subseteq Process
         /\ \A p, q \in sync.list : p.pid = q.pid => p = q
         /\ (\A p \in procs : p.birth <= sync.at => p \in sync.list))'
  BY <1>2, <1>4 DEF ListHolds, Do
<1>8. (Do("ask") /\ platform = "windows" =>
         /\ \A d, e \in sync.list : d.pid = e.pid => d = e
         /\ \A p \in procs : p.birth <= sync.at => Entry(p, p) \in sync.list)'
  BY <1>2, <1>4 DEF ListHolds, Do
<1>9. ((Do("ask") \/ Do("daemons")) /\ platform = "linux" =>
         ((\E p \in procs : p.kind = "cli" /\ p.birth <= sync.at) => Clis # {}))'
  BY <1>2, <1>4, <1>5 DEF ListHolds, Do
<1>10. (Do("ask") => platform \in {"windows", "linux"})' /\ (Do("daemons") => platform = "linux" /\ Clis = {})'
  BY <1>2, <1>5 DEF ListHolds, Do
<1> QED BY <1>6, <1>7, <1>8, <1>9, <1>10 DEF ListHolds

\* What ends leaves the rest of the list true.
LEMMA ListEnd ==
    ASSUME ClosingTyped, ListHolds, EndProcess
    PROVE  ListHolds'
<1>1. /\ \A p \in procs' : \E q \in procs : Survives(p, q)
      /\ sync' = sync /\ platform' = platform /\ births' = births
  BY EndIs
<1>2. Clis' = Clis
  BY <1>1, ClisSame
<1>3. (Do("ask") \/ Do("daemons") =>
         /\ sync.list \subseteq Listed
         /\ \A e \in sync.list : e.path = "app" =>
              /\ \A p \in procs : p.birth = e.started => p.kind \in AppKinds
              /\ e.started <= births /\ (platform = "linux" => e.started = e.pid))'
  BY <1>1 DEF ListHolds, Do, Survives
<1>4. platform = "windows" => procs' \subseteq procs
  BY <1>1 DEF Survives
<1>5. (Do("details") =>
         /\ platform = "windows" /\ sync.list \subseteq Process
         /\ \A p, q \in sync.list : p.pid = q.pid => p = q
         /\ (\A p \in procs : p.birth <= sync.at => p \in sync.list))'
  BY <1>1, <1>4 DEF ListHolds, Do
<1>6. (Do("ask") /\ platform = "windows" =>
         /\ \A d, e \in sync.list : d.pid = e.pid => d = e
         /\ \A p \in procs : p.birth <= sync.at => Entry(p, p) \in sync.list)'
  BY <1>1, <1>4 DEF ListHolds, Do
<1>7. ((Do("ask") \/ Do("daemons")) /\ platform = "linux" =>
         ((\E p \in procs : p.kind = "cli" /\ p.birth <= sync.at) => Clis # {}))'
  BY <1>1, <1>2 DEF ListHolds, Do, Survives
<1>8. (Do("ask") => platform \in {"windows", "linux"})' /\ (Do("daemons") => platform = "linux" /\ Clis = {})'
  BY <1>1, <1>2 DEF ListHolds, Do
<1> QED BY <1>3, <1>5, <1>6, <1>7, <1>8 DEF ListHolds

\* The snapshot is of who runs.
LEMMA ListSnapshot ==
    ASSUME ClosingTyped, Snapshot
    PROVE  ListHolds'
<1>1. /\ sync'.pc = "details" /\ sync'.at = births /\ sync'.list = procs
      /\ platform' = platform /\ platform = "windows" /\ procs' = procs
  BY DEF Snapshot, Still, ClosingTyped, Syncs
<1>2. Orderly(platform, procs, births)
  BY DEF ClosingTyped
<1> QED BY <1>1, <1>2 DEF ListHolds, Do, Orderly

\* The paths and the starts are of who has the number when they are read.
LEMMA ListDetails ==
    ASSUME ClosingTyped, ListHolds, Details
    PROVE  ListHolds'
<1>1. /\ Do("details") /\ sync'.pc = "ask" /\ sync'.at = sync.at /\ sync'.list = {Detail(p) : p \in sync.list}
      /\ platform' = platform /\ procs' = procs /\ births' = births
  BY DetailsIs DEF Details, Still, ClosingTyped, Syncs
<1>2. /\ platform = "windows" /\ sync.list \subseteq Process
      /\ \A p, q \in sync.list : p.pid = q.pid => p = q
      /\ \A p \in procs : p.birth <= sync.at => p \in sync.list
  BY <1>1 DEF ListHolds
<1>3. Orderly(platform, procs, births) /\ procs \subseteq Process
  BY DEF ClosingTyped, Orderly
<1>4. \A p \in sync.list : /\ Detail(p) \in Listed /\ Detail(p).pid = p.pid
                           /\ Detail(p) = Unread(p) \/ \E q \in procs : q.pid = p.pid /\ Detail(p) = Entry(p, q)
  BY <1>2, <1>3, DetailIs
<1>5. sync'.list \subseteq Listed /\ \A d, e \in sync'.list : d.pid = e.pid => d = e
  BY <1>1, <1>2, <1>4
<1>6. ASSUME NEW e \in sync'.list, e.path = "app"
      PROVE  (\A p \in procs : p.birth = e.started => p.kind \in AppKinds) /\ e.started <= births
  <2>1. PICK p \in sync.list : e = Detail(p)
    BY <1>1
  <2>2. Unread(p).path = ""
    BY <1>2, EntryIs
  <2>3. PICK q \in procs : e = Entry(p, q)
    BY <1>4, <1>6, <2>1, <2>2
  <2>4. e.path = ProgramOf(q.kind) /\ e.started = q.birth
    BY <1>2, <1>3, <2>3, EntryIs
  <2>5. q.kind \in AppKinds
    BY <1>6, <2>4 DEF ProgramOf
  <2> QED BY <1>3, <2>4, <2>5 DEF Orderly
<1>7. ASSUME NEW p \in procs, p.birth <= sync.at PROVE Entry(p, p) \in sync'.list
  <2>1. p \in sync.list
    BY <1>2, <1>7
  <2>2. {q \in procs : q.pid = p.pid} = {p}
    BY <1>3 DEF Orderly
  <2>3. Detail(p) = Entry(p, p)
    BY <2>2 DEF Detail
  <2> QED BY <1>1, <2>1, <2>3
<1> QED BY <1>1, <1>2, <1>5, <1>6, <1>7 DEF ListHolds, Do

\* On Linux one look tells all: a CLI that runs is seen to be nobody's child.
LEMMA ListOnLinux ==
    ASSUME ClosingTyped, ListLinux
    PROVE  ListHolds'
<1> DEFINE list == {Entry(p, p) : p \in procs}
<1>1. /\ sync'.pc = "ask" /\ sync'.at = births /\ sync'.list = list
      /\ platform' = "linux" /\ platform = "linux" /\ procs' = procs /\ births' = births
  BY DEF ListLinux, Still, ClosingTyped, Syncs
<1>2. Orderly(platform, procs, births) /\ procs \subseteq Process
  BY DEF ClosingTyped, Orderly
<1>3. \A p \in procs : /\ Entry(p, p) \in Listed /\ Entry(p, p).pid = p.pid
                       /\ Entry(p, p).path = ProgramOf(p.kind) /\ Entry(p, p).started = p.birth
  BY <1>2, EntryIs
<1>4. list \subseteq Listed /\ \A d, e \in list : d.pid = e.pid => d = e
  BY <1>2, <1>3 DEF Orderly
<1>5. ASSUME NEW e \in list, e.path = "app"
      PROVE  (\A p \in procs : p.birth = e.started => p.kind \in AppKinds) /\ e.started <= births /\ e.started = e.pid
  <2>1. PICK q \in procs : e = Entry(q, q)
    OBVIOUS
  <2>2. e.path = ProgramOf(q.kind) /\ e.started = q.birth /\ e.pid = q.pid
    BY <1>3, <2>1
  <2>3. q.kind \in AppKinds
    BY <1>5, <2>2 DEF ProgramOf
  <2> QED BY <1>1, <1>2, <2>2, <2>3 DEF Orderly
<1>6. ASSUME NEW p \in procs, p.kind = "cli" PROVE Clis' # {}
  <2> DEFINE above == {x \in list : x.path = "app"}
             e == Entry(p, p)
  <2>1. e \in list /\ e.name = "codex" /\ e.path = "else"
    BY <1>2, <1>6, CliEntry
  <2>2. \/ \A q \in list : q.pid # p.parent
        \/ \E q \in procs : q.pid = p.parent /\ q.birth < p.birth /\ Entry(q, q) \in list
    <3>1. \A q \in procs : q.pid = q.birth /\ p.parent < p.birth
      BY <1>1, <1>2 DEF Orderly
    <3>2. \A x \in list : \E q \in procs : x.pid = q.pid /\ x = Entry(q, q)
      BY <1>3
    <3> HIDE DEF list
    <3> QED BY <3>1, <3>2
  <2>3. e.pid \notin {b.pid : b \in Below(list, above)}
    <3> HIDE DEF list, e
    <3>1. above \in SUBSET list /\ \A x \in above : x.path = "app"
      OBVIOUS
    <3> HIDE DEF above
    <3> QED BY <1>4, <1>6, <2>1, <2>2, <3>1, CliNotBelow DEF e
  <2>4. {x \in list : IsApp(x)}' = above
    BY <1>1 DEF IsApp, LinuxApp
  <2>5. UnderApp' = {b.pid : b \in Below(list, above)}
    BY <1>1, <2>4 DEF UnderApp, IsApp, LinuxApp
  <2> HIDE DEF list, e, above
  <2>6. e \in Outside'
    BY <1>1, <2>1, <2>3, <2>5 DEF Outside, IsApp, LinuxApp
  <2>7. e \notin Daemons'
    BY <2>1 DEF Daemons, CliDaemon
  <2> QED BY <2>6, <2>7 DEF Clis
<1> HIDE DEF list
<1>7. (\E p \in procs : p.kind = "cli" /\ p.birth <= births) => Clis' # {}
  BY <1>6
<1> QED BY <1>1, <1>4, <1>5, <1>7 DEF ListHolds, Do

\* Going on from the list to the daemons: nothing was refused.
LEMMA ListAsked ==
    ASSUME ClosingTyped, ListHolds, Do("ask"), platform = "linux", ~Refused, Still,
           sync' = [sync EXCEPT !.pc = "daemons"]
    PROVE  ListHolds'
<1>1. /\ sync'.pc = "daemons" /\ sync'.at = sync.at /\ sync'.list = sync.list
      /\ platform' = platform /\ procs' = procs /\ births' = births
  BY DEF Still, ClosingTyped, Syncs
<1>2. Clis' = Clis /\ Clis = {}
  BY <1>1, ClisSame DEF Refused
<1> QED BY <1>1, <1>2 DEF ListHolds, Do

\* Every step keeps what the list says.
LEMMA ListKept ==
    ASSUME ClosingTyped, ListHolds, [ClosingNext]_closingVars
    PROVE  ListHolds'
<1> DEFINE Unlisted == sync'.pc \notin {"details", "ask", "daemons"}
<1>0. sync \in Syncs
  BY DEF ClosingTyped
<1>1. \A why \in Whys : sync' = Sampling(why) => Unlisted
  BY <1>0, SamplingIs
<1>2. sync' = NotAsked => Unlisted
  BY <1>0, RefuseIs DEF NotAsked, Codes
<1>3. ASSUME BeginSync \/ StopDaemons \/ AskWindows \/ ListFails \/ Declines PROVE Unlisted
  BY <1>1, <1>2, <1>3 DEF BeginSync, StopDaemons, AskWindows, ListFails, Declines, Whys
<1>4. ASSUME ListingFails PROVE Unlisted
  BY <1>0, <1>4, CheckedIs DEF ListingFails
<1>5. ASSUME SecondListing PROVE Unlisted
  <2>1. PICK background :
          sync' \in {[next EXCEPT !.early = {}] : next \in Checked(State(background), OnlyDaemon(background))}
    BY <1>5 DEF SecondListing
  <2>2. State(background) \in {"RUNNING", "STOPPED", "UNKNOWN"} /\ OnlyDaemon(background) \in BOOLEAN
    BY DEF State, OnlyDaemon
  <2> QED BY <1>0, <2>1, <2>2, CheckedIs
<1>6. ASSUME ReadOnce \/ FirstListing \/ EndSync PROVE Unlisted
  <2>1. ReadOnce => sync'.pc = "again"
    BY <1>0 DEF ReadOnce, Syncs
  <2>2. FirstListing => sync'.pc = "read"
    BY <1>0 DEF FirstListing, Syncs
  <2>3. EndSync => sync'.pc = "idle"
    BY DEF EndSync, NotSyncing
  <2> QED BY <1>6, <2>1, <2>2, <2>3
<1>7. ASSUME AskTray \/ AskWindow \/ NoAppToAsk PROVE ListHolds'
  <2>1. /\ Do("ask") /\ platform = "linux" /\ ~Refused /\ Still
        /\ sync' = NotAsked \/ sync' = [sync EXCEPT !.pc = "daemons"]
    BY <1>7 DEF AskTray, AskWindow, NoAppToAsk
  <2> QED BY <1>2, <2>1, ListLeft, ListAsked
<1>8. ASSUME UNCHANGED closingVars PROVE ListHolds'
  <2>1. procs' = procs /\ sync' = sync /\ platform' = platform /\ births' = births
    BY <1>8 DEF closingVars
  <2>2. Clis' = Clis
    BY <2>1, ClisSame
  <2> QED BY <2>1, <2>2 DEF ListHolds, Do
<1>9. Unlisted => ListHolds'
  BY ListLeft
<1> QED BY <1>3, <1>4, <1>5, <1>6, <1>7, <1>8, <1>9, ListStart, ListEnd, ListSnapshot, ListDetails, ListOnLinux
        DEF ClosingNext

-----------------------------------------------------------------------------
(* What a request reaches. *)

AskedFits ==
    \/ asked' \subseteq asked
    \/ /\ \A p \in asked' : p.kind \in AppKinds \cup (IF platform = "linux" THEN {"daemon"} ELSE {})
       /\ \A p \in procs : p.kind = "cli" /\ p.birth <= sync.at => ~InTerminal(p)

\* A CLI of an open terminal that is in the list is a reason to refuse.
LEMMA CliRefused ==
    ASSUME ClosingTyped, ListHolds, Do("ask"), NEW p \in procs, p.kind = "cli", p.birth <= sync.at, InTerminal(p)
    PROVE  Refused
<1>0. Orderly(platform, procs, births) /\ procs \subseteq Process /\ births \in Nat /\ sync.at \in Nat
  BY DEF ClosingTyped, Orderly, Syncs
<1>1. CASE platform = "linux"
  BY <1>1 DEF ListHolds, Refused
<1>2. CASE platform = "windows"
  <2> DEFINE above == {x \in sync.list : IsApp(x)}
             e == Entry(p, p)
  <2>1. /\ sync.list \subseteq Listed
        /\ \A d, q \in sync.list : d.pid = q.pid => d = q
        /\ \A q \in procs : q.birth <= sync.at => Entry(q, q) \in sync.list
    BY <1>2 DEF ListHolds
  <2>2. e \in sync.list /\ e.name = "codex" /\ e.path = "else"
    BY <1>0, <2>1, CliEntry
  <2>3. \/ \A q \in sync.list : q.pid # p.parent
        \/ \E q \in procs : q.pid = p.parent /\ q.birth < p.birth /\ Entry(q, q) \in sync.list
    <3>1. CASE p.parent = 0
      BY <2>1, <3>1 DEF Listed
    <3>2. CASE p.parent # 0
      <4>1. PICK q \in procs : q.pid = p.parent /\ q.birth < p.birth
        BY <1>2, <3>2 DEF InTerminal
      <4>2. q.birth \in Nat /\ p.birth \in Nat
        BY <1>0 DEF Process
      <4>3. q.birth <= sync.at
        BY <1>0, <4>1, <4>2
      <4> QED BY <2>1, <4>1, <4>3
    <3> QED BY <3>1, <3>2
  <2>4. above \in SUBSET sync.list /\ (\A x \in above : x.path = "app") /\ ~IsApp(e)
    BY <1>2, <2>2 DEF IsApp, PackageApp
  <2>5. e.pid \notin {b.pid : b \in Below(sync.list, above)}
    <3> HIDE DEF e, above
    <3> QED BY <2>1, <2>2, <2>3, <2>4, CliNotBelow DEF e
  <2>6. UnderApp = {b.pid : b \in Below(sync.list, above)}
    BY DEF UnderApp
  <2> HIDE DEF e, above
  <2>7. e \in Outside
    BY <2>2, <2>4, <2>5, <2>6 DEF Outside
  <2> QED BY <1>2, <2>7 DEF Refused
<1> QED BY <1>1, <1>2 DEF ListHolds

\* Who has the number of a listed app on Linux is of the app.
LEMMA OfAppKinds ==
    ASSUME ClosingTyped, ListHolds, Do("ask"), platform = "linux", NEW p \in OfApp
    PROVE  p.kind \in AppKinds
<1>1. Orderly(platform, procs, births)
  BY DEF ClosingTyped
<1>2. PICK e \in sync.list : p \in procs /\ p.pid = e.pid /\ IsApp(e)
  BY DEF OfApp, AppPids
<1>3. e.path = "app"
  BY <1>2 DEF IsApp, LinuxApp
<1>4. e.started = e.pid /\ (p.birth = e.started => p.kind \in AppKinds)
  BY <1>2, <1>3 DEF ListHolds
<1> QED BY <1>1, <1>2, <1>4 DEF Orderly

\* A step that asks reaches only what it may, and only with no CLI of a terminal listed.
LEMMA AskStep ==
    ASSUME ClosingTyped, ListHolds, AskedKinds, [ClosingNext]_closingVars
    PROVE  AskedFits /\ AskedKinds'
<1> DEFINE Kindly(set) == \A p \in set : p.kind \in AppKinds \cup (IF platform = "linux" THEN {"daemon"} ELSE {})
<1>1. platform' = platform
  BY DEF closingVars, ClosingNext, StartProcess, EndProcess, BeginSync, ReadOnce, FirstListing, SecondListing, ListingFails,
         Snapshot, Details, ListLinux, ListFails, Declines, AskWindows, AskTray, AskWindow, NoAppToAsk, StopDaemons, EndSync, Still
<1>2. ASSUME asked' \subseteq asked PROVE AskedFits /\ AskedKinds'
  BY <1>1, <1>2 DEF AskedFits, AskedKinds
<1>3. ASSUME NEW targets, Reach(targets), Kindly(targets),
             \A p \in procs : p.kind = "cli" /\ p.birth <= sync.at => ~InTerminal(p)
      PROVE  AskedFits /\ AskedKinds'
  <2>1. Kindly(asked')
    BY <1>3 DEF Reach, AskedKinds
  <2> QED BY <1>1, <1>3, <2>1 DEF AskedFits, AskedKinds
<1>4. Do("ask") /\ ~Refused => \A p \in procs : p.kind = "cli" /\ p.birth <= sync.at => ~InTerminal(p)
  BY CliRefused
<1>5. ASSUME AskWindows PROVE AskedFits /\ AskedKinds'
  <2> DEFINE targets == {p \in procs : \E e \in AppRoots : SameProcess(p, e)}
  <2>1. Kindly(targets)
    BY <1>5 DEF AskWindows, AppRoots, IsApp, PackageApp, SameProcess, ListHolds
  <2>2. Reach(targets) \/ UNCHANGED asked
    BY <1>5 DEF AskWindows
  <2>3. Do("ask") /\ ~Refused
    BY <1>5 DEF AskWindows
  <2> HIDE DEF targets, Kindly
  <2>4. CASE UNCHANGED asked
    BY <2>4, <1>2
  <2>5. CASE Reach(targets)
    BY <1>3, <1>4, <2>1, <2>3, <2>5
  <2> QED BY <2>2, <2>4, <2>5
<1>6. ASSUME AskTray \/ AskWindow PROVE AskedFits /\ AskedKinds'
  <2>1. Do("ask") /\ platform = "linux" /\ ~Refused /\ ((\E set \in SUBSET OfApp : Reach(set)) \/ UNCHANGED asked)
    BY <1>6 DEF AskTray, AskWindow, QuitEntries
  <2>2. \A set \in SUBSET OfApp : Kindly(set)
    BY <2>1, OfAppKinds
  <2> HIDE DEF Kindly
  <2>3. CASE UNCHANGED asked
    BY <2>3, <1>2
  <2>4. CASE \E set \in SUBSET OfApp : Reach(set)
    BY <1>3, <1>4, <2>1, <2>2, <2>4
  <2> QED BY <2>1, <2>3, <2>4
<1>7. ASSUME StopDaemons PROVE AskedFits /\ AskedKinds'
  <2>1. Do("daemons") /\ (Reach({p \in procs : p.kind = "daemon"}) \/ UNCHANGED asked)
    BY <1>7 DEF StopDaemons
  <2>2. platform = "linux" /\ \A p \in procs : ~(p.kind = "cli" /\ p.birth <= sync.at)
    BY <2>1 DEF ListHolds
  <2>3. Kindly({p \in procs : p.kind = "daemon"})
    BY <2>2
  <2> HIDE DEF Kindly
  <2>4. CASE UNCHANGED asked
    BY <2>4, <1>2
  <2>5. CASE Reach({p \in procs : p.kind = "daemon"})
    BY <1>3, <2>2, <2>3, <2>5
  <2> QED BY <2>1, <2>4, <2>5
<1>8. ASSUME EndSync \/ UNCHANGED <<asked>> PROVE AskedFits /\ AskedKinds'
  <2>1. asked' \subseteq asked
    BY <1>8 DEF EndSync
  <2> QED BY <1>2, <2>1
<1>9. \/ AskWindows \/ AskTray \/ AskWindow \/ StopDaemons \/ EndSync
      \/ UNCHANGED <<asked>>
  BY DEF closingVars, ClosingNext, StartProcess, EndProcess, BeginSync, ReadOnce, FirstListing, SecondListing, ListingFails,
         Snapshot, Details, ListLinux, ListFails, Declines, NoAppToAsk
<1> QED BY <1>5, <1>6, <1>7, <1>8, <1>9

-----------------------------------------------------------------------------
(* The theorems. *)

\* The invariant holds at first.
LEMMA ClosingInvStart == ASSUME ClosingInit PROVE ClosingInv
<1>1. sync = NotSyncing /\ asked = {}
  BY DEF ClosingInit
<1>2. sync.pc = "idle"
  BY <1>1 DEF NotSyncing
<1>3. ReadingCovers /\ ListHolds /\ GoesOnWhenGone
  BY <1>2 DEF ReadingCovers, ListHolds, GoesOnWhenGone, Do
<1> QED BY <1>1, <1>3, TypesStart DEF ClosingInv, AskedKinds
\* Every step keeps the invariant.
LEMMA ClosingInvKept == ASSUME ClosingInv, [ClosingNext]_closingVars PROVE ClosingInv'
BY TypesKept, CoversKept, ListKept, AskStep DEF ClosingInv

\* However processes start, end and take numbers between any two readings:
\* what the readings covered and the list says holds in every behaviour.
THEOREM ClosingCorrect == ClosingSpec => []ClosingInv
<1> QED BY ClosingInvStart, ClosingInvKept, PTL DEF ClosingSpec

\* A write begins only when nothing the detector knows is left of what ran when
\* the last reading began (safety_gate.py, collect_process_snapshot).
THEOREM WritesWhenGone == ClosingSpec => []GoesOnWhenGone
<1>1. ClosingInv => GoesOnWhenGone
  BY DEF ClosingInv
<1> QED BY <1>1, ClosingCorrect, PTL

\* A request to quit reaches the app, its parts and, on Linux, a left daemon,
\* and none is made beside a CLI of a terminal that was listed.
THEOREM AsksOnlyCodex == ClosingSpec => OnlyCodexAsked
<1>1. ClosingInv /\ [ClosingNext]_closingVars => [AskedFits]_closingVars
  BY AskStep DEF ClosingInv
<1>2. ClosingSpec => [][AskedFits]_closingVars
  BY <1>1, ClosingCorrect, PTL DEF ClosingSpec
<1> QED BY <1>2, PTL DEF OnlyCodexAsked, AskedFits

-----------------------------------------------------------------------------
(* The window's pages: what the table of buttons says, row by row. *)
Flags ==
    {"busy", "acting", "loading", "scoping", "indexing", "scanning", "moving", "filing", "placing", "looking",
     "running", "reading", "drying", "boarding", "snapping", "restoring", "accepting", "codexBusy", "copying",
     "recounting"}
FlagsOf(page) == Flags \cap DOMAIN Models[page]
\* The fields of a page a write's plan is taken from.
PlansOf(page) ==
    CASE page = "sessions" -> {"scan"} [] page = "projects" -> {"scan", "moveScan"} [] page = "chats" -> {"preview"}
      [] page = "guardian" -> {"preview", "accept"} [] page = "recovery" -> {"rebuild", "health"} [] OTHER -> {}
\* The flag up while a plan is read, and the flag up while it is carried out.
ReadFlag(page, plan) ==
    CASE page = "sessions" -> "busy" [] page = "projects" -> IF plan = "scan" THEN "scanning" ELSE "moving"
      [] page = "chats" -> "moving" [] page = "guardian" -> IF plan = "preview" THEN "restoring" ELSE "accepting"
      [] OTHER -> "codexBusy"
WriteFlag(page, plan) == IF page \in {"sessions", "projects"} /\ plan = "scan" THEN "acting" ELSE ReadFlag(page, plan)

FlagsAreApart(w) ==
    /\ w.page \in DOMAIN Models /\ w.flag \in w.blocked /\ w.blocked \subseteq FlagsOf(w.page)
    /\ w.shows \notin Flags /\ w.again \notin Flags /\ w.checks \notin Flags
    /\ \A f \in w.forgets \cup w.drops \cup w.after : f \notin Flags
    /\ w.picks => w.about \notin Flags
ReadsOnlyRead(w) ==
    /\ w.reads \in BOOLEAN /\ w.picks \in BOOLEAN /\ w.matches \in BOOLEAN /\ w.late \in BOOLEAN
    /\ w.reads => w.again = Nothing /\ w.checks = Nothing /\ w.plan = Nothing /\ w.forgets = {} /\ w.after = {}
    /\ w.kind = "full_sync" => ~w.reads /\ "full_sync" \in w.unless
    /\ (~w.reads /\ w.plan # Nothing) => w.plan \in PlansOf(w.page)
PlansHaveFlags(w) ==
    \A f \in PlansOf(w.page) :
        /\ w.shows = f => w.reads /\ w.flag = ReadFlag(w.page, f) /\ WriteFlag(w.page, f) \in w.blocked
        /\ w.again = f => ~w.reads /\ w.flag = WriteFlag(w.page, f) /\ w.shows # f /\ f \notin w.forgets
        /\ f \in w.forgets => w.flag = WriteFlag(w.page, f) /\ ReadFlag(w.page, f) \in w.blocked /\ w.shows # f
        /\ f # w.checks /\ f \notin w.after /\ (w.picks => w.about # f)

\* What keeps the choice a plan is about while the plan stands.
ChoicesAreKept(w) ==
    /\ w.page = "guardian" =>
           /\ w.again # "preview" /\ (w.shows = "preview" => w.reads /\ w.about = "selected" /\ w.matches)
           /\ "selected" \notin {w.shows, w.again, w.checks} \cup w.forgets \cup w.drops \cup w.after
           /\ ~w.picks
    /\ w.page = "projects" =>
           /\ w.again # "moveScan" /\ (w.shows = "moveScan" => w.reads /\ w.about = "inputs" /\ w.matches)
           /\ "inputs" \notin {w.shows, w.again, w.checks} \cup w.forgets \cup w.drops \cup w.after
           /\ w.picks => w.about # "inputs"
    /\ w.page = "chats" =>
           /\ w.shows = "preview" => w.about = "request" /\ w.picks /\ w.needs = "dir" /\ "preview" \in w.drops
           /\ w.again # "preview" /\ (w.picks => w.shows = "preview")
           /\ w.reads => w.shows \in {"dir", "preview"}
           /\ w.shows = "dir" => w.flag = "busy" /\ w.reads
           /\ "request" \notin {w.shows, w.again, w.checks} \cup w.drops \cup w.after
           /\ "dir" \notin {w.again, w.checks} \cup w.drops \cup w.after
           /\ "request" \in w.forgets => "preview" \in w.forgets
\* The flags of what a page reads when it is shown: no button that asks is grey by them.
ArrivalFlags == {"busy", "copying", "reading", "boarding"}
AsksApart(w) == (~w.reads /\ w.page # "sessions") => w.blocked \cap ArrivalFlags = {}
\* Only the answer about a place looks the settings up when its turn comes.
IsEarly(w) == w.late => w.reads
ReadsByItself(w) ==
    w.reads /\ w.flag \in ArrivalFlags /\ w.page \notin {"sessions", "chats"} /\ w.kind # "full_sync"
ReadsSessions(w) == w.page = "sessions" /\ w.reads /\ w.kind # "full_sync"
RowFacts(w) == FlagsAreApart(w) /\ ReadsOnlyRead(w) /\ PlansHaveFlags(w) /\ ChoicesAreKept(w) /\ AsksApart(w)

\* The fields of every page's model, read off the table.
LEMMA PagesHaveFields ==
    /\ DOMAIN Models = {"sessions", "projects", "chats", "sync", "overview", "automation", "guardian", "recovery",
                        "backups", "home"}
    /\ DOMAIN Models["sessions"] = {"busy", "acting", "loading", "scoping", "indexing", "pair", "rule", "scan",
            "dir", "index"}
    /\ DOMAIN Models["projects"] = {"busy", "scanning", "acting", "moving", "filing", "placing", "dir", "scan",
            "inputs", "moveScan", "checked", "files", "places"}
    /\ DOMAIN Models["chats"] = {"busy", "moving", "dir", "request", "preview"}
    /\ DOMAIN Models["sync"] = {"looking", "running", "reading", "preview", "result", "history"}
    /\ DOMAIN Models["overview"] = {"busy", "drying", "state", "dry"}
    /\ DOMAIN Models["automation"] = {"running", "boarding", "result", "board"}
    /\ DOMAIN Models["guardian"] = {"busy", "snapping", "restoring", "accepting", "list", "selected", "preview",
            "checked", "accept"}
    /\ DOMAIN Models["recovery"] = {"busy", "acting", "codexBusy", "list", "checked", "health", "rebuild"}
    /\ DOMAIN Models["backups"] = {"busy", "acting", "copying", "list", "checked", "copies"}
    /\ DOMAIN Models["home"] = {"busy", "recounting", "summary", "recount"}
BY DEF Models, Fields, SessionsModel, ProjectsModel, ChatsModel, SyncModel, OverviewModel, AutomationModel,
    GuardianModel, RecoveryModel, BackupsModel, HomeModel

Arrivals ==
    {"inventory", "journals", "listBackups", "copiesFolder", "environment", "homeSummary", "loadHistory", "handoffBoard"}
\* Every row of the table keeps to the facts above; only the answer about a
\* place looks the settings up late.
LEMMA RowsAreSound ==
    /\ \A name \in DOMAIN Rows : RowFacts(Rows[name]) /\ (name # "answerPlace" => IsEarly(Rows[name]))
    /\ \A name \in Arrivals : name \in DOMAIN Rows /\ ReadsByItself(Rows[name])
    /\ \A name \in {"scanSessions", "loadProjects"} : name \in DOMAIN Rows /\ ReadsSessions(Rows[name])
<1> USE PagesHaveFields, NothingAssumption DEF RowFacts, FlagsAreApart, FlagsOf, Flags, ReadsOnlyRead, PlansHaveFlags,
    PlansOf, ReadFlag, WriteFlag, ChoicesAreKept, AsksApart, ArrivalFlags, Both, Job, Read,
    IsEarly, ReadsByItself, ReadsSessions
<1>1. RowFacts(ScanSessions) /\ IsEarly(ScanSessions) /\ ReadsSessions(ScanSessions)
  BY DEF ScanSessions, ScanButton
<1>2. RowFacts(Resolve) /\ IsEarly(Resolve)
  BY DEF Resolve, ResolutionButtons
<1>3. RowFacts(ResolveFormats) /\ IsEarly(ResolveFormats)
  BY DEF ResolveFormats, Resolve, ResolutionButtons
<1>4. RowFacts(ApplySessions) /\ IsEarly(ApplySessions)
  BY DEF ApplySessions, PlanButtons
<1>5. RowFacts(SessionIndex) /\ IsEarly(SessionIndex)
  BY DEF SessionIndex, IndexButton
<1>6. RowFacts(LoadProjects) /\ IsEarly(LoadProjects) /\ ReadsSessions(LoadProjects)
  BY DEF LoadProjects
<1>7. RowFacts(TakeWorkingSet) /\ IsEarly(TakeWorkingSet)
  BY DEF TakeWorkingSet, ScopeButtons
<1>8. RowFacts(ClearWorkingSet) /\ IsEarly(ClearWorkingSet)
  BY DEF ClearWorkingSet, ScopeButtons
<1>9. RowFacts(RefreshProjects) /\ IsEarly(RefreshProjects)
  BY DEF RefreshProjects, ProjectsButton
<1>10. RowFacts(ScanRepair) /\ IsEarly(ScanRepair)
  BY DEF ScanRepair, RepairButtons
<1>11. RowFacts(ApplyRepair) /\ IsEarly(ApplyRepair)
  BY DEF ApplyRepair, RepairButtons
<1>12. RowFacts(ScanMove) /\ IsEarly(ScanMove)
  BY DEF ScanMove, FolderButtons
<1>13. RowFacts(ApplyMove) /\ IsEarly(ApplyMove)
  BY DEF ApplyMove, FolderButtons
<1>14. RowFacts(CheckFiles) /\ IsEarly(CheckFiles)
  BY DEF CheckFiles, FilesButton
<1>15. RowFacts(CheckPlaces) /\ IsEarly(CheckPlaces)
  BY DEF CheckPlaces
<1>16. RowFacts(AnswerPlace)
  BY DEF AnswerPlace, PlacesButtons
<1>17. RowFacts(RefreshChats) /\ IsEarly(RefreshChats)
  BY DEF RefreshChats, ChatsButton
<1>18. RowFacts(PreviewChats) /\ IsEarly(PreviewChats)
  BY DEF PreviewChats, PreviewButtons
<1>19. RowFacts(MoveChats) /\ IsEarly(MoveChats)
  BY DEF MoveChats, MoveButtons
<1>20. RowFacts(CheckPlan) /\ IsEarly(CheckPlan)
  BY DEF CheckPlan, RunButtons
<1>21. RowFacts(LoadHistory) /\ IsEarly(LoadHistory) /\ ReadsByItself(LoadHistory)
  BY DEF LoadHistory, HistoryButton
<1>22. RowFacts(DryRun) /\ IsEarly(DryRun)
  BY DEF DryRun, RunButtons
<1>23. RowFacts(FullSync) /\ IsEarly(FullSync)
  BY DEF FullSync
<1>24. RowFacts(DecideSync) /\ IsEarly(DecideSync)
  BY DEF DecideSync, FullSync
<1>25. RowFacts(DryRunHere) /\ IsEarly(DryRunHere)
  BY DEF DryRunHere, DryRunButton
<1>26. RowFacts(Environment) /\ IsEarly(Environment) /\ ReadsByItself(Environment)
  BY DEF Environment, StateButton
<1>27. RowFacts(HandoffNow) /\ IsEarly(HandoffNow)
  BY DEF HandoffNow, HandoffButtons
<1>28. RowFacts(HandoffBoard) /\ IsEarly(HandoffBoard) /\ ReadsByItself(HandoffBoard)
  BY DEF HandoffBoard
<1>29. RowFacts(Inventory) /\ IsEarly(Inventory) /\ ReadsByItself(Inventory)
  BY DEF Inventory, SnapshotsButton
<1>30. RowFacts(TakeSnapshot) /\ IsEarly(TakeSnapshot)
  BY DEF TakeSnapshot
<1>31. RowFacts(PreviewRestore) /\ IsEarly(PreviewRestore)
  BY DEF PreviewRestore, RestoreButtons
<1>32. RowFacts(RestoreState) /\ IsEarly(RestoreState)
  BY DEF RestoreState, RestoreButtons
<1>33. RowFacts(PreviewAccept) /\ IsEarly(PreviewAccept)
  BY DEF PreviewAccept, AcceptButtons
<1>34. RowFacts(AcceptState) /\ IsEarly(AcceptState)
  BY DEF AcceptState, AcceptButtons
<1>35. RowFacts(Journals) /\ IsEarly(Journals) /\ ReadsByItself(Journals)
  BY DEF Journals, JournalsButton
<1>36. RowFacts(ActOnJournal) /\ IsEarly(ActOnJournal)
  BY DEF ActOnJournal, JournalButtons
<1>37. RowFacts(CheckCodex) /\ IsEarly(CheckCodex)
  BY DEF CheckCodex, CodexButtons
<1>38. RowFacts(RepairCodex) /\ IsEarly(RepairCodex)
  BY DEF RepairCodex, CodexButtons
<1>39. RowFacts(PrepareRebuild) /\ IsEarly(PrepareRebuild)
  BY DEF PrepareRebuild, CodexButtons
<1>40. RowFacts(RequestRebuild) /\ IsEarly(RequestRebuild)
  BY DEF RequestRebuild, CodexButtons
<1>41. RowFacts(ListBackups) /\ IsEarly(ListBackups) /\ ReadsByItself(ListBackups)
  BY DEF ListBackups
<1>42. RowFacts(RestoreBackup) /\ IsEarly(RestoreBackup)
  BY DEF RestoreBackup, BackupButtons
<1>43. RowFacts(CopiesFolder) /\ IsEarly(CopiesFolder) /\ ReadsByItself(CopiesFolder)
  BY DEF CopiesFolder, CopiesButton
<1>44. RowFacts(HomeSummary) /\ IsEarly(HomeSummary) /\ ReadsByItself(HomeSummary)
  BY DEF HomeSummary, HomeButton
<1>45. RowFacts(Recount) /\ IsEarly(Recount)
  BY DEF Recount, RecountButton
<1> HIDE PagesHaveFields, NothingAssumption DEF RowFacts, FlagsAreApart, FlagsOf, Flags, ReadsOnlyRead, PlansHaveFlags,
    PlansOf, ReadFlag, WriteFlag, ChoicesAreKept, AsksApart, ArrivalFlags, Both, Job, Read,
    IsEarly, ReadsByItself, ReadsSessions
<1>46. \A name \in DOMAIN Rows : RowFacts(Rows[name])
  BY <1>1, <1>2, <1>3, <1>4, <1>5, <1>6, <1>7, <1>8, <1>9, <1>10, <1>11, <1>12, <1>13, <1>14, <1>15, <1>16,
     <1>17, <1>18, <1>19, <1>20, <1>21, <1>22, <1>23, <1>24, <1>25, <1>26, <1>27, <1>28, <1>29, <1>30, <1>31,
     <1>32, <1>33, <1>34, <1>35, <1>36, <1>37, <1>38, <1>39, <1>40, <1>41, <1>42, <1>43, <1>44, <1>45 DEF Rows
<1>47. ASSUME NEW name \in DOMAIN Rows, name # "answerPlace" PROVE IsEarly(Rows[name])
  BY <1>47, <1>1, <1>2, <1>3, <1>4, <1>5, <1>6, <1>7, <1>8, <1>9, <1>10, <1>11, <1>12, <1>13, <1>14, <1>15,
     <1>16, <1>17, <1>18, <1>19, <1>20, <1>21, <1>22, <1>23, <1>24, <1>25, <1>26, <1>27, <1>28, <1>29, <1>30,
     <1>31, <1>32, <1>33, <1>34, <1>35, <1>36, <1>37, <1>38, <1>39, <1>40, <1>41, <1>42, <1>43, <1>44,
     <1>45 DEF Rows
<1>48. \A name \in Arrivals : name \in DOMAIN Rows /\ ReadsByItself(Rows[name])
  BY <1>1, <1>2, <1>3, <1>4, <1>5, <1>6, <1>7, <1>8, <1>9, <1>10, <1>11, <1>12, <1>13, <1>14, <1>15, <1>16,
     <1>17, <1>18, <1>19, <1>20, <1>21, <1>22, <1>23, <1>24, <1>25, <1>26, <1>27, <1>28, <1>29, <1>30, <1>31,
     <1>32, <1>33, <1>34, <1>35, <1>36, <1>37, <1>38, <1>39, <1>40, <1>41, <1>42, <1>43, <1>44, <1>45 DEF Rows,
     Arrivals
<1>49. \A name \in {"scanSessions", "loadProjects"} : name \in DOMAIN Rows /\ ReadsSessions(Rows[name])
  BY <1>1, <1>6 DEF Rows
<1> QED
  BY <1>46, <1>47, <1>48, <1>49
-----------------------------------------------------------------------------
(* The invariant, of the pages m, the jobs J and those of them somebody waits *)
(* for, L; e the era, s the generation, F the open file, W what each page's   *)
(* last write left, T the rules last announced, X the world, q the question.  *)

JobFields ==
    {"id", "work", "era", "since", "file", "about", "rule", "subject", "dry", "watched", "at", "out", "more", "world"}
IsState(st, e, s, F) ==
    DOMAIN st = {"model", "jobs", "era", "since", "file"} /\ st.era = e /\ st.since = s /\ st.file = F
Live(J, e) == {j \in J : j.watched /\ j.era = e}

Shaped(m) ==
    /\ DOMAIN m \subseteq DOMAIN Models
    /\ \A page \in DOMAIN m :
           DOMAIN m[page] = DOMAIN Models[page] /\ \A flag \in FlagsOf(page) : m[page][flag] \in BOOLEAN
IsJob(j, pages) ==
    /\ DOMAIN j = JobFields /\ j.id \in 1..MaxJobs /\ j.work \in DOMAIN Rows /\ Row(j).page \in pages
    /\ j.era \in Nat /\ j.since \in Nat /\ j.world \in Nat /\ j.watched \in BOOLEAN /\ j.dry \in BOOLEAN
    /\ (~Row(j).reads /\ Row(j).plan # Nothing) => j.subject.file = j.file
JobsOk(J, pages, e, s, X) ==
    /\ IsFiniteSet(J)
    /\ \A j \in J : IsJob(j, pages) /\ j.era <= e /\ j.since <= s /\ j.world <= X
    /\ \A j, k \in J : j.id = k.id => j = k
\* A flag is up exactly while one live job holds it up; one full run at a time.
FlagsUp(m, L) ==
    /\ \A j \in L : m[Row(j).page][Row(j).flag]
    /\ \A j, k \in L : Row(j).page = Row(k).page /\ Row(j).flag = Row(k).flag => j = k
    /\ \A page \in DOMAIN m : \A flag \in FlagsOf(page) :
           m[page][flag] => \E j \in L : Row(j).page = page /\ Row(j).flag = flag
    /\ \A j, k \in L : Row(j).kind = "full_sync" /\ Row(k).kind = "full_sync" => j = k
\* While a plan is carried out and taken away, none is read for its place.
Apart(L) ==
    \A j, k \in L : Row(j).page = Row(k).page =>
        \A f \in PlansOf(Row(j).page) : f \in Row(k).forgets => Row(j).shows # f /\ Row(j).again # f
Current(item, page, f, F, W) ==
    item.file = F /\ (<<page, f>> \in DOMAIN W => item.world >= W[<<page, f>>])
RulesOk(item, page, f, T) == f \in PagePlans[page] /\ item.asked => item.rules >= T
PlansShown(m, F, W, T) ==
    \A page \in DOMAIN m : \A f \in PlansOf(page) :
        Ok(m[page][f]) => Current(m[page][f], page, f, F, W) /\ RulesOk(m[page][f], page, f, T)
JobComing(j, F, s, W, T) ==
    /\ j.file = F
    /\ \A f \in PlansOf(Row(j).page) :
           /\ (Row(j).shows = f /\ Ok(j.out)) =>
                  /\ Current(j.out, Row(j).page, f, F, W) /\ j.out.about = j.about
                  /\ j.since = s => RulesOk(j.out, Row(j).page, f, T)
           /\ (Row(j).again = f /\ Ok(j.more)) =>
                  Current(j.more, Row(j).page, f, F, W) /\ j.more.asked = FALSE
PlansComing(L, F, s, W, T) == \A j \in L : JobComing(j, F, s, W, T)
ShowsOf(j, page, f) == Row(j).page = page /\ Row(j).shows = f
PlanIsAbout(m, page, plan, choice) ==
    page \in DOMAIN m /\ Ok(m[page][plan]) => m[page][plan].about = m[page][choice]
\* A preview of chats waits for the request it was asked with: a list read
\* before a save has to go first, and it takes the request along.
ChoicesKept(m, L, s) ==
    /\ PlanIsAbout(m, "guardian", "preview", "selected")
    /\ PlanIsAbout(m, "projects", "moveScan", "inputs")
    /\ PlanIsAbout(m, "chats", "preview", "request")
    /\ \A j \in L : ShowsOf(j, "chats", "preview") /\ j.since = s => m["chats"]["request"] = j.about
    /\ \A k \in L : ShowsOf(k, "chats", "dir") /\ k.since # s =>
           ~Ok(m["chats"]["dir"]) /\ \A j \in L : ShowsOf(j, "chats", "preview") => j.since # s
Asked(q, m, L, F) ==
    q # Nothing =>
        /\ q.work \in DOMAIN Rows /\ Rows[q.work].page \in DOMAIN m /\ ~Rows[q.work].reads
        /\ \A flag \in Rows[q.work].blocked : ~m[Rows[q.work].page][flag]
        /\ Rows[q.work].kind = "full_sync" => \A j \in L : Row(j).kind # "full_sync"
        /\ Rows[q.work].plan # Nothing => q.subject.file = F

PageState(m, J, e, s, F, W, T, X, q) ==
    /\ Shaped(m) /\ JobsOk(J, DOMAIN m, e, s, X)
    /\ FlagsUp(m, Live(J, e)) /\ Apart(Live(J, e))
    /\ PlansShown(m, F, W, T) /\ PlansComing(Live(J, e), F, s, W, T)
    /\ ChoicesKept(m, Live(J, e), s) /\ Asked(q, m, Live(J, e), F)

MayBegin(m, J, e, F, q, name, subject) ==
    /\ name \in DOMAIN Rows /\ Rows[name].page \in DOMAIN m /\ Cardinality(J) < MaxJobs
    /\ \A flag \in Rows[name].blocked : ~m[Rows[name].page][flag]
    /\ Rows[name].kind = "full_sync" => \A j \in Live(J, e) : Row(j).kind # "full_sync"
    /\ (~Rows[name].reads /\ Rows[name].plan # Nothing) => subject.file = F
    /\ Rows[name].page = "chats" /\ Rows[name].shows = "preview" => Ok(m["chats"]["dir"])
    /\ q # Nothing => ReadsByItself(Rows[name])

-----------------------------------------------------------------------------
(* A job begins.                                                              *)

\* While the jobs are fewer than the bound, one more number is free.
LEMMA ANumberIsFree ==
    ASSUME NEW J, IsFiniteSet(J), \A j \in J : j.id \in 1..MaxJobs, Cardinality(J) < MaxJobs
    PROVE  \E i \in 1..MaxJobs : \A j \in J : j.id # i
<1>1. SUFFICES ASSUME \A i \in 1..MaxJobs : \E j \in J : j.id = i PROVE FALSE
  OBVIOUS
<1> DEFINE f == [j \in J |-> j.id]
<1>2. f \in Surjection(J, 1..MaxJobs)
  BY <1>1 DEF Surjection
<1>3. Cardinality(1..MaxJobs) <= Cardinality(J)
  BY <1>2, FS_Surjection
<1>4. Cardinality(1..MaxJobs) = MaxJobs
  BY FS_Interval, PagesAssumption
<1>5. Cardinality(J) \in Nat
  BY FS_CardinalityType
<1> QED
  BY <1>3, <1>4, <1>5, PagesAssumption

\* The job that begins.
NewJob(m, J, e, s, F, name, choice, subject, dry) ==
    [id |-> CHOOSE i \in 1..MaxJobs : \A j \in J : j.id # i, work |-> name, era |-> e, since |-> s, file |-> F,
     about |-> choice, rule |-> IF Rows[name].page = "sessions" THEN m[Rows[name].page].rule ELSE Nothing, subject |-> subject,
     dry |-> dry, watched |-> TRUE, at |-> "waits", out |-> Nothing, more |-> Nothing, world |-> 0]
WithBegun(m, name, choice) ==
    [m EXCEPT ![Rows[name].page] = Begun(Rows[name], m[Rows[name].page], choice)]
\* A job that begins changes its page and adds itself, nothing else.
LEMMA BeginAddsOne ==
    ASSUME NEW st, NEW e, NEW s, NEW F, IsState(st, e, s, F), NEW name, NEW choice, NEW subject, NEW dry
    PROVE  LET b == Begin(st, name, choice, subject, dry)
           IN  /\ IsState(b, e, s, F) /\ b.model = WithBegun(st.model, name, choice)
               /\ b.jobs = st.jobs \cup {NewJob(st.model, st.jobs, e, s, F, name, choice, subject, dry)}
BY DEF Begin, IsState, WithBegun, NewJob

\* A plan is a field of its page, no flag and nothing that is chosen.
LEMMA PlansAreFields ==
    ASSUME NEW page \in DOMAIN Models, NEW f \in PlansOf(page)
    PROVE  f \in DOMAIN Models[page] /\ f \notin Flags /\ f # "selected" /\ f # "inputs" /\ f # "request" /\ f # "dir"
BY PagesHaveFields DEF PlansOf, Flags
\* What is chosen on the three pages whose plans are about a choice.
LEMMA ChoicesAreFields ==
    /\ "guardian" \in DOMAIN Models /\ "projects" \in DOMAIN Models /\ "chats" \in DOMAIN Models
    /\ "preview" \in PlansOf("guardian") /\ "moveScan" \in PlansOf("projects") /\ "preview" \in PlansOf("chats")
    /\ {"selected"} \subseteq DOMAIN Models["guardian"] \ Flags
    /\ {"inputs"} \subseteq DOMAIN Models["projects"] \ Flags
    /\ {"request", "dir"} \subseteq DOMAIN Models["chats"] \ Flags
BY PagesHaveFields DEF PlansOf, Flags

\* The new job is well formed and is one more that somebody waits for.
LEMMA NewJobIs ==
    ASSUME NEW m, NEW J, NEW e \in Nat, NEW s \in Nat, NEW F, NEW X \in Nat, JobsOk(J, DOMAIN m, e, s, X),
           NEW q, NEW name, NEW choice, NEW subject, NEW dry \in BOOLEAN, MayBegin(m, J, e, F, q, name, subject)
    PROVE  LET n == NewJob(m, J, e, s, F, name, choice, subject, dry)
           IN  /\ JobsOk(J \cup {n}, DOMAIN m, e, s, X)
               /\ Live(J \cup {n}, e) = Live(J, e) \cup {n}
<1> DEFINE n == NewJob(m, J, e, s, F, name, choice, subject, dry)
<1>1. n.work = name /\ n.era = e /\ n.since = s /\ n.file = F /\ n.about = choice /\ n.watched = TRUE /\ n.out = Nothing
      /\ n.more = Nothing /\ n.world = 0 /\ n.subject = subject /\ n.dry = dry /\ DOMAIN n = JobFields
  BY DEF NewJob, JobFields
<1>2. n.id \in 1..MaxJobs /\ \A j \in J : j.id # n.id
  <2>1. \E i \in 1..MaxJobs : \A j \in J : j.id # i
    BY ANumberIsFree DEF JobsOk, IsJob, MayBegin
  <2>2. n.id = CHOOSE i \in 1..MaxJobs : \A j \in J : j.id # i
    BY DEF NewJob
  <2> QED
    BY <2>1, <2>2
<1>3. IsJob(n, DOMAIN m)
  <2> HIDE DEF n
  <2>1. Row(n) = Rows[name]
    BY <1>1 DEF Row
  <2>2. n.work \in DOMAIN Rows /\ Row(n).page \in DOMAIN m
    BY <1>1, <2>1 DEF MayBegin
  <2>3. (~Row(n).reads /\ Row(n).plan # Nothing) => n.subject.file = n.file
    BY <1>1, <2>1 DEF MayBegin
  <2>4. n.era \in Nat /\ n.since \in Nat /\ n.world \in Nat
    BY <1>1
  <2>5. n.watched \in BOOLEAN /\ n.dry \in BOOLEAN
    BY <1>1, Zenon
  <2> QED
    BY <1>1, <1>2, <2>2, <2>3, <2>4, <2>5 DEF IsJob
<1>4. JobsOk(J \cup {n}, DOMAIN m, e, s, X)
  <2>1. IsFiniteSet(J \cup {n})
    BY FS_AddElement DEF JobsOk
  <2>2. n.era <= e /\ n.since <= s /\ n.world <= X
    BY <1>1
  <2> HIDE DEF n
  <2> QED
    BY <1>2, <1>3, <2>1, <2>2 DEF JobsOk
<1>5. Live(J \cup {n}, e) = Live(J, e) \cup {n}
  <2> HIDE DEF n
  <2> QED
    BY <1>1 DEF Live
<1> QED
  BY <1>4, <1>5

\* What the page that begins a job looks like.
HasBegun(m, m2, w, choice) ==
    /\ DOMAIN m2 = DOMAIN m /\ \A page \in DOMAIN m \ {w.page} : m2[page] = m[page]
    /\ Shaped(m2) /\ m2[w.page][w.flag] = TRUE /\ w.flag \in FlagsOf(w.page)
    /\ \A flag \in FlagsOf(w.page) : flag # w.flag => m2[w.page][flag] = m[w.page][flag]
    /\ \A f \in DOMAIN m[w.page] \ Flags :
           m2[w.page][f] = IF w.picks /\ f = w.about THEN choice ELSE IF f \in w.drops THEN Nothing ELSE m[w.page][f]
\* The page of a job that begins differs by the flag, the choice and what is
\* dropped.
LEMMA BegunPage ==
    ASSUME NEW m, Shaped(m), NEW name \in DOMAIN Rows, NEW choice, Rows[name].page \in DOMAIN m
    PROVE  HasBegun(m, WithBegun(m, name, choice), Rows[name], choice)
<1> DEFINE w == Rows[name]
           p == w.page
           m2 == WithBegun(m, name, choice)
<1>1. RowFacts(w) /\ DOMAIN m[p] = DOMAIN Models[p]
  BY RowsAreSound DEF Shaped
<1>2. DOMAIN m2 = DOMAIN m /\ m2[p] = Begun(w, m[p], choice) /\ \A page \in DOMAIN m \ {p} : m2[page] = m[page]
  BY DEF WithBegun
<1>3. w.flag \in FlagsOf(p) /\ (w.picks => w.about \notin Flags) /\ \A f \in w.drops : f \notin Flags
  BY <1>1 DEF RowFacts, FlagsAreApart
<1> HIDE DEF w, m2
<1>4. DOMAIN m2[p] = DOMAIN m[p]
  BY <1>2 DEF Begun
<1>5. m2[p][w.flag] = TRUE
  BY <1>1, <1>2, <1>3 DEF Begun, FlagsOf
<1>6. ASSUME NEW flag \in FlagsOf(p), flag # w.flag PROVE m2[p][flag] = m[p][flag]
  <2>1. flag \in DOMAIN m[p] /\ ~(w.picks /\ flag = w.about) /\ flag \notin w.drops
    BY <1>1, <1>3 DEF FlagsOf
  <2> QED
    BY <1>2, <1>6, <2>1 DEF Begun
<1>7. ASSUME NEW f \in DOMAIN m[p] \ Flags
      PROVE  m2[p][f] = IF w.picks /\ f = w.about THEN choice ELSE IF f \in w.drops THEN Nothing ELSE m[p][f]
  BY <1>2, <1>3 DEF Begun, FlagsOf
<1>8. Shaped(m2)
  BY <1>1, <1>2, <1>4, <1>5, <1>6 DEF Shaped
<1>9. HasBegun(m, m2, w, choice)
  BY <1>2, <1>3, <1>5, <1>6, <1>7, <1>8 DEF HasBegun
<1> QED
  BY <1>9 DEF w, m2

\* A job that may begin keeps the pages' state: its flag was down, and what it
\* will read stands apart from every write under way.
LEMMA BeginKeeps ==
    ASSUME NEW m, NEW J, NEW e \in Nat, NEW s \in Nat, NEW F, NEW W, NEW T, NEW X \in Nat, NEW q,
           NEW name, NEW choice, NEW subject, NEW dry \in BOOLEAN,
           PageState(m, J, e, s, F, W, T, X, q), MayBegin(m, J, e, F, q, name, subject)
    PROVE  PageState(WithBegun(m, name, choice), J \cup {NewJob(m, J, e, s, F, name, choice, subject, dry)},
                     e, s, F, W, T, X, q)
<1> DEFINE w == Rows[name]
           p == w.page
           m2 == WithBegun(m, name, choice)
           n == NewJob(m, J, e, s, F, name, choice, subject, dry)
           L == Live(J, e)
           L2 == L \cup {n}
<1>1. RowFacts(w) /\ name \in DOMAIN Rows /\ p \in DOMAIN m /\ p \in DOMAIN Models
  BY RowsAreSound DEF MayBegin, PageState, Shaped
<1>2. /\ n.work = name /\ n.era = e /\ n.since = s /\ n.file = F /\ n.about = choice /\ n.out = Nothing
      /\ n.more = Nothing /\ JobsOk(J \cup {n}, DOMAIN m, e, s, X) /\ Live(J \cup {n}, e) = L2
  <2>1. JobsOk(J, DOMAIN m, e, s, X)
    BY DEF PageState
  <2>2. JobsOk(J \cup {n}, DOMAIN m, e, s, X) /\ Live(J \cup {n}, e) = L2
    BY <2>1, NewJobIs
  <2> QED
    BY <2>2 DEF NewJob
<1>3. /\ DOMAIN m2 = DOMAIN m /\ \A page \in DOMAIN m \ {p} : m2[page] = m[page]
      /\ Shaped(m2) /\ m2[p][w.flag] = TRUE /\ w.flag \in FlagsOf(p)
      /\ \A flag \in FlagsOf(p) : flag # w.flag => m2[p][flag] = m[p][flag]
      /\ \A f \in DOMAIN m[p] \ Flags :
             m2[p][f] = IF w.picks /\ f = w.about THEN choice ELSE IF f \in w.drops THEN Nothing ELSE m[p][f]
  <2>1. Shaped(m)
    BY DEF PageState
  <2>2. HasBegun(m, m2, w, choice)
    BY <1>1, <2>1, BegunPage
  <2> HIDE DEF w, m2
  <2> QED
    BY <2>2 DEF HasBegun
<1>4. Row(n) = w
  BY <1>2 DEF Row
<1>5. \A flag \in w.blocked : ~m[p][flag]
  BY DEF MayBegin
<1>6. w.flag \in w.blocked /\ w.blocked \subseteq FlagsOf(p)
  BY <1>1 DEF RowFacts, FlagsAreApart
<1>7. \A page \in DOMAIN m : DOMAIN m[page] = DOMAIN Models[page] /\ page \in DOMAIN Models
  BY DEF PageState, Shaped
<1>8. \A j \in L : j \in J /\ IsJob(j, DOMAIN m) /\ RowFacts(Row(j))
  BY RowsAreSound DEF PageState, JobsOk, Live, IsJob, Row
<1> HIDE DEF w, m2, n, L
<1>9. \A j \in L : Row(j).page = p => Row(j).flag \notin w.blocked
  BY <1>5, <1>8 DEF PageState, FlagsUp, L
<1>10. FlagsUp(m2, L2)
  <2>1. \A j \in L : Row(j).page \in DOMAIN m /\ Row(j).flag \in FlagsOf(Row(j).page) /\ m[Row(j).page][Row(j).flag]
    BY <1>8 DEF IsJob, RowFacts, FlagsAreApart, PageState, FlagsUp, L
  <2>2. \A j \in L2 : m2[Row(j).page][Row(j).flag]
    BY <1>3, <1>4, <2>1
  <2>3. \A j, k \in L2 : Row(j).page = Row(k).page /\ Row(j).flag = Row(k).flag => j = k
    BY <1>4, <1>6, <1>9 DEF PageState, FlagsUp, L
  <2>4. ASSUME NEW page \in DOMAIN m2, NEW flag \in FlagsOf(page), m2[page][flag]
        PROVE  \E j \in L2 : Row(j).page = page /\ Row(j).flag = flag
    <3>1. CASE page = p /\ flag = w.flag
      BY <1>4, <3>1
    <3>2. CASE ~(page = p /\ flag = w.flag)
      <4>1. m[page][flag]
        BY <1>3, <2>4, <3>2
      <4> QED
        BY <1>3, <2>4, <4>1 DEF PageState, FlagsUp, L
    <3> QED
      BY <3>1, <3>2
  <2>5. \A j, k \in L2 : Row(j).kind = "full_sync" /\ Row(k).kind = "full_sync" => j = k
    BY <1>4 DEF PageState, FlagsUp, MayBegin, L, w
  <2> QED
    BY <2>2, <2>3, <2>4, <2>5 DEF FlagsUp
<1>11. Apart(L2)
  <2> SUFFICES ASSUME NEW j \in L2, NEW k \in L2, Row(j).page = Row(k).page, NEW f \in PlansOf(Row(j).page),
                      f \in Row(k).forgets
               PROVE  Row(j).shows # f /\ Row(j).again # f
    BY DEF Apart
  <2>1. CASE j \in L /\ k \in L
    BY <2>1 DEF PageState, Apart, L
  <2>2. CASE j = n /\ k \in L
    BY <1>1, <1>4, <1>6, <1>8, <1>9, <2>2 DEF RowFacts, PlansHaveFlags
  <2>3. CASE j \in L /\ k = n
    BY <1>1, <1>4, <1>6, <1>8, <1>9, <2>3 DEF RowFacts, PlansHaveFlags
  <2>4. CASE j = n /\ k = n
    BY <1>1, <1>4, <2>4 DEF RowFacts, PlansHaveFlags
  <2> QED
    BY <2>1, <2>2, <2>3, <2>4
<1>12. \A page \in DOMAIN m : \A f \in PlansOf(page) : m2[page][f] \in {Nothing, m[page][f]}
  BY <1>1, <1>3, <1>7, PlansAreFields DEF RowFacts, PlansHaveFlags
<1>13. PlansShown(m2, F, W, T)
  BY <1>3, <1>12 DEF PageState, PlansShown, Ok
<1>14. PlansComing(L2, F, s, W, T)
  BY <1>2 DEF PageState, PlansComing, JobComing, Ok, L
<1>15. ChoicesKept(m2, L2, s)
  <2>1. PlanIsAbout(m2, "guardian", "preview", "selected")
    <3>1. CASE p = "guardian"
      BY <1>1, <1>3, <1>7, <1>12, <3>1, ChoicesAreFields DEF RowFacts, ChoicesAreKept, PageState, ChoicesKept,
         PlanIsAbout, Ok
    <3>2. CASE p # "guardian"
      BY <1>3, <3>2 DEF PageState, ChoicesKept, PlanIsAbout
    <3> QED
      BY <3>1, <3>2
  <2>2. PlanIsAbout(m2, "projects", "moveScan", "inputs")
    <3>1. CASE p = "projects"
      BY <1>1, <1>3, <1>7, <1>12, <3>1, ChoicesAreFields DEF RowFacts, ChoicesAreKept, PageState, ChoicesKept,
         PlanIsAbout, Ok
    <3>2. CASE p # "projects"
      BY <1>3, <3>2 DEF PageState, ChoicesKept, PlanIsAbout
    <3> QED
      BY <3>1, <3>2
  <2>3. /\ PlanIsAbout(m2, "chats", "preview", "request")
        /\ \A j \in L2 : ShowsOf(j, "chats", "preview") /\ j.since = s => m2["chats"]["request"] = j.about
        /\ \A k \in L2 : ShowsOf(k, "chats", "dir") /\ k.since # s =>
               ~Ok(m2["chats"]["dir"]) /\ \A j \in L2 : ShowsOf(j, "chats", "preview") => j.since # s
    <3>1. CASE p # "chats"
      <4>1. ~ShowsOf(n, "chats", "preview") /\ ~ShowsOf(n, "chats", "dir")
        BY <1>4, <3>1 DEF ShowsOf
      <4>2. \A j \in L2 : ShowsOf(j, "chats", "preview") \/ ShowsOf(j, "chats", "dir") => j \in L /\ "chats" \in DOMAIN m
        BY <1>8, <4>1 DEF ShowsOf, IsJob
      <4>3. "chats" \in DOMAIN m => m2["chats"] = m["chats"]
        BY <1>3, <3>1
      <4> QED
        BY <1>3, <4>2, <4>3 DEF PageState, ChoicesKept, PlanIsAbout, L
    <3>2. CASE p = "chats"
      <4>1. {"request", "dir", "preview"} \subseteq DOMAIN m[p] \ Flags /\ "preview" \in PlansOf(p)
        BY <1>1, <1>7, <3>2, ChoicesAreFields, PlansAreFields
      <4>2. m2[p]["dir"] = m[p]["dir"]
        BY <1>1, <1>3, <3>2, <4>1 DEF RowFacts, ChoicesAreKept
      <4>3. CASE w.picks
        <5>1. w.shows = "preview" /\ w.about = "request" /\ "preview" \in w.drops
          BY <1>1, <3>2, <4>3 DEF RowFacts, ChoicesAreKept
        <5>2. m2[p]["preview"] = Nothing /\ m2[p]["request"] = choice
          BY <1>3, <4>1, <4>3, <5>1
        <5>3. \A j \in L : ~ShowsOf(j, "chats", "preview")
          BY <1>1, <1>6, <1>8, <1>9, <3>2, <4>1, <5>1 DEF RowFacts, PlansHaveFlags, ShowsOf
        <5>4. Ok(m["chats"]["dir"])
          BY <3>2, <5>1 DEF MayBegin, w
        <5>5. \A k \in L2 : ShowsOf(k, "chats", "dir") => k.since = s
          BY <1>2, <5>4 DEF PageState, ChoicesKept, L
        <5> QED
          BY <1>2, <3>2, <5>2, <5>3, <5>5 DEF PlanIsAbout, Ok
      <4>4. CASE ~w.picks
        <5>1. w.shows # "preview"
          BY <1>1, <3>2, <4>4 DEF RowFacts, ChoicesAreKept
        <5>2. ~ShowsOf(n, "chats", "preview")
          BY <1>4, <5>1 DEF ShowsOf
        <5>3. m2[p]["request"] = m[p]["request"]
          BY <1>1, <1>3, <3>2, <4>1, <4>4 DEF RowFacts, ChoicesAreKept
        <5> QED
          BY <1>2, <1>3, <1>12, <3>2, <4>1, <4>2, <5>2, <5>3 DEF PageState, ChoicesKept, PlanIsAbout, Ok, L
      <4> QED
        BY <4>3, <4>4
    <3> QED
      BY <3>1, <3>2
  <2> QED
    BY <2>1, <2>2, <2>3 DEF ChoicesKept
<1>16. Asked(q, m2, L2, F)
  <2> SUFFICES ASSUME q # Nothing PROVE Asked(q, m2, L2, F)
    BY DEF Asked
  <2>1. ReadsByItself(w) /\ Asked(q, m, L, F)
    BY DEF MayBegin, PageState, w, L
  <2>2. RowFacts(Rows[q.work]) /\ ~Rows[q.work].reads
    BY <2>1, RowsAreSound DEF Asked
  <2>3. Rows[q.work].page = p => w.flag \notin Rows[q.work].blocked
    BY <2>1, <2>2 DEF RowFacts, AsksApart, ReadsByItself
  <2>4. Rows[q.work].blocked \subseteq FlagsOf(Rows[q.work].page)
    BY <2>2 DEF RowFacts, FlagsAreApart
  <2>5. \A flag \in Rows[q.work].blocked : ~m2[Rows[q.work].page][flag]
    BY <1>3, <2>1, <2>3, <2>4 DEF Asked
  <2> QED
    BY <1>3, <1>4, <2>1, <2>5 DEF Asked, ReadsByItself
<1> QED
  BY <1>2, <1>3, <1>10, <1>11, <1>13, <1>14, <1>15, <1>16 DEF PageState, m2, n

\* A state of the pages on the way to the next: what the window's operators carry.
Good(st, e, s, F, W, T, X, q) ==
    /\ IsState(st, e, s, F) /\ PageState(st.model, st.jobs, e, s, F, W, T, X, q)
    /\ \A name \in scope.rows : name \in DOMAIN Rows /\ Rows[name].page \in DOMAIN st.model
\* Only jobs that have written nothing are added.
Grows(st, b) == DOMAIN b.model = DOMAIN st.model /\ \A k \in b.jobs : k \in st.jobs \/ k.world = 0

\* The same for the state the window's operators carry.
LEMMA BeginIsGood ==
    ASSUME NEW st, NEW e \in Nat, NEW s \in Nat, NEW F, NEW W, NEW T, NEW X \in Nat, NEW q,
           Good(st, e, s, F, W, T, X, q), NEW name, NEW choice, NEW subject, NEW dry \in BOOLEAN,
           MayBegin(st.model, st.jobs, e, F, q, name, subject)
    PROVE  Good(Begin(st, name, choice, subject, dry), e, s, F, W, T, X, q)
           /\ Grows(st, Begin(st, name, choice, subject, dry))
<1> DEFINE b == Begin(st, name, choice, subject, dry)
           n == NewJob(st.model, st.jobs, e, s, F, name, choice, subject, dry)
<1>1. IsState(st, e, s, F) /\ PageState(st.model, st.jobs, e, s, F, W, T, X, q)
  BY DEF Good
<1>2. IsState(b, e, s, F) /\ b.model = WithBegun(st.model, name, choice) /\ b.jobs = st.jobs \cup {n}
  BY <1>1, BeginAddsOne
<1>3. PageState(WithBegun(st.model, name, choice), st.jobs \cup {n}, e, s, F, W, T, X, q)
  BY <1>1, BeginKeeps
<1>4. DOMAIN b.model = DOMAIN st.model
  BY <1>2 DEF WithBegun
<1>5. n.world = 0
  BY DEF NewJob
<1> HIDE DEF b, n
<1>6. Grows(st, b)
  BY <1>2, <1>4, <1>5 DEF Grows
<1>7. Good(b, e, s, F, W, T, X, q)
  BY <1>2, <1>3, <1>4 DEF Good
<1> QED
  BY <1>6, <1>7 DEF b

\* A button that is not grey starts a job that may begin.
LEMMA CanMeansMay ==
    ASSUME NEW st, NEW e \in Nat, NEW s \in Nat, NEW F, NEW W, NEW T, NEW X \in Nat, NEW q,
           Good(st, e, s, F, W, T, X, q), NEW name, NEW subject, Can(st, name),
           (~Rows[name].reads /\ Rows[name].plan # Nothing) => subject.file = F,
           Rows[name].page = "chats" /\ Rows[name].shows = "preview" => Ok(st.model["chats"]["dir"]),
           q # Nothing => ReadsByItself(Rows[name])
    PROVE  MayBegin(st.model, st.jobs, e, F, q, name, subject)
<1>1. RowFacts(Rows[name]) /\ name \in DOMAIN Rows /\ Rows[name].page \in DOMAIN st.model
  BY RowsAreSound DEF Can, Good
<1>2. Rows[name].kind = "full_sync" => \A j \in Live(st.jobs, e) : Row(j).kind # "full_sync"
  BY <1>1 DEF Can, Busy, Live, Good, IsState, RowFacts, ReadsOnlyRead
<1> QED
  BY <1>1, <1>2 DEF Can, MayBegin

\* What the page in front reads by itself may begin even under an open
\* question.
LEMMA ReadsNowIsGood ==
    ASSUME NEW st, NEW e \in Nat, NEW s \in Nat, NEW F, NEW W, NEW T, NEW X \in Nat, NEW q,
           Good(st, e, s, F, W, T, X, q), NEW name \in Arrivals
    PROVE  Good(ReadsNow(st, name), e, s, F, W, T, X, q) /\ Grows(st, ReadsNow(st, name))
<1>1. name \in DOMAIN Rows /\ ReadsByItself(Rows[name])
  BY RowsAreSound
<1>2. CASE ReadsNow(st, name) = st
  BY <1>2 DEF Grows
<1>3. CASE Can(st, name) /\ ReadsNow(st, name) = Begin(st, name, Nothing, Nothing, FALSE)
  <2>1. MayBegin(st.model, st.jobs, e, F, q, name, Nothing)
    BY <1>1, <1>3, CanMeansMay DEF ReadsByItself
  <2> QED
    BY <1>3, <2>1, BeginIsGood
<1> QED
  BY <1>2, <1>3 DEF ReadsNow

\* Two additions of fresh jobs are one.
LEMMA GrowsOn ==
    ASSUME NEW a, NEW b, NEW c, Grows(a, b), Grows(b, c)
    PROVE  Grows(a, c)
BY DEF Grows

\* Whatever page comes to the front, what it reads by itself keeps the state.
LEMMA ArriveIsGood ==
    ASSUME NEW st, NEW e \in Nat, NEW s \in Nat, NEW F, NEW W, NEW T, NEW X \in Nat, NEW q,
           Good(st, e, s, F, W, T, X, q), NEW page
    PROVE  Good(Arrive(st, page), e, s, F, W, T, X, q) /\ Grows(st, Arrive(st, page))
<1> DEFINE first == ReadsNow(st, "listBackups")
<1>1. \A name \in Arrivals : Good(ReadsNow(st, name), e, s, F, W, T, X, q) /\ Grows(st, ReadsNow(st, name))
  BY ReadsNowIsGood
<1>2. Good(first, e, s, F, W, T, X, q) /\ Grows(st, first)
  BY <1>1 DEF Arrivals
<1> HIDE DEF first
<1>3. Good(ReadsNow(first, "copiesFolder"), e, s, F, W, T, X, q) /\ Grows(st, ReadsNow(first, "copiesFolder"))
  BY <1>2, ReadsNowIsGood, GrowsOn DEF Arrivals
<1>4. Good(st, e, s, F, W, T, X, q) /\ Grows(st, st)
  BY DEF Grows
<1>5. Arrive(st, page) \in {ReadsNow(st, name) : name \in Arrivals} \cup {ReadsNow(first, "copiesFolder"), st}
  BY DEF Arrive, Arrivals, first
<1> QED
  BY <1>1, <1>3, <1>4, <1>5

-----------------------------------------------------------------------------
(* A job goes on.                                                             *)

SameJob(j, k) ==
    /\ k.id = j.id /\ k.work = j.work /\ k.era = j.era /\ k.since = j.since /\ k.file = j.file
    /\ k.about = j.about /\ k.watched = j.watched

\* A job that goes on under its number, with a result that fits, keeps the
\* state.
LEMMA JobGoesOn ==
    ASSUME NEW m, NEW J, NEW e \in Nat, NEW s \in Nat, NEW F, NEW W, NEW T, NEW X \in Nat, NEW Y \in Nat,
            X <= Y, NEW q,
           PageState(m, J, e, s, F, W, T, X, q), NEW j \in J, NEW k, IsJob(k, DOMAIN m), SameJob(j, k), k.world <= Y,
           k \in Live(J \cup {k}, e) => JobComing(k, F, s, W, T)
    PROVE  PageState(m, (J \ {j}) \cup {k}, e, s, F, W, T, Y, q)
<1> DEFINE K == (J \ {j}) \cup {k}
           L == Live(J, e)
           M == Live(K, e)
<1>1. Row(k) = Row(j)
  BY DEF SameJob, Row
<1>2. JobsOk(K, DOMAIN m, e, s, Y)
  <2>1. IsFiniteSet(K)
    BY FS_AddElement, FS_RemoveElement DEF PageState, JobsOk
  <2>2. \A i \in K : IsJob(i, DOMAIN m) /\ i.era <= e /\ i.since <= s /\ i.world <= Y
    BY DEF PageState, JobsOk, SameJob, IsJob
  <2>3. \A i, h \in K : i.id = h.id => i = h
    BY DEF PageState, JobsOk, SameJob
  <2> QED
    BY <2>1, <2>2, <2>3 DEF JobsOk
<1>3. M = IF j \in L THEN (L \ {j}) \cup {k} ELSE L
  <2>1. k \in M <=> j \in L
    BY DEF Live, SameJob
  <2>2. \A i : i # k => (i \in M <=> i \in L \ {j})
    BY DEF Live
  <2>3. CASE k \in L /\ k # j
    BY <2>3 DEF Live, PageState, JobsOk, SameJob
  <2>4. CASE k \notin L \/ k = j
    BY <2>1, <2>2, <2>4
  <2> QED
    BY <2>3, <2>4
<1> HIDE DEF K, M, L
<1>4. FlagsUp(m, L) /\ Apart(L) /\ PlansComing(L, F, s, W, T) /\ ChoicesKept(m, L, s) /\ Asked(q, m, L, F)
  BY DEF PageState, L
<1>5. FlagsUp(m, M)
  BY <1>1, <1>3, <1>4 DEF FlagsUp
<1>6. Apart(M)
  BY <1>1, <1>3, <1>4 DEF Apart
<1>7. PlansComing(M, F, s, W, T)
  <2>1. k \in M => JobComing(k, F, s, W, T)
    BY DEF Live, M, K
  <2> QED
    BY <1>3, <1>4, <2>1 DEF PlansComing
<1>8. ChoicesKept(m, M, s)
  BY <1>1, <1>3, <1>4 DEF ChoicesKept, ShowsOf, SameJob
<1>9. Asked(q, m, M, F)
  BY <1>1, <1>3, <1>4 DEF Asked
<1> QED
  BY <1>2, <1>5, <1>6, <1>7, <1>8, <1>9 DEF PageState, M, K

-----------------------------------------------------------------------------
(* The invariant.                                                             *)

PagesInv ==
    /\ DOMAIN scope = {"rows", "start", "event"}
    /\ \A name \in scope.rows : name \in DOMAIN Rows
    /\ DOMAIN model = {Rows[name].page : name \in scope.rows}
    /\ open \in Configs /\ era \in Nat /\ generation \in Nat /\ told \in Nat /\ world \in Nat
    /\ rules \in [Configs -> Nat] /\ told <= rules[open]
    /\ DOMAIN wrote = {v \in OwnPlans : v[1] \in DOMAIN model}
    /\ \A v \in DOMAIN wrote : wrote[v] \in Nat /\ wrote[v] <= world
    /\ PageState(model, jobs, era, generation, open, wrote, told, world, question)

\* What the invariant says of one job.
LEMMA JobsAreTyped ==
    ASSUME PagesInv, NEW j \in jobs
    PROVE  /\ DOMAIN j = JobFields /\ j.work \in DOMAIN Rows /\ RowFacts(Row(j)) /\ Row(j).page \in DOMAIN model
           /\ Row(j).page \in DOMAIN Models /\ IsJob(j, DOMAIN model) /\ j.world <= world
           /\ j \in Live(jobs, era) => JobComing(j, open, generation, wrote, told)
BY RowsAreSound DEF PagesInv, PageState, Shaped, JobsOk, IsJob, Row, PlansComing

\* What is read from the open file is current: no write ended later, no save
\* was announced later.
LEMMA ReadItem ==
    ASSUME PagesInv, NEW j \in jobs, j.file = open
    PROVE  LET item == Item(j, Under(j))
           IN  /\ item.about = j.about /\ item.asked = Row(j).reads
               /\ \A f : Current(item, Row(j).page, f, open, wrote) /\ RulesOk(item, Row(j).page, f, told)
BY DEF PagesInv, Item, Under, Current, RulesOk

\* What a job leaves alone: everything but itself, the world and the kept plans.
SameWindow == UNCHANGED <<open, era, generation, told, model, question, wrote, scope>>

\* No job has written since: those there are had written as much, or are new.
NothingWritten == \A k \in jobs' : k.world = 0 \/ \E i \in jobs : i.id = k.id /\ i.world = k.world

\* A step of a job's thread keeps the invariant once its own job fits.
LEMMA ThreadKeeps ==
    ASSUME PagesInv, SameWindow, NEW j \in jobs, NEW k, jobs' = (jobs \ {j}) \cup {k}, IsJob(k, DOMAIN model),
           SameJob(j, k), k.world <= world', world' \in Nat, world <= world',
           rules' \in [Configs -> Nat], \A file \in Configs : rules[file] <= rules'[file],
           k.watched /\ k.era = era => JobComing(k, open, generation, wrote, told)
    PROVE  PagesInv'
<1>1. PageState(model, (jobs \ {j}) \cup {k}, era, generation, open, wrote, told, world', question)
  BY JobGoesOn DEF PagesInv, Live
<1>2. PageState(model', jobs', era', generation', open', wrote', told', world', question')
  BY <1>1 DEF SameWindow
<1>3. told <= rules'[open] /\ \A v \in DOMAIN wrote : wrote[v] <= world'
  BY DEF PagesInv
<1> QED
  BY <1>2, <1>3 DEF PagesInv, SameWindow

\* A read on its thread.
LEMMA ReadInJobKeeps ==
    ASSUME PagesInv, NEW j \in jobs, ReadInJob(j)
    PROVE  PagesInv' /\ NothingWritten
<1>1. PICK item \in {Item(j, Under(j)), Failed} : jobs' = (jobs \ {j}) \cup {[j EXCEPT !.at = "done", !.out = item]}
  BY DEF ReadInJob, Over
<1> DEFINE k == [j EXCEPT !.at = "done", !.out = item]
<1>2. DOMAIN j = JobFields /\ IsJob(j, DOMAIN model) /\ j.world <= world /\ RowFacts(Row(j)) /\ Row(j).reads
  BY JobsAreTyped DEF ReadInJob
<1>3. SameJob(j, k) /\ DOMAIN k = JobFields /\ k.world = j.world /\ k.dry = j.dry /\ k.subject = j.subject
      /\ k.out = item /\ k.more = j.more
  BY <1>2 DEF SameJob, JobFields
<1> HIDE DEF k
<1>4. Row(k) = Row(j)
  BY <1>3 DEF Row, SameJob
<1>5. IsJob(k, DOMAIN model)
  BY <1>2, <1>3, <1>4 DEF IsJob, SameJob
<1>6. ASSUME k.watched, k.era = era PROVE JobComing(k, open, generation, wrote, told)
  <2>1. j \in Live(jobs, era) /\ JobComing(j, open, generation, wrote, told) /\ j.file = open
    BY <1>3, <1>6, JobsAreTyped DEF Live, SameJob, JobComing
  <2>2. Ok(item) => \A f : Current(item, Row(j).page, f, open, wrote) /\ RulesOk(item, Row(j).page, f, told) /\ item.about = j.about
    BY <1>1, <2>1, ReadItem DEF Ok
  <2> QED
    BY <1>3, <1>4, <2>1, <2>2 DEF JobComing, SameJob
<1>7. SameWindow /\ world' = world /\ rules' = rules
  BY DEF ReadInJob, SameWindow
<1>8. PagesInv'
  <2>1. \A file \in Configs : rules[file] <= rules'[file]
    BY <1>7 DEF PagesInv
  <2>2. world' \in Nat /\ world <= world' /\ rules' \in [Configs -> Nat] /\ k.world <= world'
    BY <1>2, <1>3, <1>7 DEF PagesInv
  <2>3. jobs' = (jobs \ {j}) \cup {k}
    BY <1>1 DEF k
  <2> QED
    BY <1>3, <1>5, <1>6, <1>7, <2>1, <2>2, <2>3, ThreadKeeps
<1> QED
  BY <1>1, <1>3, <1>8 DEF k, SameJob, NothingWritten

\* A write on its thread: the world and perhaps the rules move on.
LEMMA WriteInJobKeeps ==
    ASSUME PagesInv, NEW j \in jobs, WriteInJob(j)
    PROVE  PagesInv'
<1> DEFINE k == [j EXCEPT !.at = IF Row(j).again = Nothing THEN "done" ELSE "wrote", !.out = Done, !.world = world + 1]
<1>1. jobs' = (jobs \ {j}) \cup {k}
  BY DEF WriteInJob, Over
<1>2. DOMAIN j = JobFields /\ IsJob(j, DOMAIN model) /\ RowFacts(Row(j)) /\ ~Row(j).reads
      /\ Row(j).page \in DOMAIN Models
  BY JobsAreTyped DEF WriteInJob
<1>3. SameJob(j, k) /\ DOMAIN k = JobFields /\ k.world = world + 1 /\ k.dry = j.dry /\ k.subject = j.subject
      /\ k.more = j.more
  BY <1>2 DEF SameJob, JobFields
<1> HIDE DEF k
<1>4. Row(k) = Row(j)
  BY <1>3 DEF Row, SameJob
<1>5. IsJob(k, DOMAIN model) /\ k.world <= world'
  BY <1>2, <1>3, <1>4 DEF IsJob, SameJob, PagesInv, WriteInJob
<1>6. ASSUME k.watched, k.era = era PROVE JobComing(k, open, generation, wrote, told)
  <2>1. JobComing(j, open, generation, wrote, told)
    BY <1>3, <1>6, JobsAreTyped DEF Live, SameJob
  <2>2. \A f \in PlansOf(Row(j).page) : Row(j).shows # f
    BY <1>2 DEF RowFacts, PlansHaveFlags
  <2> QED
    BY <1>3, <1>4, <2>1, <2>2 DEF JobComing, SameJob
<1>7. world' \in Nat /\ world <= world' /\ rules' \in [Configs -> Nat] /\ \A file \in Configs : rules[file] <= rules'[file]
  BY DEF PagesInv, WriteInJob, Remember
<1>8. SameWindow
  BY DEF WriteInJob, SameWindow
<1> QED
  BY <1>1, <1>3, <1>5, <1>6, <1>7, <1>8, ThreadKeeps

\* A dry run, or a refusal.
LEMMA EndWithoutKeeps ==
    ASSUME PagesInv, NEW j \in jobs, EndWithout(j)
    PROVE  PagesInv' /\ NothingWritten
<1>1. PICK out : jobs' = (jobs \ {j}) \cup {[j EXCEPT !.at = "done", !.out = out]}
  BY DEF EndWithout, Over
<1> DEFINE k == [j EXCEPT !.at = "done", !.out = out]
<1>2. DOMAIN j = JobFields /\ IsJob(j, DOMAIN model) /\ j.world <= world /\ RowFacts(Row(j)) /\ ~Row(j).reads
      /\ Row(j).page \in DOMAIN Models
  BY JobsAreTyped DEF EndWithout
<1>3. SameJob(j, k) /\ DOMAIN k = JobFields /\ k.world = j.world /\ k.dry = j.dry /\ k.subject = j.subject
      /\ k.more = j.more
  BY <1>2 DEF SameJob, JobFields
<1> HIDE DEF k
<1>4. Row(k) = Row(j)
  BY <1>3 DEF Row, SameJob
<1>5. IsJob(k, DOMAIN model)
  BY <1>2, <1>3, <1>4 DEF IsJob, SameJob
<1>6. ASSUME k.watched, k.era = era PROVE JobComing(k, open, generation, wrote, told)
  <2>1. JobComing(j, open, generation, wrote, told)
    BY <1>3, <1>6, JobsAreTyped DEF Live, SameJob
  <2>2. \A f \in PlansOf(Row(j).page) : Row(j).shows # f
    BY <1>2 DEF RowFacts, PlansHaveFlags
  <2> QED
    BY <1>3, <1>4, <2>1, <2>2 DEF JobComing, SameJob
<1>7. SameWindow /\ world' = world /\ rules' = rules
  BY DEF EndWithout, SameWindow
<1>8. PagesInv'
  <2>1. \A file \in Configs : rules[file] <= rules'[file]
    BY <1>7 DEF PagesInv
  <2>2. world' \in Nat /\ world <= world' /\ rules' \in [Configs -> Nat] /\ k.world <= world'
    BY <1>2, <1>3, <1>7 DEF PagesInv
  <2>3. jobs' = (jobs \ {j}) \cup {k}
    BY <1>1 DEF k
  <2> QED
    BY <1>3, <1>5, <1>6, <1>7, <2>1, <2>2, <2>3, ThreadKeeps
<1> QED
  BY <1>1, <1>3, <1>8 DEF k, SameJob, NothingWritten

\* The list read again after a write.
LEMMA ReadAgainKeeps ==
    ASSUME PagesInv, NEW j \in jobs, ReadAgain(j)
    PROVE  PagesInv' /\ NothingWritten
<1>1. PICK item \in {Item(j, Under(j)), Failed} : jobs' = (jobs \ {j}) \cup {[j EXCEPT !.at = "done", !.more = item]}
  BY DEF ReadAgain, Over
<1> DEFINE k == [j EXCEPT !.at = "done", !.more = item]
<1>2. DOMAIN j = JobFields /\ IsJob(j, DOMAIN model) /\ j.world <= world /\ RowFacts(Row(j))
  BY JobsAreTyped DEF ReadAgain
<1>3. SameJob(j, k) /\ DOMAIN k = JobFields /\ k.world = j.world /\ k.dry = j.dry /\ k.subject = j.subject
      /\ k.out = j.out /\ k.more = item
  BY <1>2 DEF SameJob, JobFields
<1> HIDE DEF k
<1>4. Row(k) = Row(j)
  BY <1>3 DEF Row, SameJob
<1>5. IsJob(k, DOMAIN model)
  BY <1>2, <1>3, <1>4 DEF IsJob, SameJob
<1>6. ASSUME k.watched, k.era = era PROVE JobComing(k, open, generation, wrote, told)
  <2>1. j \in Live(jobs, era) /\ JobComing(j, open, generation, wrote, told) /\ j.file = open
    BY <1>3, <1>6, JobsAreTyped DEF Live, SameJob, JobComing
  <2>2. Ok(item) => item.asked = Row(j).reads /\ \A f : Current(item, Row(j).page, f, open, wrote)
    BY <1>1, <2>1, ReadItem DEF Ok
  <2>3. \A f \in PlansOf(Row(j).page) : Row(j).again = f => ~Row(j).reads
    BY <1>2, JobsAreTyped DEF RowFacts, PlansHaveFlags
  <2> QED
    BY <1>2, <1>3, <1>4, <2>1, <2>2, <2>3 DEF JobComing, SameJob, RowFacts, ReadsOnlyRead
<1>7. SameWindow /\ world' = world /\ rules' = rules
  BY DEF ReadAgain, SameWindow
<1>8. PagesInv'
  <2>1. \A file \in Configs : rules[file] <= rules'[file]
    BY <1>7 DEF PagesInv
  <2>2. world' \in Nat /\ world <= world' /\ rules' \in [Configs -> Nat] /\ k.world <= world'
    BY <1>2, <1>3, <1>7 DEF PagesInv
  <2>3. jobs' = (jobs \ {j}) \cup {k}
    BY <1>1 DEF k
  <2> QED
    BY <1>3, <1>5, <1>6, <1>7, <2>1, <2>2, <2>3, ThreadKeeps
<1> QED
  BY <1>1, <1>3, <1>8 DEF k, SameJob, NothingWritten

-----------------------------------------------------------------------------
(* A job leaves: its result is applied, or nobody waits for it any more.      *)

Released(m, m2, j, out, reset) ==
    /\ DOMAIN m2 = DOMAIN m /\ Shaped(m2) /\ m2[Row(j).page][Row(j).flag] = FALSE
    /\ \A page \in DOMAIN m : \A flag \in FlagsOf(page) :
           (page = Row(j).page /\ flag = Row(j).flag) \/ m2[page][flag] = m[page][flag]
    /\ \A page \in DOMAIN m : \A f \in PlansOf(page) :
           \/ m2[page][f] = Nothing
           \/ m2[page][f] = m[page][f] /\ ~(page = Row(j).page /\ f \in Row(j).forgets /\ out = Done /\ ~j.dry)
           \/ /\ page = Row(j).page /\ Row(j).shows = f /\ m2[page][f] = out
              /\ Row(j).matches => m[page][Row(j).about] = j.about
           \/ page = Row(j).page /\ Row(j).again = f /\ m2[page][f] = j.more
    /\ "guardian" \in DOMAIN m => m2["guardian"]["selected"] = m["guardian"]["selected"]
    /\ "projects" \in DOMAIN m => m2["projects"]["inputs"] = m["projects"]["inputs"]
    /\ "chats" \in DOMAIN m /\ Row(j).page # "chats" => m2["chats"] = m["chats"]
    /\ Row(j).page = "chats" /\ reset =>
           m2["chats"]["preview"] = Nothing /\ m2["chats"]["dir"] = Nothing
    /\ Row(j).page = "chats" /\ ~reset =>
           /\ \/ m2["chats"]["request"] = m["chats"]["request"]
              \/ "request" \in Row(j).forgets /\ m2["chats"]["preview"] = Nothing
           /\ m2["chats"]["dir"] \in {m["chats"]["dir"], Nothing} \/ Row(j).shows = "dir"

\* What is applied is the result, or nothing: a read from before a save is thrown away.
IsResult(j, out, s, reset) ==
    /\ out = Failed \/ (out = j.out /\ (Row(j).reads => j.since = s))
    /\ reset => Row(j).reads /\ j.since # s
WroteBy(j, out, W, W2) ==
    /\ DOMAIN W2 = DOMAIN W
    /\ \A v \in DOMAIN W :
           W2[v] = W[v] \/ (v[1] = Row(j).page /\ v[2] \in Row(j).forgets /\ out = Done /\ ~j.dry)

\* A result that is applied puts the flag down, shows what fits and takes away
\* what the write has used up: the state is kept.
LEMMA ReleaseKeeps ==
    ASSUME NEW m, NEW J, NEW e \in Nat, NEW s \in Nat, NEW F, NEW W, NEW T, NEW X \in Nat, NEW q,
           PageState(m, J, e, s, F, W, T, X, q), NEW j \in Live(J, e),
           NEW K, JobsOk(K, DOMAIN m, e, s, X), Live(K, e) = Live(J, e) \ {j},
           NEW m2, NEW out, NEW reset \in BOOLEAN, Released(m, m2, j, out, reset),
           IsResult(j, out, s, reset), NEW W2, WroteBy(j, out, W, W2)
    PROVE  PageState(m2, K, e, s, F, W2, T, X, q)
<1> DEFINE w == Row(j)
           p == w.page
           L == Live(J, e)
           M == L \ {j}
<1> USE DEF IsResult
<1>1. /\ FlagsUp(m, L) /\ Apart(L) /\ PlansShown(m, F, W, T) /\ PlansComing(L, F, s, W, T) /\ ChoicesKept(m, L, s)
      /\ Asked(q, m, L, F) /\ Shaped(m)
  BY DEF PageState
<1>2. \A k \in L : RowFacts(Row(k)) /\ Row(k).page \in DOMAIN m /\ Row(k).page \in DOMAIN Models
  BY RowsAreSound DEF PageState, Shaped, JobsOk, Live, IsJob, Row
<1>3. RowFacts(w) /\ p \in DOMAIN m /\ j \in L
  BY <1>2
<1>4. DOMAIN m2 = DOMAIN m /\ Shaped(m2) /\ m2[p][w.flag] = FALSE
      /\ \A page \in DOMAIN m : \A flag \in FlagsOf(page) :
             (page = p /\ flag = w.flag) \/ m2[page][flag] = m[page][flag]
  BY DEF Released
<1>5. \A page \in DOMAIN m : \A f \in PlansOf(page) :
          \/ m2[page][f] = Nothing
          \/ m2[page][f] = m[page][f] /\ ~(page = p /\ f \in w.forgets /\ out = Done /\ ~j.dry)
          \/ page = p /\ w.shows = f /\ m2[page][f] = out /\ (w.matches => m[page][w.about] = j.about)
          \/ page = p /\ w.again = f /\ m2[page][f] = j.more
  BY DEF Released
<1>6. JobComing(j, F, s, W, T)
  BY <1>1 DEF PlansComing
<1>7. FlagsUp(m2, M)
  <2>1. \A k \in M : Row(k).flag \in FlagsOf(Row(k).page) /\ ~(Row(k).page = p /\ Row(k).flag = w.flag)
    BY <1>1, <1>2, <1>3 DEF FlagsUp, RowFacts, FlagsAreApart
  <2>2. \A k \in M : m2[Row(k).page][Row(k).flag]
    BY <1>1, <1>2, <1>4, <2>1 DEF FlagsUp
  <2>3. \A page \in DOMAIN m2 : \A flag \in FlagsOf(page) :
            m2[page][flag] => \E k \in M : Row(k).page = page /\ Row(k).flag = flag
    BY <1>1, <1>4 DEF FlagsUp
  <2> QED
    BY <1>1, <2>2, <2>3 DEF FlagsUp
<1>8. Apart(M)
  BY <1>1 DEF Apart
<1>9. /\ DOMAIN W2 = DOMAIN W
      /\ \A page \in DOMAIN Models : \A f \in PlansOf(page) :
          <<page, f>> \in DOMAIN W =>
              W2[<<page, f>>] = W[<<page, f>>] \/ (page = p /\ f \in w.forgets /\ out = Done /\ ~j.dry)
  BY DEF WroteBy
<1>10. PlansShown(m2, F, W2, T)
  <2> SUFFICES ASSUME NEW page \in DOMAIN m, NEW f \in PlansOf(page), Ok(m2[page][f])
               PROVE  Current(m2[page][f], page, f, F, W2) /\ RulesOk(m2[page][f], page, f, T)
    BY <1>4 DEF PlansShown
  <2>0. page \in DOMAIN Models
    BY <1>1 DEF Shaped
  <2>1. CASE m2[page][f] = m[page][f] /\ ~(page = p /\ f \in w.forgets /\ out = Done /\ ~j.dry)
    BY <1>1, <1>9, <2>0, <2>1 DEF PlansShown, Current
  <2>2. CASE page = p /\ w.shows = f /\ m2[page][f] = out
    <3>1. w.reads /\ f \notin w.forgets /\ out = j.out /\ j.since = s /\ Ok(j.out)
      BY <1>3, <2>2 DEF RowFacts, PlansHaveFlags, ReadsOnlyRead, Ok
    <3> QED
      BY <1>6, <1>9, <2>0, <2>2, <3>1 DEF JobComing, Current
  <2>3. CASE page = p /\ w.again = f /\ m2[page][f] = j.more
    <3>1. f \notin w.forgets
      BY <1>3, <2>3 DEF RowFacts, PlansHaveFlags
    <3> QED
      BY <1>6, <1>9, <2>0, <2>3, <3>1 DEF JobComing, Current, RulesOk
  <2> QED
    BY <1>5, <2>1, <2>2, <2>3 DEF Ok
<1>11. PlansComing(M, F, s, W2, T)
  <2> SUFFICES ASSUME NEW k \in M PROVE JobComing(k, F, s, W2, T)
    BY DEF PlansComing
  <2>1. JobComing(k, F, s, W, T) /\ Row(k).page \in DOMAIN Models
    BY <1>1, <1>2 DEF PlansComing
  <2>2. ASSUME NEW f \in PlansOf(Row(k).page), Row(k).shows = f \/ Row(k).again = f, NEW item, Current(item, Row(k).page, f, F, W)
        PROVE  Current(item, Row(k).page, f, F, W2)
    <3>1. ~(Row(k).page = p /\ f \in w.forgets)
      BY <1>1, <1>3, <2>2 DEF Apart
    <3> QED
      BY <1>9, <2>1, <2>2, <3>1 DEF Current
  <2> QED
    BY <2>1, <2>2 DEF JobComing
<1>12. ChoicesKept(m2, M, s)
  <2>1. PlanIsAbout(m2, "guardian", "preview", "selected")
    <3> SUFFICES ASSUME "guardian" \in DOMAIN m, Ok(m2["guardian"]["preview"])
                 PROVE  m2["guardian"]["preview"].about = m["guardian"]["selected"]
      BY <1>4 DEF PlanIsAbout, Released
    <3>1. CASE m2["guardian"]["preview"] = m["guardian"]["preview"]
      BY <1>1, <3>1 DEF ChoicesKept, PlanIsAbout
    <3>2. CASE p = "guardian" /\ w.shows = "preview" /\ m2["guardian"]["preview"] = out /\ (w.matches => m[p][w.about] = j.about)
      <4>1. w.reads /\ w.matches /\ w.about = "selected"
        BY <1>3, <3>2 DEF RowFacts, ChoicesAreKept
      <4> QED
        BY <1>6, <3>2, <4>1, ChoicesAreFields DEF JobComing, Ok
    <3>3. ~(p = "guardian" /\ w.again = "preview")
      BY <1>3, ChoicesAreFields DEF RowFacts, ChoicesAreKept
    <3> QED
      BY <1>5, <3>1, <3>2, <3>3, ChoicesAreFields DEF Ok
  <2>2. PlanIsAbout(m2, "projects", "moveScan", "inputs")
    <3> SUFFICES ASSUME "projects" \in DOMAIN m, Ok(m2["projects"]["moveScan"])
                 PROVE  m2["projects"]["moveScan"].about = m["projects"]["inputs"]
      BY <1>4 DEF PlanIsAbout, Released
    <3>1. CASE m2["projects"]["moveScan"] = m["projects"]["moveScan"]
      BY <1>1, <3>1 DEF ChoicesKept, PlanIsAbout
    <3>2. CASE p = "projects" /\ w.shows = "moveScan" /\ m2["projects"]["moveScan"] = out /\ (w.matches => m[p][w.about] = j.about)
      <4>1. w.reads /\ w.matches /\ w.about = "inputs"
        BY <1>3, <3>2 DEF RowFacts, ChoicesAreKept
      <4> QED
        BY <1>6, <3>2, <4>1, ChoicesAreFields DEF JobComing, Ok
    <3>3. ~(p = "projects" /\ w.again = "moveScan")
      BY <1>3, ChoicesAreFields DEF RowFacts, ChoicesAreKept
    <3> QED
      BY <1>5, <3>1, <3>2, <3>3, ChoicesAreFields DEF Ok
  <2>3. CASE p # "chats"
    <3>1. "chats" \in DOMAIN m => m2["chats"] = m["chats"]
      BY <2>3 DEF Released
    <3>2. \A k \in M : ShowsOf(k, "chats", "preview") \/ ShowsOf(k, "chats", "dir") => "chats" \in DOMAIN m
      BY <1>2 DEF ShowsOf
    <3> QED
      BY <1>1, <1>4, <2>1, <2>2, <3>1, <3>2 DEF ChoicesKept, PlanIsAbout
  <2>4. CASE p = "chats"
    <3>1. \A k \in M : ShowsOf(k, "chats", "preview") /\ k.since = s => ~reset /\ "preview" \notin w.forgets
      <4> SUFFICES ASSUME NEW k \in M, ShowsOf(k, "chats", "preview"), k.since = s PROVE ~reset /\ "preview" \notin w.forgets
        OBVIOUS
      <4>1. "preview" \notin w.forgets
        BY <1>1, <1>3, <2>4, ChoicesAreFields DEF Apart, ShowsOf
      <4>2. ASSUME reset PROVE FALSE
        <5>1. CASE w.shows = "preview"
          <6>1. Row(k).flag = w.flag
            BY <1>2, <1>3, <2>4, <5>1, ChoicesAreFields DEF RowFacts, PlansHaveFlags, ShowsOf
          <6> QED
            BY <1>1, <1>3, <2>4, <6>1 DEF FlagsUp, ShowsOf
        <5>2. CASE w.shows = "dir"
          BY <1>1, <1>3, <2>4, <4>2, <5>2 DEF ChoicesKept, ShowsOf
        <5> QED
          BY <1>3, <2>4, <4>2, <5>1, <5>2 DEF RowFacts, ChoicesAreKept
      <4> QED
        BY <4>1, <4>2
    <3>2. "request" \in w.forgets => "preview" \in w.forgets
      BY <1>3, <2>4 DEF RowFacts, ChoicesAreKept
    <3>3. \A k \in M : ShowsOf(k, "chats", "preview") /\ k.since = s => m2["chats"]["request"] = k.about
      BY <1>1, <2>4, <3>1, <3>2 DEF ChoicesKept, Released
    <3>4. \A k \in M : ShowsOf(k, "chats", "dir") /\ k.since # s =>
              ~Ok(m2["chats"]["dir"]) /\ \A i \in M : ShowsOf(i, "chats", "preview") => i.since # s
      <4> SUFFICES ASSUME NEW k \in M, ShowsOf(k, "chats", "dir"), k.since # s PROVE ~Ok(m2["chats"]["dir"])
        BY <1>1 DEF ChoicesKept
      <4>1. ~Ok(m["chats"]["dir"])
        BY <1>1 DEF ChoicesKept
      <4>2. w.shows # "dir"
        BY <1>1, <1>2, <1>3, <2>4 DEF RowFacts, ChoicesAreKept, FlagsUp, ShowsOf
      <4> QED
        BY <2>4, <4>1, <4>2 DEF Released, Ok
    <3>5. PlanIsAbout(m2, "chats", "preview", "request")
      <4> SUFFICES ASSUME Ok(m2["chats"]["preview"]) PROVE m2["chats"]["preview"].about = m2["chats"]["request"]
        BY DEF PlanIsAbout
      <4>1. ~reset /\ m2["chats"]["request"] = m["chats"]["request"]
        BY <2>4 DEF Released, Ok
      <4>2. CASE m2["chats"]["preview"] = m["chats"]["preview"]
        BY <1>1, <1>3, <2>4, <4>1, <4>2 DEF ChoicesKept, PlanIsAbout
      <4>3. CASE w.shows = "preview" /\ m2["chats"]["preview"] = out
        <5>1. w.reads
          BY <1>3, <2>4, <4>3, ChoicesAreFields DEF RowFacts, PlansHaveFlags
        <5>2. out = j.out /\ j.since = s /\ ShowsOf(j, "chats", "preview")
          BY <2>4, <4>3, <5>1 DEF ShowsOf, Ok
        <5>3. m["chats"]["request"] = j.about
          BY <1>1, <1>3, <5>2 DEF ChoicesKept
        <5> QED
          BY <1>6, <2>4, <4>1, <4>3, <5>2, <5>3, ChoicesAreFields DEF JobComing, Ok
      <4>4. w.again # "preview"
        BY <1>3, <2>4, ChoicesAreFields DEF RowFacts, ChoicesAreKept
      <4> QED
        BY <1>3, <1>5, <2>4, <4>2, <4>3, <4>4, ChoicesAreFields DEF Ok
    <3> QED
      BY <2>1, <2>2, <3>3, <3>4, <3>5 DEF ChoicesKept
  <2> QED
    BY <2>3, <2>4
<1>13. Asked(q, m2, M, F)
  <2> SUFFICES ASSUME q # Nothing PROVE Asked(q, m2, M, F)
    BY DEF Asked
  <2>1. Rows[q.work].blocked \subseteq FlagsOf(Rows[q.work].page)
    BY <1>1, RowsAreSound DEF Asked, RowFacts, FlagsAreApart
  <2> QED
    BY <1>1, <1>4, <2>1 DEF Asked
<1> QED
  BY <1>4, <1>7, <1>8, <1>10, <1>11, <1>12, <1>13 DEF PageState

\* What a save takes away: plans and lists, no flag and no choice but the
\* request of a move of chats.
LEMMA PagePlansAre ==
    /\ \A page \in DOMAIN Models : \A f \in PagePlans[page] : f \notin Flags
    /\ "selected" \notin PagePlans["guardian"] /\ "inputs" \notin PagePlans["projects"]
    /\ {"preview", "dir", "request"} \subseteq PagePlans["chats"]
    /\ \A page \in DOMAIN Models : \A f \in PlansOf(page) \ {"accept", "rebuild", "health"} : f \in PagePlans[page]
BY PagesHaveFields DEF PagePlans, SessionsPlans, ProjectsPlans, ChatPlans, SyncPlans, AutomationPlans,
   GuardianPlans,
    BackupsPlans, HomePlans, Flags, PlansOf

\* A page that only hears of the result.
Untouched(page, a, b) ==
    /\ DOMAIN b = DOMAIN a /\ \A flag \in FlagsOf(page) : b[flag] = a[flag]
    /\ \A f \in PlansOf(page) : b[f] = a[f]
    /\ page = "projects" => b["inputs"] = a["inputs"]
    /\ page \in {"guardian", "chats"} => b = a
\* A page that hears of another's run keeps its flags, plans and choices.
LEMMA ReceivedIsUntouched ==
    ASSUME NEW own, NEW kind, NEW page \in SharingPages(kind, own), NEW a, DOMAIN a = DOMAIN Models[page], NEW out
    PROVE  Untouched(page, a, Receive(page, a, kind, out))
<1>1. page \in {"overview", "sync", "automation", "projects", "sessions"}
  BY DEF SharingPages
<1>2. CASE page = "overview"
  BY <1>2, PagesHaveFields DEF Untouched, FlagsOf, Flags, PlansOf, Receive, OverviewReceive
<1>3. CASE page = "sync"
  BY <1>3, PagesHaveFields DEF Untouched, FlagsOf, Flags, PlansOf, Receive, SyncReceive
<1>4. CASE page = "automation"
  BY <1>4, PagesHaveFields DEF Untouched, FlagsOf, Flags, PlansOf, Receive, AutomationReceive
<1>5. CASE page = "projects"
  BY <1>5, PagesHaveFields DEF Untouched, FlagsOf, Flags, PlansOf, Receive, ProjectsReceive
<1>6. CASE page = "sessions"
  BY <1>6, PagesHaveFields DEF Untouched, FlagsOf, Flags, PlansOf, Receive, SessionsReceive
<1> QED
  BY <1>1, <1>2, <1>3, <1>4, <1>5, <1>6

\* The result on the page that waited for it.
LEMMA DeliveredIsReleased ==
    ASSUME NEW m, Shaped(m), NEW j, RowFacts(Row(j)), Row(j).page \in DOMAIN m, NEW out, NEW reset \in BOOLEAN,
           NEW m2, DOMAIN m2 = DOMAIN m,
           LET d == Delivered(m[Row(j).page], j, out)
           IN  m2[Row(j).page] = IF reset THEN ResetPlans(Row(j).page, d) ELSE d,
           \A page \in DOMAIN m \ {Row(j).page} : Untouched(page, m[page], m2[page])
    PROVE  Released(m, m2, j, out, reset)
<1> DEFINE w == Row(j)
           p == w.page
           d == Delivered(m[p], j, out)
<1>1. p \in DOMAIN Models /\ DOMAIN m[p] = DOMAIN Models[p]
  BY DEF Shaped
<1>2. DOMAIN d = DOMAIN m[p] /\ w.flag \in FlagsOf(p) /\ d[w.flag] = FALSE
  <2>1. w.flag \in FlagsOf(p) /\ w.flag \in DOMAIN m[p]
    BY <1>1 DEF RowFacts, FlagsAreApart, FlagsOf
  <2>2. DOMAIN d = DOMAIN m[p]
    BY DEF Delivered
  <2>3. d[w.flag] = FALSE
    BY <2>1 DEF Delivered, Row
  <2> QED
    BY <2>1, <2>2, <2>3
<1>3. ASSUME NEW flag \in FlagsOf(p) \ {w.flag} PROVE d[flag] = m[p][flag]
  <2>1. flag \in DOMAIN m[p] /\ flag \notin {w.shows, w.again, w.checks} /\ flag \notin w.forgets /\ flag \notin w.after
    BY <1>1 DEF RowFacts, FlagsAreApart, FlagsOf
  <2> QED
    BY <2>1 DEF Delivered, Row
<1>4. ASSUME NEW f \in DOMAIN m[p] \ Flags
      PROVE  d[f] = IF f = w.shows /\ (w.matches => m[p][w.about] = j.about) THEN out
                    ELSE IF f = w.again /\ j.more # Nothing /\ (w.strict => Ok(j.more)) THEN j.more
                    ELSE IF f = w.checks /\ out = Done /\ j.dry THEN j.subject
                    ELSE IF (f \in w.forgets /\ out = Done /\ ~j.dry) \/ f \in w.after THEN Nothing
                    ELSE m[p][f]
  <2>1. f # w.flag
    BY <1>2 DEF FlagsOf
  <2> QED
    BY <2>1 DEF Delivered, Row
<1> HIDE DEF d
<1>5. m2[p] = IF reset THEN [f \in DOMAIN d |-> IF f \in PagePlans[p] THEN Nothing ELSE d[f]] ELSE d
  BY DEF ResetPlans, Forgotten, d
<1>6. DOMAIN m2[p] = DOMAIN m[p] /\ \A flag \in FlagsOf(p) : m2[p][flag] = d[flag]
  BY <1>1, <1>2, <1>5, PagePlansAre DEF FlagsOf
<1>7. \A f \in DOMAIN m[p] : m2[p][f] = d[f] \/ m2[p][f] = Nothing
  BY <1>2, <1>5
<1>8. Shaped(m2)
  <2> SUFFICES ASSUME NEW page \in DOMAIN m
               PROVE  DOMAIN m2[page] = DOMAIN Models[page] /\ \A flag \in FlagsOf(page) : m2[page][flag] \in BOOLEAN
    BY DEF Shaped
  <2>1. CASE page = p
    BY <1>1, <1>2, <1>3, <1>6, <2>1 DEF Shaped
  <2>2. CASE page # p
    BY <2>2 DEF Shaped, Untouched
  <2> QED
    BY <2>1, <2>2
<1>9. \A page \in DOMAIN m : \A flag \in FlagsOf(page) :
          (page = p /\ flag = w.flag) \/ m2[page][flag] = m[page][flag]
  BY <1>3, <1>6 DEF Untouched
<1>10. ASSUME NEW page \in DOMAIN m, NEW f \in PlansOf(page)
       PROVE  \/ m2[page][f] = Nothing
              \/ m2[page][f] = m[page][f] /\ ~(page = p /\ f \in w.forgets /\ out = Done /\ ~j.dry)
              \/ /\ page = p /\ w.shows = f /\ m2[page][f] = out
                 /\ w.matches => m[page][w.about] = j.about
              \/ page = p /\ w.again = f /\ m2[page][f] = j.more
  <2>1. CASE page = p
    <3>1. f \in DOMAIN m[p] \ Flags
      BY <1>1, <2>1, PlansAreFields
    <3>2. f # w.checks
      BY <1>1, <2>1 DEF RowFacts, PlansHaveFlags
    <3> QED
      BY <1>4, <1>7, <2>1, <3>1, <3>2
  <2>2. CASE page # p
    BY <2>2 DEF Untouched
  <2> QED
    BY <2>1, <2>2
<1>11. "guardian" \in DOMAIN m => m2["guardian"]["selected"] = m["guardian"]["selected"]
  <2>1. CASE p = "guardian"
    <3>1. "selected" \in DOMAIN m[p] \ Flags /\ "selected" \notin {w.shows, w.again, w.checks} \cup w.forgets \cup w.drops \cup w.after
      BY <1>1, <2>1, ChoicesAreFields DEF RowFacts, ChoicesAreKept
    <3>2. d["selected"] = m[p]["selected"]
      BY <1>4, <3>1
    <3> QED
      BY <1>2, <1>5, <2>1, <3>1, <3>2, PagePlansAre
  <2>2. CASE p # "guardian"
    BY <2>2 DEF Untouched
  <2> QED
    BY <2>1, <2>2
<1>12. "projects" \in DOMAIN m => m2["projects"]["inputs"] = m["projects"]["inputs"]
  <2>1. CASE p = "projects"
    <3>1. "inputs" \in DOMAIN m[p] \ Flags /\ "inputs" \notin {w.shows, w.again, w.checks} \cup w.forgets \cup w.drops \cup w.after
      BY <1>1, <2>1, ChoicesAreFields DEF RowFacts, ChoicesAreKept
    <3>2. d["inputs"] = m[p]["inputs"]
      BY <1>4, <3>1
    <3> QED
      BY <1>2, <1>5, <2>1, <3>1, <3>2, PagePlansAre
  <2>2. CASE p # "projects"
    BY <2>2 DEF Untouched
  <2> QED
    BY <2>1, <2>2
<1>13. "chats" \in DOMAIN m /\ p # "chats" => m2["chats"] = m["chats"]
  BY DEF Untouched
<1>14. ASSUME p = "chats"
       PROVE  /\ {"preview", "dir", "request"} \subseteq DOMAIN m[p] \ Flags
              /\ reset => m2["chats"]["preview"] = Nothing /\ m2["chats"]["dir"] = Nothing
              /\ ~reset =>
                     /\ \/ m2["chats"]["request"] = m["chats"]["request"]
                        \/ "request" \in w.forgets /\ m2["chats"]["preview"] = Nothing
                     /\ m2["chats"]["dir"] \in {m["chats"]["dir"], Nothing} \/ w.shows = "dir"
  <2>1. {"preview", "dir", "request"} \subseteq DOMAIN m[p] \ Flags
    BY <1>1, <1>14, ChoicesAreFields, PlansAreFields
  <2>2. reset => m2["chats"]["preview"] = Nothing /\ m2["chats"]["dir"] = Nothing
    BY <1>2, <1>5, <1>14, <2>1, PagePlansAre
  <2>3. ChoicesAreKept(w)
    BY DEF RowFacts
  <2>4. "request" \notin {w.shows, w.again, w.checks} \cup w.drops \cup w.after /\ "dir" \notin {w.again, w.checks} \cup w.drops \cup w.after
    BY <1>14, <2>3 DEF ChoicesAreKept
  <2>5. ~reset => m2["chats"]["dir"] \in {m["chats"]["dir"], Nothing} \/ w.shows = "dir"
    BY <1>4, <1>5, <1>14, <2>1, <2>4
  <2>6. ASSUME ~reset, m2["chats"]["request"] # m["chats"]["request"]
        PROVE  "request" \in w.forgets /\ m2["chats"]["preview"] = Nothing
    <3>1. "request" \in w.forgets /\ out = Done /\ ~j.dry
      BY <1>4, <1>5, <1>14, <2>1, <2>4, <2>6
    <3>2. "preview" \in w.forgets /\ w.again # "preview" /\ w.shows # "preview" /\ w.checks # "preview"
      BY <1>1, <1>14, <2>3, <3>1, ChoicesAreFields DEF ChoicesAreKept, RowFacts, PlansHaveFlags
    <3> QED
      BY <1>4, <1>5, <1>14, <2>1, <2>6, <3>1, <3>2
  <2> QED
    BY <2>1, <2>2, <2>5, <2>6
<1>15. m2[p][w.flag] = FALSE
  BY <1>2, <1>6
<1> HIDE DEF w
<1> QED
  BY <1>8, <1>9, <1>10, <1>11, <1>12, <1>13, <1>14, <1>15 DEF Released, w

\* Jobs nobody waits for bear on nothing that is shown.
LEMMA OnlyLiveMatter ==
    ASSUME NEW m, NEW J, NEW K, NEW e, NEW s, NEW F, NEW W, NEW T, NEW X, NEW q,
           PageState(m, J, e, s, F, W, T, X, q), JobsOk(K, DOMAIN m, e, s, X), Live(K, e) = Live(J, e)
    PROVE  PageState(m, K, e, s, F, W, T, X, q)
BY DEF PageState

\* A job that is over leaves the others well formed.
LEMMA FewerJobs ==
    ASSUME NEW J, NEW pages, NEW e, NEW s, NEW X, JobsOk(J, pages, e, s, X), NEW j
    PROVE  JobsOk(J \ {j}, pages, e, s, X)
BY FS_RemoveElement DEF JobsOk

\* The window's operators start from the invariant.
LEMMA NowIsGood ==
    ASSUME PagesInv
    PROVE  Good(Now, era, generation, open, wrote, told, world, question) /\ Now.model = model /\ Now.jobs = jobs
<1>1. IsState(Now, era, generation, open) /\ Now.model = model /\ Now.jobs = jobs
  BY DEF Now, IsState
<1> QED
  BY <1>1 DEF Good, PagesInv

\* The part of the invariant a step of the window has to see to.
LEMMA WindowKeeps ==
    ASSUME PagesInv, NEW st, NEW b, NEW W, Good(st, era', generation', open', W, told', world', question'),
            Grows(st, b),
           Good(b, era', generation', open', W, told', world', question'), Become(b), wrote' = W,
           DOMAIN st.model = DOMAIN model, scope' = scope \/ \E kind \in {"start", "event"} : Spend(kind),
           open' \in Configs /\ era' \in Nat /\ generation' \in Nat /\ told' \in Nat /\ world' \in Nat,
           rules' \in [Configs -> Nat] /\ told' <= rules'[open'],
           DOMAIN W = DOMAIN wrote, \A v \in DOMAIN W : W[v] \in Nat /\ W[v] <= world'
    PROVE  PagesInv'
<1>1. DOMAIN scope' = DOMAIN scope /\ scope'.rows = scope.rows
  BY DEF PagesInv, Spend
<1>2. model' = b.model /\ jobs' = b.jobs /\ DOMAIN model' = DOMAIN model
  BY DEF Become, Grows
<1>3. PageState(model', jobs', era', generation', open', wrote', told', world', question')
  BY <1>2 DEF Good
<1> QED
  BY <1>1, <1>2, <1>3 DEF PagesInv

\* A result on all the pages, fresh or stale.
LEMMA AppliedIsReleased ==
    ASSUME PagesInv, NEW j \in jobs
    PROVE  Released(model, Applied(j), j, IF Stale(j) THEN Failed ELSE j.out, Stale(j))
<1> DEFINE w == Row(j)
           p == w.page
           out == IF Stale(j) THEN Failed ELSE j.out
           m2 == Applied(j)
<1>1. RowFacts(w) /\ p \in DOMAIN model /\ Shaped(model) /\ Stale(j) \in BOOLEAN
  BY JobsAreTyped DEF PagesInv, PageState, Stale, RowFacts, ReadsOnlyRead
<1>2. DOMAIN m2 = DOMAIN model /\ m2[p] = IF Stale(j) THEN ResetPlans(p, Delivered(model[p], j, out)) ELSE Delivered(model[p], j, out)
  BY <1>1 DEF Applied
<1>3. ASSUME NEW page \in DOMAIN model \ {p} PROVE Untouched(page, model[page], m2[page])
  <2>1. CASE page \in SharingPages(w.kind, p) /\ ~Stale(j)
    <3>1. m2[page] = Receive(page, model[page], w.kind, out)
      BY <1>3, <2>1 DEF Applied
    <3> QED
      BY <1>1, <2>1, <3>1, ReceivedIsUntouched DEF Shaped
  <2>2. CASE ~(page \in SharingPages(w.kind, p) /\ ~Stale(j))
    <3>1. m2[page] = model[page]
      BY <1>3, <2>2 DEF Applied
    <3> QED
      BY <3>1 DEF Untouched
  <2> QED
    BY <2>1, <2>2
<1> HIDE DEF m2, out
<1> QED
  BY <1>1, <1>2, <1>3, DeliveredIsReleased DEF m2, out

\* A result comes back: applied, dropped, or refused as stale and read anew.
LEMMA DeliverKeeps ==
    ASSUME PagesInv, NEW j \in jobs, NEW inFront \in BOOLEAN, Deliver(j, inFront)
    PROVE  PagesInv' /\ NothingWritten
<1>1. IsJob(j, DOMAIN model) /\ j.world <= world /\ j.world \in Nat /\ RowFacts(Row(j)) /\ Row(j).page \in DOMAIN Models
  BY JobsAreTyped DEF IsJob
<1>2. /\ open' = open /\ era' = era /\ generation' = generation /\ rules' = rules /\ told' = told /\ world' = world
      /\ question' = question /\ scope' = scope
  BY DEF Deliver
<1>3. JobsOk(jobs \ {j}, DOMAIN model, era, generation, world)
  BY FewerJobs DEF PagesInv, PageState
<1>4. CASE ~j.watched \/ j.era # era
  <2>1. jobs' = jobs \ {j} /\ model' = model /\ wrote' = wrote
    BY <1>4 DEF Deliver
  <2>2. Live(jobs \ {j}, era) = Live(jobs, era)
    BY <1>4 DEF Live
  <2>3. PageState(model, jobs \ {j}, era, generation, open, wrote, told, world, question)
    BY <1>3, <2>2, OnlyLiveMatter DEF PagesInv
  <2>4. PagesInv'
    BY <1>2, <2>1, <2>3 DEF PagesInv
  <2> QED
    BY <2>1, <2>4 DEF NothingWritten
<1>5. CASE j.watched /\ j.era = era
  <2> DEFINE st == [Now EXCEPT !.model = Applied(j), !.jobs = jobs \ {j}]
             out == IF Stale(j) THEN Failed ELSE j.out
             b == IF inFront THEN Arrive(st, Row(j).page) ELSE st
  <2>1. IsState(st, era, generation, open) /\ st.model = Applied(j) /\ st.jobs = jobs \ {j}
    BY DEF Now, IsState
  <2>2. Become(b) /\ DOMAIN wrote' = DOMAIN wrote
        /\ \A v \in DOMAIN wrote : wrote'[v] = IF Written(j) /\ v[1] = Row(j).page /\ v[2] \in Row(j).forgets THEN j.world ELSE wrote[v]
    BY <1>5 DEF Deliver
  <2>3. j \in Live(jobs, era) /\ Live(jobs \ {j}, era) = Live(jobs, era) \ {j}
    BY <1>5 DEF Live
  <2>4. Released(model, Applied(j), j, out, Stale(j)) /\ Stale(j) \in BOOLEAN
    BY <1>1, AppliedIsReleased DEF Stale, RowFacts, ReadsOnlyRead
  <2>5. WroteBy(j, out, wrote, wrote')
    <3>1. Row(j).forgets = {} \/ ~Stale(j)
      BY <1>1 DEF RowFacts, ReadsOnlyRead, Stale
    <3> QED
      BY <2>2, <3>1 DEF Written, WroteBy
  <2>6. IsResult(j, out, generation, Stale(j))
    BY DEF Stale, IsResult
  <2>8. era \in Nat /\ generation \in Nat /\ world \in Nat /\ PageState(model, jobs, era, generation, open, wrote, told, world, question)
    BY DEF PagesInv
  <2> HIDE DEF out, st, b
  <2>9. PageState(Applied(j), jobs \ {j}, era, generation, open, wrote', told, world, question)
    BY <1>3, <2>3, <2>4, <2>5, <2>6, <2>8, ReleaseKeeps
  <2>10. DOMAIN st.model = DOMAIN model
    BY <2>1, <2>4 DEF Released
  <2>11. Good(st, era, generation, open, wrote', told, world, question) /\ Grows(st, st)
    BY <2>1, <2>9, <2>10 DEF Good, PagesInv, Grows
  <2>12. Good(b, era, generation, open, wrote', told, world, question) /\ Grows(st, b)
    BY <2>8, <2>11, ArriveIsGood DEF b
  <2>13. \A v \in DOMAIN wrote' : wrote'[v] \in Nat /\ wrote'[v] <= world
    BY <1>1, <2>2 DEF PagesInv
  <2>14. PagesInv'
    BY <1>2, <2>2, <2>10, <2>11, <2>12, <2>13, WindowKeeps DEF PagesInv
  <2> QED
    BY <2>1, <2>2, <2>12, <2>14 DEF NothingWritten, Grows, Become
<1> QED
  BY <1>1, <1>4, <1>5 DEF IsJob

\* A person stops waiting for a read.
LEMMA CancelJobKeeps ==
    ASSUME PagesInv, NEW j \in jobs, CancelJob(j)
    PROVE  PagesInv' /\ NothingWritten
<1> DEFINE k == [j EXCEPT !.watched = FALSE]
           K == (jobs \ {j}) \cup {k}
           p == Row(j).page
<1>1. DOMAIN j = JobFields /\ IsJob(j, DOMAIN model) /\ RowFacts(Row(j)) /\ p \in DOMAIN model
  BY JobsAreTyped
<1>2. /\ k.id = j.id /\ k.work = j.work /\ k.era = j.era /\ k.since = j.since /\ k.file = j.file /\ k.watched = FALSE
      /\ k.world = j.world /\ k.dry = j.dry /\ k.subject = j.subject /\ DOMAIN k = JobFields
  BY <1>1 DEF JobFields
<1> HIDE DEF k
<1>3. IsJob(k, DOMAIN model)
  BY <1>1, <1>2 DEF IsJob, Row
<1>4. JobsOk(K, DOMAIN model, era, generation, world)
  <2>1. JobsOk(jobs, DOMAIN model, era, generation, world)
    BY DEF PagesInv, PageState
  <2>2. IsFiniteSet(K)
    BY <2>1, FS_AddElement, FS_RemoveElement DEF JobsOk
  <2> QED
    BY <1>2, <1>3, <2>1, <2>2 DEF JobsOk
<1>5. Live(K, era) = Live(jobs, era) \ {j}
  <2>1. k \notin Live(K, era)
    BY <1>2 DEF Live
  <2>2. \A i : i # k => (i \in Live(K, era) <=> i \in Live(jobs, era) \ {j})
    BY DEF Live
  <2>3. k \notin Live(jobs, era)
    BY <1>2 DEF Live
  <2> HIDE DEF K
  <2> QED
    BY <2>1, <2>2, <2>3
<1>6. jobs' = K /\ j.watched
      /\ model' = IF j.era = era THEN [model EXCEPT ![p] = Delivered(@, j, Failed)] ELSE model
  BY DEF CancelJob, k
<1>7. /\ open' = open /\ era' = era /\ generation' = generation /\ rules' = rules /\ told' = told /\ world' = world
      /\ question' = question /\ wrote' = wrote /\ \E kind \in {"start", "event"} : Spend(kind)
  BY DEF CancelJob
<1> HIDE DEF K
<1>8. PageState(model', K, era, generation, open, wrote, told, world, question) /\ DOMAIN model' = DOMAIN model
  <2>1. CASE j.era # era
    <3>1. Live(K, era) = Live(jobs, era)
      BY <1>5, <2>1 DEF Live
    <3> QED
      BY <1>4, <1>6, <2>1, <3>1, OnlyLiveMatter DEF PagesInv
  <2>2. CASE j.era = era
    <3> DEFINE m2 == [model EXCEPT ![p] = Delivered(@, j, Failed)]
    <3>1. j \in Live(jobs, era)
      BY <1>6, <2>2 DEF Live
    <3>2. Shaped(model)
      BY DEF PagesInv, PageState
    <3>3. DOMAIN m2 = DOMAIN model /\ m2[p] = Delivered(model[p], j, Failed)
          /\ \A page \in DOMAIN model \ {p} : m2[page] = model[page]
      BY <1>1
    <3>4. \A page \in DOMAIN model \ {p} : Untouched(page, model[page], m2[page])
      BY <3>3 DEF Untouched
    <3> HIDE DEF m2
    <3>5. Released(model, m2, j, Failed, FALSE)
      BY <1>1, <3>2, <3>3, <3>4, DeliveredIsReleased
    <3>6. IsResult(j, Failed, generation, FALSE) /\ WroteBy(j, Failed, wrote, wrote)
      BY DEF IsResult, WroteBy
    <3>7. PageState(m2, K, era, generation, open, wrote, told, world, question)
      BY <1>4, <1>5, <3>1, <3>5, <3>6, ReleaseKeeps DEF PagesInv
    <3> QED
      BY <1>6, <2>2, <3>3, <3>7 DEF m2
  <2> QED
    BY <2>1, <2>2
<1>9. PagesInv'
  <2>1. DOMAIN scope' = DOMAIN scope /\ scope'.rows = scope.rows
    BY <1>7 DEF PagesInv, Spend
  <2> QED
    BY <1>6, <1>7, <1>8, <2>1 DEF PagesInv
<1> QED
  BY <1>2, <1>6, <1>9 DEF NothingWritten, K

-----------------------------------------------------------------------------
(* The person chooses, asks and answers.                                      *)

\* One page changes what is chosen on it and may lose plans.
Chosen(m, m2, page) ==
    /\ page \in DOMAIN m /\ page # "chats" /\ DOMAIN m2 = DOMAIN m
    /\ \A other \in DOMAIN m \ {page} : m2[other] = m[other]
    /\ DOMAIN m2[page] = DOMAIN m[page] /\ \A flag \in FlagsOf(page) : m2[page][flag] = m[page][flag]
    /\ \A f \in PlansOf(page) : m2[page][f] \in {m[page][f], Nothing}
    /\ page = "guardian" => m2[page]["preview"] = Nothing \/ m2[page]["selected"] = m[page]["selected"]
    /\ page = "projects" => m2[page]["moveScan"] = Nothing \/ m2[page]["inputs"] = m[page]["inputs"]

\* A choice changes; the plan that was about the earlier one goes.
LEMMA ChosenKeeps ==
    ASSUME NEW m, NEW J, NEW e, NEW s, NEW F, NEW W, NEW T, NEW X, NEW q,
           PageState(m, J, e, s, F, W, T, X, q), NEW m2, NEW page, Chosen(m, m2, page)
    PROVE  PageState(m2, J, e, s, F, W, T, X, q)
<1> DEFINE L == Live(J, e)
<1>1. /\ FlagsUp(m, L) /\ Apart(L) /\ PlansShown(m, F, W, T) /\ PlansComing(L, F, s, W, T) /\ ChoicesKept(m, L, s)
      /\ Asked(q, m, L, F) /\ Shaped(m) /\ JobsOk(J, DOMAIN m, e, s, X)
  BY DEF PageState
<1>2. \A k \in L : RowFacts(Row(k)) /\ Row(k).page \in DOMAIN m
  BY <1>1, RowsAreSound DEF JobsOk, Live, IsJob, Row
<1> HIDE DEF L
<1>3. DOMAIN m2 = DOMAIN m /\ Shaped(m2) /\ \A other \in DOMAIN m : \A flag \in FlagsOf(other) : m2[other][flag] = m[other][flag]
  <2>1. \A other \in DOMAIN m : DOMAIN m2[other] = DOMAIN m[other] /\ \A flag \in FlagsOf(other) : m2[other][flag] = m[other][flag]
    BY DEF Chosen
  <2> QED
    BY <1>1, <2>1 DEF Shaped, Chosen
<1>4. \A other \in DOMAIN m : \A f \in PlansOf(other) : m2[other][f] \in {m[other][f], Nothing}
  BY DEF Chosen
<1>5. \A k \in L : Row(k).flag \in FlagsOf(Row(k).page)
  BY <1>2 DEF RowFacts, FlagsAreApart
<1>6. FlagsUp(m2, L)
  BY <1>1, <1>2, <1>3, <1>5 DEF FlagsUp
<1>7. PlansShown(m2, F, W, T)
  BY <1>1, <1>3, <1>4 DEF PlansShown, Ok
<1>8. ChoicesKept(m2, L, s)
  <2>1. PlanIsAbout(m2, "guardian", "preview", "selected")
    BY <1>1, <1>4, ChoicesAreFields DEF Chosen, ChoicesKept, PlanIsAbout, Ok
  <2>2. PlanIsAbout(m2, "projects", "moveScan", "inputs")
    BY <1>1, <1>4, ChoicesAreFields DEF Chosen, ChoicesKept, PlanIsAbout, Ok
  <2>3. "chats" \in DOMAIN m => m2["chats"] = m["chats"]
    BY DEF Chosen
  <2>4. PlanIsAbout(m2, "chats", "preview", "request")
    BY <1>1, <1>3, <2>3 DEF ChoicesKept, PlanIsAbout
  <2>5. \A k \in L : ShowsOf(k, "chats", "preview") \/ ShowsOf(k, "chats", "dir") => "chats" \in DOMAIN m
    BY <1>2 DEF ShowsOf
  <2> QED
    BY <1>1, <2>1, <2>2, <2>3, <2>4, <2>5 DEF ChoicesKept
<1>9. Asked(q, m2, L, F)
  BY <1>1, <1>3, RowsAreSound DEF Asked, RowFacts, FlagsAreApart
<1> QED
  BY <1>1, <1>3, <1>6, <1>7, <1>8, <1>9 DEF PageState, L

\* Forgetting a page's plans along with a new choice.
LEMMA ForgottenIsChosen ==
    ASSUME NEW m, Shaped(m), NEW page \in DOMAIN m, page # "chats", NEW field,
            field \in DOMAIN Models[page] \ Flags,
           field \notin PlansOf(page), NEW choice, NEW forgets,
           \A f \in forgets : f \notin Flags /\ f # "selected" /\ f # "inputs",
           page = "guardian" => "preview" \in forgets \/ field # "selected",
           page = "projects" => "moveScan" \in forgets \/ field # "inputs"
    PROVE  Chosen(m, [m EXCEPT ![page] = Forgotten([@ EXCEPT ![field] = choice], forgets)], page)
<1> DEFINE m2 == [m EXCEPT ![page] = Forgotten([@ EXCEPT ![field] = choice], forgets)]
<1>1. DOMAIN m[page] = DOMAIN Models[page] /\ page \in DOMAIN Models
  BY DEF Shaped
<1>2. DOMAIN m2 = DOMAIN m /\ \A other \in DOMAIN m \ {page} : m2[other] = m[other]
  OBVIOUS
<1>3. m2[page] = [f \in DOMAIN m[page] |-> IF f \in forgets THEN Nothing ELSE IF f = field THEN choice ELSE m[page][f]]
  BY <1>1 DEF Forgotten
<1> HIDE DEF m2
<1>4. DOMAIN m2[page] = DOMAIN m[page] /\ \A flag \in FlagsOf(page) : m2[page][flag] = m[page][flag]
  BY <1>1, <1>3 DEF FlagsOf
<1>5. \A f \in PlansOf(page) : m2[page][f] \in {m[page][f], Nothing}
  BY <1>1, <1>3, PlansAreFields
<1>6. page = "guardian" => m2[page]["preview"] = Nothing \/ m2[page]["selected"] = m[page]["selected"]
  BY <1>1, <1>3, ChoicesAreFields, PlansAreFields
<1>7. page = "projects" => m2[page]["moveScan"] = Nothing \/ m2[page]["inputs"] = m[page]["inputs"]
  BY <1>1, <1>3, ChoicesAreFields, PlansAreFields
<1> QED
  BY <1>2, <1>4, <1>5, <1>6, <1>7 DEF Chosen, m2

\* The step that chooses.
LEMMA ChooseKeeps ==
    ASSUME PagesInv, NEW page, NEW field, NEW choice, NEW forgets, Choose(page, field, choice, forgets),
           Chosen(model, model', page)
    PROVE  PagesInv' /\ NothingWritten
<1>1. /\ open' = open /\ era' = era /\ generation' = generation /\ rules' = rules /\ told' = told /\ world' = world
      /\ question' = question /\ wrote' = wrote /\ jobs' = jobs /\ Spend("event")
  BY DEF Choose
<1>2. PageState(model', jobs, era, generation, open, wrote, told, world, question)
  BY ChosenKeeps DEF PagesInv
<1>3. DOMAIN scope' = DOMAIN scope /\ scope'.rows = scope.rows /\ DOMAIN model' = DOMAIN model
  BY <1>1 DEF PagesInv, Spend, Chosen
<1> QED
  BY <1>1, <1>2, <1>3 DEF PagesInv, NothingWritten

\* A snapshot, a folder to move to or a pair of machines is chosen.
LEMMA ChoicesKeep ==
    ASSUME PagesInv, NEW choice, SelectSnapshot(choice) \/ ChangeMove(choice) \/ ChangePair(choice)
    PROVE  PagesInv' /\ NothingWritten
<1>1. Shaped(model)
  BY DEF PagesInv, PageState
<1>2. CASE SelectSnapshot(choice)
  <2>1. Choose("guardian", "selected", choice, {"preview", "checked"})
    BY <1>2 DEF SelectSnapshot
  <2>2. Chosen(model, model', "guardian")
    <3>1. "selected" \in DOMAIN Models["guardian"] \ Flags /\ "selected" \notin PlansOf("guardian")
          /\ \A f \in {"preview", "checked"} : f \notin Flags
      BY ChoicesAreFields DEF PlansOf, Flags
    <3>2. "guardian" \in DOMAIN model
          /\ model' = [model EXCEPT !["guardian"] = Forgotten([@ EXCEPT !["selected"] = choice], {"preview", "checked"})]
      BY <2>1 DEF Choose
    <3> QED
      BY <1>1, <3>1, <3>2, ForgottenIsChosen
  <2> QED
    BY <2>1, <2>2, ChooseKeeps
<1>3. CASE ChangeMove(choice)
  <2>1. Choose("projects", "inputs", choice, {"moveScan", "checked"})
    BY <1>3 DEF ChangeMove
  <2>2. Chosen(model, model', "projects")
    <3>1. "inputs" \in DOMAIN Models["projects"] \ Flags /\ "inputs" \notin PlansOf("projects")
          /\ \A f \in {"moveScan", "checked"} : f \notin Flags
      BY ChoicesAreFields DEF PlansOf, Flags
    <3>2. "projects" \in DOMAIN model
          /\ model' = [model EXCEPT !["projects"] = Forgotten([@ EXCEPT !["inputs"] = choice], {"moveScan", "checked"})]
      BY <2>1 DEF Choose
    <3> QED
      BY <1>1, <3>1, <3>2, ForgottenIsChosen
  <2> QED
    BY <2>1, <2>2, ChooseKeeps
<1>4. CASE ChangePair(choice)
  <2>1. Choose("sessions", "pair", choice, {"rule"})
    BY <1>4 DEF ChangePair
  <2>2. Chosen(model, model', "sessions")
    <3>1. "pair" \in DOMAIN Models["sessions"] \ Flags /\ "pair" \notin PlansOf("sessions")
          /\ \A f \in {"rule"} : f \notin Flags
      BY PagesHaveFields DEF PlansOf, Flags
    <3>2. "sessions" \in DOMAIN model
          /\ model' = [model EXCEPT !["sessions"] = Forgotten([@ EXCEPT !["pair"] = choice], {"rule"})]
      BY <2>1 DEF Choose
    <3> QED
      BY <1>1, <3>1, <3>2, ForgottenIsChosen
  <2> QED
    BY <2>1, <2>2, ChooseKeeps
<1> QED
  BY <1>2, <1>3, <1>4

\* A plan that is offered was read from the open file.
LEMMA OfferedPlan ==
    ASSUME PagesInv, NEW name, NEW choice, Offered(name, choice)
    PROVE  /\ name \in DOMAIN Rows /\ Rows[name].page \in DOMAIN model /\ RowFacts(Rows[name]) /\ question = Nothing
           /\ (~Rows[name].reads /\ Rows[name].plan # Nothing) =>
                  Subject(Rows[name], model[Rows[name].page], choice).file = open
           /\ Rows[name].page = "chats" /\ Rows[name].shows = "preview" => Ok(model["chats"]["dir"])
<1> DEFINE w == Rows[name]
<1>1. name \in DOMAIN Rows /\ w.page \in DOMAIN model /\ RowFacts(w) /\ question = Nothing
  BY RowsAreSound DEF Offered, Can, PagesInv
<1>2. \A field \in {w.needs, w.plan} \ {Nothing} : Ok(model[w.page][field])
  BY DEF Offered
<1>3. (~w.reads /\ w.plan # Nothing) => w.plan \in PlansOf(w.page) /\ Ok(model[w.page][w.plan])
  BY <1>1, <1>2 DEF RowFacts, ReadsOnlyRead
<1>4. PlansShown(model, open, wrote, told)
  BY DEF PagesInv, PageState
<1>5. (~w.reads /\ w.plan # Nothing) => Subject(w, model[w.page], choice).file = open
  BY <1>1, <1>3, <1>4 DEF PlansShown, Current, Subject
<1>6. w.page = "chats" /\ w.shows = "preview" => Ok(model["chats"]["dir"])
  <2>1. w.page = "chats" /\ w.shows = "preview" => w.needs = "dir"
    BY <1>1 DEF RowFacts, ChoicesAreKept
  <2>2. "dir" # Nothing
    BY NothingAssumption, PagesHaveFields
  <2> QED
    BY <1>2, <2>1, <2>2
<1> QED
  BY <1>1, <1>5, <1>6

\* A question is asked about a plan of the open file.
LEMMA AskKeeps ==
    ASSUME PagesInv, NEW name, NEW choice, Ask(name, choice)
    PROVE  PagesInv' /\ NothingWritten
<1> DEFINE w == Rows[name]
           subject == Subject(w, model[w.page], choice)
<1>1. Offered(name, choice) /\ ~w.reads /\ question' = [work |-> name, about |-> choice, subject |-> subject]
  BY DEF Ask
<1>2. name \in DOMAIN Rows /\ w.page \in DOMAIN model /\ RowFacts(w) /\ (w.plan # Nothing => subject.file = open)
  BY <1>1, OfferedPlan
<1>3. question'.work = name /\ question'.subject = subject
  BY <1>1
<1>4. \A flag \in w.blocked : ~model[w.page][flag]
  BY <1>1 DEF Offered, Can, Now
<1>5. w.kind = "full_sync" => \A j \in Live(jobs, era) : Row(j).kind # "full_sync"
  BY <1>1, <1>2 DEF Offered, Can, Busy, Now, Live, RowFacts, ReadsOnlyRead
<1> HIDE DEF subject
<1>6. Asked(question', model, Live(jobs, era), open)
  BY <1>1, <1>2, <1>3, <1>4, <1>5 DEF Asked
<1>7. PageState(model, jobs, era, generation, open, wrote, told, world, question')
  BY <1>6 DEF PagesInv, PageState
<1>8. UNCHANGED <<open, era, generation, rules, told, world, model, jobs, wrote, scope>>
  BY DEF Ask
<1> QED
  BY <1>7, <1>8 DEF PagesInv, NothingWritten

\* Without the question there is less to keep.
LEMMA QuestionGone ==
    ASSUME NEW m, NEW J, NEW e, NEW s, NEW F, NEW W, NEW T, NEW X, NEW q, PageState(m, J, e, s, F, W, T, X, q)
    PROVE  PageState(m, J, e, s, F, W, T, X, Nothing)
BY DEF PageState, Asked

\* The answer: what was asked about may begin, since nothing of its page began
\* meanwhile but reads.
LEMMA AnswerKeeps ==
    ASSUME PagesInv, NEW yes \in BOOLEAN, Answer(yes)
    PROVE  PagesInv' /\ NothingWritten
<1>1. /\ open' = open /\ era' = era /\ generation' = generation /\ rules' = rules /\ told' = told /\ world' = world
      /\ wrote' = wrote /\ question # Nothing /\ question' = Nothing
  BY DEF Answer
<1>2. PageState(model, jobs, era, generation, open, wrote, told, world, Nothing)
  BY QuestionGone DEF PagesInv
<1>3. CASE yes /\ Held(question.work)
  <2> DEFINE name == question.work
             b == Begin(Now, name, question.about, question.subject, FALSE)
  <2>1. Cardinality(jobs) < MaxJobs /\ Spend("start") /\ Become(b)
    BY <1>3 DEF Answer
  <2>2. Asked(question, model, Live(jobs, era), open)
    BY DEF PagesInv, PageState
  <2>3. RowFacts(Rows[name]) /\ Rows[name].page \in DOMAIN Models
    BY <1>1, <2>2, RowsAreSound DEF Asked, PagesInv, PageState, Shaped
  <2>4. ~(Rows[name].page = "chats" /\ Rows[name].shows = "preview")
    BY <1>1, <2>2, <2>3, ChoicesAreFields DEF Asked, RowFacts, PlansHaveFlags
  <2>5. MayBegin(model, jobs, era, open, Nothing, name, question.subject)
    BY <1>1, <2>1, <2>2, <2>4 DEF Asked, MayBegin
  <2>6. Now.model = model /\ Now.jobs = jobs /\ Good(Now, era, generation, open, wrote, told, world, Nothing)
    BY <1>2, NowIsGood DEF Good
  <2>7. era \in Nat /\ generation \in Nat /\ world \in Nat
    BY DEF PagesInv
  <2> HIDE DEF b
  <2>8. Good(b, era, generation, open, wrote, told, world, Nothing) /\ Grows(Now, b)
    BY <2>5, <2>6, <2>7, BeginIsGood DEF b
  <2>9. PagesInv'
    BY <1>1, <2>1, <2>6, <2>7, <2>8, WindowKeeps DEF PagesInv
  <2> QED
    BY <2>1, <2>6, <2>8, <2>9 DEF NothingWritten, Grows, Become
<1>4. CASE ~(yes /\ Held(question.work))
  <2>1. model' = model /\ jobs' = jobs /\ scope' = scope
    BY <1>4 DEF Answer
  <2> QED
    BY <1>1, <1>2, <2>1 DEF PagesInv, NothingWritten
<1> QED
  BY <1>3, <1>4

\* The tree that a scan of the sessions asks for on its way.
LEMMA AlongsideIsGood ==
    ASSUME NEW st, NEW e \in Nat, NEW s \in Nat, NEW F, NEW W, NEW T, NEW X \in Nat,
           Good(st, e, s, F, W, T, X, Nothing), NEW name
    PROVE  /\ Good(Alongside(st, name), e, s, F, W, T, X, Nothing) /\ Grows(st, Alongside(st, name))
           /\ name # "scanSessions" => Alongside(st, name) = st
<1>1. CASE Alongside(st, name) = st
  BY <1>1 DEF Grows
<1>2. CASE name = "scanSessions" /\ Can(st, "loadProjects")
           /\ Alongside(st, name) = Begin(st, "loadProjects", Nothing, Nothing, FALSE)
  <2>1. ReadsSessions(Rows["loadProjects"])
    BY RowsAreSound
  <2>2. MayBegin(st.model, st.jobs, e, F, Nothing, "loadProjects", Nothing)
    BY <1>2, <2>1, CanMeansMay DEF ReadsSessions
  <2> QED
    BY <1>2, <2>2, BeginIsGood
<1> QED
  BY <1>1, <1>2 DEF Alongside

\* A button that asks nothing first.
LEMMA PressKeeps ==
    ASSUME PagesInv, NEW name, NEW choice, NEW dry \in BOOLEAN, Press(name, choice, dry)
    PROVE  PagesInv' /\ NothingWritten
<1> DEFINE w == Rows[name]
           st == Alongside(Now, name)
           subject == Subject(w, model[w.page], choice)
           b == Begin(st, name, choice, subject, dry)
<1>1. /\ open' = open /\ era' = era /\ generation' = generation /\ rules' = rules /\ told' = told /\ world' = world
      /\ wrote' = wrote /\ question' = question /\ Spend("start") /\ Offered(name, choice)
      /\ Can(st, name) /\ Become(b)
  BY DEF Press
<1>2. /\ name \in DOMAIN Rows /\ w.page \in DOMAIN model /\ RowFacts(w) /\ question = Nothing
      /\ (~w.reads /\ w.plan # Nothing) => subject.file = open
      /\ w.page = "chats" /\ w.shows = "preview" => Ok(model["chats"]["dir"])
  BY <1>1, OfferedPlan
<1>3. Now.model = model /\ Now.jobs = jobs /\ Good(Now, era, generation, open, wrote, told, world, Nothing)
  BY <1>2, NowIsGood
<1>4. era \in Nat /\ generation \in Nat /\ world \in Nat
  BY DEF PagesInv
<1> HIDE DEF st, subject, b
<1>5. Good(st, era, generation, open, wrote, told, world, Nothing) /\ Grows(Now, st) /\ (name # "scanSessions" => st = Now)
  BY <1>3, <1>4, AlongsideIsGood DEF st
<1>6. w.page = "chats" /\ w.shows = "preview" => Ok(st.model["chats"]["dir"])
  BY <1>2, <1>3, <1>5, RowsAreSound DEF ReadsSessions
<1>7. MayBegin(st.model, st.jobs, era, open, Nothing, name, subject)
  BY <1>1, <1>2, <1>4, <1>5, <1>6, CanMeansMay
<1>8. Good(b, era, generation, open, wrote, told, world, Nothing) /\ Grows(st, b)
  BY <1>4, <1>5, <1>7, BeginIsGood DEF b
<1>9. Grows(Now, b)
  BY <1>5, <1>8, GrowsOn
<1>10. PagesInv'
  BY <1>1, <1>2, <1>3, <1>4, <1>8, <1>9, WindowKeeps DEF PagesInv
<1> QED
  BY <1>1, <1>3, <1>9, <1>10 DEF NothingWritten, Grows, Become

\* The sessions are scanned again under the general rule.
LEMMA DecideAllKeeps ==
    ASSUME PagesInv, DecideAll
    PROVE  PagesInv' /\ NothingWritten
<1> DEFINE ruled == [Now EXCEPT !.model.sessions.rule = "rule"]
           st == Alongside(ruled, "scanSessions")
           b == Begin(st, "scanSessions", model.sessions.pair, model.sessions.pair, FALSE)
<1>1. /\ open' = open /\ era' = era /\ generation' = generation /\ rules' = rules /\ told' = told /\ world' = world
      /\ wrote' = wrote /\ question' = question /\ Spend("start") /\ Offered("scanSessions", model.sessions.pair)
      /\ Can(st, "scanSessions") /\ Become(b) /\ "scanSessions" \in scope.rows
  BY DEF DecideAll
<1>2. question = Nothing
  BY <1>1 DEF Offered
<1>3. Now.model = model /\ Now.jobs = jobs /\ Good(Now, era, generation, open, wrote, told, world, Nothing)
  BY <1>2, NowIsGood
<1>4. era \in Nat /\ generation \in Nat /\ world \in Nat
  BY DEF PagesInv
<1>5. ReadsSessions(Rows["scanSessions"]) /\ "sessions" \in DOMAIN model /\ DOMAIN model["sessions"] = DOMAIN Models["sessions"]
  BY <1>1, RowsAreSound DEF PagesInv, PageState, Shaped, ReadsSessions
<1>6. IsState(ruled, era, generation, open) /\ ruled.model = [model EXCEPT !["sessions"]["rule"] = "rule"] /\ ruled.jobs = jobs
  BY DEF Now, IsState
<1> HIDE DEF ruled, st, b
<1>7. Chosen(model, ruled.model, "sessions")
  <2>1. "rule" \notin Flags /\ "rule" \notin PlansOf("sessions")
    BY DEF Flags, PlansOf
  <2> QED
    BY <1>5, <1>6, <2>1 DEF Chosen, FlagsOf
<1>8. PageState(ruled.model, jobs, era, generation, open, wrote, told, world, Nothing)
  BY <1>2, <1>7, ChosenKeeps DEF PagesInv
<1>9. Good(ruled, era, generation, open, wrote, told, world, Nothing) /\ Grows(Now, ruled) /\ DOMAIN ruled.model = DOMAIN model
  BY <1>3, <1>6, <1>7, <1>8 DEF Good, Grows, Chosen
<1>10. Good(st, era, generation, open, wrote, told, world, Nothing) /\ Grows(ruled, st)
  BY <1>4, <1>9, AlongsideIsGood DEF st
<1>11. MayBegin(st.model, st.jobs, era, open, Nothing, "scanSessions", model.sessions.pair)
  BY <1>1, <1>4, <1>5, <1>10, CanMeansMay DEF ReadsSessions
<1>12. Good(b, era, generation, open, wrote, told, world, Nothing) /\ Grows(st, b)
  BY <1>4, <1>10, <1>11, BeginIsGood DEF b
<1>13. Grows(Now, b)
  BY <1>9, <1>10, <1>12, GrowsOn
<1>14. PagesInv'
  BY <1>1, <1>2, <1>3, <1>4, <1>12, <1>13, WindowKeeps DEF PagesInv
<1> QED
  BY <1>1, <1>3, <1>13, <1>14 DEF NothingWritten, Grows, Become

-----------------------------------------------------------------------------
(* A file is opened, settings are announced, and the rest. *)

\* Pages nobody has touched: nothing under way and nothing to apply.
AtRest(m) ==
    \A page \in DOMAIN m :
        /\ \A flag \in FlagsOf(page) : m[page][flag] = FALSE
        /\ \A f \in PlansOf(page) : m[page][f] = Nothing

\* The models the window makes.
LEMMA ModelsAreAtRest == AtRest(Models)
<1> USE PagesHaveFields DEF FlagsOf, Flags, PlansOf, Fields
<1> DEFINE PageAtRest(page) ==
        /\ \A flag \in FlagsOf(page) : Models[page][flag] = FALSE
        /\ \A f \in PlansOf(page) : Models[page][f] = Nothing
<1>1. PageAtRest("sessions")
  BY DEF Models, SessionsModel
<1>2. PageAtRest("projects")
  BY DEF Models, ProjectsModel
<1>3. PageAtRest("chats")
  BY DEF Models, ChatsModel
<1>4. PageAtRest("sync")
  BY DEF Models, SyncModel
<1>5. PageAtRest("overview")
  BY DEF Models, OverviewModel
<1>6. PageAtRest("automation")
  BY DEF Models, AutomationModel
<1>7. PageAtRest("guardian")
  BY DEF Models, GuardianModel
<1>8. PageAtRest("recovery")
  BY DEF Models, RecoveryModel
<1>9. PageAtRest("backups")
  BY DEF Models, BackupsModel
<1>10. PageAtRest("home")
  BY DEF Models, HomeModel
<1> HIDE DEF PageAtRest
<1>11. \A page \in DOMAIN Models : PageAtRest(page)
  BY <1>1, <1>2, <1>3, <1>4, <1>5, <1>6, <1>7, <1>8, <1>9, <1>10
<1> QED
  BY <1>11 DEF AtRest, PageAtRest

\* The models of the pages in use.
LEMMA FreshIsAtRest ==
    ASSUME NEW rows, \A name \in rows : name \in DOMAIN Rows
    PROVE  /\ DOMAIN Fresh(rows) = {Rows[name].page : name \in rows}
           /\ Shaped(Fresh(rows)) /\ AtRest(Fresh(rows))
<1>1. DOMAIN Fresh(rows) = {Rows[name].page : name \in rows} /\ \A page \in DOMAIN Fresh(rows) : Fresh(rows)[page] = Models[page]
  BY DEF Fresh
<1>2. DOMAIN Fresh(rows) \subseteq DOMAIN Models
  BY <1>1, RowsAreSound DEF RowFacts, FlagsAreApart
<1>3. AtRest(Fresh(rows))
  BY <1>1, <1>2, ModelsAreAtRest DEF AtRest
<1> QED
  BY <1>1, <1>2, <1>3 DEF Shaped, AtRest

\* Pages at rest are right whatever the rules and the world, if no job belongs
\* to their era.
LEMMA RestIsFine ==
    ASSUME NEW m, NEW J, NEW e, NEW s, NEW F, NEW W, NEW T, NEW X, Shaped(m), AtRest(m), JobsOk(J, DOMAIN m, e,
            s, X),
           Live(J, e) = {}
    PROVE  PageState(m, J, e, s, F, W, T, X, Nothing)
<1>1. FlagsUp(m, {}) /\ Apart({}) /\ PlansComing({}, F, s, W, T)
  BY DEF FlagsUp, Apart, PlansComing, AtRest
<1>2. PlansShown(m, F, W, T)
  BY DEF PlansShown, AtRest, Ok
<1>3. ChoicesKept(m, {}, s)
  BY ChoicesAreFields DEF ChoicesKept, PlanIsAbout, AtRest, Ok
<1> QED
  BY <1>1, <1>2, <1>3 DEF PageState, Asked

\* Another file: no job of an earlier era reaches the new pages.
LEMMA OpenConfigKeeps ==
    ASSUME PagesInv, NEW file \in Configs, OpenConfig(file)
    PROVE  PagesInv' /\ NothingWritten
<1> DEFINE fresh == Fresh(scope.rows)
           st == [Now EXCEPT !.model = fresh, !.era = era + 1, !.file = file]
<1>1. /\ question = Nothing /\ question' = Nothing /\ Spend("event") /\ open' = file /\ era' = era + 1
      /\ told' = rules[file] /\ wrote' = Blank(scope.rows)
      /\ generation' = generation /\ rules' = rules /\ world' = world
  BY DEF OpenConfig
<1>2. PICK front : Become(Arrive(st, front))
  BY DEF OpenConfig
<1>3. DOMAIN fresh = DOMAIN model /\ Shaped(fresh) /\ AtRest(fresh)
  BY FreshIsAtRest DEF PagesInv
<1>4. IsState(st, era + 1, generation, file) /\ st.model = fresh /\ st.jobs = jobs
  BY DEF Now, IsState
<1>5. era \in Nat /\ generation \in Nat /\ world \in Nat /\ era + 1 \in Nat
  BY DEF PagesInv
<1> HIDE DEF fresh, st
<1>6. JobsOk(jobs, DOMAIN fresh, era + 1, generation, world) /\ Live(jobs, era + 1) = {}
  BY <1>3, <1>5 DEF PagesInv, PageState, JobsOk, IsJob, Live
<1>7. PageState(fresh, jobs, era + 1, generation, file, wrote', told', world, Nothing)
  BY <1>3, <1>6, RestIsFine
<1>8. Good(st, era + 1, generation, file, wrote', told', world, Nothing)
  BY <1>3, <1>4, <1>7 DEF Good, PagesInv
<1>9. Good(Arrive(st, front), era + 1, generation, file, wrote', told', world, Nothing) /\ Grows(st, Arrive(st, front))
  BY <1>5, <1>8, ArriveIsGood
<1>10. DOMAIN wrote' = DOMAIN wrote /\ \A v \in DOMAIN wrote' : wrote'[v] = 0
  BY <1>1, <1>3 DEF Blank, PagesInv, fresh
<1>11. rules' \in [Configs -> Nat] /\ told' <= rules'[open'] /\ told' \in Nat
  BY <1>1 DEF PagesInv
<1>12. PagesInv'
  BY <1>1, <1>2, <1>3, <1>4, <1>5, <1>8, <1>9, <1>10, <1>11, WindowKeeps
<1> QED
  BY <1>2, <1>4, <1>9, <1>12 DEF NothingWritten, Grows, Become

\* A save that is announced: every page forgets its plans, and reads under way turn stale.
LEMMA AnnouncedKeeps ==
    ASSUME NEW m, NEW J, NEW e \in Nat, NEW s \in Nat, NEW F, NEW W, NEW T, NEW X \in Nat, NEW q, NEW U,
           PageState(m, J, e, s, F, W, T, X, q)
    PROVE  PageState([page \in DOMAIN m |-> ResetPlans(page, m[page])], J, e, s + 1, F, W, U, X, q)
<1> DEFINE m2 == [page \in DOMAIN m |-> ResetPlans(page, m[page])]
           L == Live(J, e)
<1>1. /\ FlagsUp(m, L) /\ Apart(L) /\ PlansShown(m, F, W, T) /\ PlansComing(L, F, s, W, T) /\ ChoicesKept(m, L, s)
      /\ Asked(q, m, L, F) /\ Shaped(m) /\ JobsOk(J, DOMAIN m, e, s, X)
  BY DEF PageState
<1>2. \A k \in L : RowFacts(Row(k)) /\ Row(k).page \in DOMAIN m /\ k.since \in Nat /\ k.since <= s
  BY <1>1, RowsAreSound DEF JobsOk, Live, IsJob, Row
<1>3. /\ DOMAIN m2 = DOMAIN m
      /\ \A page \in DOMAIN m : /\ DOMAIN m2[page] = DOMAIN m[page]
                                /\ \A f \in DOMAIN m[page] : m2[page][f] = IF f \in PagePlans[page] THEN Nothing ELSE m[page][f]
  BY DEF ResetPlans, Forgotten
<1> HIDE DEF L, m2
<1>4. \A page \in DOMAIN m : \A flag \in FlagsOf(page) : m2[page][flag] = m[page][flag]
  BY <1>1, <1>3, PagePlansAre DEF Shaped, FlagsOf
<1>5. Shaped(m2)
  BY <1>1, <1>3, <1>4 DEF Shaped
<1>6. JobsOk(J, DOMAIN m2, e, s + 1, X)
  BY <1>1, <1>3 DEF JobsOk, IsJob
<1>7. FlagsUp(m2, L)
  BY <1>1, <1>2, <1>3, <1>4 DEF FlagsUp, RowFacts, FlagsAreApart
<1>8. \A page \in DOMAIN m : page \in DOMAIN Models /\ \A f \in PlansOf(page) : m2[page][f] = IF f \in PagePlans[page] THEN Nothing ELSE m[page][f]
  BY <1>1, <1>3, PlansAreFields DEF Shaped
<1>9. PlansShown(m2, F, W, U)
  BY <1>1, <1>3, <1>8 DEF PlansShown, RulesOk, Ok
<1>10. PlansComing(L, F, s + 1, W, U)
  BY <1>1, <1>2 DEF PlansComing, JobComing
<1>11. ChoicesKept(m2, L, s + 1)
  <2>1. PlanIsAbout(m2, "guardian", "preview", "selected")
    BY <1>3, <1>8, ChoicesAreFields, PagePlansAre DEF PlanIsAbout, Ok
  <2>2. PlanIsAbout(m2, "projects", "moveScan", "inputs")
    BY <1>3, <1>8, ChoicesAreFields, PagePlansAre DEF PlanIsAbout, Ok
  <2>3. PlanIsAbout(m2, "chats", "preview", "request")
    BY <1>3, <1>8, ChoicesAreFields, PagePlansAre DEF PlanIsAbout, Ok
  <2>4. \A k \in L : k.since # s + 1
    BY <1>2
  <2>5. "chats" \in DOMAIN m => ~Ok(m2["chats"]["dir"])
    BY <1>1, <1>3, ChoicesAreFields, PagePlansAre DEF Shaped, Ok
  <2>6. \A k \in L : ShowsOf(k, "chats", "dir") => "chats" \in DOMAIN m
    BY <1>2 DEF ShowsOf
  <2> QED
    BY <2>1, <2>2, <2>3, <2>4, <2>5, <2>6 DEF ChoicesKept
<1>12. Asked(q, m2, L, F)
  BY <1>1, <1>3, <1>4, RowsAreSound DEF Asked, RowFacts, FlagsAreApart
<1> QED
  BY <1>5, <1>6, <1>7, <1>1, <1>9, <1>10, <1>11, <1>12 DEF PageState, m2, L

\* The announcement, and what the page in front reads at once.
LEMMA ConfigChangedKeeps ==
    ASSUME PagesInv, NEW front, ConfigChanged(front)
    PROVE  PagesInv' /\ NothingWritten
<1> DEFINE reset == [page \in DOMAIN model |-> ResetPlans(page, model[page])]
           st == [Now EXCEPT !.since = generation + 1, !.model = [page \in DOMAIN model |-> ResetPlans(page, @[page])]]
<1>1. /\ open' = open /\ era' = era /\ generation' = generation + 1 /\ rules' = rules /\ told' = rules[open]
      /\ world' = world /\ wrote' = wrote /\ question' = question /\ scope' = scope /\ Become(Arrive(st, front))
  BY DEF ConfigChanged
<1>2. IsState(st, era, generation + 1, open) /\ st.model = reset /\ st.jobs = jobs
  BY DEF Now, IsState
<1>3. era \in Nat /\ generation \in Nat /\ world \in Nat /\ generation + 1 \in Nat
  BY DEF PagesInv
<1>4. DOMAIN reset = DOMAIN model
  OBVIOUS
<1>5. PageState(reset, jobs, era, generation + 1, open, wrote, told', world, question)
  BY <1>3, AnnouncedKeeps DEF PagesInv
<1> HIDE DEF reset, st
<1>6. Good(st, era, generation + 1, open, wrote, told', world, question)
  BY <1>2, <1>4, <1>5 DEF Good, PagesInv
<1>7. Good(Arrive(st, front), era, generation + 1, open, wrote, told', world, question) /\ Grows(st, Arrive(st, front))
  BY <1>3, <1>6, ArriveIsGood
<1>8. told' \in Nat /\ told' <= rules'[open'] /\ rules' \in [Configs -> Nat] /\ open' \in Configs
  BY <1>1 DEF PagesInv
<1>9. \A v \in DOMAIN wrote : wrote[v] \in Nat /\ wrote[v] <= world'
  BY <1>1 DEF PagesInv
<1>10. PagesInv'
  BY <1>1, <1>2, <1>3, <1>4, <1>6, <1>7, <1>8, <1>9, WindowKeeps
<1> QED
  BY <1>1, <1>2, <1>7, <1>10 DEF NothingWritten, Grows, Become

\* A save only raises what the file says.
LEMMA SaveSettingsKeeps ==
    ASSUME PagesInv, NEW here \in BOOLEAN, SaveSettings(here)
    PROVE  PagesInv' /\ NothingWritten
<1>1. /\ open' = open /\ era' = era /\ generation' = generation /\ told' = told /\ world' = world /\ model' = model
      /\ jobs' = jobs /\ question' = question /\ wrote' = wrote /\ Spend("event")
      /\ rules' = [rules EXCEPT ![open] = @ + 1]
  BY DEF SaveSettings
<1>2. DOMAIN scope' = DOMAIN scope /\ scope'.rows = scope.rows
  BY <1>1 DEF PagesInv, Spend
<1>3. rules' \in [Configs -> Nat] /\ told <= rules'[open]
  BY <1>1 DEF PagesInv
<1> QED
  BY <1>1, <1>2, <1>3 DEF PagesInv, NothingWritten

\* Codex, or the cloud, moves on.
LEMMA WorldMovesKeeps ==
    ASSUME PagesInv, WorldMoves
    PROVE  PagesInv' /\ NothingWritten
<1>1. /\ open' = open /\ era' = era /\ generation' = generation /\ rules' = rules /\ told' = told /\ model' = model
      /\ jobs' = jobs /\ question' = question /\ wrote' = wrote /\ Spend("event") /\ world' = world + 1
  BY DEF WorldMoves
<1>2. DOMAIN scope' = DOMAIN scope /\ scope'.rows = scope.rows
  BY <1>1 DEF PagesInv, Spend
<1>3. JobsOk(jobs, DOMAIN model, era, generation, world + 1)
  BY DEF PagesInv, PageState, JobsOk, IsJob
<1>4. PageState(model, jobs, era, generation, open, wrote, told, world + 1, question)
  BY <1>3 DEF PagesInv, PageState
<1>5. world + 1 \in Nat /\ \A v \in DOMAIN wrote : wrote[v] <= world + 1
  BY DEF PagesInv
<1> QED
  BY <1>1, <1>2, <1>4, <1>5 DEF PagesInv, NothingWritten

-----------------------------------------------------------------------------
(* The theorems. *)

\* The window as it opens.
LEMMA PagesStart ==
    ASSUME PagesInit
    PROVE  PagesInv
<1>1. /\ open \in Configs /\ era = 1 /\ generation = 0 /\ told = 0 /\ world = 0 /\ rules = [file \in Configs |-> 0]
      /\ scope \in Features /\ model = Fresh(scope.rows) /\ jobs = {} /\ question = Nothing /\ wrote = Blank(scope.rows)
  BY PagesAssumption DEF PagesInit
<1>2. DOMAIN scope = {"rows", "start", "event"} /\ \A name \in scope.rows : name \in DOMAIN Rows
  BY <1>1, FeaturesAssumption
<1>3. DOMAIN model = {Rows[name].page : name \in scope.rows} /\ Shaped(model) /\ AtRest(model)
  BY <1>1, <1>2, FreshIsAtRest
<1>4. JobsOk(jobs, DOMAIN model, era, generation, world) /\ Live(jobs, era) = {}
  BY <1>1, FS_EmptySet DEF JobsOk, Live
<1>5. PageState(model, jobs, era, generation, open, wrote, told, world, question)
  BY <1>1, <1>3, <1>4, RestIsFine
<1>6. DOMAIN wrote = {v \in OwnPlans : v[1] \in DOMAIN model} /\ \A v \in DOMAIN wrote : wrote[v] = 0
  BY <1>1 DEF Blank
<1>7. rules \in [Configs -> Nat] /\ told <= rules[open]
  BY <1>1
<1> QED
  BY <1>1, <1>2, <1>3, <1>5, <1>6, <1>7 DEF PagesInv

\* Every step keeps the invariant, and no step but a write moves a job's
\* world.
LEMMA PagesStep ==
    ASSUME PagesInv, PagesNext
    PROVE  PagesInv' /\ (NothingWritten \/ \E j \in jobs : WriteInJob(j))
<1>1. CASE Person
  BY <1>1, PressKeeps, DecideAllKeeps, AskKeeps, AnswerKeeps, ChoicesKeep, OpenConfigKeeps,
     CancelJobKeeps DEF Person
<1>2. CASE Threads
  BY <1>2, ReadInJobKeeps, WriteInJobKeeps, EndWithoutKeeps, ReadAgainKeeps DEF Threads
<1>3. CASE Around
  BY <1>3, DeliverKeeps, SaveSettingsKeeps, ConfigChangedKeeps, WorldMovesKeeps DEF Around
<1> QED
  BY <1>1, <1>2, <1>3 DEF PagesNext

\* Nothing happens.
LEMMA PagesStutter ==
    ASSUME PagesInv, UNCHANGED pagesVars
    PROVE  PagesInv'
BY DEF pagesVars, PagesInv

\* The inductive invariant of the window's pages: flags held up by exactly one
\* job, plans current and about what is chosen, results on their way that will
\* still fit when they come.
THEOREM PagesInvariant == PagesSpec => []PagesInv
<1>1. PagesInit => PagesInv
  BY PagesStart
<1>2. PagesInv /\ [PagesNext]_pagesVars => PagesInv'
  BY PagesStep, PagesStutter
<1> QED
  BY <1>1, <1>2, PTL DEF PagesSpec

\* Of what is under way, at most one job: the pages' flags and the full run.
LEMMA AtMostOne ==
    ASSUME NEW S, \A j, k \in S : j = k
    PROVE  Cardinality(S) <= 1 /\ (S # {} => Cardinality(S) = 1)
<1>1. CASE S = {}
  BY <1>1, FS_EmptySet
<1>2. CASE S # {}
  <2>1. PICK j \in S : TRUE
    BY <1>2
  <2>2. S = {j}
    BY <2>1
  <2>3. Cardinality({j}) = 1
    BY FS_Singleton
  <2>4. Cardinality(S) = 1
    BY <2>2, <2>3
  <2> QED
    BY <1>2, <2>4
<1> QED
  BY <1>1, <1>2

\* The invariant says what the pages promise.
LEMMA TrueOfThePages ==
    ASSUME PagesInv
    PROVE  PagesStayTrue
<1> DEFINE L == Live(jobs, era)
<1>1. /\ FlagsUp(model, L) /\ PlansShown(model, open, wrote, told) /\ ChoicesKept(model, L, generation)
  BY DEF PagesInv, PageState
<1>2. ASSUME NEW name \in scope.rows
      PROVE  LET w == Rows[name]
                 running == {j \in jobs : j.watched /\ j.era = era /\ Row(j).page = w.page /\ Row(j).flag = w.flag}
             IN  IF model[w.page][w.flag] THEN Cardinality(running) = 1 ELSE running = {}
  <2> DEFINE w == Rows[name]
             running == {j \in jobs : j.watched /\ j.era = era /\ Row(j).page = w.page /\ Row(j).flag = w.flag}
  <2>1. w.page \in DOMAIN model /\ w.flag \in FlagsOf(w.page)
    BY RowsAreSound DEF PagesInv, RowFacts, FlagsAreApart
  <2> HIDE DEF w
  <2>2. running \subseteq L /\ \A j \in L : Row(j).page = w.page /\ Row(j).flag = w.flag => j \in running
    BY DEF Live
  <2>3. \A j, k \in running : j = k
    BY <1>1, <2>2 DEF FlagsUp
  <2>4. CASE model[w.page][w.flag]
    <3>1. running # {}
      BY <1>1, <2>1, <2>2, <2>4 DEF FlagsUp
    <3> HIDE DEF running
    <3>2. Cardinality(running) = 1
      BY <2>3, <3>1, AtMostOne
    <3> QED
      BY <2>4, <3>2 DEF running, w
  <2>5. CASE ~model[w.page][w.flag]
    <3>1. running = {}
      BY <1>1, <2>2, <2>5 DEF FlagsUp
    <3> QED
      BY <2>5, <3>1 DEF w
  <2> QED
    BY <2>4, <2>5
<1>3. Cardinality({j \in jobs : j.watched /\ j.era = era /\ Row(j).kind = "full_sync"}) <= 1
  <2> DEFINE full == {j \in jobs : j.watched /\ j.era = era /\ Row(j).kind = "full_sync"}
  <2>1. \A j, k \in full : j = k
    BY <1>1 DEF FlagsUp, Live
  <2> HIDE DEF full
  <2>2. Cardinality(full) <= 1
    BY <2>1, AtMostOne
  <2> QED
    BY <2>2 DEF full
<1>4. BusyWhileItRuns
  BY <1>2, <1>3 DEF BusyWhileItRuns
<1>5. ASSUME NEW v \in DOMAIN wrote, Ok(model[v[1]][v[2]])
      PROVE  /\ model[v[1]][v[2]].file = open /\ model[v[1]][v[2]].world >= wrote[v]
             /\ (v[2] \in PagePlans[v[1]] /\ model[v[1]][v[2]].asked) => model[v[1]][v[2]].rules >= told
  <2>1. v \in OwnPlans /\ v[1] \in DOMAIN model
    BY DEF PagesInv
  <2>2. v = <<v[1], v[2]>> /\ v[2] \in PlansOf(v[1])
    BY <2>1 DEF OwnPlans, PlansOf
  <2>3. Current(model[v[1]][v[2]], v[1], v[2], open, wrote) /\ RulesOk(model[v[1]][v[2]], v[1], v[2], told)
    BY <1>1, <1>5, <2>1, <2>2 DEF PlansShown
  <2> QED
    BY <2>2, <2>3 DEF Current, RulesOk
<1>6. About("guardian", "preview", "selected") /\ About("projects", "moveScan", "inputs")
      /\ About("chats", "preview", "request")
  BY <1>1 DEF ChoicesKept, PlanIsAbout, About
<1> QED
  BY <1>4, <1>5, <1>6 DEF PagesStayTrue, PlansStayCurrent

\* The job that writes is the only one whose world moves, and it does what it was given.
LEMMA OnlyTheConfirmed ==
    ASSUME PagesInv, PagesNext \/ UNCHANGED pagesVars, NEW j \in jobs, j.work # "answerPlace",
           NEW k \in jobs', k.id = j.id, k.world > j.world
    PROVE  Under(j) = j.file /\ (Row(j).plan # Nothing => Found(j) = j.subject /\ j.subject.file = j.file)
<1>1. /\ IsJob(j, DOMAIN model) /\ RowFacts(Row(j)) /\ j.work \in DOMAIN Rows
      /\ \A i \in jobs : i.world \in Nat /\ (i.id = j.id => i = j)
  BY JobsAreTyped DEF PagesInv, PageState, JobsOk, IsJob
<1>2. ~NothingWritten
  BY <1>1 DEF NothingWritten, IsJob
<1>3. CASE UNCHANGED pagesVars
  BY <1>2, <1>3 DEF NothingWritten, pagesVars
<1>4. CASE PagesNext
  <2>1. PICK i \in jobs : WriteInJob(i)
    BY <1>2, <1>4, PagesStep
  <2> DEFINE h == [i EXCEPT !.at = IF Row(i).again = Nothing THEN "done" ELSE "wrote", !.out = Done, !.world = world + 1]
  <2>2. jobs' = (jobs \ {i}) \cup {h}
    BY <2>1 DEF WriteInJob, Over
  <2>3. DOMAIN i = JobFields
    BY JobsAreTyped
  <2>4. h.id = i.id
    BY <2>3 DEF JobFields
  <2> HIDE DEF h
  <2>5. i = j
    BY <1>1, <2>2, <2>4 DEF IsJob
  <2>6. ~Row(j).reads /\ May(j, Under(j))
    BY <2>1, <2>5 DEF WriteInJob
  <2>7. IsEarly(Row(j))
    BY <1>1, RowsAreSound DEF Row
  <2>8. Under(j) = j.file
    BY <1>1, <2>6, <2>7 DEF IsEarly, Under
  <2> QED
    BY <1>1, <2>6, <2>8 DEF May, IsConfirmed, IsJob
<1> QED
  BY <1>3, <1>4

\* A page is busy exactly while its job runs, one full sync at a time, and
\* what it offers to apply is of the open file, after its own last write,
\* under the settings announced and about what is chosen.
THEOREM PagesAlwaysStayTrue == PagesSpec => []PagesStayTrue
<1>1. PagesInv => PagesStayTrue
  BY TrueOfThePages
<1> QED
  BY <1>1, PagesInvariant, PTL

\* A write is the one that was confirmed, of the plan shown and the file open
\* then, whatever happened behind it.
THEOREM OnlyTheConfirmedIsDone == PagesSpec => ConfirmedIsDone
<1> DEFINE Step ==
        \A j \in jobs :
            (j.work # "answerPlace" /\ \E k \in jobs' : k.id = j.id /\ k.world > j.world) =>
                /\ Under(j) = j.file
                /\ Row(j).plan # Nothing => Found(j) = j.subject /\ j.subject.file = j.file
<1>1. PagesInv /\ [PagesNext]_pagesVars => Step
  BY OnlyTheConfirmed
<1>2. PagesInv /\ [PagesNext]_pagesVars => [Step]_pagesVars
  BY <1>1
<1> HIDE DEF Step
<1>3. PagesSpec => [][Step]_pagesVars
  BY <1>2, PagesInvariant, PTL DEF PagesSpec
<1> QED
  BY <1>3 DEF ConfirmedIsDone, Step
=============================================================================
