--------------------------- MODULE HandoffProofs ---------------------------
(***************************************************************************)
(* Handoff, for any set of machines, files and policies and any bounds:    *)
(* its type invariant; that no machine's record forgets as long as it is   *)
(* read; that what is recorded as taken was loaded; and that whoever says  *)
(* handed off has its work in the mirror.                                  *)
(***************************************************************************)
EXTENDS Handoff, TLAPS

\* A program that does nothing is a program.
LEMMA IdleType == Idle \in Program
  BY HandoffAssumption DEF Idle, Program, PCs, Steps, Contents, HandoffAssumption
\* A blank board is a record.
LEMMA BlankType == Blank \in Record
  BY HandoffAssumption DEF Blank, Record, Ids, HandoffAssumption

\* The initial state is typed.
LEMMA InitType == Init => TypeOK
  BY HandoffAssumption, IdleType, BlankType
  DEF Init, TypeOK, Files, Contents, Bounds, Mishaps, HandoffAssumption

\* What the steps of a program and the deliveries leave alone.
LEMMA SpendType == ASSUME TypeOK, NEW what \in Bounds, NEW bound, Spend(what, bound)
                   PROVE  used' \in [Bounds -> Nat]
  BY DEF TypeOK, Spend
\* A bounded mishap is counted.
LEMMA MishapType == ASSUME TypeOK, NEW what \in Mishaps, Mishap(what)
                    PROVE  used' \in [Bounds -> Nat]
  BY DEF TypeOK, Mishap, Bounds

\* What a machine reads as its own record is a record.
LEMMA OwnType == ASSUME TypeOK, NEW m \in Machines, NEW read \in BOOLEAN
                 PROVE  Own(m, read) \in Record
  BY BlankType DEF TypeOK, Own
\* What a read that may fail spends is counted.
LEMMA ReadsType == ASSUME TypeOK, NEW m \in Machines, NEW read \in BOOLEAN, Reads(m, read)
                   PROVE  used' \in [Bounds -> Nat]
  BY MishapType DEF Reads, TypeOK, Mishaps
\* How often a record was written anew is counted.
LEMMA WritesType == ASSUME TypeOK, NEW m \in Machines, NEW read \in BOOLEAN, Writes(m, read)
                    PROVE  forgot' \in [Machines -> Nat]
  BY DEF Writes, TypeOK

\* What is pending for a machine are records of machines.
LEMMA PendingType == ASSUME TypeOK, NEW m \in Machines, NEW own
                     PROVE  Pending(m, own) \subseteq [from : Machines, rec : Record]
  BY DEF TypeOK, Pending, Others

\* The record of a machine at work is a record.
LEMMA WorkingType == ASSUME NEW own \in Record PROVE Working(own) \in Record
  BY DEF Working, Record

\* What a machine has taken from another are numbers of handoffs.
LEMMA TakenType == ASSUME TypeOK, NEW m \in Machines, NEW o \in Machines
                   PROVE  Taken(m, o) \subseteq Ids
  BY DEF TypeOK, Taken, Program, Record

\* The record of a machine that has handed off is a record.
LEMMA HandedOffType ==
  ASSUME TypeOK, NEW m \in Machines, NEW own \in Record, NEW new,
         prog[m].wrote # {} => new \in Ids
  PROVE  HandedOff(m, own, new) \in Record
<1>1. cloud[m] \in [Files -> Contents]
  BY DEF TypeOK
<1>2. (IF prog[m].wrote # {} THEN new ELSE own.id) \in Ids
  BY DEF Record
<1>3. [o \in Machines |-> IF Taken(m, o) = {} THEN own.accepted[o]
                          ELSE CHOOSE i \in Taken(m, o) : TRUE] \in [Machines -> Ids]
  <2> SUFFICES ASSUME NEW o \in Machines
               PROVE  (IF Taken(m, o) = {} THEN own.accepted[o]
                       ELSE CHOOSE i \in Taken(m, o) : TRUE) \in Ids
    OBVIOUS
  <2>1. own.accepted[o] \in Ids
    BY DEF Record
  <2>2. Taken(m, o) # {} => (CHOOSE i \in Taken(m, o) : TRUE) \in Taken(m, o)
    OBVIOUS
  <2> QED BY <2>1, <2>2, TakenType
<1>4. (IF prog[m].wrote # {} THEN cloud[m] ELSE own.files)
        \in [Files -> Contents \union {None}]
  BY <1>1 DEF Record
<1> QED BY <1>2, <1>3, <1>4 DEF HandedOff, Record

\* A program that ends is a program.
LEMMA EndedType == ASSUME TypeOK, NEW m \in Machines PROVE Ended(m) \in Program
<1>1. prog[m].last \in {"none", "open", "closed"}
  BY DEF TypeOK, Program
<1> QED BY <1>1, IdleType DEF Ended, Program, PCs, Idle

\* A program that goes on to another place.
LEMMA GoType == ASSUME TypeOK, NEW m \in Machines, NEW where \in PCs
                PROVE  [prog EXCEPT ![m].pc = where] \in [Machines -> Program]
<1>1. prog[m] \in Program
  BY DEF TypeOK
<1>2. [prog[m] EXCEPT !.pc = where] \in Program
  BY <1>1 DEF Program
<1> QED BY <1>2 DEF TypeOK

\* The steps of the watcher.
LEMMA WatchType == ASSUME TypeOK, NEW m \in Machines, Watch(m) PROVE TypeOK'
<1>1. ASSUME CodexStarted(m)
      PROVE  /\ board' \in [Machines -> Record] /\ prog' \in [Machines -> Program]
             /\ used' \in [Bounds -> Nat] /\ forgot' \in [Machines -> Nat]
  <2>1. [Idle EXCEPT !.last = "open", !.pc = "watch"] \in Program
    BY IdleType DEF Idle, Program, PCs
  <2>2. PICK read \in BOOLEAN :
          /\ Reads(m, read) /\ Writes(m, read)
          /\ board' = [board EXCEPT ![m] = Working(Own(m, read))]
    BY <1>1 DEF CodexStarted
  <2>3. Working(Own(m, read)) \in Record
    BY OwnType, WorkingType
  <2>4. board' \in [Machines -> Record] /\ prog' \in [Machines -> Program]
    BY <1>1, <2>1, <2>2, <2>3 DEF CodexStarted, TypeOK
  <2> QED BY <2>2, <2>4, ReadsType, WritesType
<1>2. ASSUME NEW last \in {"none", "open", "closed"}, NEW accept \in BOOLEAN,
             Attempt(m, last, accept)
      PROVE  /\ board' \in [Machines -> Record] /\ prog' \in [Machines -> Program]
             /\ forgot' \in [Machines -> Nat]
  <2>1. [Idle EXCEPT !.last = last, !.pc = "begin", !.accept = accept] \in Program
    BY IdleType DEF Idle, Program, PCs, Steps
  <2> QED BY <1>2, <2>1 DEF Attempt, TypeOK
<1>3. CASE StartWatch(m)
  BY <1>1, <1>2, <1>3 DEF StartWatch, TypeOK, Surroundings
<1>4. CASE StartUnsure(m)
  <2>1. [Idle EXCEPT !.pc = "watch"] \in Program
    BY IdleType DEF Idle, Program, PCs
  <2>2. used' \in [Bounds -> Nat]
    BY <1>4, MishapType DEF StartUnsure, Mishaps
  <2> QED BY <1>4, <2>1, <2>2 DEF StartUnsure, TypeOK, Surroundings
<1>5. CASE PollOpened(m)
  BY <1>1, <1>5 DEF PollOpened, TypeOK, Surroundings
<1>6. CASE PollClosed(m)
  BY <1>2, <1>6 DEF PollClosed, TypeOK, Surroundings
<1>7. CASE MarkFails(m)
  <2>1. [Idle EXCEPT !.last = "open", !.pc = "watch"] \in Program
    BY IdleType DEF Idle, Program, PCs
  <2>2. used' \in [Bounds -> Nat]
    BY <1>7, MishapType DEF MarkFails, Mishaps
  <2> QED BY <1>7, <2>1, <2>2 DEF MarkFails, TypeOK, Surroundings
<1> QED BY <1>3, <1>4, <1>5, <1>6, <1>7 DEF Watch

\* Stopping a program keeps the types.
LEMMA StopType ==
  ASSUME TypeOK, NEW m \in Machines, Stop(m)
  PROVE  prog' \in [Machines -> Program] /\ half' \subseteq Machines
<1>1. prog' = [prog EXCEPT ![m] = Ended(m)]
  BY DEF Stop, StopsAt
<1>2. Ended(m) \in Program
  BY EndedType DEF TypeOK
<1>3. prog \in [Machines -> Program]
  BY DEF TypeOK
<1>4. prog' \in [Machines -> Program]
  BY <1>1, <1>2, <1>3
<1>5. half \subseteq Machines
  BY DEF TypeOK
<1>6. half' \subseteq Machines
  BY <1>5 DEF Stop, StopsAt
<1> QED BY <1>4, <1>6

\* What the chats hold on a machine and in the cloud is a pair of contents for each.
LEMMA ChatsNowType == ASSUME TypeOK, NEW m \in Machines
                      PROVE  ChatsNow(m) \in [Chats -> Contents \X Contents]
  BY DEF TypeOK, ChatsNow, Files

\* One half of a sync.
LEMMA ApplyType ==
  ASSUME TypeOK, NEW m \in Machines, NEW kind \in SUBSET Files, NEW decision,
         Apply(m, kind, decision)
  PROVE  /\ local' \in [Machines -> [Files -> Contents]]
         /\ cloud' \in [Machines -> [Files -> Contents]]
         /\ server' \in [Files -> Contents]
         /\ prog' \in [Machines -> Program]
         /\ over' \in [Files -> [Contents -> SUBSET Contents]]
         /\ touched' \in [Machines -> SUBSET Files]
         /\ crossed' \subseteq Files
<1> DEFINE toLocal == {f \in kind : decision[f] = "to_local"}
           toCloud == {f \in kind : decision[f] = "to_cloud"}
           winner(f) == IF f \in toLocal THEN cloud[m][f] ELSE local[m][f]
           loser(f)  == IF f \in toLocal THEN local[m][f] ELSE cloud[m][f]
<1>1. local[m] \in [Files -> Contents] /\ cloud[m] \in [Files -> Contents]
  BY DEF TypeOK
<1>2. local' \in [Machines -> [Files -> Contents]]
  <2>1. [f \in Files |-> IF f \in toLocal THEN cloud[m][f] ELSE local[m][f]]
          \in [Files -> Contents]
    BY <1>1
  <2> QED BY <2>1 DEF Apply, TypeOK
<1>3. cloud' \in [Machines -> [Files -> Contents]]
  <2>1. [f \in Files |-> IF f \in toCloud THEN local[m][f] ELSE cloud[m][f]]
          \in [Files -> Contents]
    BY <1>1
  <2> QED BY <2>1 DEF Apply, TypeOK
<1>4. server' \in [Files -> Contents]
  BY <1>1 DEF Apply, TypeOK
<1>5. over' \in [Files -> [Contents -> SUBSET Contents]]
  <2>1. ASSUME NEW f \in Files, NEW c \in Contents PROVE Covered(f, c) \subseteq Contents
    BY DEF TypeOK, Covered
  <2>2. \A f \in Files : loser(f) \in Contents
    BY <1>1
  <2>3. over' = [f \in Files |->
          IF f \in toLocal \union toCloud
          THEN [over[f] EXCEPT ![winner(f)] = @ \union Covered(f, loser(f))] ELSE over[f]]
    BY DEF Apply
  <2> HIDE DEF toLocal, toCloud, winner, loser
  <2>4. ASSUME NEW f \in Files
        PROVE  [over[f] EXCEPT ![winner(f)] = @ \union Covered(f, loser(f))]
                  \in [Contents -> SUBSET Contents]
               /\ over[f] \in [Contents -> SUBSET Contents]
    <3>1. over[f] \in [Contents -> SUBSET Contents] /\ Covered(f, loser(f)) \subseteq Contents
      BY <2>1, <2>2 DEF TypeOK
    <3> QED BY <3>1
  <2> QED BY <2>3, <2>4
<1>6. touched' \in [Machines -> SUBSET Files]
  BY DEF Apply, TypeOK
<1>7. prog' \in [Machines -> Program]
  <2>1. prog[m] \in Program
    BY DEF TypeOK
  <2>2. PICK wrote \in SUBSET Files, where \in PCs :
          prog' = [prog EXCEPT ![m] = [[@ EXCEPT !.wrote = wrote] EXCEPT !.pc = where]]
    <3>1. prog[m].wrote \union toCloud \in SUBSET Files
      BY <2>1 DEF Program
    <3>2. (IF kind = Settings THEN "chats" ELSE "record") \in PCs
      BY DEF PCs, Steps
    <3>3. prog' = [prog EXCEPT ![m] =
             [[@ EXCEPT !.wrote = prog[m].wrote \union toCloud]
                 EXCEPT !.pc = IF kind = Settings THEN "chats" ELSE "record"]]
      BY DEF Apply, TypeOK
    <3> QED BY <3>1, <3>2, <3>3
  <2>3. [[prog[m] EXCEPT !.wrote = wrote] EXCEPT !.pc = where] \in Program
    BY <2>1 DEF Program
  <2> QED BY <2>2, <2>3 DEF TypeOK
<1>8. crossed' \subseteq Files
  BY DEF Apply, TypeOK
<1> QED BY <1>2, <1>3, <1>4, <1>5, <1>6, <1>7, <1>8

\* The steps of a run.
LEMMA RunType == ASSUME TypeOK, NEW m \in Machines, Run(m) PROVE TypeOK'
<1>0. prog[m] \in Program
  BY DEF TypeOK
<1>1. CASE Begin(m)
  <2>1. PICK read \in BOOLEAN :
          /\ Reads(m, read)
          /\ LET pending == Pending(m, Own(m, read)) IN
               prog' = [prog EXCEPT ![m].pend = pending,
                                    ![m].pc = IF pending = {} THEN "plan" ELSE "wait"]
    BY <1>1 DEF Begin
  <2> DEFINE pending == Pending(m, Own(m, read))
             where == IF pending = {} THEN "plan" ELSE "wait"
  <2>2. /\ prog' = [prog EXCEPT ![m] = [[@ EXCEPT !.pend = pending] EXCEPT !.pc = where]]
        /\ where \in PCs /\ pending \subseteq [from : Machines, rec : Record]
    BY <2>1, PendingType DEF TypeOK, PCs, Steps
  <2> HIDE DEF pending, where
  <2>3. [[prog[m] EXCEPT !.pend = pending] EXCEPT !.pc = where] \in Program
    BY <1>0, <2>2 DEF Program
  <2>4. prog' \in [Machines -> Program]
    BY <2>2, <2>3 DEF TypeOK
  <2>5. used' \in [Bounds -> Nat]
    BY <2>1, ReadsType
  <2> QED BY <1>1, <2>4, <2>5 DEF Begin, TypeOK, Surroundings
<1>2. CASE Arrived(m)
  BY <1>2, GoType DEF Arrived, Go, TypeOK, Surroundings, PCs, Steps
<1>3. CASE NotDelivered(m)
  <2>1. prog' \in [Machines -> Program] /\ loose' \subseteq Machines
    <3>1. [prog EXCEPT ![m].pc = "plan"] \in [Machines -> Program]
      BY GoType DEF PCs, Steps
    <3>2. [prog EXCEPT ![m] = Ended(m)] \in [Machines -> Program]
      BY EndedType DEF TypeOK
    <3>3. prog' \in [Machines -> Program]
      BY <1>3, <3>1, <3>2 DEF NotDelivered, Go, Quit
    <3>4. loose' \subseteq Machines
      BY <1>3 DEF NotDelivered, TypeOK
    <3> QED BY <3>3, <3>4
  <2> QED BY <1>3, <2>1 DEF NotDelivered, TypeOK
<1>4. CASE Plan(m)
  <2>1. PICK limited \in SUBSET Limitable(m) :
          /\ IF limited = {} THEN UNCHANGED used ELSE Mishap("failure")
          /\ prog' = [prog EXCEPT ![m].chats = ChatsNow(m), ![m].limited = limited,
                                  ![m].pc = "settings"]
    BY <1>4 DEF Plan
  <2>2. [[[prog[m] EXCEPT !.chats = ChatsNow(m)] EXCEPT !.limited = limited]
             EXCEPT !.pc = "settings"] \in Program
    <3>1. limited \in SUBSET Chats
      BY DEF Limitable
    <3>2. [prog[m] EXCEPT !.chats = ChatsNow(m)] \in Program
      BY <1>0, ChatsNowType DEF Program
    <3>3. \A p \in Program : [p EXCEPT !.limited = limited] \in Program
      BY <3>1 DEF Program
    <3>4. \A p \in Program : [p EXCEPT !.pc = "settings"] \in Program
      BY DEF Program, PCs, Steps
    <3> QED BY <3>2, <3>3, <3>4
  <2>3. prog' = [prog EXCEPT ![m] =
            [[[@ EXCEPT !.chats = ChatsNow(m)] EXCEPT !.limited = limited]
                EXCEPT !.pc = "settings"]]
    BY <2>1
  <2>4. prog' \in [Machines -> Program] /\ used' \in [Bounds -> Nat]
    BY <2>1, <2>2, <2>3, MishapType DEF TypeOK, Mishaps
  <2> QED BY <1>4, <2>4 DEF Plan, TypeOK, Surroundings
<1>5. CASE SyncSettings(m)
  <2>1. Apply(m, Settings, [f \in Settings |-> SettingDecision(m, f)])
    BY <1>5 DEF SyncSettings
  <2>2. Settings \in SUBSET Files
    BY DEF Files
  <2>3. /\ local' \in [Machines -> [Files -> Contents]]
        /\ cloud' \in [Machines -> [Files -> Contents]]
        /\ server' \in [Files -> Contents]
        /\ prog' \in [Machines -> Program]
        /\ over' \in [Files -> [Contents -> SUBSET Contents]]
        /\ touched' \in [Machines -> SUBSET Files]
        /\ crossed' \subseteq Files
    BY <2>1, <2>2, ApplyType
  <2>4. base' \in [Machines -> [Settings -> Contents \X Contents]]
    <3>1. [f \in Settings |-> <<local'[m][f], cloud'[m][f]>>]
            \in [Settings -> Contents \X Contents]
      BY <2>2, <2>3
    <3> QED BY <1>5, <3>1 DEF SyncSettings, TypeOK
  <2> QED BY <1>5, <2>3, <2>4 DEF SyncSettings, TypeOK
<1>6. CASE SyncChats(m)
  <2>1. Apply(m, Chats, [f \in Chats |-> ChatDecision(m, f, prog[m].limited)])
    BY <1>6 DEF SyncChats
  <2>2. Chats \in SUBSET Files
    BY DEF Files
  <2>3. /\ local' \in [Machines -> [Files -> Contents]]
        /\ cloud' \in [Machines -> [Files -> Contents]]
        /\ server' \in [Files -> Contents]
        /\ prog' \in [Machines -> Program]
        /\ over' \in [Files -> [Contents -> SUBSET Contents]]
        /\ touched' \in [Machines -> SUBSET Files]
        /\ crossed' \subseteq Files
    BY <2>1, <2>2, ApplyType
  <2>4. left' \in [Machines -> SUBSET Chats] /\ stray' \subseteq Chats
    <3>1. prog[m].limited \subseteq Chats
      BY <1>0 DEF Program
    <3> QED BY <1>6, <3>1 DEF SyncChats, TypeOK
  <2> QED BY <1>6, <2>3, <2>4 DEF SyncChats, TypeOK
<1>7. CASE RecordHandoff(m)
  <2>1. PICK read \in BOOLEAN :
          /\ Writes(m, read)
          /\ board' = [board EXCEPT ![m] = HandedOff(m, Own(m, read), used["handoff"] + 1)]
          /\ used' = [used EXCEPT
               !["handoff"] = IF prog[m].wrote # {} THEN @ + 1 ELSE @,
               !["failure"] = IF read THEN @ ELSE @ + 1]
    BY <1>7 DEF RecordHandoff
  <2>2. prog[m].wrote # {} => used["handoff"] + 1 \in Ids
    BY <1>7, HandoffAssumption
    DEF RecordHandoff, TypeOK, Bounds, Ids, HandoffAssumption
  <2>3. HandedOff(m, Own(m, read), used["handoff"] + 1) \in Record
    BY <2>2, OwnType, HandedOffType
  <2>4. board' \in [Machines -> Record]
    BY <2>1, <2>3 DEF TypeOK
  <2>5. used' \in [Bounds -> Nat]
    BY <2>1 DEF TypeOK, Bounds, Mishaps
  <2>6. forgot' \in [Machines -> Nat]
    BY <2>1, WritesType
  <2> QED BY <1>7, <2>4, <2>5, <2>6, EndedType DEF RecordHandoff, Quit, TypeOK, Surroundings
<1>8. CASE Refused(m)
  BY <1>8, StopType DEF Refused, TypeOK, Surroundings
<1>9. CASE Fail(m)
  <2>1. used' \in [Bounds -> Nat]
    BY <1>9, MishapType DEF Fail, Mishaps
  <2> QED BY <1>9, <2>1, StopType DEF Fail, TypeOK, Surroundings
<1> QED BY <1>1, <1>2, <1>3, <1>4, <1>5, <1>6, <1>7, <1>8, <1>9 DEF Run

\* What the person and Codex do.
LEMMA PersonType == ASSUME TypeOK, NEW m \in Machines, Person(m) PROVE TypeOK'
<1>1. ASSUME NEW accept \in BOOLEAN, ByHand(m, accept) PROVE TypeOK'
  <2>1. prog[m].last \in {"none", "open", "closed"}
    BY DEF TypeOK, Program
  <2>2. [Idle EXCEPT !.last = prog[m].last, !.pc = "begin", !.accept = accept] \in Program
    BY <2>1, IdleType DEF Idle, Program, PCs, Steps
  <2>3. used' \in [Bounds -> Nat]
    BY <1>1, MishapType DEF ByHand, Mishaps, TypeOK
  <2> QED BY <1>1, <2>2, <2>3 DEF ByHand, Attempt, TypeOK, Surroundings
<1>2. CASE OpenCodex(m)
  <2>1. used' \in [Bounds -> Nat]
    <3>1. used \in [Bounds -> Nat] /\ "open" \in Bounds /\ "breach" \in Bounds
      BY DEF TypeOK, Bounds, Mishaps
    <3> DEFINE opened == [used EXCEPT !["open"] = @ + 1]
    <3>2. opened \in [Bounds -> Nat]
      BY <3>1
    <3>3. used' = [opened EXCEPT !["breach"] = IF MyTurn(m) THEN @ ELSE @ + 1]
      BY <1>2 DEF OpenCodex
    <3>4. (IF MyTurn(m) THEN opened["breach"] ELSE opened["breach"] + 1) \in Nat
      BY <3>1, <3>2
    <3> HIDE DEF opened
    <3> QED BY <3>2, <3>3, <3>4
  <2> QED BY <1>2, <2>1 DEF OpenCodex, TypeOK, Surroundings
<1>3. CASE CloseCodex(m)
  <2>1. used' \in [Bounds -> Nat]
    BY <1>3, MishapType DEF CloseCodex, Mishaps, TypeOK
  <2> QED BY <1>3, <2>1 DEF CloseCodex, TypeOK, Surroundings
<1>4. ASSUME NEW f \in Files, Work(m, f) PROVE TypeOK'
  <2> DEFINE new == used["write"] + 1
  <2>1. new \in Contents /\ used' \in [Bounds -> Nat]
    BY <1>4, HandoffAssumption
    DEF Work, Spend, TypeOK, Bounds, Contents, HandoffAssumption
  <2>2. local[m][f] \in Contents
    BY DEF TypeOK
  <2>3. local' \in [Machines -> [Files -> Contents]]
    BY <1>4, <2>1 DEF Work, TypeOK
  <2>4. past' \in [Contents -> SUBSET Contents]
    BY <1>4, <2>1, <2>2 DEF Work, TypeOK
  <2>5. over' \in [Files -> [Contents -> SUBSET Contents]]
    <3>1. over[f] \in [Contents -> SUBSET Contents] /\ over[f][local[m][f]] \subseteq Contents
      BY <2>2 DEF TypeOK
    <3> QED BY <1>4, <3>1 DEF Work, TypeOK
  <2>6. touched' \in [Machines -> SUBSET Files]
    BY <1>4 DEF Work, TypeOK
  <2> QED BY <1>4, <2>1, <2>3, <2>4, <2>5, <2>6 DEF Work, TypeOK
<1> QED BY <1>1, <1>2, <1>3, <1>4 DEF Person

\* What the cloud brings.
LEMMA DeliverType == ASSUME TypeOK, Deliver PROVE TypeOK'
<1>1. ASSUME NEW m \in Machines, NEW f \in Files, DeliverFile(m, f) PROVE TypeOK'
  BY <1>1 DEF DeliverFile, TypeOK
<1>2. ASSUME NEW m \in Machines, NEW o \in Machines, DeliverBoard(m, o) PROVE TypeOK'
  BY <1>2 DEF DeliverBoard, TypeOK
<1>3. ASSUME NEW m \in Machines, NEW o \in Machines, DeliverPart(m, o) PROVE TypeOK'
  <2>1. used' \in [Bounds -> Nat]
    BY <1>3, MishapType DEF DeliverPart, Mishaps
  <2> QED BY <1>3, <2>1 DEF DeliverPart, TypeOK
<1> QED BY <1>1, <1>2, <1>3 DEF Deliver

\* A crash keeps the types.
LEMMA CrashType == ASSUME TypeOK, NEW m \in Machines, Crash(m) PROVE TypeOK'
<1>1. used' \in [Bounds -> Nat]
  BY MishapType DEF Crash, Mishaps
<1> QED BY <1>1, IdleType DEF Crash, TypeOK, Surroundings

\* Every step keeps the types.
LEMMA TypeStep == TypeOK /\ [Next]_vars => TypeOK'
<1> SUFFICES ASSUME TypeOK, [Next]_vars PROVE TypeOK'
  OBVIOUS
<1>1. CASE UNCHANGED vars
  BY <1>1 DEF vars, TypeOK
<1>2. CASE Next
  BY <1>2, WatchType, RunType, PersonType, CrashType, DeliverType DEF Next
<1> QED BY <1>1, <1>2

\* Every variable keeps its type, for every machine set and every bound.
THEOREM TypeInvariant == Spec => []TypeOK
  BY InitType, TypeStep, PTL DEF Spec

-----------------------------------------------------------------------------
(***************************************************************************)
(* No record forgets as long as it is read.  The ids of handoffs grow, and *)
(* of two copies of a board the newer one has the larger id, where neither *)
(* is of a record written anew (id 0); so along the way                    *)
(* accepted id <= id of the run's copy <= id of the copy here <= id now    *)
(* a machine can only replace an id it took by a later one.                *)
(***************************************************************************)
Spent ==
    /\ \A m \in Machines : board[m].id <= used["handoff"]
    /\ \A m, o \in Machines : board[m].accepted[o] <= used["handoff"]
    /\ \A m, o \in Machines : seen[m][o] # None => seen[m][o].id <= used["handoff"]
    /\ \A m \in Machines : \A r \in prog[m].pend : r.rec.id <= used["handoff"]
CopyIsOld ==
    \A m, o \in Machines : seen[m][o] # None /\ seen[m][o].id # 0 =>
        /\ board[m].accepted[o] <= seen[m][o].id
        /\ board[o].id # 0 => seen[m][o].id <= board[o].id
TakenIsOld ==
    \A m, o \in Machines : board[o].id # 0 => board[m].accepted[o] <= board[o].id
RunIsBetween ==
    \A m \in Machines : \A r \in prog[m].pend :
        /\ r.rec.id # 0 /\ board[m].accepted[r.from] <= r.rec.id
        /\ board[r.from].id # 0 => r.rec.id <= board[r.from].id
        /\ seen[m][r.from] # None /\ seen[m][r.from].id # 0 =>
              r.rec.id <= seen[m][r.from].id
Order == TypeOK /\ Spent /\ CopyIsOld /\ TakenIsOld /\ RunIsBetween

\* Ids are numbers.
LEMMA IdsAreNumbers ==
  ASSUME TypeOK
  PROVE  /\ \A m \in Machines : board[m].id \in Nat
         /\ \A m, o \in Machines : board[m].accepted[o] \in Nat
         /\ \A m, o \in Machines : seen[m][o] # None => seen[m][o].id \in Nat
         /\ \A m \in Machines : \A r \in prog[m].pend :
                r.from \in Machines /\ r.rec.id \in Nat
         /\ used["handoff"] \in Nat
<1>1. Ids \subseteq Nat
  BY HandoffAssumption DEF Ids, HandoffAssumption
<1>2. \A m \in Machines : board[m] \in Record
  BY DEF TypeOK
<1>3. \A m, o \in Machines : seen[m][o] # None => seen[m][o] \in Record
  BY DEF TypeOK
<1>4. \A m \in Machines : \A r \in prog[m].pend : r.from \in Machines /\ r.rec \in Record
  BY DEF TypeOK, Program
<1>5. \A rec \in Record : rec.id \in Nat /\ \A o \in Machines : rec.accepted[o] \in Nat
  BY <1>1 DEF Record
<1>6. used["handoff"] \in Nat
  BY DEF TypeOK, Bounds
<1> QED BY <1>2, <1>3, <1>4, <1>5, <1>6

\* The numbers of handoffs remain numbers.
LEMMA NewIdsAreNumbers ==
  ASSUME TypeOK'
  PROVE  /\ \A m \in Machines : board'[m].id \in Nat
         /\ \A m, o \in Machines : board'[m].accepted[o] \in Nat
         /\ used'["handoff"] \in Nat
<1>1. Ids \subseteq Nat
  BY HandoffAssumption DEF Ids, HandoffAssumption
<1>2. \A m \in Machines : board'[m] \in Record
  BY DEF TypeOK
<1>3. \A rec \in Record : rec.id \in Nat /\ \A o \in Machines : rec.accepted[o] \in Nat
  BY <1>1 DEF Record
<1>4. used'["handoff"] \in Nat
  BY DEF TypeOK, Bounds
<1> QED BY <1>2, <1>3, <1>4

\* The order of handoffs holds at first.
LEMMA InitOrder == Init => Order
<1> SUFFICES ASSUME Init PROVE Order
  OBVIOUS
<1>1. Blank.id = 0 /\ \A o \in Machines : Blank.accepted[o] = 0
  BY DEF Blank
<1>2. used["handoff"] = 0 /\ \A m \in Machines : prog[m].pend = {}
  BY DEF Init, Idle, Bounds
<1>3. \A m \in Machines : board[m] = Blank /\ \A o \in Machines : seen[m][o] = Blank
  BY DEF Init
<1>4. Spent /\ CopyIsOld /\ TakenIsOld /\ RunIsBetween
  BY <1>1, <1>2, <1>3 DEF Spent, CopyIsOld, TakenIsOld, RunIsBetween
<1> QED BY <1>4, InitType DEF Order

\* A step that leaves boards alone and forgets, or keeps, what a run took.
LEMMA Bystander ==
  ASSUME Order, TypeOK', UNCHANGED <<board, seen>>, used'["handoff"] = used["handoff"],
         \A m \in Machines : prog'[m].pend \subseteq prog[m].pend
  PROVE  Order'
  BY DEF Order, Spent, CopyIsOld, TakenIsOld, RunIsBetween

\* A machine writes its record: its id stays, is lost or is new, and what it took stays,
\* is lost or is what its run had of the other.
Rewrites(m) ==
    /\ \A o \in Machines \ {m} : board'[o] = board[o]
    /\ \/ board'[m].id \in {0, board[m].id} /\ used'["handoff"] >= used["handoff"]
       \/ board'[m].id = used["handoff"] + 1 /\ used'["handoff"] = used["handoff"] + 1
    /\ \A o \in Machines : \/ board'[m].accepted[o] \in {0, board[m].accepted[o]}
                           \/ \E r \in prog[m].pend :
                                  r.from = o /\ board'[m].accepted[o] = r.rec.id

\* That keeps the order.
LEMMA RewriteOrder ==
  ASSUME Order, TypeOK', NEW m \in Machines, Rewrites(m), UNCHANGED seen,
         \A x \in Machines \ {m} : prog'[x].pend \subseteq prog[x].pend, prog'[m].pend = {}
  PROVE  Order'
<1>1. /\ \A x \in Machines : /\ board[x].id \in Nat /\ board'[x].id \in Nat
                             /\ board[x].id <= used["handoff"]
      /\ used["handoff"] \in Nat /\ used'["handoff"] \in Nat
      /\ used["handoff"] <= used'["handoff"]
  BY IdsAreNumbers, NewIdsAreNumbers DEF Order, Spent, Rewrites
<1>2. \A x \in Machines : board'[x].id \in {0, board[x].id} \/ board'[x].id > used["handoff"]
  BY <1>1 DEF Rewrites
<1>3. \A x, o \in Machines :
        /\ board'[x].accepted[o] \in Nat /\ board'[x].accepted[o] <= used["handoff"]
        /\ board'[o].id # 0 => board'[x].accepted[o] <= board'[o].id
        /\ seen[x][o] # None /\ seen[x][o].id # 0 => board'[x].accepted[o] <= seen[x][o].id
  <2> SUFFICES ASSUME NEW x \in Machines, NEW o \in Machines
               PROVE  /\ board'[x].accepted[o] <= used["handoff"]
                      /\ board'[o].id # 0 => board'[x].accepted[o] <= board'[o].id
                      /\ seen[x][o] # None /\ seen[x][o].id # 0 =>
                            board'[x].accepted[o] <= seen[x][o].id
    BY NewIdsAreNumbers
  <2>1. seen[x][o] # None => seen[x][o].id \in Nat
    BY IdsAreNumbers DEF Order
  <2>2. ASSUME NEW i \in Nat, i <= used["handoff"], board[o].id # 0 => i <= board[o].id
        PROVE  board'[o].id # 0 => i <= board'[o].id
    BY <1>1, <1>2, <2>2
  <2>3. CASE board'[x].accepted[o] = board[x].accepted[o]
    <3>1. /\ board[x].accepted[o] \in Nat /\ board[x].accepted[o] <= used["handoff"]
          /\ board[o].id # 0 => board[x].accepted[o] <= board[o].id
          /\ seen[x][o] # None /\ seen[x][o].id # 0 => board[x].accepted[o] <= seen[x][o].id
      BY IdsAreNumbers DEF Order, Spent, TakenIsOld, CopyIsOld
    <3> QED BY <2>2, <2>3, <3>1
  <2>4. CASE board'[x].accepted[o] = 0
    BY <1>1, <2>1, <2>4
  <2>5. ASSUME x = m, NEW r \in prog[m].pend, r.from = o, board'[m].accepted[o] = r.rec.id
        PROVE  /\ board'[x].accepted[o] <= used["handoff"]
               /\ board'[o].id # 0 => board'[x].accepted[o] <= board'[o].id
               /\ seen[x][o] # None /\ seen[x][o].id # 0 =>
                     board'[x].accepted[o] <= seen[x][o].id
    <3>1. /\ r.rec.id \in Nat /\ r.rec.id <= used["handoff"]
          /\ board[o].id # 0 => r.rec.id <= board[o].id
          /\ seen[m][o] # None /\ seen[m][o].id # 0 => r.rec.id <= seen[m][o].id
      BY <2>5, IdsAreNumbers DEF Order, Spent, RunIsBetween
    <3> QED BY <2>2, <2>5, <3>1
  <2> QED BY <2>3, <2>4, <2>5 DEF Rewrites
<1>4. \A x, o \in Machines : seen[x][o] # None =>
        /\ seen[x][o].id \in Nat /\ seen[x][o].id <= used["handoff"]
        /\ seen[x][o].id # 0 /\ board'[o].id # 0 => seen[x][o].id <= board'[o].id
  <2> SUFFICES ASSUME NEW x \in Machines, NEW o \in Machines, seen[x][o] # None
               PROVE  /\ seen[x][o].id \in Nat /\ seen[x][o].id <= used["handoff"]
                      /\ seen[x][o].id # 0 /\ board'[o].id # 0 => seen[x][o].id <= board'[o].id
    OBVIOUS
  <2>1. /\ seen[x][o].id \in Nat /\ seen[x][o].id <= used["handoff"]
        /\ seen[x][o].id # 0 /\ board[o].id # 0 => seen[x][o].id <= board[o].id
    BY IdsAreNumbers DEF Order, Spent, CopyIsOld
  <2> QED BY <1>1, <1>2, <2>1
<1>5. \A x \in Machines : \A r \in prog'[x].pend :
        /\ x # m /\ r \in prog[x].pend /\ r.from \in Machines
        /\ r.rec.id \in Nat /\ r.rec.id <= used["handoff"]
        /\ board'[r.from].id # 0 => r.rec.id <= board'[r.from].id
  <2> SUFFICES ASSUME NEW x \in Machines \ {m}, NEW r \in prog[x].pend
               PROVE  /\ r.from \in Machines /\ r.rec.id \in Nat /\ r.rec.id <= used["handoff"]
                      /\ board'[r.from].id # 0 => r.rec.id <= board'[r.from].id
    OBVIOUS
  <2>1. /\ r.from \in Machines /\ r.rec.id \in Nat /\ r.rec.id <= used["handoff"]
        /\ board[r.from].id # 0 => r.rec.id <= board[r.from].id
    BY IdsAreNumbers DEF Order, Spent, RunIsBetween
  <2> QED BY <1>1, <1>2, <2>1
<1>6. Spent'
  <2>1. \A x \in Machines : board'[x].id <= used'["handoff"]
    <3>1. \A x \in Machines \ {m} : board'[x].id <= used'["handoff"]
      BY <1>1 DEF Rewrites
    <3>2. board'[m].id <= used'["handoff"]
      BY <1>1 DEF Rewrites
    <3> QED BY <3>1, <3>2
  <2>2. \A x, o \in Machines : /\ board'[x].accepted[o] <= used'["handoff"]
                               /\ seen[x][o] # None => seen[x][o].id <= used'["handoff"]
    BY <1>1, <1>3, <1>4
  <2>3. \A x \in Machines : \A r \in prog'[x].pend : r.rec.id <= used'["handoff"]
    BY <1>1, <1>5
  <2> QED BY <2>1, <2>2, <2>3 DEF Spent
<1>7. CopyIsOld' /\ TakenIsOld'
  BY <1>3, <1>4 DEF CopyIsOld, TakenIsOld
<1>8. RunIsBetween'
  <2> SUFFICES ASSUME NEW x \in Machines, NEW r \in prog'[x].pend
               PROVE  /\ r.rec.id # 0 /\ board'[x].accepted[r.from] <= r.rec.id
                      /\ board'[r.from].id # 0 => r.rec.id <= board'[r.from].id
                      /\ seen[x][r.from] # None /\ seen[x][r.from].id # 0 =>
                            r.rec.id <= seen[x][r.from].id
    BY DEF RunIsBetween
  <2>1. x # m /\ r \in prog[x].pend /\ board'[x] = board[x]
    BY <1>5 DEF Rewrites
  <2> QED BY <1>5, <2>1 DEF Order, RunIsBetween
<1> QED BY <1>6, <1>7, <1>8 DEF Order

\* mark_working keeps what its record says, if it could read it.
LEMMA Marked ==
  ASSUME Order, NEW m \in Machines, NEW read \in BOOLEAN, Reads(m, read),
         board' = [board EXCEPT ![m] = Working(Own(m, read))]
  PROVE  /\ Rewrites(m)
         /\ read => board'[m].id = board[m].id /\ board'[m].accepted = board[m].accepted
<1>1. board \in [Machines -> Record] /\ used \in [Bounds -> Nat]
  BY DEF Order, TypeOK
<1>2. Own(m, read) \in Record
  BY OwnType DEF Order
<1>3. board'[m] = Working(Own(m, read)) /\ \A o \in Machines \ {m} : board'[o] = board[o]
  BY <1>1
<1>4. board'[m].id = Own(m, read).id /\ board'[m].accepted = Own(m, read).accepted
  BY <1>2, <1>3 DEF Working, Record
<1>5. used'["handoff"] = used["handoff"] /\ used["handoff"] \in Nat
  BY <1>1 DEF Reads, Mishap, Bounds, Mishaps
<1>6. CASE read
  BY <1>3, <1>4, <1>5, <1>6 DEF Rewrites, Own
<1>7. CASE ~read
  BY <1>3, <1>4, <1>5, <1>7 DEF Rewrites, Own, Blank
<1> QED BY <1>6, <1>7

\* So does record_handoff, where the run did not take a later handoff or make its own.
LEMMA Recorded ==
  ASSUME Order, NEW m \in Machines, RecordHandoff(m)
  PROVE  /\ Rewrites(m)
         /\ forgot'[m] = forgot[m] =>
               /\ board'[m].id \in {board[m].id, used["handoff"] + 1}
               /\ \A o \in Machines :
                     \/ board'[m].accepted[o] = board[m].accepted[o]
                     \/ \E r \in prog[m].pend :
                            r.from = o /\ board'[m].accepted[o] = r.rec.id
<1>1. board \in [Machines -> Record] /\ used \in [Bounds -> Nat] /\ forgot \in [Machines -> Nat]
      /\ "handoff" \in Bounds /\ "failure" # "handoff"
  BY DEF Order, TypeOK, Bounds
<1>2. PICK read \in BOOLEAN :
        /\ Writes(m, read)
        /\ board' = [board EXCEPT ![m] = HandedOff(m, Own(m, read), used["handoff"] + 1)]
        /\ used' = [used EXCEPT !["handoff"] = IF prog[m].wrote # {} THEN @ + 1 ELSE @,
                                !["failure"] = IF read THEN @ ELSE @ + 1]
  BY DEF RecordHandoff
<1>3. board'[m] = HandedOff(m, Own(m, read), used["handoff"] + 1)
      /\ \A o \in Machines \ {m} : board'[o] = board[o]
  BY <1>1, <1>2
<1>4. used'["handoff"] = (IF prog[m].wrote # {} THEN used["handoff"] + 1 ELSE used["handoff"])
      /\ used["handoff"] \in Nat
  BY <1>1, <1>2
<1>5. board'[m].id = IF prog[m].wrote # {} THEN used["handoff"] + 1 ELSE Own(m, read).id
  BY <1>3 DEF HandedOff
<1>6. ASSUME NEW o \in Machines
      PROVE  \/ board'[m].accepted[o] = Own(m, read).accepted[o]
             \/ \E r \in prog[m].pend : r.from = o /\ board'[m].accepted[o] = r.rec.id
  <2>1. board'[m].accepted[o] = IF Taken(m, o) = {} THEN Own(m, read).accepted[o]
                                ELSE CHOOSE i \in Taken(m, o) : TRUE
    BY <1>3 DEF HandedOff
  <2>2. Taken(m, o) # {} => (CHOOSE i \in Taken(m, o) : TRUE) \in Taken(m, o)
    OBVIOUS
  <2>3. \A i \in Taken(m, o) : \E r \in prog[m].pend : r.from = o /\ i = r.rec.id
    BY DEF Taken
  <2> QED BY <2>1, <2>2, <2>3
<1>7. /\ Own(m, read).id \in {0, board[m].id}
      /\ \A o \in Machines : Own(m, read).accepted[o] \in {0, board[m].accepted[o]}
      /\ read => Own(m, read) = board[m]
  BY DEF Own, Blank
<1>8. read \/ forgot'[m] # forgot[m]
  BY <1>1, <1>2 DEF Writes
<1>9. Rewrites(m)
  <2>1. \/ board'[m].id \in {0, board[m].id} /\ used'["handoff"] >= used["handoff"]
        \/ board'[m].id = used["handoff"] + 1 /\ used'["handoff"] = used["handoff"] + 1
    BY <1>4, <1>5, <1>7
  <2>2. \A o \in Machines : \/ board'[m].accepted[o] \in {0, board[m].accepted[o]}
                            \/ \E r \in prog[m].pend :
                                  r.from = o /\ board'[m].accepted[o] = r.rec.id
    BY <1>6, <1>7
  <2> QED BY <1>3, <2>1, <2>2 DEF Rewrites
<1>10. read => /\ board'[m].id \in {board[m].id, used["handoff"] + 1}
               /\ \A o \in Machines :
                     \/ board'[m].accepted[o] = board[m].accepted[o]
                     \/ \E r \in prog[m].pend :
                            r.from = o /\ board'[m].accepted[o] = r.rec.id
  <2> SUFFICES ASSUME read PROVE /\ board'[m].id \in {board[m].id, used["handoff"] + 1}
                                 /\ \A o \in Machines :
                                       \/ board'[m].accepted[o] = board[m].accepted[o]
                                       \/ \E r \in prog[m].pend :
                                              r.from = o /\ board'[m].accepted[o] = r.rec.id
    OBVIOUS
  <2>1. Own(m, read) = board[m]
    BY <1>7
  <2>2. board'[m].id \in {board[m].id, used["handoff"] + 1}
    BY <1>5, <2>1
  <2> QED BY <1>6, <2>1, <2>2
<1> QED BY <1>8, <1>9, <1>10

\* A board that arrives is newer than what is here and what a run has of it.
LEMMA DeliverOrder ==
  ASSUME Order, TypeOK', NEW m \in Machines, NEW o \in Machines,
         DeliverBoard(m, o) \/ DeliverPart(m, o)
  PROVE  Order'
<1>1. UNCHANGED <<board, prog>> /\ used'["handoff"] = used["handoff"]
  BY DEF DeliverBoard, DeliverPart, Mishap, Order, TypeOK, Bounds, Mishaps
<1>2. \A x, y \in Machines :
        seen'[x][y] = seen[x][y] \/ seen'[x][y] = None \/ seen'[x][y] = board[y]
  <2>1. seen \in [Machines -> [Machines -> Record \union {None}]]
    BY DEF Order, TypeOK
  <2>2. seen' = [seen EXCEPT ![m][o] = board[o]] \/ seen' = [seen EXCEPT ![m][o] = None]
    BY DEF DeliverBoard, DeliverPart
  <2> QED BY <2>1, <2>2
<1>3. CopyIsOld'
  <2> SUFFICES ASSUME NEW x \in Machines, NEW y \in Machines, seen'[x][y] # None,
                      seen'[x][y].id # 0
               PROVE  /\ board[x].accepted[y] <= seen'[x][y].id
                      /\ board[y].id # 0 => seen'[x][y].id <= board[y].id
    BY <1>1 DEF CopyIsOld
  <2>1. CASE seen'[x][y] = seen[x][y]
    BY <2>1 DEF Order, CopyIsOld
  <2>2. CASE seen'[x][y] = board[y]
    BY <2>2, IdsAreNumbers DEF Order, TakenIsOld
  <2> QED BY <1>2, <2>1, <2>2
<1>4. RunIsBetween'
  <2> SUFFICES ASSUME NEW x \in Machines, NEW r \in prog[x].pend
               PROVE  /\ r.rec.id # 0 /\ board[x].accepted[r.from] <= r.rec.id
                      /\ board[r.from].id # 0 => r.rec.id <= board[r.from].id
                      /\ seen'[x][r.from] # None /\ seen'[x][r.from].id # 0 =>
                            r.rec.id <= seen'[x][r.from].id
    BY <1>1 DEF RunIsBetween
  <2>1. r.from \in Machines
    BY IdsAreNumbers DEF Order
  <2>2. /\ r.rec.id # 0 /\ board[x].accepted[r.from] <= r.rec.id
        /\ board[r.from].id # 0 => r.rec.id <= board[r.from].id
        /\ seen[x][r.from] # None /\ seen[x][r.from].id # 0 =>
              r.rec.id <= seen[x][r.from].id
    BY DEF Order, RunIsBetween
  <2> QED BY <1>2, <2>1, <2>2
<1>5. Spent'
  BY <1>1, <1>2 DEF Order, Spent
<1> QED BY <1>1, <1>3, <1>4, <1>5 DEF Order, TakenIsOld

\* What a run does as it begins.
Begins(m, own) ==
    /\ \A n \in Machines \ {m} : prog'[n] = prog[n]
    /\ prog'[m].pend = Pending(m, own)
    /\ prog'[m].pc = (IF Pending(m, own) = {} THEN "plan" ELSE "wait")
    /\ prog[m].pc = "begin"
    /\ UNCHANGED <<prog[m].wrote, prog[m].accept>>
    /\ \A bound \in Bounds \ {"failure"} : used'[bound] = used[bound]

\* It takes the boards as they are here, by its own record as far as it could be read.
LEMMA BeginFacts ==
  ASSUME TypeOK, NEW m \in Machines, Begin(m)
  PROVE  /\ \E own : Begins(m, own)
         /\ \A own : \A r \in Pending(m, own) :
               /\ r.from \in Machines /\ seen[m][r.from] # None
               /\ r.rec = seen[m][r.from] /\ r.rec.id # 0
<1>1. prog \in [Machines -> Program] /\ prog[m] \in Program /\ used \in [Bounds -> Nat]
  BY DEF TypeOK
<1>2. PICK read \in BOOLEAN :
        /\ Reads(m, read)
        /\ LET pending == Pending(m, Own(m, read)) IN
             prog' = [prog EXCEPT ![m].pend = pending,
                                  ![m].pc = IF pending = {} THEN "plan" ELSE "wait"]
  BY DEF Begin
<1> DEFINE own == Own(m, read)
           pending == Pending(m, own)
           where == IF pending = {} THEN "plan" ELSE "wait"
<1>3. prog' = [prog EXCEPT ![m].pend = pending, ![m].pc = where]
  BY <1>2
<1>4. \A bound \in Bounds \ {"failure"} : used'[bound] = used[bound]
  BY <1>1, <1>2 DEF Reads, Mishap
<1> HIDE DEF pending, where
<1>5. /\ \A n \in Machines \ {m} : prog'[n] = prog[n]
      /\ prog'[m].pend = pending /\ prog'[m].pc = where
      /\ UNCHANGED <<prog[m].wrote, prog[m].accept>>
  BY <1>1, <1>3 DEF Program
<1>6. Begins(m, own)
  BY <1>4, <1>5 DEF Begins, Begin, At, pending, where
<1>7. \A x : \A r \in Pending(m, x) :
         /\ r.from \in Machines /\ seen[m][r.from] # None
         /\ r.rec = seen[m][r.from] /\ r.rec.id # 0
  BY DEF Pending, Others
<1> QED BY <1>6, <1>7

\* That keeps the order.
LEMMA BeginOrder ==
  ASSUME Order, TypeOK', NEW m \in Machines, Begin(m)
  PROVE  Order'
<1>1. UNCHANGED <<board, seen>>
  BY DEF Begin, Surroundings
<1>2. PICK own : Begins(m, own)
  BY BeginFacts DEF Order
<1>3. used'["handoff"] = used["handoff"]
  BY <1>2 DEF Begins, Bounds
<1>4. \A r \in Pending(m, own) :
        /\ r.from \in Machines /\ seen[m][r.from] # None
        /\ r.rec = seen[m][r.from] /\ r.rec.id # 0
  BY BeginFacts DEF Order
<1>5. \A r \in Pending(m, own) :
        /\ r.rec.id # 0 /\ board[m].accepted[r.from] <= r.rec.id
        /\ board[r.from].id # 0 => r.rec.id <= board[r.from].id
        /\ r.rec.id <= seen[m][r.from].id /\ r.rec.id <= used["handoff"]
  BY <1>4, IdsAreNumbers DEF Order, CopyIsOld, Spent
<1>6. Spent' /\ RunIsBetween'
  <2> SUFFICES ASSUME NEW x \in Machines, NEW r \in prog'[x].pend
               PROVE  /\ r.rec.id # 0 /\ board[x].accepted[r.from] <= r.rec.id
                      /\ board[r.from].id # 0 => r.rec.id <= board[r.from].id
                      /\ seen[x][r.from] # None /\ seen[x][r.from].id # 0 =>
                            r.rec.id <= seen[x][r.from].id
                      /\ r.rec.id <= used["handoff"]
    BY <1>1, <1>3 DEF Order, Spent, RunIsBetween
  <2>1. CASE x = m
    BY <1>2, <1>5, <2>1 DEF Begins
  <2>2. CASE x # m
    BY <1>2, <2>2 DEF Order, Spent, RunIsBetween, Begins
  <2> QED BY <2>1, <2>2
<1> QED BY <1>1, <1>6 DEF Order, CopyIsOld, TakenIsOld

\* A step of the watcher keeps the order.
LEMMA WatchOrder == ASSUME Order, TypeOK', NEW m \in Machines, Watch(m) PROVE Order'
<1>0. prog \in [Machines -> Program] /\ Idle.pend = {}
  BY DEF Order, TypeOK, Idle
<1>1. ASSUME CodexStarted(m), UNCHANGED seen PROVE Order'
  <2>1. PICK read \in BOOLEAN :
          Reads(m, read) /\ board' = [board EXCEPT ![m] = Working(Own(m, read))]
    BY <1>1 DEF CodexStarted
  <2>2. Rewrites(m)
    BY <2>1, Marked
  <2>3. prog'[m].pend = {} /\ \A x \in Machines \ {m} : prog'[x] = prog[x]
    BY <1>0, <1>1 DEF CodexStarted, Idle
  <2> QED BY <1>1, <2>2, <2>3, RewriteOrder
<1>2. ASSUME NEW last, Attempt(m, last, FALSE), UNCHANGED <<seen, used>> PROVE Order'
  BY <1>0, <1>2, Bystander DEF Attempt, Idle
<1>3. CASE StartWatch(m)
  BY <1>1, <1>2, <1>3 DEF StartWatch, Surroundings
<1>4. CASE PollOpened(m)
  BY <1>1, <1>4 DEF PollOpened, Surroundings
<1>5. CASE PollClosed(m)
  BY <1>2, <1>5 DEF PollClosed, Surroundings
<1>6. CASE StartUnsure(m) \/ MarkFails(m)
  <2>1. used'["handoff"] = used["handoff"]
    BY <1>6 DEF StartUnsure, MarkFails, Mishap, Order, TypeOK, Bounds, Mishaps
  <2>2. \A x \in Machines : prog'[x].pend \subseteq prog[x].pend
    BY <1>0, <1>6 DEF StartUnsure, MarkFails, Idle
  <2>3. UNCHANGED <<board, seen>>
    BY <1>6 DEF StartUnsure, MarkFails, Surroundings
  <2> QED BY <2>1, <2>2, <2>3, Bystander
<1> QED BY <1>3, <1>4, <1>5, <1>6 DEF Watch

\* A step of a run keeps the order.
LEMMA RunOrder == ASSUME Order, TypeOK', NEW m \in Machines, Run(m) PROVE Order'
<1>0. prog \in [Machines -> Program] /\ prog[m] \in Program /\ Idle.pend = {}
  BY DEF Order, TypeOK, Idle
<1>1. Ended(m).pend = {}
  BY DEF Ended, Idle
<1>2. ASSUME Stop(m) PROVE \A x \in Machines : prog'[x].pend \subseteq prog[x].pend
  BY <1>0, <1>1, <1>2 DEF Stop, StopsAt
<1>3. ASSUME NEW kind, NEW decision, Apply(m, kind, decision)
      PROVE  \A x \in Machines : prog'[x].pend \subseteq prog[x].pend
  BY <1>0, <1>3 DEF Apply, Program
<1>4. CASE Begin(m)
  BY <1>4, BeginOrder
<1>5. CASE RecordHandoff(m)
  <2>1. prog'[m].pend = {} /\ \A x \in Machines \ {m} : prog'[x] = prog[x]
    BY <1>0, <1>1, <1>5 DEF RecordHandoff, Quit
  <2>2. UNCHANGED seen
    BY <1>5 DEF RecordHandoff, Surroundings
  <2> QED BY <1>5, <2>1, <2>2, Recorded, RewriteOrder
<1>6. CASE Arrived(m) \/ NotDelivered(m) \/ Plan(m)
  <2>1. \A x \in Machines : prog'[x].pend \subseteq prog[x].pend
    <3>1. CASE Arrived(m)
      BY <3>1, <1>0 DEF Arrived, Go, Program
    <3>2. CASE NotDelivered(m)
      <4>1. prog' = [prog EXCEPT ![m].pc = "plan"] \/ prog' = [prog EXCEPT ![m] = Ended(m)]
        BY <3>2 DEF NotDelivered, Go, Quit
      <4>2. CASE prog' = [prog EXCEPT ![m].pc = "plan"]
        BY <4>2, <1>0 DEF Program
      <4>3. CASE prog' = [prog EXCEPT ![m] = Ended(m)]
        BY <4>3, <1>0, <1>1
      <4> QED BY <4>1, <4>2, <4>3
    <3>3. CASE Plan(m)
      BY <3>3, <1>0 DEF Plan, Program
    <3> QED BY <1>6, <3>1, <3>2, <3>3
  <2>2. UNCHANGED <<board, seen>> /\ (UNCHANGED used \/ Mishap("failure"))
    BY <1>6 DEF Arrived, NotDelivered, Plan, Surroundings
  <2>3. used'["handoff"] = used["handoff"]
    BY <2>2 DEF Mishap, Order, TypeOK, Bounds, Mishaps
  <2> QED BY <2>1, <2>2, <2>3, Bystander
<1>7. CASE SyncSettings(m) \/ SyncChats(m)
  <2>1. UNCHANGED <<board, seen, used>>
    BY <1>7 DEF SyncSettings, SyncChats
  <2> QED BY <1>3, <1>7, <2>1, Bystander DEF SyncSettings, SyncChats
<1>8. CASE Refused(m) \/ Fail(m)
  <2>1. UNCHANGED <<board, seen>> /\ used'["handoff"] = used["handoff"]
    BY <1>8 DEF Refused, Fail, Surroundings, Mishap, Order, TypeOK, Bounds, Mishaps
  <2> QED BY <1>2, <1>8, <2>1, Bystander DEF Refused, Fail
<1> QED BY <1>4, <1>5, <1>6, <1>7, <1>8 DEF Run

\* What a person does keeps the order.
LEMMA PersonOrder == ASSUME Order, TypeOK', NEW m \in Machines, Person(m) PROVE Order'
<1>0. prog \in [Machines -> Program] /\ used \in [Bounds -> Nat]
      /\ "handoff" \in Bounds /\ Idle.pend = {}
  BY DEF Order, TypeOK, Idle, Bounds
<1>1. ASSUME NEW accept, ByHand(m, accept) PROVE Order'
  <2>1. used'["handoff"] = used["handoff"] /\ UNCHANGED <<board, seen>>
    BY <1>0, <1>1 DEF ByHand, Attempt, Mishap, Surroundings
  <2>2. \A x \in Machines : prog'[x].pend \subseteq prog[x].pend
    BY <1>0, <1>1 DEF ByHand, Attempt, Idle
  <2> QED BY <2>1, <2>2, Bystander
<1>2. CASE OpenCodex(m)
  <2>1. used'["handoff"] = used["handoff"]
    BY <1>0, <1>2 DEF OpenCodex
  <2> QED BY <1>2, <2>1, Bystander DEF OpenCodex, Surroundings
<1>3. CASE CloseCodex(m)
  <2>1. used'["handoff"] = used["handoff"]
    BY <1>0, <1>3 DEF CloseCodex, Mishap
  <2> QED BY <1>3, <2>1, Bystander DEF CloseCodex, Surroundings
<1>4. ASSUME NEW f \in Files, Work(m, f) PROVE Order'
  <2>1. used'["handoff"] = used["handoff"]
    BY <1>0, <1>4 DEF Work, Spend
  <2> QED BY <1>4, <2>1, Bystander DEF Work
<1> QED BY <1>1, <1>2, <1>3, <1>4 DEF Person

\* A crash keeps the order.
LEMMA CrashOrder == ASSUME Order, TypeOK', NEW m \in Machines, Crash(m) PROVE Order'
<1>1. used'["handoff"] = used["handoff"]
  BY DEF Crash, Mishap, Order, TypeOK, Bounds
<1>2. \A x \in Machines : prog'[x].pend \subseteq prog[x].pend
  BY DEF Crash, Idle, Order, TypeOK
<1> QED BY <1>1, <1>2, Bystander DEF Crash, Surroundings

\* Every step keeps the order.
LEMMA OrderStep == Order /\ [Next]_vars => Order'
<1> SUFFICES ASSUME Order, [Next]_vars PROVE Order'
  OBVIOUS
<1>1. TypeOK'
  BY TypeStep DEF Order
<1>2. CASE UNCHANGED vars
  BY <1>1, <1>2, Bystander DEF vars
<1>3. ASSUME NEW m \in Machines, NEW f \in Files, DeliverFile(m, f) PROVE Order'
  BY <1>1, <1>3, Bystander DEF DeliverFile
<1>4. CASE Deliver
  BY <1>1, <1>3, <1>4, DeliverOrder DEF Deliver
<1>5. CASE Next
  BY <1>1, <1>4, <1>5, WatchOrder, RunOrder, PersonOrder, CrashOrder DEF Next
<1> QED BY <1>2, <1>5

\* One step forgets nothing of a record that it could read.
LEMMA StepKeeps ==
  ASSUME Order, [Next]_vars
  PROVE  \A m \in Machines : forgot'[m] = forgot[m] =>
           /\ board'[m].id >= board[m].id
           /\ \A o \in Machines : board'[m].accepted[o] >= board[m].accepted[o]
<1>1. ASSUME NEW m \in Machines, board'[m].id = board[m].id,
             board'[m].accepted = board[m].accepted
      PROVE  /\ board'[m].id >= board[m].id
             /\ \A o \in Machines : board'[m].accepted[o] >= board[m].accepted[o]
  BY <1>1, IdsAreNumbers DEF Order
<1>2. ASSUME NEW m \in Machines, CodexStarted(m), NEW x \in Machines, forgot'[x] = forgot[x]
      PROVE  board'[x].id = board[x].id /\ board'[x].accepted = board[x].accepted
  <2>1. PICK read \in BOOLEAN :
          /\ Reads(m, read) /\ Writes(m, read)
          /\ board' = [board EXCEPT ![m] = Working(Own(m, read))]
    BY <1>2 DEF CodexStarted
  <2>2. CASE x # m
    BY <2>1, <2>2, Marked DEF Rewrites
  <2>3. CASE x = m
    <3>1. read
      BY <1>2, <2>1, <2>3 DEF Writes, Order, TypeOK
    <3> QED BY <2>1, <2>3, <3>1, Marked
  <2> QED BY <2>2, <2>3
<1>3. ASSUME NEW m \in Machines, RecordHandoff(m), NEW x \in Machines, forgot'[x] = forgot[x]
      PROVE  /\ board'[x].id >= board[x].id
             /\ \A o \in Machines : board'[x].accepted[o] >= board[x].accepted[o]
  <2>1. CASE x # m
    BY <1>1, <1>3, <2>1, Recorded DEF Rewrites
  <2>2. CASE x = m
    <3>1. board'[m].id >= board[m].id
      <4>1. board[m].id \in Nat /\ used["handoff"] \in Nat /\ board[m].id <= used["handoff"]
        BY IdsAreNumbers DEF Order, Spent
      <4> QED BY <1>3, <2>2, <4>1, Recorded
    <3>2. ASSUME NEW o \in Machines PROVE board'[m].accepted[o] >= board[m].accepted[o]
      <4>1. board[m].accepted[o] \in Nat
        BY IdsAreNumbers DEF Order
      <4>2. \A r \in prog[m].pend : r.from = o =>
              r.rec.id \in Nat /\ board[m].accepted[o] <= r.rec.id
        BY IdsAreNumbers DEF Order, RunIsBetween
      <4> QED BY <1>3, <2>2, <4>1, <4>2, Recorded
    <3> QED BY <2>2, <3>1, <3>2
  <2> QED BY <2>1, <2>2
<1>4. \/ UNCHANGED board
      \/ \E m \in Machines : CodexStarted(m) \/ RecordHandoff(m)
  <2>1. ASSUME NEW m \in Machines, Watch(m) PROVE UNCHANGED board \/ CodexStarted(m) \/ RecordHandoff(m)
    BY <2>1 DEF Watch, StartWatch, StartUnsure, PollOpened, PollClosed, MarkFails, Attempt
  <2>2. ASSUME NEW m \in Machines, Run(m) PROVE UNCHANGED board \/ CodexStarted(m) \/ RecordHandoff(m)
    BY <2>2 DEF Run, Begin, Arrived, NotDelivered, Plan, SyncSettings, SyncChats, Refused, Fail
  <2>3. ASSUME NEW m \in Machines, Person(m) PROVE UNCHANGED board \/ CodexStarted(m) \/ RecordHandoff(m)
    BY <2>3 DEF Person, ByHand, Attempt, OpenCodex, CloseCodex, Work
  <2>4. ASSUME NEW m \in Machines, Crash(m) PROVE UNCHANGED board \/ CodexStarted(m) \/ RecordHandoff(m)
    BY <2>4 DEF Crash
  <2>5. ASSUME Deliver PROVE UNCHANGED board
    BY <2>5 DEF Deliver, DeliverFile, DeliverBoard, DeliverPart
  <2>6. QED
    BY <2>1, <2>2, <2>3, <2>4, <2>5 DEF Next, vars
<1> QED BY <1>1, <1>2, <1>3, <1>4

\* A machine's own record never forgets its last handoff or what it has taken, as
\* long as it is read: whatever arrives in whatever order, fails or is killed.
THEOREM RecordsGrow == Spec => NothingForgotten
<1>1. Order /\ [Next]_vars =>
        [\A m \in Machines : forgot'[m] = forgot[m] =>
           /\ board'[m].id >= board[m].id
           /\ \A o \in Machines : board'[m].accepted[o] >= board[m].accepted[o]]_vars
  BY StepKeeps
<1> QED BY <1>1, InitOrder, OrderStep, PTL DEF Spec, NothingForgotten

-----------------------------------------------------------------------------
(***************************************************************************)
(* What is recorded as taken was loaded.  A content covers those it        *)
(* continues and those a rule dropped for it; a replace only adds to that. *)
(* So what a board names stays covered by the mirror, from its arrival by  *)
(* the replica of a run that waited for it, and from the sync by what that *)
(* machine has; except where a replica that was behind replaced it.        *)
(***************************************************************************)
Written == 0..used["write"]

\* A content covers itself and what that covers; one not written yet covers nothing else.
ContentsGrow ==
    /\ \A m \in Machines, f \in Files : local[m][f] \in Written /\ cloud[m][f] \in Written
    /\ \A f \in Files : server[f] \in Written
    /\ \A c \in Contents : c \in past[c] /\ past[c] \subseteq 0..c
    /\ \A c \in Contents \ Written : past[c] = {c} /\ \A f \in Files : over[f][c] = {}
    /\ \A b, c \in Contents : b \in past[c] => past[b] \subseteq past[c]

\* Two copies of one handoff of a machine name the same files.
OneIdOneHandoff ==
    /\ \A o \in Machines : board[o].id # 0 => \A f \in Files : board[o].files[f] # None
    /\ \A m, o \in Machines :
          seen[m][o] # None /\ board[o].id # 0 /\ seen[m][o].id = board[o].id =>
              seen[m][o].files = board[o].files
    /\ \A m \in Machines : \A r \in prog[m].pend :
          r.rec.id = board[r.from].id => r.rec.files = board[r.from].files

\* The mirror covers every replica and whatever any copy of a board names.
Mirrored(files) ==
    \A f \in Files \ crossed : files[f] # None => files[f] \in Covered(f, server[f])
MirrorCovers ==
    /\ \A m \in Machines : Mirrored(cloud[m])
    /\ \A o \in Machines : Mirrored(board[o].files)
    /\ \A m, o \in Machines : seen[m][o] # None => Mirrored(seen[m][o].files)
    /\ \A m \in Machines : \A r \in prog[m].pend : Mirrored(r.rec.files)

\* A run that waited has what it waited for in its replica, and loaded as far as it came.
Loading == {"plan", "settings", "chats", "record"}
Loaded(m) == IF At(m, "chats") THEN Settings
             ELSE IF At(m, "record") THEN Files \ left[m] ELSE {}
RunLoads(m) ==
    \A r \in prog[m].pend, f \in Files \ crossed : r.rec.files[f] # None =>
        /\ r.rec.files[f] \in Covered(f, cloud[m][f])
        /\ f \in Loaded(m) => r.rec.files[f] \in Covered(f, local[m][f])
RunsLoad == \A m \in Machines \ loose : prog[m].pc \in Loading => RunLoads(m)

\* What was taken is covered by the replica here, also the chats a limit left there.
TakenIsHere ==
    \A m, o \in Machines :
        m \notin loose /\ o # m /\ board[o].id # 0 /\ board[m].accepted[o] = board[o].id =>
            \A f \in Files \ crossed : board[o].files[f] \in Covered(f, cloud[m][f])
LeftIsStray == \A m \in Machines : left[m] \subseteq stray

\* A baseline is one content, and a plan of the chats leaves undecided what a limit holds.
BasesAgree == \A m \in Machines, f \in Settings : base[m][f][1] = base[m][f][2]
Decidable(m, here, there) ==
    /\ here \in Written /\ there \in Written
    /\ here = there \/ here \in past[there] \/ there \in past[here] \/ PolicyOf[m] # "manual_abort"
PlansDecide ==
    \A m \in Machines : prog[m].pc \in {"settings", "chats"} =>
        \A f \in Chats \ prog[m].limited : Decidable(m, prog[m].chats[f][1], prog[m].chats[f][2])

Loads == /\ Order /\ ContentsGrow /\ OneIdOneHandoff /\ MirrorCovers /\ RunsLoad
         /\ BasesAgree /\ PlansDecide /\ LeftIsStray /\ TakenIsHere /\ TakenIsLoaded

\* Nothing is written, named or taken at first.
LEMMA InitLoads == Init => Loads
<1> SUFFICES ASSUME Init PROVE Loads
  OBVIOUS
<1>1. Order /\ TypeOK
  BY InitOrder DEF Order
<1>2. used["write"] = 0 /\ \A m \in Machines : prog[m] = Idle /\ board[m] = Blank /\ \A o \in Machines : seen[m][o] = Blank
  BY DEF Init, Bounds
<1>3. Contents \subseteq Nat /\ 0 \in Contents
  BY HandoffAssumption DEF Contents
<1>4. ContentsGrow
  <2>1. /\ \A c \in Contents : past[c] = {c} /\ c \in 0..c
        /\ \A f \in Files, c \in Contents : over[f][c] = {}
    BY <1>2, <1>3 DEF Init
  <2>2. \A c \in Contents : c \in past[c] /\ past[c] \subseteq 0..c
    BY <2>1
  <2>3. \A b, c \in Contents : b \in past[c] => past[b] \subseteq past[c]
    BY <2>1
  <2>4. \A c \in Contents \ Written : past[c] = {c} /\ \A f \in Files : over[f][c] = {}
    BY <2>1
  <2>5. /\ \A m \in Machines, f \in Files : local[m][f] \in Written /\ cloud[m][f] \in Written
        /\ \A f \in Files : server[f] \in Written
    <3>1. local = [m \in Machines |-> [f \in Files |-> 0]] /\ cloud = local /\ server = [f \in Files |-> 0]
      BY DEF Init
    <3>2. 0 \in Written
      BY <1>2, <1>3 DEF Written
    <3>3. QED
      BY <3>1, <3>2
  <2>6. QED
    BY <2>2, <2>3, <2>4, <2>5, Zenon DEF ContentsGrow
<1>5. Blank.id = 0 /\ Blank.files = [f \in Files |-> None] /\ Idle.pend = {} /\ Idle.pc = "off"
  BY DEF Blank, Idle
<1>6. OneIdOneHandoff
  BY <1>2, <1>5 DEF OneIdOneHandoff
<1>7. MirrorCovers
  BY <1>2, <1>3, <1>5 DEF MirrorCovers, Mirrored, Covered, Init
<1>8. RunsLoad /\ PlansDecide
  BY <1>2, <1>5 DEF RunsLoad, PlansDecide, Loading
<1>9. BasesAgree
  BY DEF BasesAgree, Init
<1>10. TakenIsLoaded /\ TakenIsHere /\ LeftIsStray
  BY <1>2, <1>5 DEF TakenIsLoaded, TakenIsHere, LeftIsStray, Init
<1>11. QED
  BY <1>1, <1>4, <1>6, <1>7, <1>8, <1>9, <1>10 DEF Loads

\* What one half of a sync does, file by file: to those it leaves, loads and uploads, to
\* what the winners cover, and to the program.
Left(m, kind, decision) ==
    /\ \A n \in Machines \ {m} : UNCHANGED <<local[n], cloud[n], prog[n], touched[n]>>
    /\ \A f \in Files : (f \in kind => decision[f] \notin {"to_local", "to_cloud"}) =>
          UNCHANGED <<local[m][f], cloud[m][f], server[f]>>
Downloaded(m, kind, decision) ==
    \A f \in kind : decision[f] = "to_local" =>
        /\ local'[m][f] = cloud[m][f] /\ UNCHANGED <<cloud[m][f], server[f]>>
        /\ Covered(f, local[m][f]) \subseteq over'[f][cloud[m][f]]
Uploaded(m, kind, decision) ==
    \A f \in kind : decision[f] = "to_cloud" =>
        /\ cloud'[m][f] = local[m][f] /\ server'[f] = local[m][f] /\ UNCHANGED local[m][f]
        /\ Covered(f, cloud[m][f]) \subseteq over'[f][local[m][f]]
OnlyLosers(m, kind, decision) ==
    \A f \in Files, c \in Contents :
        /\ over[f][c] \subseteq over'[f][c]
        /\ \A x \in over'[f][c] \ over[f][c] : f \in kind /\
              \/ decision[f] = "to_local" /\ c = cloud[m][f] /\ x \in Covered(f, local[m][f])
              \/ decision[f] = "to_cloud" /\ c = local[m][f] /\ x \in Covered(f, cloud[m][f])
Crossing(m, kind, decision) ==
    crossed' = crossed \union {f \in kind : decision[f] = "to_cloud" /\ cloud[m][f] # server[f]}
RunsOn(m, kind, decision) ==
    /\ touched'[m] = touched[m] \ kind
    /\ UNCHANGED <<prog[m].pend, prog[m].accept, prog[m].chats, prog[m].limited>>
    /\ prog'[m].pc = (IF kind = Settings THEN "chats" ELSE "record")
    /\ prog'[m].wrote = prog[m].wrote \union {f \in kind : decision[f] = "to_cloud"}

\* A half of a sync does all of this.
LEMMA ApplyFacts ==
    ASSUME TypeOK, NEW m \in Machines, NEW kind \in SUBSET Files, NEW decision, Apply(m, kind, decision)
    PROVE  /\ Left(m, kind, decision) /\ Downloaded(m, kind, decision) /\ Uploaded(m, kind, decision)
           /\ OnlyLosers(m, kind, decision) /\ Crossing(m, kind, decision) /\ RunsOn(m, kind, decision)
<1> DEFINE toLocal == {f \in kind : decision[f] = "to_local"}
           toCloud == {f \in kind : decision[f] = "to_cloud"}
           winner(f) == IF f \in toLocal THEN cloud[m][f] ELSE local[m][f]
           loser(f)  == IF f \in toLocal THEN local[m][f] ELSE cloud[m][f]
<1>1. /\ local' = [local EXCEPT ![m] = [f \in Files |-> IF f \in toLocal THEN cloud[m][f] ELSE @[f]]]
      /\ cloud' = [cloud EXCEPT ![m] = [f \in Files |-> IF f \in toCloud THEN local[m][f] ELSE @[f]]]
      /\ server' = [f \in Files |-> IF f \in toCloud THEN local[m][f] ELSE server[f]]
      /\ over' = [f \in Files |->
            IF f \in toLocal \union toCloud
            THEN [over[f] EXCEPT ![winner(f)] = @ \union Covered(f, loser(f))] ELSE over[f]]
      /\ touched' = [touched EXCEPT ![m] = @ \ kind]
      /\ crossed' = crossed \union {f \in toCloud : cloud[m][f] # server[f]}
      /\ prog' = [prog EXCEPT ![m].wrote = @ \union toCloud, ![m].pc = IF kind = Settings THEN "chats" ELSE "record"]
  BY DEF Apply
<1>2. /\ local \in [Machines -> [Files -> Contents]] /\ cloud \in [Machines -> [Files -> Contents]]
      /\ prog \in [Machines -> Program] /\ prog[m] \in Program /\ touched \in [Machines -> SUBSET Files]
      /\ \A f \in Files : over[f] \in [Contents -> SUBSET Contents]
  BY DEF TypeOK
<1>3. \A n \in Machines \ {m} : UNCHANGED <<local[n], cloud[n], prog[n], touched[n]>>
  BY <1>1, <1>2
<1>4. \A f \in Files : /\ local'[m][f] = (IF f \in toLocal THEN cloud[m][f] ELSE local[m][f])
                       /\ cloud'[m][f] = (IF f \in toCloud THEN local[m][f] ELSE cloud[m][f])
                       /\ server'[f] = (IF f \in toCloud THEN local[m][f] ELSE server[f])
  BY <1>1, <1>2
<1>5. /\ touched'[m] = touched[m] \ kind
      /\ UNCHANGED <<prog[m].pend, prog[m].accept, prog[m].chats, prog[m].limited>>
      /\ prog'[m].pc = (IF kind = Settings THEN "chats" ELSE "record")
      /\ prog'[m].wrote = prog[m].wrote \union toCloud
  BY <1>1, <1>2 DEF Program
<1>6. \A f \in Files, c \in Contents :
        over'[f][c] = IF f \in toLocal \union toCloud /\ c = winner(f)
                      THEN over[f][c] \union Covered(f, loser(f)) ELSE over[f][c]
  <2> SUFFICES ASSUME NEW f \in Files, NEW c \in Contents
               PROVE  over'[f][c] = IF f \in toLocal \union toCloud /\ c = winner(f)
                                    THEN over[f][c] \union Covered(f, loser(f)) ELSE over[f][c]
    OBVIOUS
  <2> HIDE DEF toLocal, toCloud, winner, loser
  <2>1. over'[f] = IF f \in toLocal \union toCloud
                   THEN [over[f] EXCEPT ![winner(f)] = @ \union Covered(f, loser(f))] ELSE over[f]
    BY <1>1
  <2> QED BY <1>2, <2>1
<1>7. \A f \in kind : decision[f] = "to_local" =>
         winner(f) = cloud[m][f] /\ loser(f) = local[m][f] /\ f \in toLocal /\ f \notin toCloud
  OBVIOUS
<1>8. \A f \in kind : decision[f] = "to_cloud" =>
         winner(f) = local[m][f] /\ loser(f) = cloud[m][f] /\ f \in toCloud /\ f \notin toLocal
  OBVIOUS
<1>9. \A f \in Files : (f \in kind => decision[f] \notin {"to_local", "to_cloud"}) => f \notin toLocal /\ f \notin toCloud
  OBVIOUS
<1>10. \A f \in Files : f \in toLocal \union toCloud =>
         f \in kind /\ (decision[f] = "to_local" \/ decision[f] = "to_cloud")
  OBVIOUS
<1>11. /\ crossed' = crossed \union {f \in kind : decision[f] = "to_cloud" /\ cloud[m][f] # server[f]}
       /\ prog'[m].wrote = prog[m].wrote \union {f \in kind : decision[f] = "to_cloud"}
  BY <1>1, <1>5
<1> HIDE DEF toLocal, toCloud, winner, loser
<1>12. ASSUME NEW f \in kind, decision[f] = "to_local"
       PROVE  /\ local'[m][f] = cloud[m][f] /\ UNCHANGED <<cloud[m][f], server[f]>>
              /\ Covered(f, local[m][f]) \subseteq over'[f][cloud[m][f]]
  <2>1. f \in Files /\ f \in toLocal \union toCloud /\ winner(f) = cloud[m][f] /\ loser(f) = local[m][f] /\ cloud[m][f] \in Contents
    BY <1>2, <1>7, <1>12
  <2>2. over'[f][cloud[m][f]] = over[f][cloud[m][f]] \union Covered(f, local[m][f])
    BY <1>6, <2>1
  <2>3. QED
    BY <1>4, <1>7, <1>12, <2>1, <2>2
<1>13. ASSUME NEW f \in kind, decision[f] = "to_cloud"
       PROVE  /\ cloud'[m][f] = local[m][f] /\ server'[f] = local[m][f] /\ UNCHANGED local[m][f]
              /\ Covered(f, cloud[m][f]) \subseteq over'[f][local[m][f]]
  <2>1. f \in Files /\ f \in toLocal \union toCloud /\ winner(f) = local[m][f] /\ loser(f) = cloud[m][f] /\ local[m][f] \in Contents
    BY <1>2, <1>8, <1>13
  <2>2. over'[f][local[m][f]] = over[f][local[m][f]] \union Covered(f, cloud[m][f])
    BY <1>6, <2>1
  <2>3. QED
    BY <1>4, <1>8, <1>13, <2>1, <2>2
<1>14. ASSUME NEW f \in Files, f \in kind => decision[f] \notin {"to_local", "to_cloud"}
       PROVE  UNCHANGED <<local[m][f], cloud[m][f], server[f]>>
  BY <1>4, <1>9, <1>14
<1>15. ASSUME NEW f \in Files, NEW c \in Contents
       PROVE  /\ over[f][c] \subseteq over'[f][c]
              /\ \A x \in over'[f][c] \ over[f][c] : f \in kind /\
                    \/ decision[f] = "to_local" /\ c = cloud[m][f] /\ x \in Covered(f, local[m][f])
                    \/ decision[f] = "to_cloud" /\ c = local[m][f] /\ x \in Covered(f, cloud[m][f])
  BY <1>6, <1>7, <1>8, <1>10
<1>16. Left(m, kind, decision)
  BY <1>3, <1>14 DEF Left
<1>17. Downloaded(m, kind, decision) /\ Uploaded(m, kind, decision)
  BY <1>12, <1>13 DEF Downloaded, Uploaded
<1>18. OnlyLosers(m, kind, decision)
  BY <1>15 DEF OnlyLosers
<1>19. Crossing(m, kind, decision) /\ RunsOn(m, kind, decision)
  BY <1>5, <1>11 DEF Crossing, RunsOn
<1>20. QED
  BY <1>16, <1>17, <1>18, <1>19

\* What the coming lemmas use of the types.
LEMMA HandoffTypes ==
    ASSUME TypeOK
    PROVE  /\ Contents \subseteq Nat /\ 0 \in Contents /\ Written \subseteq Nat
           /\ \A m \in Machines, f \in Files : local[m][f] \in Contents /\ cloud[m][f] \in Contents
           /\ \A f \in Files : server[f] \in Contents
           /\ \A m \in Machines : board[m] \in Record /\ prog[m] \in Program
           /\ \A m, o \in Machines : seen[m][o] # None => seen[m][o] \in Record
           /\ \A rec \in Record : rec.id \in Nat /\ \A f \in Files : rec.files[f] \in Contents \union {None}
           /\ \A m \in Machines : \A r \in prog[m].pend : r.from \in Machines /\ r.rec \in Record
           /\ Settings \subseteq Files /\ Chats \subseteq Files /\ Files = Settings \union Chats
           /\ Settings \intersect Chats = {} /\ \A m \in Machines : left[m] \subseteq Chats
<1>1. Contents \subseteq Nat /\ 0 \in Contents /\ Ids \subseteq Nat /\ Written \subseteq Nat
  BY HandoffAssumption DEF Contents, Ids, Written, TypeOK, Bounds
<1>2. \A rec \in Record : rec.id \in Nat /\ \A f \in Files : rec.files[f] \in Contents \union {None}
  BY <1>1 DEF Record
<1>3. \A m \in Machines : board[m] \in Record /\ prog[m] \in Program
  BY DEF TypeOK
<1>4. \A m \in Machines : \A r \in prog[m].pend : r.from \in Machines /\ r.rec \in Record
  BY <1>3 DEF Program
<1>5. Settings \intersect Chats = {} /\ \A m \in Machines : left[m] \subseteq Chats
  BY HandoffAssumption DEF TypeOK
<1>6. QED
  BY <1>1, <1>2, <1>3, <1>4, <1>5 DEF TypeOK, Files

\* A step that changes no file, no board and no copy of one; a run goes on, or is over.
LEMMA QuietLoads ==
    ASSUME Loads, Order', UNCHANGED <<local, cloud, server, base, seen, past, over, crossed, left, stray>>,
           used'["write"] = used["write"], loose \subseteq loose',
           \A o \in Machines : UNCHANGED <<board[o].id, board[o].files, board[o].accepted>>,
           \A n \in Machines : prog'[n] = prog[n] \/ (prog'[n].pend = {} /\ prog'[n].pc \notin Loading)
    PROVE  Loads'
<1>1. Written' = Written /\ \A f, c : Covered(f, c)' = Covered(f, c)
  BY DEF Written, Covered
<1>2. ContentsGrow' /\ BasesAgree'
  BY <1>1 DEF Loads, ContentsGrow, BasesAgree
<1>3. OneIdOneHandoff'
  <2>1. \A m \in Machines : \A r \in prog[m].pend : r.from \in Machines
    BY HandoffTypes DEF Loads, Order
  <2>2. QED
    BY <2>1 DEF Loads, OneIdOneHandoff
<1>4. MirrorCovers'
  <2>1. \A files : Mirrored(files)' <=> Mirrored(files)
    BY <1>1 DEF Mirrored
  <2>2. QED
    BY <2>1 DEF Loads, MirrorCovers, Mirrored, Covered
<1>5. RunsLoad'
  <2> SUFFICES ASSUME NEW m \in Machines \ loose', prog'[m].pc \in Loading PROVE RunLoads(m)'
    BY DEF RunsLoad
  <2>1. prog'[m] = prog[m] /\ RunLoads(m)
    BY DEF Loads, RunsLoad
  <2>2. QED
    BY <1>1, <2>1 DEF RunLoads, Loaded, At, Covered
<1>6. PlansDecide'
  <2> SUFFICES ASSUME NEW m \in Machines, prog'[m].pc \in {"settings", "chats"},
                      NEW f \in Chats \ prog'[m].limited
               PROVE  Decidable(m, prog[m].chats[f][1], prog[m].chats[f][2])' /\ prog'[m] = prog[m]
    BY DEF PlansDecide
  <2>1. prog'[m] = prog[m] /\ Decidable(m, prog[m].chats[f][1], prog[m].chats[f][2])
    BY DEF Loads, PlansDecide, Loading
  <2>2. QED
    BY <1>1, <2>1 DEF Decidable
<1>7. TakenIsLoaded' /\ TakenIsHere' /\ LeftIsStray'
  BY <1>1 DEF Loads, TakenIsLoaded, TakenIsHere, LeftIsStray, Covered
<1>8. QED
  BY <1>2, <1>3, <1>4, <1>5, <1>6, <1>7 DEF Loads

\* A board that arrives, whole or in part, names what the board of its machine names.
LEMMA DeliverLoads ==
    ASSUME Loads, Order', NEW m \in Machines, NEW o \in Machines, DeliverBoard(m, o) \/ DeliverPart(m, o)
    PROVE  Loads'
<1>1. /\ UNCHANGED <<local, cloud, server, base, board, prog, past, over, loose, crossed, left, stray>>
      /\ used'["write"] = used["write"]
  BY DEF DeliverBoard, DeliverPart, Mishap, Loads, Order, TypeOK, Bounds, Mishaps
<1>2. \A x, y \in Machines : seen'[x][y] \in {seen[x][y], None, board[y]}
  <2>1. seen \in [Machines -> [Machines -> Record \union {None}]]
    BY DEF Loads, Order, TypeOK
  <2>2. seen' = [seen EXCEPT ![m][o] = board[o]] \/ seen' = [seen EXCEPT ![m][o] = None]
    BY DEF DeliverBoard, DeliverPart
  <2>3. QED
    BY <2>1, <2>2
<1>3. Written' = Written /\ \A f, c : Covered(f, c)' = Covered(f, c)
  BY <1>1 DEF Written, Covered
<1>4. ContentsGrow' /\ BasesAgree'
  BY <1>1, <1>3 DEF Loads, ContentsGrow, BasesAgree
<1>5. OneIdOneHandoff'
  BY <1>1, <1>2 DEF Loads, OneIdOneHandoff
<1>6. MirrorCovers'
  <2>1. \A files : Mirrored(files)' <=> Mirrored(files)
    BY <1>1, <1>3 DEF Mirrored
  <2>2. \A x, y \in Machines : seen'[x][y] # None => Mirrored(seen'[x][y].files)
    BY <1>2 DEF Loads, MirrorCovers
  <2>3. QED
    BY <1>1, <1>3, <2>1, <2>2 DEF Loads, MirrorCovers, Mirrored, Covered
<1>7. RunsLoad'
  BY <1>1, <1>3 DEF Loads, RunsLoad, RunLoads, Loaded, At, Covered
<1>8. PlansDecide'
  BY <1>1, <1>3 DEF Loads, PlansDecide, Decidable
<1>9. TakenIsLoaded' /\ TakenIsHere' /\ LeftIsStray'
  BY <1>1, <1>3 DEF Loads, TakenIsLoaded, TakenIsHere, LeftIsStray, Covered
<1>10. QED
  BY <1>4, <1>5, <1>6, <1>7, <1>8, <1>9 DEF Loads

\* A file that arrives is the newest of the mirror, which covers all that was named.
LEMMA FileLoads ==
    ASSUME Loads, Order', NEW m \in Machines, NEW f \in Files, DeliverFile(m, f)
    PROVE  Loads'
<1>1. UNCHANGED <<local, server, base, board, seen, prog, past, over, loose, crossed, left, stray, used>>
  BY DEF DeliverFile
<1>2. \A x \in Machines, g \in Files : cloud'[x][g] = (IF x = m /\ g = f THEN server[f] ELSE cloud[x][g])
  BY DEF DeliverFile, Loads, Order, TypeOK
<1>3. Written' = Written /\ \A g, c : Covered(g, c)' = Covered(g, c)
  BY <1>1 DEF Written, Covered
<1>4. ContentsGrow' /\ BasesAgree'
  BY <1>1, <1>2, <1>3 DEF Loads, ContentsGrow, BasesAgree
<1>5. OneIdOneHandoff'
  BY <1>1 DEF Loads, OneIdOneHandoff
<1>6. MirrorCovers'
  <2>1. \A files : Mirrored(files)' <=> Mirrored(files)
    BY <1>1, <1>3 DEF Mirrored
  <2>2. server[f] \in Covered(f, server[f])
    BY HandoffTypes DEF Loads, Order, ContentsGrow, Covered
  <2>3. \A x \in Machines : Mirrored(cloud[x])'
    BY <1>1, <1>2, <1>3, <2>2 DEF Loads, MirrorCovers, Mirrored
  <2>4. QED
    BY <1>1, <2>1, <2>3 DEF Loads, MirrorCovers, Mirrored, Covered
<1>7. RunsLoad'
  <2> SUFFICES ASSUME NEW x \in Machines \ loose', prog'[x].pc \in Loading PROVE RunLoads(x)'
    BY DEF RunsLoad
  <2>1. RunLoads(x) /\ \A r \in prog[x].pend : Mirrored(r.rec.files)
    BY <1>1 DEF Loads, RunsLoad, MirrorCovers
  <2>2. QED
    BY <1>1, <1>2, <1>3, <2>1 DEF RunLoads, Mirrored, Loaded, At
<1>8. PlansDecide'
  BY <1>1, <1>3 DEF Loads, PlansDecide, Decidable
<1>9. TakenIsLoaded' /\ TakenIsHere' /\ LeftIsStray'
  <2>1. TakenIsLoaded' /\ LeftIsStray'
    BY <1>1, <1>3 DEF Loads, TakenIsLoaded, LeftIsStray
  <2>2. \A o \in Machines : Mirrored(board[o].files) /\ (board[o].id # 0 => board[o].files[f] # None)
    BY DEF Loads, MirrorCovers, OneIdOneHandoff
  <2>3. TakenIsHere'
    BY <1>1, <1>2, <1>3, <2>2 DEF Loads, TakenIsHere, Mirrored
  <2>4. QED
    BY <2>1, <2>3
<1>10. QED
  BY <1>4, <1>5, <1>6, <1>7, <1>8, <1>9 DEF Loads

\* A run takes the copies of the boards that are here.
LEMMA BeginLoads ==
    ASSUME Loads, Order', NEW m \in Machines, Begin(m)
    PROVE  Loads'
<1>1. UNCHANGED <<local, cloud, server, base, board, seen, past, over, loose, crossed, left, stray>>
  BY DEF Begin, Surroundings
<1>2. PICK own : Begins(m, own)
  BY BeginFacts DEF Loads, Order
<1>3. /\ \A n \in Machines \ {m} : prog'[n] = prog[n]
      /\ prog'[m].pend = Pending(m, own) /\ prog'[m].pc \in {"wait", "plan"}
      /\ prog'[m].pc = "plan" => Pending(m, own) = {}
      /\ \A r \in Pending(m, own) :
            r.from \in Machines /\ seen[m][r.from] # None /\ r.rec = seen[m][r.from] /\ r.rec.id # 0
      /\ used'["write"] = used["write"]
  BY <1>2, BeginFacts DEF Begins, Loads, Order, Bounds
<1>4. Written' = Written /\ \A f, c : Covered(f, c)' = Covered(f, c)
  BY <1>1, <1>3 DEF Written, Covered
<1>5. ContentsGrow' /\ BasesAgree'
  BY <1>1, <1>4 DEF Loads, ContentsGrow, BasesAgree
<1>6. OneIdOneHandoff'
  BY <1>1, <1>3 DEF Loads, OneIdOneHandoff
<1>7. MirrorCovers'
  <2>1. \A files : Mirrored(files)' <=> Mirrored(files)
    BY <1>1, <1>4 DEF Mirrored
  <2>2. \A n \in Machines : \A r \in prog'[n].pend : Mirrored(r.rec.files)
    BY <1>3 DEF Loads, MirrorCovers
  <2>3. QED
    BY <1>1, <1>4, <2>1, <2>2 DEF Loads, MirrorCovers, Mirrored, Covered
<1>8. RunsLoad'
  <2> SUFFICES ASSUME NEW n \in Machines \ loose', prog'[n].pc \in Loading PROVE RunLoads(n)'
    BY DEF RunsLoad
  <2>1. CASE n = m
    BY <1>3, <2>1 DEF RunLoads, Loading
  <2>2. CASE n # m
    BY <1>1, <1>3, <1>4, <2>2 DEF Loads, RunsLoad, RunLoads, Loaded, At
  <2>3. QED
    BY <2>1, <2>2
<1>9. PlansDecide'
  BY <1>1, <1>3, <1>4 DEF Loads, PlansDecide, Decidable
<1>10. TakenIsLoaded' /\ TakenIsHere' /\ LeftIsStray'
  BY <1>1, <1>4 DEF Loads, TakenIsLoaded, TakenIsHere, LeftIsStray, Covered
<1>11. QED
  BY <1>5, <1>6, <1>7, <1>8, <1>9, <1>10 DEF Loads

\* A run that goes on to load has all it waited for, unless the person waived that.
LEMMA ArriveLoads ==
    ASSUME Loads, Order', NEW m \in Machines, prog' = [prog EXCEPT ![m].pc = "plan"],
           UNCHANGED <<local, cloud, server, base, board, seen, past, over, crossed, left, stray, used>>,
           (Late(m) = {} /\ loose' = loose) \/ loose' = loose \union {m}
    PROVE  Loads'
<1>1. /\ \A n \in Machines \ {m} : prog'[n] = prog[n]
      /\ prog'[m].pend = prog[m].pend /\ prog'[m].pc = "plan"
  BY HandoffTypes DEF Loads, Order, TypeOK, Program
<1>2. Written' = Written /\ \A f, c : Covered(f, c)' = Covered(f, c)
  BY DEF Written, Covered
<1>3. ContentsGrow' /\ BasesAgree'
  BY <1>2 DEF Loads, ContentsGrow, BasesAgree
<1>4. OneIdOneHandoff'
  BY <1>1 DEF Loads, OneIdOneHandoff
<1>5. MirrorCovers'
  <2>1. \A files : Mirrored(files)' <=> Mirrored(files)
    BY <1>2 DEF Mirrored
  <2>2. \A n \in Machines : prog'[n].pend = prog[n].pend
    BY <1>1
  <2>3. QED
    BY <1>2, <2>1, <2>2 DEF Loads, MirrorCovers, Mirrored, Covered
<1>6. RunsLoad'
  <2> SUFFICES ASSUME NEW n \in Machines \ loose', prog'[n].pc \in Loading PROVE RunLoads(n)'
    BY DEF RunsLoad
  <2>1. CASE n = m
    <3>1. \A r \in prog[m].pend, f \in Files : r.rec.files[f] # None => cloud[m][f] = r.rec.files[f]
      BY <2>1 DEF Late, Delivered
    <3>2. \A f \in Files : cloud[m][f] \in Covered(f, cloud[m][f])
      BY HandoffTypes DEF Loads, Order, ContentsGrow, Covered
    <3>3. Loaded(m)' = {}
      BY <1>1 DEF Loaded, At
    <3>4. QED
      BY <1>1, <1>2, <2>1, <3>1, <3>2, <3>3 DEF RunLoads
  <2>2. CASE n # m
    BY <1>1, <1>2, <2>2 DEF Loads, RunsLoad, RunLoads, Loaded, At
  <2>3. QED
    BY <2>1, <2>2
<1>7. PlansDecide'
  BY <1>1, <1>2 DEF Loads, PlansDecide, Decidable
<1>8. TakenIsLoaded' /\ TakenIsHere' /\ LeftIsStray'
  BY <1>2 DEF Loads, TakenIsLoaded, TakenIsHere, LeftIsStray, Covered
<1>9. QED
  BY <1>3, <1>4, <1>5, <1>6, <1>7, <1>8 DEF Loads

\* A plan of the chats leaves no conflict.
LEMMA PlanLoads ==
    ASSUME Loads, Order', NEW m \in Machines, Plan(m)
    PROVE  Loads'
<1>1. UNCHANGED <<local, cloud, server, base, board, seen, past, over, loose, crossed, left, stray>>
  BY DEF Plan, Surroundings
<1>2. PICK limited \in SUBSET Limitable(m) :
        /\ \A f \in Chats : ChatDecision(m, f, limited) # "conflict"
        /\ \A n \in Machines \ {m} : prog'[n] = prog[n]
        /\ prog'[m].pend = prog[m].pend /\ prog[m].pc = "plan" /\ prog'[m].pc = "settings"
        /\ prog'[m].chats = ChatsNow(m) /\ prog'[m].limited = limited
        /\ used'["write"] = used["write"]
  <2>1. PICK limited \in SUBSET Limitable(m) :
          /\ \A f \in Chats : ChatDecision(m, f, limited) # "conflict"
          /\ prog' = [prog EXCEPT ![m].chats = ChatsNow(m), ![m].limited = limited,
                                  ![m].pc = "settings"]
    BY DEF Plan
  <2>2. used'["write"] = used["write"]
    <3>1. UNCHANGED used \/ Mishap("failure")
      BY DEF Plan
    <3>2. QED
      BY <3>1 DEF Mishap, Loads, Order, TypeOK, Bounds, Mishaps
  <2>3. prog \in [Machines -> Program] /\ prog[m] \in Program /\ prog[m].pc = "plan"
    BY DEF Loads, Order, TypeOK, Plan, At
  <2>4. /\ \A n \in Machines \ {m} : prog'[n] = prog[n]
        /\ prog'[m].pend = prog[m].pend /\ prog'[m].pc = "settings"
        /\ prog'[m].chats = ChatsNow(m) /\ prog'[m].limited = limited
    BY <2>1, <2>3 DEF Program
  <2>5. QED
    BY <2>1, <2>2, <2>3, <2>4
<1>3. Written' = Written /\ \A f, c : Covered(f, c)' = Covered(f, c)
  BY <1>1, <1>2 DEF Written, Covered
<1>4. ContentsGrow' /\ BasesAgree'
  BY <1>1, <1>3 DEF Loads, ContentsGrow, BasesAgree
<1>5. OneIdOneHandoff'
  BY <1>1, <1>2 DEF Loads, OneIdOneHandoff
<1>6. MirrorCovers'
  <2>1. \A files : Mirrored(files)' <=> Mirrored(files)
    BY <1>1, <1>3 DEF Mirrored
  <2>2. \A n \in Machines : prog'[n].pend = prog[n].pend
    BY <1>2
  <2>3. QED
    BY <1>1, <1>3, <2>1, <2>2 DEF Loads, MirrorCovers, Mirrored, Covered
<1>7. RunsLoad'
  <2> SUFFICES ASSUME NEW n \in Machines \ loose', prog'[n].pc \in Loading PROVE RunLoads(n)'
    BY DEF RunsLoad
  <2>1. RunLoads(n) /\ Loaded(n)' = Loaded(n) /\ prog'[n].pend = prog[n].pend
    BY <1>1, <1>2 DEF Loads, RunsLoad, Loaded, At, Loading
  <2>2. QED
    BY <1>1, <1>3, <2>1 DEF RunLoads
<1>8. PlansDecide'
  <2> SUFFICES ASSUME NEW n \in Machines, prog'[n].pc \in {"settings", "chats"},
                      NEW f \in Chats \ prog'[n].limited
               PROVE  Decidable(n, prog[n].chats[f][1], prog[n].chats[f][2])'
    BY DEF PlansDecide
  <2>1. CASE n = m
    <3>1. prog'[m].chats[f][1] = local[m][f] /\ prog'[m].chats[f][2] = cloud[m][f]
      BY <1>2 DEF ChatsNow
    <3>2. ChatDecision(m, f, limited) # "conflict" /\ f \notin limited
      BY <1>2, <2>1
    <3>3. local[m][f] = cloud[m][f] \/ local[m][f] \in past[cloud[m][f]] \/ cloud[m][f] \in past[local[m][f]] \/ PolicyOf[m] # "manual_abort"
      BY <3>2 DEF ChatDecision, ByRule
    <3>4. QED
      BY <1>1, <1>3, <2>1, <3>1, <3>3, HandoffTypes DEF Decidable, Loads, Order, ContentsGrow
  <2>2. CASE n # m
    BY <1>1, <1>2, <1>3, <2>2 DEF Loads, PlansDecide, Decidable
  <2>3. QED
    BY <2>1, <2>2
<1>9. TakenIsLoaded' /\ TakenIsHere' /\ LeftIsStray'
  BY <1>1, <1>3 DEF Loads, TakenIsLoaded, TakenIsHere, LeftIsStray, Covered
<1>10. QED
  BY <1>4, <1>5, <1>6, <1>7, <1>8, <1>9 DEF Loads

\* In either half of a sync every file is carried over, or was the same on both sides.
LEMMA SettingsDecided ==
    ASSUME Loads, NEW m \in Machines, SyncSettings(m), NEW f \in Settings
    PROVE  SettingDecision(m, f) \in {"to_local", "to_cloud"} \/ (SettingDecision(m, f) = "nothing" /\ local[m][f] = cloud[m][f])
<1>1. SettingDecision(m, f) # "conflict" /\ base[m][f][1] = base[m][f][2]
  BY DEF SyncSettings, Loads, BasesAgree
<1>2. PolicyOf[m] \in {"manual_abort", "prefer_local", "prefer_cloud"}
  BY HandoffAssumption
<1>3. QED
  BY <1>1, <1>2 DEF SettingDecision, ByRule

\* The plan that was checked is the plan that is made, so no chat is left undecided but
\* those that a limit holds back.
LEMMA ChatsDecided ==
    ASSUME Loads, NEW m \in Machines, SyncChats(m), NEW f \in Chats
    PROVE  \/ ChatDecision(m, f, prog[m].limited) \in {"to_local", "to_cloud"}
           \/ ChatDecision(m, f, prog[m].limited) = "nothing" /\ local[m][f] = cloud[m][f]
           \/ ChatDecision(m, f, prog[m].limited) = "left" /\ f \in prog[m].limited
<1>1. prog[m].chats[f][1] = local[m][f] /\ prog[m].chats[f][2] = cloud[m][f]
  BY DEF SyncChats, SamePlan, ChatsNow
<1>2. f \notin prog[m].limited =>
        local[m][f] = cloud[m][f] \/ local[m][f] \in past[cloud[m][f]] \/ cloud[m][f] \in past[local[m][f]] \/ PolicyOf[m] # "manual_abort"
  BY <1>1 DEF SyncChats, At, Loads, PlansDecide, Decidable
<1>3. PolicyOf[m] \in {"manual_abort", "prefer_local", "prefer_cloud"}
  BY HandoffAssumption
<1>4. QED
  BY <1>2, <1>3 DEF ChatDecision, ByRule

\* After one half of a sync what was covered still is: by the mirror, by a replica, by what is here.
LEMMA HalfCovers ==
    ASSUME TypeOK, ContentsGrow, NEW m \in Machines, NEW kind \in SUBSET Files, NEW decision,
           Apply(m, kind, decision), UNCHANGED past,
           \A f \in kind : \/ decision[f] \in {"to_local", "to_cloud", "left"}
                           \/ decision[f] = "nothing" /\ local[m][f] = cloud[m][f]
    PROVE  /\ \A f \in Files, c \in Contents : Covered(f, c) \subseteq Covered(f, c)'
           /\ \A n \in Machines, f \in Files :
                 /\ Covered(f, local[n][f]) \subseteq Covered(f, local[n][f])'
                 /\ Covered(f, cloud[n][f]) \subseteq Covered(f, cloud[n][f])'
           /\ \A f \in Files \ crossed' : f \notin crossed /\ Covered(f, server[f]) \subseteq Covered(f, server[f])'
           /\ \A f \in kind : decision[f] # "left" =>
                 local'[m][f] = cloud'[m][f] /\ Covered(f, cloud[m][f]) \subseteq Covered(f, local[m][f])'
           /\ \A f \in Files : (cloud'[m][f] = cloud[m][f] /\ server'[f] = server[f]) \/ cloud'[m][f] = server'[f]
           /\ \A n \in Machines \ {m} : cloud'[n] = cloud[n]
<1>0. \A n \in Machines, f \in Files : local[n][f] \in Contents /\ cloud[n][f] \in Contents /\ server[f] \in Contents
  BY HandoffTypes
<1>10. /\ Left(m, kind, decision) /\ Downloaded(m, kind, decision) /\ Uploaded(m, kind, decision)
       /\ OnlyLosers(m, kind, decision) /\ Crossing(m, kind, decision)
  BY ApplyFacts
<1>1. \A f \in Files, c \in Contents : Covered(f, c) \subseteq Covered(f, c)'
  BY <1>10 DEF Covered, OnlyLosers
<1>2. \A n \in Machines \ {m} : UNCHANGED <<local[n], cloud[n]>>
  BY <1>10 DEF Left
<1>3. ASSUME NEW f \in Files
      PROVE  /\ Covered(f, local[m][f]) \subseteq Covered(f, local[m][f])'
             /\ Covered(f, cloud[m][f]) \subseteq Covered(f, cloud[m][f])'
             /\ f \notin crossed' => f \notin crossed /\ Covered(f, server[f]) \subseteq Covered(f, server[f])'
             /\ f \in kind /\ decision[f] # "left" =>
                   local'[m][f] = cloud'[m][f] /\ Covered(f, cloud[m][f]) \subseteq Covered(f, local[m][f])'
             /\ (cloud'[m][f] = cloud[m][f] /\ server'[f] = server[f]) \/ cloud'[m][f] = server'[f]
  <2>1. CASE f \in kind => decision[f] \in {"nothing", "left"}
    <3>1. UNCHANGED <<local[m][f], cloud[m][f], server[f]>> /\ crossed \subseteq crossed'
      BY <2>1, <1>10 DEF Left, Crossing
    <3>2. f \in kind /\ decision[f] # "left" => local[m][f] = cloud[m][f]
      BY <2>1
    <3>3. Covered(f, local[m][f]) \subseteq Covered(f, local[m][f])' /\ Covered(f, cloud[m][f]) \subseteq Covered(f, cloud[m][f])'
          /\ Covered(f, server[f]) \subseteq Covered(f, server[f])'
      BY <1>0, <1>1, <3>1 DEF Covered
    <3>4. QED
      BY <3>1, <3>2, <3>3
  <2>2. CASE f \in kind /\ decision[f] = "to_local"
    <3>1. /\ local'[m][f] = cloud[m][f] /\ UNCHANGED <<cloud[m][f], server[f]>> /\ crossed \subseteq crossed'
          /\ Covered(f, local[m][f]) \subseteq over'[f][cloud[m][f]]
      BY <2>2, <1>10 DEF Downloaded, Crossing
    <3>2. Covered(f, local[m][f]) \subseteq Covered(f, local[m][f])' /\ Covered(f, cloud[m][f]) \subseteq Covered(f, cloud[m][f])'
          /\ Covered(f, server[f]) \subseteq Covered(f, server[f])' /\ Covered(f, cloud[m][f]) \subseteq Covered(f, local[m][f])'
      BY <1>0, <1>1, <3>1 DEF Covered
    <3>3. QED
      BY <3>1, <3>2
  <2>3. CASE f \in kind /\ decision[f] = "to_cloud"
    <3>1. /\ cloud'[m][f] = local[m][f] /\ server'[f] = local[m][f] /\ UNCHANGED local[m][f]
          /\ Covered(f, cloud[m][f]) \subseteq over'[f][local[m][f]]
          /\ crossed \subseteq crossed' /\ (f \notin crossed' => cloud[m][f] = server[f])
      BY <2>3, <1>10 DEF Uploaded, Crossing
    <3>2. Covered(f, local[m][f]) \subseteq Covered(f, local[m][f])' /\ Covered(f, cloud[m][f]) \subseteq Covered(f, cloud[m][f])'
          /\ Covered(f, cloud[m][f]) \subseteq Covered(f, local[m][f])' /\ Covered(f, cloud[m][f]) \subseteq Covered(f, server[f])'
      BY <1>0, <1>1, <3>1 DEF Covered
    <3>3. QED
      BY <3>1, <3>2
  <2>4. QED
    BY <2>1, <2>2, <2>3
<1>4. \A n \in Machines \ {m}, f \in Files :
         Covered(f, local[n][f]) \subseteq Covered(f, local[n][f])' /\ Covered(f, cloud[n][f]) \subseteq Covered(f, cloud[n][f])'
  BY <1>0, <1>1, <1>2 DEF Covered
<1>5. QED
  BY <1>1, <1>2, <1>3, <1>4

\* One half of a sync loads what the run waited for, and leaves covered what was.
LEMMA HalfLoads ==
    ASSUME Loads, TypeOK', Order', NEW m \in Machines, NEW kind \in SUBSET Files, NEW decision,
           Apply(m, kind, decision), UNCHANGED <<board, seen, past, loose, used>>,
           \A f \in kind : \/ decision[f] \in {"to_local", "to_cloud"}
                           \/ decision[f] = "nothing" /\ local[m][f] = cloud[m][f]
                           \/ decision[f] = "left" /\ f \in left'[m],
           left' = left \/ (kind = Chats /\ \A n \in Machines \ {m} : left'[n] = left[n]), LeftIsStray',
           \/ At(m, "settings") /\ kind = Settings
              /\ base' = [base EXCEPT ![m] = [f \in Settings |-> <<local'[m][f], cloud'[m][f]>>]]
           \/ At(m, "chats") /\ kind = Chats /\ UNCHANGED base
    PROVE  Loads'
<1>0. \A f \in kind : \/ decision[f] \in {"to_local", "to_cloud", "left"}
                      \/ decision[f] = "nothing" /\ local[m][f] = cloud[m][f]
  OBVIOUS
<1>1. /\ \A f \in Files, c \in Contents : Covered(f, c) \subseteq Covered(f, c)'
      /\ \A n \in Machines, f \in Files :
            /\ Covered(f, local[n][f]) \subseteq Covered(f, local[n][f])'
            /\ Covered(f, cloud[n][f]) \subseteq Covered(f, cloud[n][f])'
      /\ \A f \in Files \ crossed' : f \notin crossed /\ Covered(f, server[f]) \subseteq Covered(f, server[f])'
      /\ \A f \in kind : decision[f] # "left" =>
            local'[m][f] = cloud'[m][f] /\ Covered(f, cloud[m][f]) \subseteq Covered(f, local[m][f])'
      /\ \A f \in Files : (cloud'[m][f] = cloud[m][f] /\ server'[f] = server[f]) \/ cloud'[m][f] = server'[f]
      /\ \A n \in Machines \ {m} : cloud'[n] = cloud[n]
  BY <1>0, HalfCovers DEF Loads, Order
<1>2. /\ Left(m, kind, decision) /\ Downloaded(m, kind, decision) /\ Uploaded(m, kind, decision)
      /\ OnlyLosers(m, kind, decision) /\ Crossing(m, kind, decision) /\ RunsOn(m, kind, decision)
  BY ApplyFacts DEF Loads, Order
<1>3. \A n \in Machines : UNCHANGED <<prog[n].pend, prog[n].chats, prog[n].limited>>
  BY <1>2 DEF Left, RunsOn
<1>4. Written' = Written
  BY DEF Written
<1>5. ContentsGrow'
  <2>1. \A n \in Machines, f \in Files : local'[n][f] \in Written /\ cloud'[n][f] \in Written
    <3>1. \A n \in Machines \ {m}, f \in Files : local'[n][f] = local[n][f] /\ cloud'[n][f] = cloud[n][f]
      BY <1>2 DEF Left
    <3>2. \A f \in Files : local'[m][f] \in {local[m][f], cloud[m][f]} /\ cloud'[m][f] \in {local[m][f], cloud[m][f]}
      BY <1>2 DEF Left, Downloaded, Uploaded
    <3>3. QED
      BY <3>1, <3>2 DEF Loads, ContentsGrow
  <2>2. \A f \in Files : server'[f] \in Written
    <3>1. \A f \in Files : server'[f] \in {server[f], local[m][f]}
      BY <1>2 DEF Left, Downloaded, Uploaded
    <3>2. QED
      BY <3>1 DEF Loads, ContentsGrow
  <2>3. \A c \in Contents \ Written, f \in Files : over'[f][c] = {}
    <3>1. \A f \in Files : local[m][f] \in Written /\ cloud[m][f] \in Written
      BY DEF Loads, ContentsGrow
    <3>2. QED
      BY <1>2, <3>1 DEF OnlyLosers, Loads, ContentsGrow
  <2>4. QED
    BY <1>4, <2>1, <2>2, <2>3 DEF Loads, ContentsGrow
<1>6. OneIdOneHandoff'
  BY <1>3 DEF Loads, OneIdOneHandoff
<1>7. MirrorCovers'
  <2>1. \A files : Mirrored(files) => Mirrored(files)'
    BY <1>1 DEF Mirrored
  <2>2. \A n \in Machines : Mirrored(cloud[n])'
    <3>1. Mirrored(cloud[m])'
      <4> SUFFICES ASSUME NEW f \in Files \ crossed' PROVE cloud'[m][f] \in Covered(f, server[f])'
        BY DEF Mirrored
      <4>1. CASE cloud'[m][f] = cloud[m][f] /\ server'[f] = server[f]
        <5>1. cloud[m][f] \in Covered(f, server[f])
          BY <1>1, HandoffTypes, HandoffAssumption DEF Loads, Order, MirrorCovers, Mirrored
        <5>2. QED
          BY <1>1, <4>1, <5>1
      <4>2. CASE cloud'[m][f] = server'[f]
        <5>1. server'[f] \in Contents
          BY DEF TypeOK
        <5>2. QED
          BY <1>5, <4>2, <5>1 DEF ContentsGrow, Covered
      <4>3. QED
        BY <1>1, <4>1, <4>2
    <3>2. \A n \in Machines \ {m} : Mirrored(cloud[n])'
      BY <1>1, <2>1 DEF Loads, MirrorCovers, Mirrored
    <3>3. QED
      BY <3>1, <3>2
  <2>3. \A o \in Machines : Mirrored(board[o].files)'
    BY <2>1 DEF Loads, MirrorCovers, Mirrored
  <2>4. \A n, o \in Machines : seen[n][o] # None => Mirrored(seen[n][o].files)'
    BY <2>1 DEF Loads, MirrorCovers, Mirrored
  <2>5. \A n \in Machines : \A r \in prog[n].pend : Mirrored(r.rec.files)'
    BY <2>1 DEF Loads, MirrorCovers
  <2>6. QED
    BY <1>3, <2>2, <2>3, <2>4, <2>5 DEF MirrorCovers
<1>8. RunsLoad'
  <2> SUFFICES ASSUME NEW n \in Machines \ loose', prog'[n].pc \in Loading PROVE RunLoads(n)'
    BY DEF RunsLoad
  <2>1. prog[n].pc \in Loading
    BY <1>2 DEF Left, Loading, At
  <2>2. RunLoads(n)
    BY <2>1 DEF Loads, RunsLoad
  <2>3. \A f \in Loaded(n)' : f \in Loaded(n) \/ (n = m /\ f \in kind /\ decision[f] # "left")
    <3>1. CASE n # m
      <4>1. prog'[n] = prog[n] /\ left'[n] = left[n]
        BY <1>2, <3>1 DEF Left
      <4>2. QED
        BY <4>1 DEF Loaded, At
    <3>2. CASE n = m
      <4>1. Loaded(m)' = IF kind = Settings /\ At(m, "settings") THEN Settings ELSE Files \ left'[m]
        BY <1>2, HandoffTypes DEF RunsOn, Loaded, At, Loads, Order
      <4>2. QED
        BY <3>2, <4>1, HandoffTypes DEF Loaded, At, Loads, Order
    <3>3. QED
      BY <3>1, <3>2
  <2> SUFFICES ASSUME NEW r \in prog[n].pend, NEW f \in Files \ crossed', r.rec.files[f] # None
               PROVE  /\ r.rec.files[f] \in Covered(f, cloud[n][f])'
                      /\ f \in Loaded(n)' => r.rec.files[f] \in Covered(f, local[n][f])'
    BY <1>3 DEF RunLoads
  <2>4. /\ r.rec.files[f] \in Covered(f, cloud[n][f])
        /\ f \in Loaded(n) => r.rec.files[f] \in Covered(f, local[n][f])
    BY <1>1, <2>2 DEF RunLoads
  <2>5. QED
    BY <1>1, <2>3, <2>4
<1>9. BasesAgree'
  <2>1. CASE UNCHANGED base
    BY <2>1 DEF Loads, BasesAgree
  <2>2. CASE kind = Settings /\ base' = [base EXCEPT ![m] = [f \in Settings |-> <<local'[m][f], cloud'[m][f]>>]]
    <3>1. \A f \in Settings : base'[m][f] = <<local'[m][f], cloud'[m][f]>>
      BY <2>2 DEF Loads, Order, TypeOK
    <3>2. \A n \in Machines \ {m} : base'[n] = base[n]
      BY <2>2 DEF Loads, Order, TypeOK
    <3>3. \A f \in Settings : decision[f] # "left"
      <4>1. left'[m] \intersect Settings = {}
        BY HandoffAssumption DEF TypeOK
      <4>2. QED
        BY <2>2, <4>1
    <3>4. QED
      BY <1>1, <2>2, <3>1, <3>2, <3>3 DEF Loads, BasesAgree
  <2>3. QED
    BY <2>1, <2>2
<1>10. PlansDecide'
  <2>1. \A n \in Machines : prog'[n].pc \in {"settings", "chats"} => prog[n].pc \in {"settings", "chats"}
    BY <1>2 DEF Left, At
  <2>2. QED
    BY <1>3, <1>4, <2>1 DEF Loads, PlansDecide, Decidable
<1>11. TakenIsHere' /\ TakenIsLoaded'
  <2> SUFFICES ASSUME NEW n \in Machines, NEW o \in Machines, n \notin loose, o # n, board[o].id # 0,
                      board[n].accepted[o] = board[o].id, NEW f \in Files \ crossed'
               PROVE  /\ board[o].files[f] \in Covered(f, cloud[n][f])'
                      /\ f \notin left'[n] => board[o].files[f] \in Covered(f, local[n][f])'
    BY DEF TakenIsHere, TakenIsLoaded
  <2>1. /\ board[o].files[f] \in Covered(f, cloud[n][f])
        /\ f \notin left[n] => board[o].files[f] \in Covered(f, local[n][f])
    BY <1>1 DEF Loads, TakenIsHere, TakenIsLoaded
  <2>2. CASE n = m /\ f \in kind /\ decision[f] # "left"
    BY <1>1, <2>1, <2>2
  <2>3. CASE n = m /\ f \in kind /\ decision[f] = "left"
    BY <1>1, <2>1, <2>3
  <2>4. CASE n = m /\ f \notin kind
    <3>1. f \notin left'[n] => f \notin left[n]
      BY <2>4, HandoffTypes DEF Loads, Order
    <3>2. QED
      BY <1>1, <2>1, <3>1
  <2>5. CASE n # m
    BY <1>1, <2>1, <2>5
  <2>6. QED
    BY <2>2, <2>3, <2>4, <2>5
<1>12. QED
  BY <1>5, <1>6, <1>7, <1>8, <1>9, <1>10, <1>11 DEF Loads

\* Codex continues what is here, under a number not used yet.
LEMMA WorkLoads ==
    ASSUME Loads, TypeOK', Order', NEW m \in Machines, NEW f \in Files, Work(m, f)
    PROVE  Loads'
<1> DEFINE new == used["write"] + 1
           old == local[m][f]
<1>1. /\ UNCHANGED <<cloud, server, base, board, seen, prog, loose, crossed, left, stray>>
      /\ new \in Contents /\ new \notin Written /\ Written' = Written \union {new} /\ old \in Contents /\ old \in Written
      /\ Written \subseteq 0..used["write"] /\ used["write"] \in Nat
  <2>1. UNCHANGED <<cloud, server, base, board, seen, prog, loose, crossed, left, stray>>
    BY DEF Work
  <2>2. used["write"] \in Nat /\ used["write"] < MaxWrites /\ used'["write"] = new
    BY DEF Work, Spend, Loads, Order, TypeOK, Bounds
  <2>3. MaxWrites \in Nat
    BY HandoffAssumption DEF HandoffAssumption
  <2>4. new \in Contents /\ new \notin Written /\ Written' = Written \union {new}
    BY <2>2, <2>3 DEF Written, Contents
  <2>5. old \in Contents /\ old \in Written
    BY HandoffTypes DEF Loads, Order, ContentsGrow
  <2> QED BY <2>1, <2>2, <2>4, <2>5 DEF Written
<1>2. /\ \A n \in Machines, g \in Files : local'[n][g] = (IF n = m /\ g = f THEN new ELSE local[n][g])
      /\ \A c \in Contents : past'[c] = (IF c = new THEN past[new] \union past[old] ELSE past[c])
      /\ \A g \in Files, c \in Contents : over'[g][c] = (IF g = f /\ c = new THEN over[f][old] ELSE over[g][c])
  BY <1>1 DEF Work, Loads, Order, TypeOK
<1>3. /\ past[new] = {new} /\ (\A g \in Files : over[g][new] = {}) /\ past[old] \subseteq Written /\ old \in past[old]
      /\ \A c \in Written : past[c] \subseteq Written
  <2>1. \A c \in Written : c \in Contents /\ c \in Nat /\ c <= used["write"]
    BY HandoffAssumption, <1>1 DEF Written, Contents, Loads, Order, TypeOK
  <2>2. \A c \in Written : past[c] \subseteq Written
    BY <1>1, <2>1 DEF Loads, ContentsGrow, Written
  <2>3. QED
    BY <1>1, <2>2 DEF Loads, ContentsGrow
<1> HIDE DEF new, old
<1>4. \A g \in Files, c \in Contents : Covered(g, c) \subseteq Covered(g, c)'
  BY <1>1, <1>2, <1>3 DEF Covered
<1>5. \A n \in Machines, g \in Files : Covered(g, local[n][g]) \subseteq Covered(g, local[n][g])'
  <2>1. Covered(f, old) \subseteq past'[new] \union over'[f][new]
    BY <1>1, <1>2, <1>3 DEF Covered
  <2>2. \A n \in Machines, g \in Files : local[n][g] \in Contents /\ Covered(g, local[n][g]) \subseteq past'[local[n][g]] \union over'[g][local[n][g]]
    BY <1>4, HandoffTypes DEF Loads, Order, Covered
  <2>3. QED
    BY <1>2, <2>1, <2>2 DEF Covered, old
<1>6. ContentsGrow'
  <2>1. \A n \in Machines, g \in Files : local'[n][g] \in Written' /\ cloud'[n][g] \in Written'
    BY <1>1, <1>2 DEF Loads, ContentsGrow
  <2>2. \A g \in Files : server'[g] \in Written'
    BY <1>1 DEF Loads, ContentsGrow
  <2>3. \A c \in Contents : c \in past'[c] /\ past'[c] \subseteq 0..c
    <3>1. past[old] \subseteq 0..new
      BY <1>1, <1>3 DEF Written, new
    <3>2. new \in 0..new
      BY <1>1 DEF new
    <3>3. QED
      BY <1>2, <1>3, <3>1, <3>2 DEF Loads, ContentsGrow
  <2>4. \A c \in Contents \ Written' : past'[c] = {c} /\ \A g \in Files : over'[g][c] = {}
    BY <1>1, <1>2 DEF Loads, ContentsGrow
  <2>5. \A b, c \in Contents : b \in past'[c] => past'[b] \subseteq past'[c]
    <3> SUFFICES ASSUME NEW b \in Contents, NEW c \in Contents, b \in past'[c] PROVE past'[b] \subseteq past'[c]
      OBVIOUS
    <3>1. CASE c # new
      <4>1. past'[c] = past[c] /\ past[b] \subseteq past[c]
        BY <1>2, <3>1 DEF Loads, ContentsGrow
      <4>2. b # new
        <5>1. CASE c \in Written
          BY <1>1, <1>3, <4>1, <5>1
        <5>2. CASE c \notin Written
          BY <3>1, <4>1, <5>2 DEF Loads, ContentsGrow
        <5>3. QED
          BY <5>1, <5>2
      <4>3. QED
        BY <1>2, <4>1, <4>2
    <3>2. CASE c = new /\ b # new
      <4>1. b \in past[old] /\ past[b] \subseteq past[old]
        BY <1>1, <1>2, <1>3, <3>2 DEF Loads, ContentsGrow
      <4>2. QED
        BY <1>1, <1>2, <3>2, <4>1
    <3>3. QED
      BY <3>1, <3>2
  <2>6. QED
    BY <2>1, <2>2, <2>3, <2>4, <2>5 DEF ContentsGrow
<1>7. OneIdOneHandoff'
  BY <1>1 DEF Loads, OneIdOneHandoff
<1>8. MirrorCovers'
  <2>1. \A g \in Files : Covered(g, server[g]) \subseteq Covered(g, server[g])'
    BY <1>1, <1>4, HandoffTypes DEF Loads, Order, Covered
  <2>2. \A files : Mirrored(files) => Mirrored(files)'
    BY <1>1, <2>1 DEF Mirrored
  <2>3. \A n \in Machines : Mirrored(cloud[n])'
    BY <1>1, <2>2 DEF Loads, MirrorCovers, Mirrored
  <2>4. \A o \in Machines : Mirrored(board[o].files)'
    BY <1>1, <2>2 DEF Loads, MirrorCovers, Mirrored
  <2>5. \A n, o \in Machines : seen[n][o] # None => Mirrored(seen[n][o].files)'
    BY <1>1, <2>2 DEF Loads, MirrorCovers, Mirrored
  <2>6. \A n \in Machines : \A r \in prog[n].pend : Mirrored(r.rec.files)'
    BY <2>2 DEF Loads, MirrorCovers
  <2>7. QED
    BY <1>1, <2>3, <2>4, <2>5, <2>6 DEF MirrorCovers
<1>9. RunsLoad'
  <2> SUFFICES ASSUME NEW n \in Machines \ loose, prog[n].pc \in Loading PROVE RunLoads(n)'
    BY <1>1 DEF RunsLoad
  <2>1. RunLoads(n) /\ Loaded(n)' = Loaded(n)
    BY <1>1 DEF Loads, RunsLoad, Loaded, At
  <2>2. \A g \in Files : Covered(g, cloud[n][g]) \subseteq Covered(g, cloud[n][g])'
    BY <1>1, <1>4, HandoffTypes DEF Loads, Order, Covered
  <2>3. QED
    BY <1>1, <1>5, <2>1, <2>2 DEF RunLoads
<1>10. BasesAgree'
  BY <1>1 DEF Loads, BasesAgree
<1>11. PlansDecide'
  <2> SUFFICES ASSUME NEW n \in Machines, prog[n].pc \in {"settings", "chats"}, NEW g \in Chats \ prog[n].limited
               PROVE  Decidable(n, prog[n].chats[g][1], prog[n].chats[g][2])'
    BY <1>1 DEF PlansDecide
  <2>1. Decidable(n, prog[n].chats[g][1], prog[n].chats[g][2])
    BY DEF Loads, PlansDecide
  <2>2. \A c \in Written : c \in Contents
    BY HandoffAssumption, <1>1 DEF Written, Contents, HandoffAssumption
  <2>3. QED
    BY <1>1, <1>2, <2>1, <2>2 DEF Decidable
<1>12. TakenIsLoaded' /\ TakenIsHere' /\ LeftIsStray'
  <2>1. \A n \in Machines, g \in Files : Covered(g, cloud[n][g]) \subseteq Covered(g, cloud[n][g])'
    BY <1>1, <1>4, HandoffTypes DEF Loads, Order, Covered
  <2>2. QED
    BY <1>1, <1>5, <2>1 DEF Loads, TakenIsLoaded, TakenIsHere, LeftIsStray
<1>13. QED
  BY <1>6, <1>7, <1>8, <1>9, <1>10, <1>11, <1>12 DEF Loads

\* What a machine that writes its record names is what it named before, nothing, or what
\* is in its replica, under an id that no copy has.
Renames(m) ==
    \/ board'[m].id = board[m].id /\ board'[m].files = board[m].files
    \/ board'[m].id = 0 /\ \A f \in Files : board'[m].files[f] = None
    \/ board'[m].id > used["handoff"] /\ board'[m].files = cloud[m]

\* What was loaded stays loaded when a record is written: what it newly takes, the run
\* that writes it has loaded.
LEMMA RewriteLoads ==
    ASSUME Loads, Order', NEW m \in Machines, Rewrites(m), Renames(m),
           \A o \in Machines : board'[m].accepted[o] \in {0, board[m].accepted[o]} \/ At(m, "record"),
           UNCHANGED <<local, cloud, server, base, seen, past, over, loose, crossed, left, stray>>,
           used'["write"] = used["write"],
           \A n \in Machines \ {m} : prog'[n] = prog[n],
           prog'[m].pend = {}, prog'[m].pc \notin Loading
    PROVE  Loads'
<1>1. Written' = Written /\ \A f, c : Covered(f, c)' = Covered(f, c)
  BY DEF Written, Covered
<1>2. ContentsGrow' /\ BasesAgree' /\ LeftIsStray'
  BY <1>1 DEF Loads, ContentsGrow, BasesAgree, LeftIsStray
<1>3. \A o \in Machines \ {m} : board'[o] = board[o]
  BY DEF Rewrites
<1>4. \A o \in Machines : /\ board[o].id \in Nat /\ board'[o].id \in Nat
                          /\ board'[o].id # 0 /\ board'[o].id <= used["handoff"] =>
                                board'[o].id = board[o].id /\ board'[o].files = board[o].files
  BY <1>3, IdsAreNumbers, NewIdsAreNumbers DEF Renames, Loads, Order
<1>5. OneIdOneHandoff'
  <2>1. \A o \in Machines : board'[o].id # 0 => \A f \in Files : board'[o].files[f] # None
    <3>1. \A f \in Files : cloud[m][f] # None
      BY HandoffTypes, HandoffAssumption DEF Loads, Order
    <3>2. QED
      BY <1>3, <3>1 DEF Renames, Loads, OneIdOneHandoff
  <2>2. ASSUME NEW n \in Machines, NEW o \in Machines, seen[n][o] # None, board'[o].id # 0, seen[n][o].id = board'[o].id
        PROVE  seen[n][o].files = board'[o].files
    <3>1. seen[n][o].id <= used["handoff"]
      BY <2>2 DEF Loads, Order, Spent
    <3>2. board'[o].id = board[o].id /\ board'[o].files = board[o].files
      BY <1>4, <2>2, <3>1
    <3>3. QED
      BY <2>2, <3>2 DEF Loads, OneIdOneHandoff
  <2>3. ASSUME NEW n \in Machines, NEW r \in prog'[n].pend, r.rec.id = board'[r.from].id
        PROVE  r.rec.files = board'[r.from].files
    <3>1. r \in prog[n].pend
      BY <2>3
    <3>2. r.from \in Machines /\ r.rec.id # 0 /\ r.rec.id <= used["handoff"]
      BY <3>1, IdsAreNumbers DEF Loads, Order, RunIsBetween, Spent
    <3>3. board'[r.from].id = board[r.from].id /\ board'[r.from].files = board[r.from].files
      BY <1>4, <2>3, <3>2
    <3>4. QED
      BY <2>3, <3>1, <3>3 DEF Loads, OneIdOneHandoff
  <2>4. QED
    BY <2>1, <2>2, <2>3 DEF OneIdOneHandoff
<1>6. MirrorCovers'
  <2>1. \A files : Mirrored(files)' <=> Mirrored(files)
    BY <1>1 DEF Mirrored
  <2>2. Mirrored(board'[m].files)
    <3>1. CASE \A f \in Files : board'[m].files[f] = None
      BY <3>1 DEF Mirrored
    <3>2. CASE board'[m].files = board[m].files \/ board'[m].files = cloud[m]
      BY <3>2 DEF Loads, MirrorCovers
    <3>3. QED
      BY <3>1, <3>2 DEF Renames
  <2>3. \A o \in Machines : Mirrored(board'[o].files)
    BY <1>3, <2>2 DEF Loads, MirrorCovers
  <2>4. \A o \in Machines : Mirrored(board[o].files)'
    BY <1>1, <2>3 DEF Mirrored
  <2>5. \A n \in Machines : Mirrored(cloud[n])'
    BY <1>1 DEF Loads, MirrorCovers, Mirrored
  <2>6. \A n, o \in Machines : seen'[n][o] # None => Mirrored(seen[n][o].files)'
    BY <1>1 DEF Loads, MirrorCovers, Mirrored
  <2>7. \A n \in Machines : \A r \in prog'[n].pend : r \in prog[n].pend
    OBVIOUS
  <2>8. \A n \in Machines : \A r \in prog'[n].pend : Mirrored(r.rec.files)'
    BY <2>1, <2>7 DEF Loads, MirrorCovers
  <2>9. QED
    BY <2>4, <2>5, <2>6, <2>8 DEF MirrorCovers
<1>7. RunsLoad'
  <2> SUFFICES ASSUME NEW n \in Machines \ loose', prog'[n].pc \in Loading PROVE RunLoads(n)'
    BY DEF RunsLoad
  <2>1. n # m
    BY DEF Loading
  <2>2. QED
    BY <1>1, <2>1 DEF Loads, RunsLoad, RunLoads, Loaded, At
<1>8. PlansDecide'
  BY <1>1 DEF Loads, PlansDecide, Decidable, Loading
<1>9. TakenIsHere' /\ TakenIsLoaded'
  <2> SUFFICES ASSUME NEW n \in Machines, NEW o \in Machines, n \notin loose, o # n, board'[o].id # 0,
                      board'[n].accepted[o] = board'[o].id, NEW f \in Files \ crossed
               PROVE  /\ board'[o].files[f] \in Covered(f, cloud[n][f])
                      /\ f \notin left[n] => board'[o].files[f] \in Covered(f, local[n][f])
    BY <1>1 DEF TakenIsHere, TakenIsLoaded
  <2>1. ASSUME board'[n].accepted[o] = board[n].accepted[o],
               board'[o].id = board[o].id, board'[o].files = board[o].files
        PROVE  /\ board'[o].files[f] \in Covered(f, cloud[n][f])
               /\ f \notin left[n] => board'[o].files[f] \in Covered(f, local[n][f])
    BY <2>1 DEF Loads, TakenIsHere, TakenIsLoaded
  <2>2. CASE n # m
    <3>1. board'[n] = board[n]
      BY <1>3, <2>2
    <3>2. board'[o].id <= used["handoff"]
      BY <3>1 DEF Loads, Order, Spent
    <3>3. board'[o].id = board[o].id /\ board'[o].files = board[o].files
      BY <1>4, <3>2
    <3>4. QED
      BY <2>1, <3>1, <3>3
  <2>3. CASE n = m /\ board'[m].accepted[o] \in {0, board[m].accepted[o]}
    BY <1>3, <2>1, <2>3
  <2>4. CASE n = m /\ board'[m].accepted[o] \notin {0, board[m].accepted[o]}
    <3>1. PICK r \in prog[m].pend : r.from = o /\ r.rec.id = board[o].id
      BY <1>3, <2>4 DEF Rewrites
    <3>2. board'[o] = board[o] /\ r.rec.files = board[o].files /\ board[o].files[f] # None
      BY <1>3, <2>4, <3>1 DEF Loads, OneIdOneHandoff
    <3>3. At(m, "record") /\ RunLoads(m) /\ Loaded(m) = Files \ left[m]
      BY <2>4 DEF Loads, RunsLoad, Loading, Loaded, At
    <3>4. QED
      BY <2>4, <3>1, <3>2, <3>3 DEF RunLoads
  <2>5. QED
    BY <2>2, <2>3, <2>4
<1>10. QED
  BY <1>2, <1>5, <1>6, <1>7, <1>8, <1>9 DEF Loads

\* A handoff that is recorded was loaded, whatever it names; its own names are in the mirror.
LEMMA RecordLoads ==
    ASSUME Loads, Order', NEW m \in Machines, RecordHandoff(m)
    PROVE  Loads'
<1>1. /\ UNCHANGED <<local, cloud, server, base, seen, past, over, loose, crossed, left, stray>>
      /\ At(m, "record") /\ used'["write"] = used["write"]
  BY DEF RecordHandoff, Surroundings, Loads, Order, TypeOK, Bounds
<1>2. /\ \A n \in Machines \ {m} : prog'[n] = prog[n]
      /\ prog'[m].pend = {} /\ prog'[m].pc \notin Loading
  BY DEF RecordHandoff, Quit, Ended, Idle, Loads, Order, TypeOK, Loading
<1>3. Rewrites(m)
  BY Recorded DEF Loads
<1>4. PICK read \in BOOLEAN : board' = [board EXCEPT ![m] = HandedOff(m, Own(m, read), used["handoff"] + 1)]
  BY DEF RecordHandoff
<1>5. board'[m] = HandedOff(m, Own(m, read), used["handoff"] + 1) /\ used["handoff"] \in Nat
  BY <1>4 DEF Loads, Order, TypeOK, Bounds
<1>6. CASE prog[m].wrote # {}
  <2>1. board'[m].id = used["handoff"] + 1 /\ board'[m].files = cloud[m]
    BY <1>5, <1>6 DEF HandedOff
  <2>2. Renames(m)
    BY <1>5, <2>1 DEF Renames
  <2>3. QED
    BY <1>1, <1>2, <1>3, <2>2, RewriteLoads
<1>7. CASE prog[m].wrote = {}
  <2>1. board'[m].id = Own(m, read).id /\ board'[m].files = Own(m, read).files
    BY <1>5, <1>7 DEF HandedOff
  <2>2. Renames(m)
    BY <2>1 DEF Renames, Own, Blank
  <2>3. QED
    BY <1>1, <1>2, <1>3, <2>2, RewriteLoads
<1>8. QED
  BY <1>6, <1>7

\* Marking a machine takes and names nothing new.
LEMMA MarkLoads ==
    ASSUME Loads, Order', NEW m \in Machines, CodexStarted(m), UNCHANGED Surroundings
    PROVE  Loads'
<1>1. PICK read \in BOOLEAN : Reads(m, read) /\ board' = [board EXCEPT ![m] = Working(Own(m, read))]
  BY DEF CodexStarted
<1>2. Rewrites(m)
  BY <1>1, Marked DEF Loads
<1>3. board \in [Machines -> Record] /\ prog \in [Machines -> Program] /\ Own(m, read) \in Record
  BY OwnType DEF Loads, Order, TypeOK
<1>4. /\ board'[m].id = Own(m, read).id /\ board'[m].files = Own(m, read).files
      /\ board'[m].accepted = Own(m, read).accepted
  BY <1>1, <1>3 DEF Working, Record
<1>5. Renames(m) /\ \A o \in Machines : board'[m].accepted[o] \in {0, board[m].accepted[o]}
  BY <1>4 DEF Renames, Own, Blank
<1>6. used'["write"] = used["write"]
  BY <1>1 DEF Reads, Mishap, Loads, Order, TypeOK, Bounds, Mishaps
<1>7. prog'[m].pend = {} /\ prog'[m].pc \notin Loading /\ \A n \in Machines \ {m} : prog'[n] = prog[n]
  BY <1>3 DEF CodexStarted, Idle, Loading
<1>8. QED
  BY <1>2, <1>5, <1>6, <1>7, RewriteLoads DEF Surroundings

\* A step of the watcher loads nothing.
LEMMA WatchLoads ==
    ASSUME Loads, Order', NEW m \in Machines, Watch(m)
    PROVE  Loads'
<1>1. UNCHANGED Surroundings
  BY DEF Watch, StartWatch, StartUnsure, PollOpened, PollClosed, MarkFails
<1>2. CASE CodexStarted(m)
  BY <1>1, <1>2, MarkLoads
<1>3. CASE ~CodexStarted(m)
  <2>1. Idle.pend = {} /\ Idle.pc = "off" /\ prog \in [Machines -> Program]
    BY DEF Idle, Loads, Order, TypeOK
  <2>2. board' = board /\ used'["write"] = used["write"]
    BY <1>3 DEF Watch, StartWatch, StartUnsure, PollOpened, PollClosed, MarkFails, Attempt, Mishap,
           Loads, Order, TypeOK, Bounds, Mishaps
  <2>3. \A n \in Machines : prog'[n] = prog[n] \/ (prog'[n].pend = {} /\ prog'[n].pc \notin Loading)
    <3>1. CASE StartUnsure(m) \/ MarkFails(m)
      <4>1. PICK now \in {[Idle EXCEPT !.pc = "watch"], [Idle EXCEPT !.last = "open", !.pc = "watch"]} :
              prog' = [prog EXCEPT ![m] = now]
        BY <3>1 DEF StartUnsure, MarkFails
      <4>2. now.pend = {} /\ now.pc = "watch"
        BY DEF Idle
      <4>3. QED
        BY <2>1, <4>1, <4>2 DEF Loading
    <3>2. CASE Attempt(m, "closed", FALSE)
      BY <2>1, <3>2 DEF Attempt, Idle, Loading
    <3>3. QED
      BY <1>3, <3>1, <3>2 DEF Watch, StartWatch, PollOpened, PollClosed
  <2>4. QED
    BY <1>1, <2>2, <2>3, QuietLoads DEF Surroundings
<1>4. QED
  BY <1>2, <1>3

\* A run that ends has loaded what it loaded.
LEMMA EndLoads ==
    ASSUME Loads, Order', NEW m \in Machines,
           prog' = [prog EXCEPT ![m] = Ended(m)] \/ prog' = [prog EXCEPT ![m] = Idle],
           UNCHANGED <<board, local, cloud, server, base, seen, past, over, crossed, loose, left, stray>>,
           used'["write"] = used["write"]
    PROVE  Loads'
<1>1. prog \in [Machines -> Program]
  BY DEF Loads, Order, TypeOK
<1>2. Idle.pend = {} /\ Idle.pc \notin Loading /\ Ended(m).pend = {} /\ Ended(m).pc \notin Loading
  BY DEF Idle, Ended, Loading
<1>3. \A n \in Machines : prog'[n] = prog[n] \/ (prog'[n].pend = {} /\ prog'[n].pc \notin Loading)
  BY <1>1, <1>2
<1>4. QED
  BY <1>3, QuietLoads

\* A step of a run.
LEMMA RunKeepsLoads ==
    ASSUME Loads, TypeOK', Order', NEW m \in Machines, Run(m)
    PROVE  Loads'
<1>1. CASE Begin(m)
  BY <1>1, BeginLoads
<1>2. CASE Arrived(m)
  BY <1>2, ArriveLoads DEF Arrived, Go, Surroundings
<1>3. CASE NotDelivered(m)
  <2>1. CASE prog[m].accept
    BY <1>3, <2>1, ArriveLoads DEF NotDelivered, Go
  <2>2. CASE ~prog[m].accept
    BY <1>3, <2>2, EndLoads DEF NotDelivered, Quit
  <2>3. QED
    BY <2>1, <2>2
<1>4. CASE Plan(m)
  BY <1>4, PlanLoads
<1>5. CASE SyncSettings(m)
  <2> DEFINE decision == [f \in Settings |-> SettingDecision(m, f)]
  <2>1. /\ Apply(m, Settings, decision) /\ At(m, "settings")
        /\ UNCHANGED <<board, seen, past, loose, left, stray, used>>
        /\ base' = [base EXCEPT ![m] = [f \in Settings |-> <<local'[m][f], cloud'[m][f]>>]]
    BY <1>5 DEF SyncSettings
  <2>2. \A f \in Settings : decision[f] \in {"to_local", "to_cloud"} \/ (decision[f] = "nothing" /\ local[m][f] = cloud[m][f])
    BY <1>5, SettingsDecided
  <2>3. Settings \in SUBSET Files
    BY DEF Files
  <2>4. LeftIsStray'
    BY <2>1 DEF Loads, LeftIsStray
  <2> HIDE DEF decision
  <2>5. QED
    BY <2>1, <2>2, <2>3, <2>4, HalfLoads
<1>6. CASE SyncChats(m)
  <2> DEFINE decision == [f \in Chats |-> ChatDecision(m, f, prog[m].limited)]
  <2>1. Apply(m, Chats, decision) /\ At(m, "chats") /\ UNCHANGED <<board, base, seen, past, loose, used>>
    BY <1>6 DEF SyncChats
  <2>2. /\ left'[m] = prog[m].limited /\ \A n \in Machines \ {m} : left'[n] = left[n]
        /\ LeftIsStray'
    BY <1>6 DEF SyncChats, Loads, Order, TypeOK, LeftIsStray
  <2>3. \A f \in Chats : \/ decision[f] \in {"to_local", "to_cloud"}
                         \/ decision[f] = "nothing" /\ local[m][f] = cloud[m][f]
                         \/ decision[f] = "left" /\ f \in left'[m]
    BY <1>6, <2>2, ChatsDecided
  <2>4. Chats \in SUBSET Files
    BY DEF Files
  <2> HIDE DEF decision
  <2>5. QED
    BY <2>1, <2>2, <2>3, <2>4, HalfLoads
<1>7. CASE RecordHandoff(m)
  BY <1>7, RecordLoads
<1>8. CASE Refused(m)
  BY <1>8, EndLoads DEF Refused, Stop, StopsAt, Surroundings
<1>9. CASE Fail(m)
  <2>1. used'["write"] = used["write"]
    BY <1>9 DEF Fail, Mishap, Loads, Order, TypeOK, Bounds, Mishaps
  <2>2. QED
    BY <1>9, <2>1, EndLoads DEF Fail, Stop, StopsAt, Surroundings
<1>10. QED
  BY <1>1, <1>2, <1>3, <1>4, <1>5, <1>6, <1>7, <1>8, <1>9 DEF Run

\* What a person does.
LEMMA PersonLoads ==
    ASSUME Loads, TypeOK', Order', NEW m \in Machines, Person(m)
    PROVE  Loads'
<1>0. prog \in [Machines -> Program] /\ used \in [Bounds -> Nat] /\ "write" \in Bounds /\ "breach" # "write"
  BY DEF Loads, Order, TypeOK, Bounds, Mishaps
<1>1. ASSUME NEW accept, ByHand(m, accept) PROVE Loads'
  <2>1. used'["write"] = used["write"] /\ UNCHANGED <<board, local, cloud, server, base, seen, past, over, crossed, loose, left, stray>>
    BY <1>0, <1>1 DEF ByHand, Attempt, Mishap, Surroundings
  <2>2. \A n \in Machines : prog'[n] = prog[n] \/ (prog'[n].pend = {} /\ prog'[n].pc \notin Loading)
    BY <1>0, <1>1 DEF ByHand, Attempt, Idle, Loading
  <2>3. QED
    BY <2>1, <2>2, QuietLoads
<1>2. CASE OpenCodex(m)
  <2>1. used'["write"] = used["write"]
    BY <1>0, <1>2 DEF OpenCodex
  <2>2. QED
    BY <1>2, <2>1, QuietLoads DEF OpenCodex
<1>3. CASE CloseCodex(m)
  <2>1. used'["write"] = used["write"]
    BY <1>0, <1>3 DEF CloseCodex, Mishap
  <2>2. QED
    BY <1>3, <2>1, QuietLoads DEF CloseCodex, Surroundings
<1>4. ASSUME NEW f \in Files, Work(m, f) PROVE Loads'
  BY <1>4, WorkLoads
<1>5. QED
  BY <1>1, <1>2, <1>3, <1>4 DEF Person

\* Every step keeps what was loaded.
LEMMA LoadsStep == Loads /\ [Next]_vars => Loads'
<1> SUFFICES ASSUME Loads, [Next]_vars PROVE Loads'
  OBVIOUS
<1>1. Order' /\ TypeOK'
  BY OrderStep, TypeStep DEF Loads, Order
<1>2. CASE UNCHANGED vars
  BY <1>1, <1>2, QuietLoads DEF vars
<1>3. ASSUME NEW m \in Machines, Crash(m) PROVE Loads'
  <2>1. used'["write"] = used["write"]
    BY <1>3 DEF Crash, Mishap, Loads, Order, TypeOK, Bounds, Mishaps
  <2>2. QED
    BY <1>1, <1>3, <2>1, EndLoads DEF Crash, Surroundings
<1>4. CASE Deliver
  BY <1>1, <1>4, FileLoads, DeliverLoads DEF Deliver
<1>5. CASE Next
  BY <1>1, <1>3, <1>4, <1>5, WatchLoads, RunKeepsLoads, PersonLoads DEF Next
<1>6. QED
  BY <1>2, <1>5

\* A handoff is recorded as taken only when all it named was loaded, or a rule
\* of the person decided otherwise, but for the chats that the last sync here left
\* in the mirror: for any number of machines, whatever the cloud client brings in
\* whatever order, whatever fails in between, and also where a machine wrote its
\* record without reading it.
THEOREM TakenWasLoaded == Spec => []TakenIsLoaded
<1>1. Loads => TakenIsLoaded
  BY DEF Loads
<1>2. QED
  BY <1>1, InitLoads, LoadsStep, PTL DEF Spec

-----------------------------------------------------------------------------
(***************************************************************************)
(* Who says handed off has its work in the mirror.  As long as everyone    *)
(* keeps to the protocol, there is one machine at a time with anything to  *)
(* save, and it is the one whose replica is the newest; all others only    *)
(* load.  A machine comes to write when its person opens Codex, which the  *)
(* protocol allows once it has taken what every board says; and the boards *)
(* together name all of the mirror.  All of it is said of the files no     *)
(* limit ever left behind: the others go their own way (stray), and may    *)
(* even be uploaded over what did not arrive (crossed).                    *)
(***************************************************************************)
Safe == Orderly /\ half = {} /\ misled = {} /\ \A m \in Machines : forgot[m] = 0
Unsaved(m, f) == board[m].state = "working" \/ f \in touched[m]
Busy(m) == m \in codex \/ board[m].state = "working" \/ touched[m] # {} \/ prog[m].wrote \ stray # {}

\* The person waived nothing, and no rule had to drop anything.
ByProtocol ==
    /\ loose = {} /\ crossed \subseteq stray
    /\ \A f \in Files \ stray, c \in Contents : over[f][c] \subseteq past[c]
    /\ \A m \in Machines :
        /\ ~prog[m].accept
        /\ prog[m].pc \in Loading \union {"wait"} => m \notin codex
        /\ prog[m].wrote # {} => prog[m].pc \in {"chats", "record"}
OneWriter == \A m, o \in Machines : Busy(m) /\ Busy(o) => m = o
\* The one that writes continues the newest of the mirror.
Current(m, f) ==
    /\ cloud[m][f] = server[f] /\ server[f] \in past[local[m][f]]
    /\ f \in Settings => base[m][f][1] = server[f]
    /\ f \in Loaded(m) => local[m][f] = server[f]
WriterIsCurrent == \A m \in Machines, f \in Files \ stray : Busy(m) => Current(m, f)
\* Whatever is not waiting to be saved is in the replica.
Behind(m, f) ==
    /\ local[m][f] \in past[cloud[m][f]]
    /\ f \in Settings => local[m][f] = base[m][f][1]
OthersAreBehind ==
    \A m \in Machines, f \in Files \ stray :
        Behind(m, f) \/ (Unsaved(m, f) /\ f \notin Loaded(m))
\* A machine names it that has it.
Named(f) ==
    \E o \in Machines :
        /\ board[o].id # 0 /\ board[o].files[f] # None
        /\ server[f] \in past[board[o].files[f]]
        /\ board[o].files[f] \in past[local[o][f]]
MirrorIsNamed ==
    \A f \in Files \ stray :
        (\E m \in Machines : f \in prog[m].wrote) \/ server[f] = 0 \/ Named(f)
Kept == ByProtocol /\ OneWriter /\ WriterIsCurrent /\ OthersAreBehind /\ MirrorIsNamed
Protocol == Safe => Kept

\* Nobody has anything to save at first.
LEMMA InitKept == Init => Kept
<1> SUFFICES ASSUME Init PROVE Kept
  OBVIOUS
<1>1. /\ \A m \in Machines : /\ prog[m] = Idle /\ board[m] = Blank /\ touched[m] = {}
                             /\ \A f \in Files : local[m][f] = 0 /\ cloud[m][f] = 0
                             /\ \A f \in Settings : base[m][f][1] = 0
      /\ \A f \in Files : server[f] = 0
      /\ codex = {} /\ loose = {} /\ crossed = {}
  BY DEF Init
<1>2. /\ Idle.pc = "off" /\ ~Idle.accept /\ Idle.wrote = {}
      /\ Blank.state = "handed_off"
  BY DEF Idle, Blank
<1>3. 0 \in Contents /\ 0 \in past[0] /\ \A f \in Files, c \in Contents : over[f][c] = {}
  BY HandoffAssumption DEF Init, Contents
<1>4. \A m \in Machines : ~Busy(m)
  BY <1>1, <1>2 DEF Busy
<1>5. ByProtocol
  BY <1>1, <1>2, <1>3 DEF ByProtocol, Loading
<1>6. OneWriter /\ WriterIsCurrent
  BY <1>4 DEF OneWriter, WriterIsCurrent
<1>7. OthersAreBehind
  BY <1>1, <1>3 DEF OthersAreBehind, Behind
<1>8. MirrorIsNamed
  BY <1>1 DEF MirrorIsNamed
<1>9. QED
  BY <1>5, <1>6, <1>7, <1>8 DEF Kept

\* A record written anew is counted for good.
LEMMA ForgotGrows == ASSUME TypeOK, [Next]_vars, NEW m \in Machines, forgot'[m] = 0 PROVE forgot[m] = 0
<1>1. \/ UNCHANGED forgot
      \/ \E o \in Machines : forgot' = [forgot EXCEPT ![o] = @ + 1]
  <2>1. ASSUME NEW x \in Machines, Watch(x) PROVE UNCHANGED forgot \/ forgot' = [forgot EXCEPT ![x] = @ + 1]
    BY <2>1 DEF Watch, StartWatch, StartUnsure, PollOpened, PollClosed, MarkFails,
           CodexStarted, Attempt, Writes
  <2>2. ASSUME NEW x \in Machines, Run(x) PROVE UNCHANGED forgot \/ forgot' = [forgot EXCEPT ![x] = @ + 1]
    BY <2>2 DEF Run, Begin, Arrived, NotDelivered, Plan, SyncSettings, SyncChats, Refused, Fail,
           RecordHandoff, Writes
  <2>3. ASSUME NEW x \in Machines, Person(x) PROVE UNCHANGED forgot \/ forgot' = [forgot EXCEPT ![x] = @ + 1]
    BY <2>3 DEF Person, ByHand, Attempt, OpenCodex, CloseCodex, Work
  <2>4. ASSUME NEW x \in Machines, Crash(x) PROVE UNCHANGED forgot \/ forgot' = [forgot EXCEPT ![x] = @ + 1]
    BY <2>4 DEF Crash
  <2>5. ASSUME Deliver PROVE UNCHANGED forgot
    BY <2>5 DEF Deliver, DeliverFile, DeliverBoard, DeliverPart
  <2>6. QED
    BY <2>1, <2>2, <2>3, <2>4, <2>5 DEF Next, vars
<1>2. forgot \in [Machines -> Nat]
  BY DEF TypeOK
<1>3. QED
  BY <1>1, <1>2

\* The protocol, once left, stays left.
LEMMA SafeBefore == ASSUME TypeOK, [Next]_vars, Safe' PROVE Safe
<1>1. used \in [Bounds -> Nat] /\ "breach" \in Bounds /\ used["breach"] \in Nat
  BY DEF TypeOK, Bounds, Mishaps
<1>2. used'["breach"] = used["breach"] \/ used'["breach"] = used["breach"] + 1
  <2>1. \/ UNCHANGED used
        \/ \E what \in {"write", "failure", "breach"} : used' = [used EXCEPT ![what] = @ + 1]
        \/ \E m \in Machines : OpenCodex(m) \/ RecordHandoff(m) \/ Plan(m)
    <3>1. ASSUME NEW m \in Machines, Watch(m) PROVE
             \/ UNCHANGED used
             \/ \E what \in {"write", "failure", "breach"} : used' = [used EXCEPT ![what] = @ + 1]
             \/ OpenCodex(m) \/ RecordHandoff(m) \/ Plan(m)
      BY <3>1 DEF Watch, StartWatch, StartUnsure, PollOpened, PollClosed, MarkFails,
             CodexStarted, Attempt, Reads, Mishap
    <3>2. ASSUME NEW m \in Machines, Run(m) PROVE
             \/ UNCHANGED used
             \/ \E what \in {"write", "failure", "breach"} : used' = [used EXCEPT ![what] = @ + 1]
             \/ OpenCodex(m) \/ RecordHandoff(m) \/ Plan(m)
      BY <3>2 DEF Run, Begin, Arrived, NotDelivered, SyncSettings, SyncChats, Refused, Fail, Reads, Mishap
    <3>3. ASSUME NEW m \in Machines, Person(m) PROVE
             \/ UNCHANGED used
             \/ \E what \in {"write", "failure", "breach"} : used' = [used EXCEPT ![what] = @ + 1]
             \/ OpenCodex(m) \/ RecordHandoff(m) \/ Plan(m)
      BY <3>3 DEF Person, ByHand, Attempt, CloseCodex, Work, Mishap, Spend
    <3>4. ASSUME NEW m \in Machines, Crash(m) PROVE
             \/ UNCHANGED used
             \/ \E what \in {"write", "failure", "breach"} : used' = [used EXCEPT ![what] = @ + 1]
             \/ OpenCodex(m) \/ RecordHandoff(m) \/ Plan(m)
      BY <3>4 DEF Crash, Mishap
    <3>5. ASSUME Deliver PROVE
             \/ UNCHANGED used
             \/ \E what \in {"write", "failure", "breach"} : used' = [used EXCEPT ![what] = @ + 1]
      BY <3>5 DEF Deliver, DeliverFile, DeliverBoard, DeliverPart, Mishap
    <3>6. QED
      BY <3>1, <3>2, <3>3, <3>4, <3>5 DEF Next, vars
  <2>2. ASSUME NEW what \in {"write", "failure", "breach"}, used' = [used EXCEPT ![what] = @ + 1]
        PROVE  used'["breach"] = used["breach"] \/ used'["breach"] = used["breach"] + 1
    BY <1>1, <2>2
  <2>3. ASSUME NEW m \in Machines, OpenCodex(m)
        PROVE  used'["breach"] = used["breach"] \/ used'["breach"] = used["breach"] + 1
    BY <1>1, <2>3 DEF OpenCodex
  <2>4. ASSUME NEW m \in Machines, RecordHandoff(m) PROVE used'["breach"] = used["breach"]
    <3>1. PICK i, j : used' = [used EXCEPT !["handoff"] = i, !["failure"] = j]
      BY <2>4 DEF RecordHandoff
    <3>2. QED
      BY <1>1, <3>1
  <2>5. ASSUME NEW m \in Machines, Plan(m) PROVE used'["breach"] = used["breach"]
    <3>1. UNCHANGED used \/ Mishap("failure")
      BY <2>5 DEF Plan
    <3>2. QED
      BY <1>1, <3>1 DEF Mishap
  <2>6. QED
    BY <2>1, <2>2, <2>3, <2>4, <2>5
<1>3. half \subseteq half' /\ misled \subseteq misled'
  <2>1. ASSUME NEW m \in Machines, Watch(m) PROVE half \subseteq half' /\ misled \subseteq misled'
    BY <2>1 DEF Watch, StartWatch, StartUnsure, PollOpened, PollClosed, MarkFails, Surroundings
  <2>2. ASSUME NEW m \in Machines, Run(m) PROVE half \subseteq half' /\ misled \subseteq misled'
    BY <2>2 DEF Run, Begin, Arrived, NotDelivered, Plan, SyncSettings, SyncChats, RecordHandoff, Refused,
           Fail, Stop, Surroundings
  <2>3. ASSUME NEW m \in Machines, Person(m) PROVE half \subseteq half' /\ misled \subseteq misled'
    BY <2>3 DEF Person, ByHand, OpenCodex, CloseCodex, Work, Surroundings
  <2>4. ASSUME NEW m \in Machines, Crash(m) PROVE half \subseteq half' /\ misled \subseteq misled'
    BY <2>4 DEF Crash, Surroundings
  <2>5. ASSUME Deliver PROVE half \subseteq half' /\ misled \subseteq misled'
    BY <2>5 DEF Deliver, DeliverFile, DeliverBoard, DeliverPart
  <2>6. QED
    BY <2>1, <2>2, <2>3, <2>4, <2>5 DEF Next, vars
<1>4. QED
  BY <1>1, <1>2, <1>3, ForgotGrows DEF Safe, Orderly

\* Two contents that continue each other are one; what a replica has, the mirror continues.
LEMMA PastFacts ==
    ASSUME Loads, ByProtocol
    PROVE  /\ \A b, c \in Contents : b \in past[c] /\ c \in past[b] => b = c
           /\ \A a, b, c \in Contents : a \in past[b] /\ b \in past[c] => a \in past[c]
           /\ \A f \in Files \ stray, c \in Contents : Covered(f, c) = past[c]
           /\ \A m \in Machines, f \in Files \ stray : cloud[m][f] \in past[server[f]]
           /\ \A f \in Files : server[f] = 0 => past[server[f]] = {0}
<1>1. Contents \subseteq Nat /\ None \notin Contents
  BY HandoffTypes, HandoffAssumption DEF Loads, Order
<1>2. \A b, c \in Contents : b \in past[c] => b <= c
  BY <1>1 DEF Loads, ContentsGrow
<1>3. \A b, c \in Contents : b \in past[c] /\ c \in past[b] => b = c
  BY <1>1, <1>2
<1>4. \A f \in Files \ stray, c \in Contents : Covered(f, c) = past[c]
  BY DEF ByProtocol, Covered
<1>5. ASSUME NEW m \in Machines, NEW f \in Files \ stray PROVE cloud[m][f] \in past[server[f]]
  <2>1. cloud[m][f] \in Contents /\ server[f] \in Contents /\ f \notin crossed
    BY HandoffTypes DEF Loads, Order, ByProtocol
  <2>2. cloud[m][f] # None
    BY <1>1, <2>1
  <2>3. cloud[m][f] \in Covered(f, server[f])
    BY <2>1, <2>2 DEF Loads, MirrorCovers, Mirrored
  <2>4. QED
    BY <1>4, <2>1, <2>3
<1>6. \A a, b, c \in Contents : a \in past[b] /\ b \in past[c] => a \in past[c]
  BY DEF Loads, ContentsGrow
<1>7. \A f \in Files : server[f] = 0 => past[server[f]] = {0}
  BY HandoffTypes DEF Loads, Order, ContentsGrow
<1>8. QED
  BY <1>3, <1>4, <1>5, <1>6, <1>7

\* A step of a machine that changes no file and no record, and of which the run has written nothing.
LEMMA QuietKept ==
    ASSUME Kept, NEW m \in Machines,
           UNCHANGED <<local, cloud, server, base, past, over, touched, loose, crossed, left, stray>>,
           codex' \subseteq codex,
           \A n \in Machines : /\ UNCHANGED <<board[n].id, board[n].files>>
                               /\ \/ UNCHANGED board[n].state
                                  \/ board'[n].state = "working" /\ n \in codex,
           \A n \in Machines \ {m} : UNCHANGED prog[n],
           \/ UNCHANGED prog[m]
           \/ /\ prog[m].wrote = {} /\ prog'[m].wrote = {} /\ ~prog'[m].accept
              /\ prog'[m].pc \notin {"chats", "record"}
              /\ prog'[m].pc \in Loading \union {"wait"} => m \notin codex'
    PROVE  Kept'
<1>1. \A n \in Machines : /\ prog'[n].wrote = prog[n].wrote
                          /\ ~prog'[n].accept
                          /\ prog'[n].pc \in Loading \union {"wait"} => n \notin codex'
                          /\ prog'[n].wrote # {} => prog'[n].pc \in {"chats", "record"}
                          /\ prog'[n].pc \in {"chats", "record"} => prog'[n] = prog[n]
  BY DEF Kept, ByProtocol
<1>2. \A n \in Machines : Busy(n)' => Busy(n)
  BY <1>1 DEF Busy
<1>3. \A n \in Machines, f \in Files : /\ f \in Loaded(n)' => f \in Loaded(n)
                                       /\ Unsaved(n, f) => Unsaved(n, f)'
  BY <1>1 DEF Loaded, At, Unsaved
<1>4. ByProtocol'
  BY <1>1 DEF Kept, ByProtocol
<1>5. OneWriter'
  BY <1>2 DEF Kept, OneWriter
<1>6. WriterIsCurrent'
  BY <1>2, <1>3 DEF Kept, WriterIsCurrent, Current
<1>7. OthersAreBehind'
  BY <1>3 DEF Kept, OthersAreBehind, Behind
<1>8. \A f \in Files : Named(f)' <=> Named(f)
  BY DEF Named
<1>9. MirrorIsNamed'
  BY <1>1, <1>8 DEF Kept, MirrorIsNamed
<1>10. QED
  BY <1>4, <1>5, <1>6, <1>7, <1>9 DEF Kept

\* A file that arrives continues what the replica had.
LEMMA FileKept ==
    ASSUME Loads, Kept, NEW m \in Machines, NEW f \in Files, DeliverFile(m, f)
    PROVE  Kept'
<1>1. UNCHANGED <<codex, local, server, base, board, prog, past, over, touched, loose, crossed, left, stray>>
  BY DEF DeliverFile
<1>2. \A n \in Machines, g \in Files : cloud'[n][g] = (IF n = m /\ g = f THEN server[f] ELSE cloud[n][g])
  BY DEF DeliverFile, Loads, Order, TypeOK
<1>3. /\ \A n \in Machines : Busy(n)' = Busy(n) /\ Loaded(n)' = Loaded(n)
      /\ \A n \in Machines, g \in Files : Unsaved(n, g)' = Unsaved(n, g) /\ Named(g)' = Named(g)
  BY <1>1 DEF Busy, Loaded, At, Unsaved, Named
<1>4. \A n \in Machines, g \in Files \ stray : local[n][g] \in past[cloud[n][g]] => local[n][g] \in past[cloud'[n][g]]
  <2> SUFFICES ASSUME f \notin stray PROVE local[m][f] \in past[cloud[m][f]] => local[m][f] \in past[server[f]]
    BY <1>2
  <2>1. /\ \A a, b, c \in Contents : a \in past[b] /\ b \in past[c] => a \in past[c]
        /\ cloud[m][f] \in past[server[f]]
    BY PastFacts DEF Kept
  <2>2. local[m][f] \in Contents /\ cloud[m][f] \in Contents /\ server[f] \in Contents
    BY HandoffTypes DEF Loads, Order
  <2>3. QED
    BY <2>1, <2>2
<1>5. ByProtocol' /\ OneWriter' /\ MirrorIsNamed'
  BY <1>1, <1>3 DEF Kept, ByProtocol, OneWriter, MirrorIsNamed
<1>6. WriterIsCurrent'
  BY <1>1, <1>2, <1>3 DEF Kept, WriterIsCurrent, Current
<1>7. OthersAreBehind'
  BY <1>1, <1>3, <1>4 DEF Kept, OthersAreBehind, Behind
<1>8. QED
  BY <1>5, <1>6, <1>7 DEF Kept

\* Who opens Codex in its turn has the newest of everything, and is the only one with work.
LEMMA OpenKept ==
    ASSUME Loads, Kept, Safe', NEW m \in Machines, OpenCodex(m)
    PROVE  Kept'
<1>1. /\ UNCHANGED <<local, cloud, server, base, board, prog, past, over, touched, loose, crossed, left, stray>>
      /\ codex' = codex \union {m}
  BY DEF OpenCodex
<1>2. MyTurn(m)
  <2>1. used \in [Bounds -> Nat] /\ "breach" \in Bounds /\ "open" \in Bounds /\ "breach" # "open"
    BY DEF Loads, Order, TypeOK, Bounds, Mishaps
  <2>2. ~MyTurn(m) => used'["breach"] = used["breach"] + 1 /\ used["breach"] \in Nat
    BY <2>1 DEF OpenCodex
  <2>3. QED
    BY <2>2 DEF Safe, Orderly
<1>3. \A o \in Machines \ {m} : ~Hides(o)
  BY DEF OpenCodex, Safe
<1>4. \A o \in Machines : prog[o].wrote = {}
  BY <1>2 DEF MyTurn, At, Kept, ByProtocol
<1>5. \A o \in Machines \ {m} : ~Busy(o) /\ ~Busy(o)'
  BY <1>1, <1>2, <1>3, <1>4 DEF MyTurn, Hides, Busy
<1>6. Loaded(m) = {} /\ prog[m].pc = "watch"
  BY <1>2 DEF MyTurn, At, Loaded
<1>7. \A f \in Files \ stray : Current(m, f)
  <2>1. CASE Busy(m)
    BY <2>1 DEF Kept, WriterIsCurrent
  <2>2. CASE ~Busy(m)
    <3> SUFFICES ASSUME NEW f \in Files \ stray PROVE Current(m, f)
      OBVIOUS
    <3>1. Behind(m, f)
      BY <2>2 DEF Kept, OthersAreBehind, Unsaved, Busy
    <3>2. /\ \A b, c \in Contents : b \in past[c] /\ c \in past[b] => b = c
          /\ \A c \in Contents : Covered(f, c) = past[c]
          /\ cloud[m][f] \in past[server[f]]
          /\ \A a, b, c \in Contents : a \in past[b] /\ b \in past[c] => a \in past[c]
          /\ server[f] = 0 => past[server[f]] = {0}
      BY PastFacts DEF Kept
    <3>3. /\ local[m][f] \in Contents /\ cloud[m][f] \in Contents /\ server[f] \in Contents
          /\ \A o \in Machines : board[o].files[f] \in Contents \union {None}
      BY HandoffTypes DEF Loads, Order
    <3>4. local[m][f] \in past[server[f]]
      BY <3>1, <3>2, <3>3 DEF Behind
    <3>5. server[f] \in past[local[m][f]]
      <4>1. CASE server[f] = 0
        BY <3>2, <3>4, <4>1
      <4>2. ASSUME NEW o \in Machines, board[o].id # 0, board[o].files[f] # None,
                   server[f] \in past[board[o].files[f]], board[o].files[f] \in past[local[o][f]]
            PROVE  server[f] \in past[local[m][f]]
        <5>1. board[o].files[f] \in past[local[m][f]]
          <6>1. CASE o = m
            BY <4>2, <6>1
          <6>2. CASE o # m
            <7>1. board[m].accepted[o] = board[o].id /\ m \notin loose
              BY <1>2, <4>2, <6>2 DEF MyTurn, Kept, ByProtocol
            <7>2. f \notin crossed /\ f \notin left[m]
              BY DEF Kept, ByProtocol, Loads, LeftIsStray
            <7>3. board[o].files[f] \in Covered(f, local[m][f])
              BY <4>2, <6>2, <7>1, <7>2 DEF Loads, TakenIsLoaded
            <7>4. QED
              BY <3>2, <3>3, <7>3
          <6>3. QED
            BY <6>1, <6>2
        <5>2. QED
          BY <3>2, <3>3, <4>2, <5>1
      <4>3. QED
        BY <1>4, <4>1, <4>2 DEF Kept, MirrorIsNamed, Named
    <3>6. local[m][f] = server[f]
      BY <3>2, <3>3, <3>4, <3>5
    <3>7. cloud[m][f] = server[f]
      BY <3>1, <3>2, <3>3, <3>6 DEF Behind
    <3>8. QED
      BY <1>6, <3>1, <3>5, <3>6, <3>7 DEF Behind, Current
  <2>3. QED
    BY <2>1, <2>2
<1>8. /\ \A n \in Machines : Loaded(n)' = Loaded(n)
      /\ \A n \in Machines, f \in Files : /\ Current(n, f)' = Current(n, f) /\ Unsaved(n, f)' = Unsaved(n, f)
                                          /\ Named(f)' = Named(f)
  BY <1>1 DEF Loaded, At, Current, Unsaved, Named
<1>9. ByProtocol'
  BY <1>1, <1>6 DEF Kept, ByProtocol, Loading
<1>10. OneWriter'
  BY <1>5 DEF OneWriter
<1>11. WriterIsCurrent'
  BY <1>1, <1>5, <1>7, <1>8 DEF WriterIsCurrent
<1>12. OthersAreBehind' /\ MirrorIsNamed'
  BY <1>1, <1>8 DEF Kept, OthersAreBehind, Behind, MirrorIsNamed
<1>13. QED
  BY <1>9, <1>10, <1>11, <1>12 DEF Kept

\* Codex continues the newest there is, where nobody else has anything to save.
LEMMA WorkKept ==
    ASSUME Loads, Loads', Kept, NEW m \in Machines, NEW f \in Files, Work(m, f)
    PROVE  Kept'
<1> DEFINE new == used["write"] + 1
           old == local[m][f]
<1>1. /\ UNCHANGED <<codex, cloud, server, base, board, prog, loose, crossed, left, stray>> /\ m \in codex
      /\ new \in Contents /\ new \notin Written /\ old \in Contents /\ None \notin Contents
  BY HandoffTypes, HandoffAssumption DEF Work, Spend, Loads, Order, ContentsGrow, Written, Contents, TypeOK, Bounds
<1>2. /\ \A n \in Machines, g \in Files : local'[n][g] = (IF n = m /\ g = f THEN new ELSE local[n][g])
      /\ \A c \in Contents : past'[c] = (IF c = new THEN past[new] \union past[old] ELSE past[c])
      /\ \A g \in Files, c \in Contents : over'[g][c] = (IF g = f /\ c = new THEN over[f][old] ELSE over[g][c])
      /\ \A n \in Machines : touched[n] \subseteq touched'[n] /\ (n # m => touched'[n] = touched[n])
      /\ board[m].state = "working" \/ f \in touched'[m]
  BY <1>1 DEF Work, Loads, Order, TypeOK
<1>3. past[new] = {new}
  BY <1>1 DEF Loads, ContentsGrow
<1> HIDE DEF new, old
<1>4. /\ \A n \in Machines, g \in Files : local[n][g] \in Contents /\ cloud[n][g] \in Contents /\ server[g] \in Contents
      /\ \A n \in Machines, g \in Files : local[n][g] # new /\ cloud[n][g] # new
      /\ \A o \in Machines, g \in Files : board[o].files[g] \in Contents \union {None}
  BY <1>1, HandoffTypes DEF Loads, Order, ContentsGrow
<1>5. Busy(m) /\ \A n \in Machines : Busy(n)' => Busy(n)
  BY <1>1, <1>2 DEF Busy
<1>6. /\ \A n \in Machines : Loaded(n)' = Loaded(n)
      /\ \A n \in Machines, g \in Files : Unsaved(n, g) => Unsaved(n, g)'
      /\ Unsaved(m, f)' /\ Loaded(m) = {}
  BY <1>1, <1>2 DEF Loaded, At, Unsaved, Kept, ByProtocol, Loading
<1>7. \A c \in Contents : past[c] \subseteq past'[c]
  BY <1>2
<1>8. ByProtocol'
  <2>1. \A g \in Files \ stray, c \in Contents : over'[g][c] \subseteq past'[c]
    BY <1>1, <1>2, <1>7 DEF Kept, ByProtocol
  <2>2. QED
    BY <1>1, <2>1 DEF Kept, ByProtocol
<1>9. OneWriter'
  BY <1>5 DEF Kept, OneWriter
<1>10. WriterIsCurrent'
  <2> SUFFICES ASSUME NEW g \in Files \ stray PROVE Current(m, g)'
    BY <1>1, <1>5 DEF Kept, OneWriter, WriterIsCurrent
  <2>1. Current(m, g)
    BY <1>5 DEF Kept, WriterIsCurrent
  <2>2. server[g] \in past'[local'[m][g]]
    BY <1>1, <1>2, <1>4, <2>1 DEF Current, old
  <2>3. QED
    BY <1>1, <1>6, <2>1, <2>2 DEF Current
<1>11. OthersAreBehind'
  <2> SUFFICES ASSUME NEW n \in Machines, NEW g \in Files \ stray, ~(n = m /\ g = f)
               PROVE  Behind(n, g)' \/ (Unsaved(n, g)' /\ g \notin Loaded(n))
    BY <1>1, <1>6 DEF OthersAreBehind
  <2>1. local'[n][g] = local[n][g] /\ past'[cloud[n][g]] = past[cloud[n][g]]
    BY <1>2, <1>4
  <2>2. QED
    BY <1>1, <1>6, <2>1 DEF Kept, OthersAreBehind, Behind
<1>12. ASSUME NEW g \in Files, Named(g) PROVE Named(g)'
  <2>1. PICK o \in Machines : /\ board[o].id # 0 /\ board[o].files[g] # None
                              /\ server[g] \in past[board[o].files[g]]
                              /\ board[o].files[g] \in past[local[o][g]]
    BY <1>12 DEF Named
  <2>2. board[o].files[g] \in past'[local'[o][g]]
    BY <1>1, <1>2, <1>4, <2>1 DEF old
  <2>3. server[g] \in past'[board[o].files[g]]
    BY <1>4, <1>7, <2>1
  <2>4. QED
    BY <1>1, <2>1, <2>2, <2>3 DEF Named
<1>13. MirrorIsNamed'
  BY <1>1, <1>12 DEF Kept, MirrorIsNamed
<1>14. QED
  BY <1>8, <1>9, <1>10, <1>11, <1>13 DEF Kept

\* Only the machine with work to save uploads, and it loads nothing.
Carried(m, kind, decision) ==
    \A f \in kind : /\ Busy(m) => decision[f] # "to_local"
                    /\ ~Busy(m) => decision[f] # "to_cloud"

\* The settings that changed since the baseline are those of the one that writes.
LEMMA SettingsCarried ==
    ASSUME Loads, Kept, NEW m \in Machines, NEW f \in Settings \ stray
    PROVE  /\ Busy(m) => SettingDecision(m, f) \in {"nothing", "to_cloud"}
           /\ ~Busy(m) => SettingDecision(m, f) \in {"nothing", "to_local"}
<1>1. f \in Files /\ base[m][f][1] = base[m][f][2]
  BY DEF Files, Loads, BasesAgree
<1>2. Busy(m) => cloud[m][f] = base[m][f][1]
  BY <1>1 DEF Kept, WriterIsCurrent, Current
<1>3. ~Busy(m) => local[m][f] = base[m][f][1]
  BY <1>1 DEF Kept, OthersAreBehind, Behind, Unsaved, Busy
<1>4. QED
  BY <1>1, <1>2, <1>3 DEF SettingDecision

\* One branch of a chat continues the other, and it is that of the one that writes.
LEMMA ChatsCarried ==
    ASSUME Loads, Kept, NEW m \in Machines, NEW limited, NEW f \in Chats \ stray
    PROVE  /\ Busy(m) => ChatDecision(m, f, limited) \in {"nothing", "to_cloud", "left"}
           /\ ~Busy(m) => ChatDecision(m, f, limited) \in {"nothing", "to_local", "left"}
<1>1. f \in Files /\ local[m][f] \in Contents /\ cloud[m][f] \in Contents
  BY HandoffTypes DEF Loads, Order
<1>2. Busy(m) => cloud[m][f] \in past[local[m][f]]
  BY <1>1 DEF Kept, WriterIsCurrent, Current
<1>3. ~Busy(m) => local[m][f] \in past[cloud[m][f]]
  BY <1>1 DEF Kept, OthersAreBehind, Behind, Unsaved, Busy
<1>4. \A b, c \in Contents : b \in past[c] /\ c \in past[b] => b = c
  BY PastFacts DEF Kept
<1>5. QED
  BY <1>1, <1>2, <1>3, <1>4 DEF ChatDecision

\* One half of a sync keeps to that: who writes makes the mirror its own, all others follow it.
LEMMA HalfKept ==
    ASSUME Loads, TypeOK', Kept, NEW m \in Machines, NEW kind \in SUBSET Files, NEW decision,
           Apply(m, kind, decision), UNCHANGED <<codex, board, past, loose>>, m \notin codex,
           stray \subseteq stray', \A n \in Machines \ {m} : left'[n] = left[n],
           \A f \in kind \ stray' : \/ decision[f] \in {"to_local", "to_cloud"}
                                    \/ decision[f] = "nothing" /\ local[m][f] = cloud[m][f],
           Carried(m, kind \ stray', decision),
           \/ At(m, "settings") /\ kind = Settings
              /\ base' = [base EXCEPT ![m] = [f \in Settings |-> <<local'[m][f], cloud'[m][f]>>]]
           \/ At(m, "chats") /\ kind = Chats /\ UNCHANGED base
    PROVE  Kept'
<1>1. /\ Left(m, kind, decision) /\ Downloaded(m, kind, decision) /\ Uploaded(m, kind, decision)
      /\ OnlyLosers(m, kind, decision) /\ Crossing(m, kind, decision) /\ RunsOn(m, kind, decision)
  BY ApplyFacts DEF Loads, Order
<1>2. /\ \A b, c \in Contents : b \in past[c] /\ c \in past[b] => b = c
      /\ \A f \in Files \ stray, c \in Contents : Covered(f, c) = past[c]
      /\ \A a, b, c \in Contents : a \in past[b] /\ b \in past[c] => a \in past[c]
      /\ \A c \in Contents : c \in past[c] /\ past[c] \subseteq Contents
  <2>1. \A c \in Contents : c \in past[c] /\ past[c] \subseteq Contents
    BY DEF Loads, Order, TypeOK, ContentsGrow
  <2>2. QED
    BY <2>1, PastFacts DEF Kept
<1>3. /\ \A n \in Machines, f \in Files : local[n][f] \in Contents /\ cloud[n][f] \in Contents /\ server[f] \in Contents
      /\ \A n \in Machines, f \in Files : local'[n][f] \in Contents /\ cloud'[n][f] \in Contents
      /\ \A o \in Machines, f \in Files : board[o].files[f] \in Contents \union {None}
      /\ Settings \intersect Chats = {} /\ Files = Settings \union Chats
  BY HandoffTypes, HandoffAssumption DEF Loads, Order, TypeOK
<1>4. \A n \in Machines \ {m} : UNCHANGED <<local[n], cloud[n], prog[n], touched[n]>>
  BY <1>1 DEF Left
<1>5. \A f \in Files \ kind : UNCHANGED <<local[m][f], cloud[m][f], server[f]>>
  BY <1>1 DEF Left
<1>6. ASSUME Busy(m), NEW f \in kind \ stray'
      PROVE  local'[m][f] = local[m][f] /\ cloud'[m][f] = local[m][f] /\ server'[f] = local[m][f]
  <2>1. CASE decision[f] = "to_cloud"
    BY <1>1, <2>1 DEF Uploaded
  <2>2. CASE decision[f] = "nothing" /\ local[m][f] = cloud[m][f]
    <3>1. UNCHANGED <<local[m][f], cloud[m][f], server[f]>>
      BY <1>1, <2>2 DEF Left
    <3>2. cloud[m][f] = server[f]
      BY <1>6 DEF Kept, WriterIsCurrent, Current
    <3>3. QED
      BY <2>2, <3>1, <3>2
  <2>3. QED
    BY <1>6, <2>1, <2>2 DEF Carried
<1>7. ASSUME ~Busy(m), NEW f \in kind \ stray'
      PROVE  local'[m][f] = cloud[m][f] /\ cloud'[m][f] = cloud[m][f] /\ server'[f] = server[f]
  <2>1. CASE decision[f] = "to_local"
    BY <1>1, <2>1 DEF Downloaded
  <2>2. CASE decision[f] = "nothing" /\ local[m][f] = cloud[m][f]
    BY <1>1, <2>2 DEF Left
  <2>3. QED
    BY <1>7, <2>1, <2>2 DEF Carried
<1>8. \A n \in Machines : Busy(n)' => Busy(n)
  <2>1. \A n \in Machines \ {m} : Busy(n)' => Busy(n)
    BY <1>4 DEF Busy
  <2>2. \A f \in prog'[m].wrote \ stray' : f \in prog[m].wrote \ stray \/ Busy(m)
    BY <1>1 DEF RunsOn, Carried
  <2>3. touched'[m] # {} => touched[m] # {}
    BY <1>1 DEF RunsOn
  <2>4. Busy(m)' => Busy(m)
    BY <2>2, <2>3 DEF Busy
  <2>5. QED
    BY <2>1, <2>4
<1>9. /\ \A f \in Files : f \in Loaded(m)' => f \in Loaded(m) \/ f \in kind
      /\ \A n \in Machines \ {m} : Loaded(n)' = Loaded(n)
  BY <1>1, <1>3, <1>4 DEF RunsOn, Loaded, At
<1>10. /\ \A n \in Machines \ {m} : base'[n] = base[n]
       /\ \A f \in Settings : base'[m][f][1] = (IF f \in kind THEN local'[m][f] ELSE base[m][f][1])
  BY <1>3 DEF Loads, Order, TypeOK
<1>11. ByProtocol'
  <2>1. crossed' \subseteq stray'
    <3>1. \A f \in kind \ stray' : decision[f] = "to_cloud" => cloud[m][f] = server[f]
      BY DEF Carried, Kept, WriterIsCurrent, Current
    <3>2. QED
      BY <1>1, <3>1 DEF Crossing, Kept, ByProtocol
  <2>2. ASSUME NEW f \in Files \ stray', NEW c \in Contents, NEW x \in over'[f][c] PROVE x \in past[c]
    <3>1. CASE x \in over[f][c]
      BY <3>1 DEF Kept, ByProtocol
    <3>2. ASSUME f \in kind, decision[f] = "to_local", c = cloud[m][f], x \in Covered(f, local[m][f]) PROVE x \in past[c]
      <4>1. local[m][f] \in past[cloud[m][f]]
        BY <3>2 DEF Carried, Kept, OthersAreBehind, Behind, Unsaved, Busy
      <4>2. x \in past[local[m][f]] /\ x \in Contents
        BY <1>2, <1>3, <3>2
      <4>3. QED
        BY <1>2, <1>3, <3>2, <4>1, <4>2
    <3>3. ASSUME f \in kind, decision[f] = "to_cloud", c = local[m][f], x \in Covered(f, cloud[m][f]) PROVE x \in past[c]
      <4>1. cloud[m][f] \in past[local[m][f]]
        BY <3>3 DEF Carried, Kept, WriterIsCurrent, Current
      <4>2. x \in past[cloud[m][f]] /\ x \in Contents
        BY <1>2, <1>3, <3>3
      <4>3. QED
        BY <1>2, <1>3, <3>3, <4>1, <4>2
    <3>4. QED
      BY <1>1, <3>1, <3>2, <3>3 DEF OnlyLosers
  <2>3. \A n \in Machines : /\ ~prog'[n].accept
                            /\ prog'[n].pc \in Loading \union {"wait"} => n \notin codex
                            /\ prog'[n].wrote # {} => prog'[n].pc \in {"chats", "record"}
    <3>1. ~prog'[m].accept /\ prog'[m].pc \in {"chats", "record"} /\ m \notin codex
      BY <1>1 DEF RunsOn, Kept, ByProtocol
    <3>2. QED
      BY <1>4, <3>1 DEF Kept, ByProtocol
  <2>4. QED
    BY <2>1, <2>2, <2>3 DEF Kept, ByProtocol
<1>12. OneWriter'
  BY <1>8 DEF Kept, OneWriter
<1>13. WriterIsCurrent'
  <2> SUFFICES ASSUME NEW n \in Machines, NEW f \in Files \ stray', Busy(n) PROVE Current(n, f)'
    BY <1>8 DEF WriterIsCurrent
  <2>1. Current(n, f)
    BY DEF Kept, WriterIsCurrent
  <2>2. CASE n = m /\ f \in kind
    <3>1. server'[f] \in past[local'[m][f]]
      BY <1>2, <1>3, <1>6, <2>2
    <3>2. QED
      BY <1>6, <1>10, <2>2, <3>1 DEF Current
  <2>3. CASE n = m /\ f \notin kind
    BY <1>5, <1>9, <1>10, <2>1, <2>3 DEF Current
  <2>4. CASE n # m
    <3>1. ~Busy(m)
      BY <2>4 DEF Kept, OneWriter
    <3>2. server'[f] = server[f]
      BY <1>5, <1>7, <3>1
    <3>3. QED
      BY <1>4, <1>9, <1>10, <2>1, <2>4, <3>2 DEF Current
  <2>5. QED
    BY <2>2, <2>3, <2>4
<1>14. OthersAreBehind'
  <2> SUFFICES ASSUME NEW n \in Machines, NEW f \in Files \ stray'
               PROVE  Behind(n, f)' \/ (Unsaved(n, f)' /\ f \notin Loaded(n)')
    BY DEF OthersAreBehind
  <2>1. Behind(n, f) \/ (Unsaved(n, f) /\ f \notin Loaded(n))
    BY DEF Kept, OthersAreBehind
  <2>2. CASE n = m /\ f \in kind
    <3>1. local'[m][f] = cloud'[m][f]
      BY <1>6, <1>7, <2>2
    <3>2. QED
      BY <1>2, <1>3, <1>10, <2>2, <3>1 DEF Behind
  <2>3. CASE n = m /\ f \notin kind
    <3>1. Unsaved(m, f) => Unsaved(m, f)'
      BY <1>1, <2>3 DEF Unsaved, RunsOn
    <3>2. QED
      BY <1>5, <1>9, <1>10, <2>1, <2>3, <3>1 DEF Behind
  <2>4. CASE n # m
    BY <1>4, <1>9, <1>10, <2>1, <2>4 DEF Behind, Unsaved
  <2>5. QED
    BY <2>2, <2>3, <2>4
<1>15. MirrorIsNamed'
  <2> SUFFICES ASSUME NEW f \in Files \ stray', \A n \in Machines : f \notin prog'[n].wrote, server'[f] # 0
               PROVE  Named(f)'
    BY DEF MirrorIsNamed
  <2>1. f \in kind => decision[f] # "to_cloud"
    BY <1>1 DEF RunsOn
  <2>2. server'[f] = server[f]
    BY <1>1, <1>5, <2>1 DEF Left, Downloaded
  <2>3. \A n \in Machines : f \notin prog[n].wrote
    BY <1>1, <1>4 DEF RunsOn
  <2>4. PICK o \in Machines : /\ board[o].id # 0 /\ board[o].files[f] # None
                              /\ server[f] \in past[board[o].files[f]]
                              /\ board[o].files[f] \in past[local[o][f]]
    BY <2>2, <2>3 DEF Kept, MirrorIsNamed, Named
  <2>5. board[o].files[f] \in past[local'[o][f]]
    <3>1. CASE o = m /\ f \in kind /\ ~Busy(m)
      <4>1. local[m][f] \in past[cloud[m][f]]
        BY <3>1 DEF Kept, OthersAreBehind, Behind, Unsaved, Busy
      <4>2. QED
        BY <1>2, <1>3, <1>7, <2>4, <3>1, <4>1
    <3>2. QED
      BY <1>4, <1>5, <1>6, <2>4, <3>1
  <2>6. QED
    BY <2>2, <2>4, <2>5 DEF Named
<1>16. QED
  BY <1>11, <1>12, <1>13, <1>14, <1>15 DEF Kept

\* A record that could not be read is one of those counted.
LEMMA ReadIt ==
    ASSUME TypeOK, Safe, Safe', NEW m \in Machines, NEW read \in BOOLEAN, Writes(m, read)
    PROVE  read
<1>1. forgot \in [Machines -> Nat] /\ forgot[m] = 0 /\ forgot'[m] = 0
  BY DEF TypeOK, Safe
<1>2. QED
  BY <1>1 DEF Writes

\* A run that wrote names what the mirror has, which is what it has itself.
LEMMA RecordKept ==
    ASSUME Loads, TypeOK', Kept, Safe, Safe', NEW m \in Machines, RecordHandoff(m)
    PROVE  Kept'
<1>1. /\ UNCHANGED <<codex, local, cloud, server, base, past, over, touched, loose, crossed, left, stray>>
      /\ At(m, "record") /\ used["handoff"] \in Nat
  BY DEF RecordHandoff, Surroundings, Loads, Order, TypeOK, Bounds
<1>2. /\ \A n \in Machines \ {m} : prog'[n] = prog[n]
      /\ prog'[m].pc = "watch" /\ prog'[m].wrote = {} /\ ~prog'[m].accept
  BY DEF RecordHandoff, Quit, Ended, Idle, Loads, Order, TypeOK
<1>3. /\ \A o \in Machines \ {m} : board'[o] = board[o]
      /\ board'[m] = HandedOff(m, board[m], used["handoff"] + 1)
  <2>1. PICK read \in BOOLEAN :
          /\ Writes(m, read)
          /\ board' = [board EXCEPT ![m] = HandedOff(m, Own(m, read), used["handoff"] + 1)]
    BY DEF RecordHandoff
  <2>2. read
    BY <2>1, ReadIt DEF Loads, Order
  <2>3. QED
    BY <2>1, <2>2 DEF Own, Loads, Order, TypeOK
<1>4. /\ board'[m].state = "handed_off"
      /\ board'[m].id = (IF prog[m].wrote # {} THEN used["handoff"] + 1 ELSE board[m].id)
      /\ board'[m].files = (IF prog[m].wrote # {} THEN cloud[m] ELSE board[m].files)
  BY <1>3 DEF HandedOff
<1>5. /\ \A n \in Machines : Busy(n)' => Busy(n)
      /\ Files \ stray \subseteq Loaded(m) /\ Loaded(m)' = {}
      /\ \A n \in Machines \ {m} : Loaded(n)' = Loaded(n) /\ \A f \in Files : Unsaved(n, f)' = Unsaved(n, f)
  BY <1>1, <1>2, <1>3, <1>4 DEF Busy, Loaded, At, Unsaved, Loads, LeftIsStray
<1>6. \A f \in Files \ stray : f \in prog[m].wrote => cloud[m][f] = server[f] /\ local[m][f] = server[f]
  BY <1>5 DEF Kept, WriterIsCurrent, Current, Busy
<1>7. \A f \in Files : server[f] \in Contents /\ server[f] # None /\ server[f] \in past[server[f]]
  BY HandoffTypes, HandoffAssumption DEF Loads, Order, ContentsGrow
<1>8. ByProtocol'
  BY <1>1, <1>2 DEF Kept, ByProtocol, Loading
<1>9. OneWriter'
  BY <1>5 DEF Kept, OneWriter
<1>10. WriterIsCurrent'
  BY <1>1, <1>5 DEF Kept, WriterIsCurrent, Current
<1>11. OthersAreBehind'
  BY <1>1, <1>5 DEF Kept, OthersAreBehind, Behind
<1>12. MirrorIsNamed'
  <2> SUFFICES ASSUME NEW f \in Files \ stray, \A n \in Machines : f \notin prog'[n].wrote, server[f] # 0
               PROVE  Named(f)'
    BY <1>1 DEF MirrorIsNamed
  <2>1. CASE f \in prog[m].wrote
    <3>1. board'[m].id # 0 /\ board'[m].files = cloud[m]
      BY <1>1, <1>4, <2>1
    <3>2. QED
      BY <1>1, <1>6, <1>7, <2>1, <3>1 DEF Named
  <2>2. CASE f \notin prog[m].wrote
    <3>1. PICK o \in Machines : /\ board[o].id # 0 /\ board[o].files[f] # None
                                /\ server[f] \in past[board[o].files[f]]
                                /\ board[o].files[f] \in past[local[o][f]]
      BY <1>2, <2>2 DEF Kept, MirrorIsNamed, Named
    <3>2. CASE o # m \/ prog[m].wrote = {}
      <4>1. board'[o].id = board[o].id /\ board'[o].files = board[o].files
        BY <1>3, <1>4, <3>2
      <4>2. QED
        BY <1>1, <3>1, <4>1 DEF Named
    <3>3. CASE o = m /\ prog[m].wrote # {}
      <4>1. /\ cloud[m][f] \in past[server[f]]
            /\ \A a, b, c \in Contents : a \in past[b] /\ b \in past[c] => a \in past[c]
        BY PastFacts DEF Kept
      <4>2. /\ local[m][f] \in Contents /\ cloud[m][f] \in Contents /\ server[f] \in Contents
            /\ board[m].files[f] \in Contents \union {None} /\ None \notin Contents
        BY HandoffTypes, HandoffAssumption DEF Loads, Order
      <4>3. server[f] \in past[local[m][f]]
        BY <3>1, <3>3, <4>1, <4>2
      <4>4. local[m][f] \in past[cloud[m][f]]
        BY <1>5 DEF Kept, OthersAreBehind, Behind
      <4>5. server[f] \in past[cloud[m][f]] /\ cloud[m][f] \in past[local[m][f]] /\ cloud[m][f] # None
        BY <4>1, <4>2, <4>3, <4>4
      <4>6. board'[m].id # 0 /\ board'[m].files = cloud[m]
        BY <1>1, <1>4, <3>3
      <4>7. QED
        BY <1>1, <4>5, <4>6 DEF Named
    <3>4. QED
      BY <3>2, <3>3
  <2>3. QED
    BY <2>1, <2>2
<1>13. QED
  BY <1>8, <1>9, <1>10, <1>11, <1>12 DEF Kept

\* A step of the watcher writes nothing.
LEMMA WatchKept ==
    ASSUME Loads, Kept, Safe, Safe', NEW m \in Machines, Watch(m)
    PROVE  Kept'
<1>1. prog \in [Machines -> Program] /\ board \in [Machines -> Record] /\ board[m] \in Record
  BY DEF Loads, Order, TypeOK
<1>2. UNCHANGED codex /\ UNCHANGED Surroundings
  BY DEF Watch, StartWatch, StartUnsure, PollOpened, PollClosed, MarkFails
<1>3. prog[m].wrote = {}
  BY DEF Watch, StartWatch, StartUnsure, PollOpened, PollClosed, MarkFails, At, Kept, ByProtocol
<1>4. \A n \in Machines : /\ UNCHANGED <<board[n].id, board[n].files>>
                          /\ UNCHANGED board[n].state \/ (board'[n].state = "working" /\ n \in codex)
  <2>1. CASE UNCHANGED board
    BY <2>1
  <2>2. CASE m \in codex /\ CodexStarted(m)
    <3>1. PICK read \in BOOLEAN : Writes(m, read) /\ board' = [board EXCEPT ![m] = Working(Own(m, read))]
      BY <2>2 DEF CodexStarted
    <3>2. read
      BY <3>1, ReadIt DEF Loads, Order
    <3>3. board' = [board EXCEPT ![m] = Working(board[m])]
      BY <3>1, <3>2 DEF Own
    <3>4. QED
      BY <1>1, <2>2, <3>3 DEF Working, Record
  <2>3. QED
    BY <2>1, <2>2 DEF Watch, StartWatch, StartUnsure, PollOpened, PollClosed, MarkFails, Attempt
<1>5. /\ \A n \in Machines \ {m} : UNCHANGED prog[n]
      /\ prog'[m].wrote = {} /\ ~prog'[m].accept /\ prog'[m].pc \in {"watch", "begin"}
  <2>1. CASE CodexStarted(m) \/ StartUnsure(m) \/ MarkFails(m)
    <3>1. PICK now \in {[Idle EXCEPT !.pc = "watch"], [Idle EXCEPT !.last = "open", !.pc = "watch"]} :
            prog' = [prog EXCEPT ![m] = now]
      BY <2>1 DEF CodexStarted, StartUnsure, MarkFails
    <3>2. now.wrote = {} /\ ~now.accept /\ now.pc = "watch"
      BY DEF Idle
    <3>3. QED
      BY <1>1, <3>1, <3>2
  <2>2. CASE Attempt(m, "closed", FALSE)
    BY <1>1, <2>2 DEF Attempt, Idle
  <2>3. QED
    BY <2>1, <2>2 DEF Watch, StartWatch, PollOpened, PollClosed
<1>6. prog'[m].pc \notin {"chats", "record"} /\ prog'[m].pc \notin Loading \union {"wait"}
  BY <1>5 DEF Loading
<1>7. QED
  BY <1>2, <1>3, <1>4, <1>5, <1>6, QuietKept DEF Surroundings

\* A run that ends with nothing written leaves nothing to save.
LEMMA EndKept ==
    ASSUME Loads, Kept, NEW m \in Machines, prog[m].wrote = {},
           prog' = [prog EXCEPT ![m] = Ended(m)] \/ prog' = [prog EXCEPT ![m] = Idle],
           UNCHANGED <<codex, board, local, cloud, server, base, past, over, touched, loose, crossed, left, stray>>
    PROVE  Kept'
<1>1. prog \in [Machines -> Program]
  BY DEF Loads, Order, TypeOK
<1>2. /\ \A n \in Machines \ {m} : UNCHANGED prog[n]
      /\ prog'[m].wrote = {} /\ ~prog'[m].accept /\ prog'[m].pc \in {"off", "watch"}
  <2>1. Idle.wrote = {} /\ ~Idle.accept /\ Idle.pc = "off"
    BY DEF Idle
  <2>2. Ended(m).wrote = {} /\ ~Ended(m).accept /\ Ended(m).pc = "watch"
    BY DEF Idle, Ended
  <2>3. QED
    BY <1>1, <2>1, <2>2
<1>3. prog'[m].pc \notin {"chats", "record"} /\ prog'[m].pc \notin Loading \union {"wait"}
  BY <1>2 DEF Loading
<1>4. QED
  BY <1>2, <1>3, QuietKept

\* A run that goes on has written nothing before its plan is made.
LEMMA GoKept ==
    ASSUME Loads, Kept, NEW m \in Machines, Begin(m) \/ Arrived(m) \/ Plan(m)
    PROVE  Kept'
<1>1. prog \in [Machines -> Program] /\ prog[m] \in Program
  BY DEF Loads, Order, TypeOK
<1>2. UNCHANGED <<codex, board, local, cloud, server, base, past, over, touched, loose, crossed, left, stray>>
  BY DEF Begin, Arrived, Plan, Surroundings
<1>3. /\ \A n \in Machines \ {m} : UNCHANGED prog[n]
      /\ UNCHANGED <<prog[m].wrote, prog[m].accept>>
      /\ prog[m].pc \in {"begin", "wait", "plan"} /\ prog'[m].pc \in {"wait", "plan", "settings"}
  <2>1. CASE Begin(m)
    <3>1. PICK own : Begins(m, own)
      BY <2>1, BeginFacts DEF Loads, Order
    <3>2. QED
      BY <3>1 DEF Begins
  <2>2. CASE Arrived(m)
    BY <1>1, <2>2 DEF Arrived, Go, At, Program
  <2>3. CASE Plan(m)
    <3>1. PICK limited : prog' = [prog EXCEPT ![m].chats = ChatsNow(m), ![m].limited = limited, ![m].pc = "settings"]
      BY <2>3 DEF Plan
    <3>2. QED
      BY <1>1, <2>3, <3>1 DEF Plan, At, Program
  <2>4. QED
    BY <2>1, <2>2, <2>3
<1>4. prog[m].wrote = {} /\ ~prog[m].accept
  BY <1>3 DEF Kept, ByProtocol
<1>5. m \notin codex
  BY DEF Begin, Arrived, Plan, At, Kept, ByProtocol, Loading
<1>6. QED
  BY <1>2, <1>3, <1>4, <1>5, QuietKept

\* A step of a run, as long as none stops half way.
LEMMA RunKept ==
    ASSUME Loads, TypeOK', Kept, Safe, Safe', NEW m \in Machines, Run(m)
    PROVE  Kept'
<1>1. CASE Begin(m) \/ Arrived(m) \/ Plan(m)
  BY <1>1, GoKept
<1>2. CASE NotDelivered(m)
  <2>1. ~prog[m].accept /\ prog[m].wrote = {}
    BY <1>2 DEF NotDelivered, At, Kept, ByProtocol
  <2>2. QED
    BY <1>2, <2>1, EndKept DEF NotDelivered, Quit
<1>3. CASE SyncSettings(m)
  <2> DEFINE decision == [f \in Settings |-> SettingDecision(m, f)]
  <2>1. /\ Apply(m, Settings, decision) /\ At(m, "settings") /\ m \notin codex
        /\ UNCHANGED <<codex, board, past, loose, left, stray>>
        /\ base' = [base EXCEPT ![m] = [f \in Settings |-> <<local'[m][f], cloud'[m][f]>>]]
    BY <1>3 DEF SyncSettings
  <2>2. \A f \in Settings : decision[f] \in {"to_local", "to_cloud"} \/ (decision[f] = "nothing" /\ local[m][f] = cloud[m][f])
    BY <1>3, SettingsDecided
  <2>3. Settings \in SUBSET Files
    BY DEF Files
  <2>4. Carried(m, Settings \ stray', decision)
    BY <2>1, SettingsCarried DEF Carried
  <2> HIDE DEF decision
  <2>5. QED
    BY <2>1, <2>2, <2>3, <2>4, HalfKept
<1>4. CASE SyncChats(m)
  <2> DEFINE decision == [f \in Chats |-> ChatDecision(m, f, prog[m].limited)]
  <2>1. /\ Apply(m, Chats, decision) /\ At(m, "chats") /\ m \notin codex
        /\ UNCHANGED <<codex, board, base, past, loose>>
    BY <1>4 DEF SyncChats
  <2>2. /\ stray' = stray \union prog[m].limited /\ \A n \in Machines \ {m} : left'[n] = left[n]
        /\ \A f \in Chats \ stray' : \/ decision[f] \in {"to_local", "to_cloud"}
                                     \/ decision[f] = "nothing" /\ local[m][f] = cloud[m][f]
    BY <1>4, ChatsDecided DEF SyncChats, Loads, Order, TypeOK
  <2>3. Chats \in SUBSET Files
    BY DEF Files
  <2>4. Carried(m, Chats \ stray', decision)
    <3>1. \A f \in Chats \ stray' : f \notin stray
      BY <2>2
    <3>2. QED
      BY <3>1, ChatsCarried DEF Carried
  <2> HIDE DEF decision
  <2>5. QED
    BY <2>1, <2>2, <2>3, <2>4, HalfKept
<1>5. CASE RecordHandoff(m)
  BY <1>5, RecordKept
<1>6. CASE Refused(m) \/ Fail(m)
  <2>1. Stop(m) /\ UNCHANGED <<codex, board, Surroundings>>
    BY <1>6 DEF Refused, Fail
  <2>2. prog[m].wrote = {}
    BY <2>1 DEF Stop, Safe
  <2>3. QED
    BY <2>1, <2>2, EndKept DEF Stop, StopsAt, Surroundings
<1>7. QED
  BY <1>1, <1>2, <1>3, <1>4, <1>5, <1>6 DEF Run

\* What a person does, as long as it is by the protocol.
LEMMA PersonKept ==
    ASSUME Loads, Loads', Kept, Safe, Safe', NEW m \in Machines, Person(m)
    PROVE  Kept'
<1>0. prog \in [Machines -> Program] /\ used \in [Bounds -> Nat] /\ "breach" \in Bounds
  BY DEF Loads, Order, TypeOK, Bounds, Mishaps
<1>1. ~Mishap("breach")
  BY <1>0 DEF Mishap, Safe, Orderly
<1>2. ASSUME NEW accept \in BOOLEAN, ByHand(m, accept) PROVE Kept'
  <2>1. ~accept /\ At(m, "watch")
    BY <1>1, <1>2 DEF ByHand
  <2>2. /\ UNCHANGED <<codex, board, local, cloud, server, base, past, over, touched, loose, crossed, left, stray>>
        /\ \A n \in Machines \ {m} : UNCHANGED prog[n]
        /\ prog'[m].wrote = {} /\ ~prog'[m].accept /\ prog'[m].pc = "begin"
    BY <1>0, <1>2, <2>1 DEF ByHand, Attempt, Surroundings, Idle
  <2>3. prog[m].wrote = {}
    BY <2>1 DEF At, Kept, ByProtocol
  <2>4. prog'[m].pc \notin {"chats", "record"} /\ prog'[m].pc \notin Loading \union {"wait"}
    BY <2>2 DEF Loading
  <2>5. QED
    BY <2>2, <2>3, <2>4, QuietKept
<1>3. CASE OpenCodex(m)
  BY <1>3, OpenKept
<1>4. CASE CloseCodex(m)
  BY <1>4, QuietKept DEF CloseCodex, Surroundings
<1>5. ASSUME NEW f \in Files, Work(m, f) PROVE Kept'
  BY <1>5, WorkKept
<1>6. QED
  BY <1>2, <1>3, <1>4, <1>5 DEF Person

\* Every step by the protocol keeps it.
LEMMA ProtocolStep == Loads /\ Protocol /\ [Next]_vars => Protocol'
<1> SUFFICES ASSUME Loads, Protocol, [Next]_vars, Safe' PROVE Kept'
  BY DEF Protocol
<1>1. TypeOK' /\ Loads' /\ Safe /\ Kept
  BY LoadsStep, TypeStep, SafeBefore DEF Loads, Order, Protocol
<1>2. CASE UNCHANGED vars
  <2>1. UNCHANGED <<codex, local, cloud, server, base, board, prog, past, over, touched, loose, crossed, left, stray>>
    BY <1>2 DEF vars
  <2>2. QED
    BY <1>1, <2>1 DEF Kept, ByProtocol, OneWriter, WriterIsCurrent, OthersAreBehind,
       MirrorIsNamed, Named, Current, Behind, Unsaved, Busy, Loaded, At
<1>3. ASSUME NEW m \in Machines, Crash(m) PROVE Kept'
  <2>1. prog[m].wrote = {}
    BY <1>1, <1>3 DEF Crash, Safe
  <2>2. QED
    BY <1>1, <1>3, <2>1, EndKept DEF Crash, Surroundings
<1>4. CASE Deliver
  <2>1. ASSUME NEW m \in Machines, NEW o \in Machines, DeliverBoard(m, o) \/ DeliverPart(m, o) PROVE Kept'
    BY <1>1, <2>1, QuietKept DEF DeliverBoard, DeliverPart
  <2>2. QED
    BY <1>1, <1>4, <2>1, FileKept DEF Deliver
<1>5. CASE Next
  BY <1>1, <1>3, <1>4, <1>5, WatchKept, RunKept, PersonKept DEF Next
<1>6. QED
  BY <1>2, <1>5

\* Whoever says handed off has its work in the mirror, as long as everyone kept
\* to the protocol, no run stopped half way, no record was written unread and no
\* board hid work, but for the chats a limit left behind: for any number of
\* machines, files and handoffs, whatever arrives in whatever order.
THEOREM HandedOffReached == Spec => []HandedOffIsInCloud
<1>1. Init => Loads /\ Protocol
  BY InitLoads, InitKept DEF Protocol
<1>2. (Loads /\ Protocol) /\ [Next]_vars => (Loads /\ Protocol)'
  BY LoadsStep, ProtocolStep
<1>3. Loads /\ Protocol => HandedOffIsInCloud
  <2> SUFFICES ASSUME Loads, Protocol, half = {}, misled = {}, Orderly, \A m \in Machines : forgot[m] = 0,
                      NEW m \in Machines, board[m].state = "handed_off", NEW f \in Files \ (touched[m] \union stray)
               PROVE  local[m][f] \in Covered(f, server[f])
    BY DEF HandedOffIsInCloud, HandedOffStands
  <2>1. Kept
    BY DEF Protocol, Safe
  <2>2. local[m][f] \in past[cloud[m][f]]
    BY <2>1 DEF Kept, OthersAreBehind, Behind, Unsaved
  <2>3. /\ cloud[m][f] \in past[server[f]]
        /\ \A a, b, c \in Contents : a \in past[b] /\ b \in past[c] => a \in past[c]
    BY <2>1, PastFacts DEF Kept
  <2>4. local[m][f] \in Contents /\ cloud[m][f] \in Contents /\ server[f] \in Contents
    BY HandoffTypes DEF Loads, Order
  <2>5. QED
    BY <2>2, <2>3, <2>4 DEF Covered
<1>4. QED
  BY <1>1, <1>2, <1>3, PTL DEF Spec
=============================================================================
