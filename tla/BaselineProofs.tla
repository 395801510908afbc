--------------------------- MODULE BaselineProofs ---------------------------
(***************************************************************************)
(* What synchronisation through one mirror keeps, for every set of         *)
(* machines and files, every policy, direction, size, tolerance and bound, *)
(* as long as one machine at a time synchronises and nobody writes then.   *)
(***************************************************************************)
EXTENDS BaselineSync, TLAPS

\* One machine synchronises at a time, nobody writes meanwhile, and no two
\* writes are stamped within the tolerance.
Calm == OneAtATime /\ Quiet /\ ~SharedTimes

NeverRefilled == \A r \in Roots : mirror[r] # "refilled"

Copies(f) == {cloud[f]} \union {local[m][f] : m \in Machines}

\* What a baseline says of a path, and the copies it says it of.
Recorded(m, f) == manifest[m][f] # None
Unchanged(m, f, v) == Recorded(m, f) /\ ~Missing(v) /\ v.mtime = manifest[m][f].local.mtime

Alone == \A m, n \in Machines : pc[m] # "idle" /\ pc[n] # "idle" => m = n

-----------------------------------------------------------------------------
(* Times, and what a baseline records. *)

\* Two times in use are told apart, and a time belongs to one content.
TimesTellApart ==
    /\ \A s, t \in stamps : s # t => ~Close(s, t)
    /\ \A f \in Files : \A v, w \in Copies(f) : ~Missing(v) /\ ~Missing(w) =>
          v.mtime \in stamps /\ (v.mtime = w.mtime => v.id = w.id)

RecordsStand ==
    \A m \in Machines, f \in Files : Recorded(m, f) =>
        /\ manifest[m][f].local = manifest[m][f].cloud
        /\ manifest[m][f].local \in Prints /\ manifest[m][f].local.mtime \in stamps
        /\ \A v \in Copies(f) : Unchanged(m, f, v) => SizeOf[v.id] = manifest[m][f].local.size

-----------------------------------------------------------------------------
(* What comes after what. *)

Written == 1..(used["write"] + 1)

SawIsOrder ==
    \A f \in Files :
        /\ saw[f] \subseteq Written \X Written
        /\ \A i, j, k \in Ids : <<i, j>> \in saw[f] /\ <<j, k>> \in saw[f] => <<i, k>> \in saw[f]
        /\ \A v \in Copies(f) : \A i \in Heads(v) : <<i, i>> \in saw[f]

\* What a baseline recorded, both sides come after it.
RecordedIsBelow ==
    NeverRefilled => \A m \in Machines, f \in Files : \A v \in Copies(f) : Unchanged(m, f, v) =>
        /\ v.id \in Below(f, local[m][f])
        /\ mirror[RootOf[f]] = "whole" => v.id \in Below(f, cloud[f])

EmptiedIsEmpty == \A f \in Files : mirror[RootOf[f]] = "emptied" => Missing(cloud[f])

NeverDeleted ==
    DeletePolicy = "never" => \A m \in Machines, f \in Files :
        Recorded(m, f) /\ mirror[RootOf[f]] = "whole" => ~Missing(cloud[f])

-----------------------------------------------------------------------------
(* What a run under way relies on. *)

Alike(m, f) ==
    \/ Missing(local[m][f]) /\ Missing(cloud[f])
    \/ ~Missing(local[m][f]) /\ ~Missing(cloud[f]) /\ Fingerprint(local[m][f]) = Fingerprint(cloud[f])

\* A side that a copy may replace: asked for, or as the baseline knows it.
AsRecorded(m, f, old) == IF Missing(old) THEN DeletePolicy = "never" ELSE Unchanged(m, f, old)
MayReplace(m, f, old) == f \in decided[m] \/ (Recorded(m, f) /\ AsRecorded(m, f, old))

PlanHolds(m, f) ==
    /\ f \in skipped[m] => todo[m][f] = "nothing"
    /\ todo[m][f] = "nothing" => f \in skipped[m] \/ Alike(m, f)
    /\ todo[m][f] = "to_cloud" =>
          /\ ~Missing(local[m][f]) /\ MayReplace(m, f, cloud[f])
          /\ DeletePolicy = "never" \/ ~Unchanged(m, f, local[m][f])
    /\ todo[m][f] = "to_local" =>
          /\ ~Missing(cloud[f]) /\ MayReplace(m, f, local[m][f])
          /\ Missing(local[m][f]) /\ Recorded(m, f) => DeletePolicy = "never"
    /\ todo[m][f] \in Deletions => f \notin decided[m] /\ DeletePolicy = "propagate"
    /\ todo[m][f] = "del_cloud" => Missing(local[m][f]) /\ Unchanged(m, f, cloud[f])
    /\ todo[m][f] = "del_local" =>
          Missing(cloud[f]) /\ Unchanged(m, f, local[m][f]) /\ mirror[RootOf[f]] # "emptied"

PlansHold ==
    \A m \in Machines, f \in Files :
        /\ pc[m] # "idle" => PlanHolds(m, f)
        /\ pc[m] \in {"load", "save"} => todo[m][f] = "nothing"

StagedIsSource ==
    \A m \in Machines, f \in Files :
        pc[m] = "apply" /\ todo[m][f] \in {"to_local", "to_cloud"} => staged[m][f] = Source(m, f)

IndexIsCurrent ==
    \A m \in Machines, f \in Files : pc[m] \in {"load", "save"} =>
        index[m][f] = IF Missing(local[m][f]) /\ Missing(cloud[f]) THEN None
                      ELSE [local |-> Fingerprint(local[m][f]), cloud |-> Fingerprint(cloud[f])]

LoadedIsCurrent == \A m \in Machines : pc[m] = "save" => loaded[m] = manifest

-----------------------------------------------------------------------------
(* What no run has taken to the mirror yet. *)

Pending(m, f) == pc[m] \notin Writing \/ f \in skipped[m] \/ todo[m][f] # "nothing"

\* What is not in a machine's baseline, nobody else has.
NewIsPrivate ==
    \A m \in Machines, f \in Files :
        Pending(m, f) /\ ~Missing(local[m][f]) /\ ~Unchanged(m, f, local[m][f]) =>
            /\ local[m][f].id \notin Below(f, cloud[f])
            /\ \A n \in Machines \ {m} : local[m][f].id \notin Below(f, local[n][f])

UnknownIsNew ==
    \A m \in Machines, f \in Files :
        Pending(m, f) /\ ~Recorded(m, f) /\ ~Missing(cloud[f]) => cloud[f].id \notin Below(f, local[m][f])

Data ==
    /\ TimesTellApart /\ RecordsStand /\ SawIsOrder
    /\ RecordedIsBelow /\ EmptiedIsEmpty /\ NeverDeleted
Runs == Alone /\ PlansHold /\ StagedIsSource /\ IndexIsCurrent /\ LoadedIsCurrent
Careful == DeletePolicy = "propagate" /\ used["fail"] = 0
Apart == NewIsPrivate /\ UnknownIsNew /\ revived = {}
Private == Careful => Apart

Inv == TypeOK /\ Data /\ Runs /\ Private /\ NothingLostUnasked

-----------------------------------------------------------------------------
(* Times and contents. *)

\* Whatever copies there are of a file are versions, the ones in use among them.
LEMMA CopiesTyped ==
    ASSUME TypeOK, NEW f \in Files
    PROVE  /\ Copies(f) \subseteq Version /\ cloud[f] \in Copies(f)
           /\ \A m \in Machines : local[m][f] \in Copies(f)
  BY DEF TypeOK, Copies

\* While times tell versions apart, the tolerance of the comparison makes no two of them equal.
LEMMA CloseIsEqual ==
    ASSUME TypeOK, TimesTellApart, NEW s \in stamps, NEW t \in stamps
    PROVE  Close(s, t) <=> s = t
<1>1. s \in Int /\ t \in Int
  BY BaselineAssumption DEF TypeOK
<1>2. s = t => Close(s, t)
  BY <1>1, PlannerAssumption DEF Close
<1>3. QED
  BY <1>2 DEF TimesTellApart

\* Against a baseline, a copy has changed when its time has.
LEMMA ChangedIsRestamped ==
    ASSUME TypeOK, TimesTellApart, RecordsStand, NEW m \in Machines, NEW f \in Files, Recorded(m, f),
           NEW v \in Copies(f), ~Missing(v)
    PROVE  /\ Changed(v, manifest[m][f].local) <=> ~Unchanged(m, f, v)
           /\ Changed(v, manifest[m][f].cloud) <=> ~Unchanged(m, f, v)
<1> DEFINE p == manifest[m][f].local
<1>1. p = manifest[m][f].cloud /\ p \in Prints /\ p.mtime \in stamps
      /\ (Unchanged(m, f, v) => SizeOf[v.id] = p.size)
  BY DEF RecordsStand
<1>2. p # None
  BY <1>1, BaselineAssumption
<1>3. v.mtime \in stamps
  BY DEF TimesTellApart
<1>4. Close(v.mtime, p.mtime) <=> v.mtime = p.mtime
  BY <1>1, <1>3, CloseIsEqual
<1>5. QED
  BY <1>1, <1>2, <1>4 DEF Changed, Unchanged

\* While times tell versions apart, same time means same file and same fingerprint.
LEMMA SameFileIsSameTime ==
    ASSUME TypeOK, TimesTellApart, NEW f \in Files, NEW v \in Copies(f), NEW w \in Copies(f), ~Missing(v), ~Missing(w)
    PROVE  /\ SameFile(v, w) <=> v.mtime = w.mtime
           /\ Close(v.mtime, w.mtime) <=> v.mtime = w.mtime
           /\ v.mtime = w.mtime => Fingerprint(v) = Fingerprint(w)
<1>1. v.mtime \in stamps /\ w.mtime \in stamps /\ (v.mtime = w.mtime => v.id = w.id)
  BY DEF TimesTellApart
<1>2. Close(v.mtime, w.mtime) <=> v.mtime = w.mtime
  BY <1>1, CloseIsEqual
<1>3. QED
  BY <1>1, <1>2 DEF SameFile, Fingerprint

-----------------------------------------------------------------------------
(* What comes after what. *)

\* The pairs of an order grow to pairs of an order: what is below something and
\* what is above something else are closed under it.
LEMMA OrderGrows ==
    ASSUME NEW S, NEW B, NEW A,
           \A i, j, k \in Ids : <<i, j>> \in S /\ <<j, k>> \in S => <<i, k>> \in S,
           \A i, j \in Ids : <<i, j>> \in S /\ j \in B => i \in B,
           \A i, j \in Ids : <<i, j>> \in S /\ i \in A => j \in A
    PROVE  \A i, j, k \in Ids :
               <<i, j>> \in S \union B \X A /\ <<j, k>> \in S \union B \X A =>
                   <<i, k>> \in S \union B \X A
<1> TAKE i \in Ids, j \in Ids, k \in Ids
<1> HAVE <<i, j>> \in S \union B \X A /\ <<j, k>> \in S \union B \X A
<1>1. CASE <<i, j>> \in S /\ <<j, k>> \in S
  BY <1>1
<1>2. CASE <<i, j>> \in S /\ <<j, k>> \in B \X A
  BY <1>2
<1>3. CASE <<i, j>> \in B \X A /\ <<j, k>> \in S
  BY <1>3
<1>4. CASE <<i, j>> \in B \X A /\ <<j, k>> \in B \X A
  BY <1>4
<1>5. QED
  BY <1>1, <1>2, <1>3, <1>4

\* What one copy leads to, the copies after it lead to.
LEMMA BelowIsClosed ==
    ASSUME TypeOK, SawIsOrder, NEW f \in Files, NEW v \in Copies(f), NEW u
    PROVE  /\ Heads(v) \subseteq Below(f, v) /\ Heads(v) \subseteq Written /\ Heads(v) \subseteq Ids
           /\ Below(f, u) \subseteq Ids /\ Below(f, u) \subseteq Written /\ Above(f, u) \subseteq Ids
           /\ \A i, j \in Ids : <<i, j>> \in saw[f] /\ j \in Below(f, u) => i \in Below(f, u)
           /\ \A i, j \in Ids : <<i, j>> \in saw[f] /\ i \in Above(f, v) => j \in Above(f, v)
           /\ ~Missing(v) => v.id \in Above(f, v) /\ v.id \in Below(f, v) /\ v.id \in Ids /\ v.id \in Written
<1>1. /\ v \in Version /\ Heads(v) \subseteq Ids
      /\ saw[f] \subseteq Ids \X Ids /\ saw[f] \subseteq Written \X Written
      /\ \A i \in Heads(v) : <<i, i>> \in saw[f]
  BY CopiesTyped DEF TypeOK, SawIsOrder, Version, Heads, Missing
<1>2. \A i, j, k \in Ids : <<i, j>> \in saw[f] /\ <<j, k>> \in saw[f] => <<i, k>> \in saw[f]
  BY DEF SawIsOrder
<1>3. Heads(v) \subseteq Below(f, v) /\ Heads(v) \subseteq Written
  BY <1>1 DEF Below
<1>4. Below(f, u) \subseteq Ids /\ Below(f, u) \subseteq Written /\ Above(f, u) \subseteq Ids
  BY <1>1 DEF Below, Above
<1>5. \A i, j \in Ids : <<i, j>> \in saw[f] /\ j \in Below(f, u) => i \in Below(f, u)
  BY <1>1, <1>2 DEF Below
<1>6. \A i, j \in Ids : <<i, j>> \in saw[f] /\ i \in Above(f, v) => j \in Above(f, v)
  <2> TAKE i \in Ids, j \in Ids
  <2> HAVE <<i, j>> \in saw[f] /\ i \in Above(f, v)
  <2>1. <<v.id, i>> \in saw[f] /\ v.id \in Ids
    BY <1>1 DEF Above
  <2>2. QED
    BY <1>2, <2>1 DEF Above
<1>7. ~Missing(v) => v.id \in Above(f, v) /\ v.id \in Below(f, v) /\ v.id \in Ids /\ v.id \in Written
  BY <1>1, <1>3 DEF Heads, Above
<1>8. QED
  BY <1>1, <1>3, <1>4, <1>5, <1>6, <1>7

\* What a replace or a deletion adds to the order.
LEMMA SupersedeGrows ==
    ASSUME TypeOK, SawIsOrder, NEW m \in Machines, NEW f \in Files, NEW old \in Copies(f),
           NEW new \in Copies(f), Supersede(m, f, old, new)
    PROVE  /\ saw' \in [Files -> SUBSET (Ids \X Ids)]
           /\ \A g \in Files : saw[g] \subseteq saw'[g] /\ saw'[g] \subseteq Written \X Written
           /\ \A g \in Files : \A i, j, k \in Ids :
                  <<i, j>> \in saw'[g] /\ <<j, k>> \in saw'[g] => <<i, k>> \in saw'[g]
           /\ \A g \in Files : \A i, j \in Ids : <<i, j>> \in saw'[g] =>
                  <<i, j>> \in saw[g] \/ (g = f /\ i \in Below(f, old) /\ j \in Above(f, new))
<1> DEFINE B == Below(f, old)
           A == Above(f, new)
<1>1. /\ B \subseteq Ids /\ B \subseteq Written /\ A \subseteq Ids
      /\ \A i, j \in Ids : <<i, j>> \in saw[f] /\ j \in B => i \in B
      /\ \A i, j \in Ids : <<i, j>> \in saw[f] /\ i \in A => j \in A
  BY BelowIsClosed
<1>2. A \subseteq Written
  BY DEF SawIsOrder, Above
<1>3. saw \in [Files -> SUBSET (Ids \X Ids)]
  BY DEF TypeOK
<1>4. /\ \A g \in Files : saw[g] \subseteq Written \X Written
      /\ \A g \in Files : \A i, j, k \in Ids : <<i, j>> \in saw[g] /\ <<j, k>> \in saw[g] => <<i, k>> \in saw[g]
  BY DEF SawIsOrder
<1>5. saw' = saw \/ saw' = [saw EXCEPT ![f] = @ \union B \X A]
  BY DEF Supersede
<1> HIDE DEF A, B
<1>6. CASE saw' = saw
  BY <1>3, <1>4, <1>6 DEF A, B
<1>7. CASE saw' = [saw EXCEPT ![f] = @ \union B \X A]
  <2>1. /\ saw' \in [Files -> SUBSET (Ids \X Ids)] /\ saw'[f] = saw[f] \union B \X A
        /\ \A g \in Files : g # f => saw'[g] = saw[g]
    BY <1>1, <1>3, <1>7
  <2>2. \A i, j, k \in Ids : <<i, j>> \in saw'[f] /\ <<j, k>> \in saw'[f] => <<i, k>> \in saw'[f]
    BY <1>1, <1>4, <2>1, OrderGrows
  <2>3. \A g \in Files : saw[g] \subseteq saw'[g] /\ saw'[g] \subseteq Written \X Written
    BY <1>1, <1>2, <1>4, <2>1
  <2>4. \A g \in Files : \A i, j, k \in Ids :
            <<i, j>> \in saw'[g] /\ <<j, k>> \in saw'[g] => <<i, k>> \in saw'[g]
    BY <1>4, <2>1, <2>2
  <2>5. \A g \in Files : \A i, j \in Ids : <<i, j>> \in saw'[g] =>
            <<i, j>> \in saw[g] \/ (g = f /\ i \in B /\ j \in A)
    BY <2>1
  <2>6. QED
    BY <2>1, <2>3, <2>4, <2>5 DEF A, B
<1>8. QED
  BY <1>5, <1>6, <1>7 DEF A, B

-----------------------------------------------------------------------------
(* The plan. *)

\* A path a person's rule or a first sync decides.
AskedFor(m, f) ==
    \/ ~Recorded(m, f)
    \/ /\ ~Missing(local[m][f]) /\ ~Missing(cloud[f])
       /\ BothChanged(local[m][f], cloud[f], manifest[m][f])

\* A file on one side only: it is carried over, its absence is carried over when the record proves it, or it is a conflict.
LEMMA OneSideFacts ==
    ASSUME TypeOK, TimesTellApart, RecordsStand, NEW m \in Machines, NEW f \in Files,
           NEW v \in Copies(f), ~Missing(v), NEW side \in {"local", "cloud"}
    PROVE  LET d == OneSide(v, side, manifest[m][f]) IN
           /\ d \in {"conflict", DeleteFrom(side), From(side)}
           /\ d = DeleteFrom(side) => Unchanged(m, f, v) /\ Recorded(m, f) /\ DeletePolicy = "propagate"
           /\ d = From(side) => ~Recorded(m, f) \/ DeletePolicy = "never"
<1> DEFINE p == manifest[m][f]
           d == OneSide(v, side, p)
<1>1. Recorded(m, f) => p.local = p.cloud /\ p.local # None
  BY BaselineAssumption DEF RecordsStand
<1>2. Held(p) <=> Recorded(m, f)
  BY <1>1 DEF Held, Recorded
<1>3. Recorded(m, f) => (Changed(v, p.local) <=> ~Unchanged(m, f, v)) /\ (Changed(v, p.cloud) <=> ~Unchanged(m, f, v))
  BY ChangedIsRestamped
<1>4. p["local"] = p.local /\ p["cloud"] = p.cloud
  OBVIOUS
<1>5. DeletionProven(v, side, p) <=> DeletePolicy = "propagate" /\ Recorded(m, f) /\ Unchanged(m, f, v)
  <2>1. CASE side = "local"
    BY <1>2, <1>3, <2>1 DEF DeletionProven
  <2>2. CASE side = "cloud"
    BY <1>2, <1>3, <2>2 DEF DeletionProven
  <2>3. QED
    BY <2>1, <2>2
<1>6. DeletionDisputed(p) <=> DeletePolicy = "propagate" /\ Recorded(m, f)
  BY <1>2 DEF DeletionDisputed
<1>7. DeletePolicy \in {"never", "propagate"}
  BY PlannerAssumption
<1>8. DeleteFrom(side) # From(side) /\ DeleteFrom(side) # "conflict" /\ From(side) # "conflict"
  BY DEF DeleteFrom, From
<1>9. QED
  BY <1>5, <1>6, <1>7, <1>8 DEF OneSide

\* A file on both sides: what each decision says about the copies and the record.
LEMMA BothSidesFacts ==
    ASSUME TypeOK, TimesTellApart, RecordsStand, NEW m \in Machines, NEW f \in Files,
           NEW policy \in Policies, ~Missing(local[m][f]), ~Missing(cloud[f])
    PROVE  LET d == BothSides(local[m][f], cloud[f], manifest[m][f], policy) IN
           /\ d \in {"nothing", "to_cloud", "to_local", "conflict"}
           /\ d = "nothing" => Alike(m, f)
           /\ d = "to_cloud" => /\ AskedFor(m, f) \/ Unchanged(m, f, cloud[f])
                                /\ ~Unchanged(m, f, local[m][f])
           /\ d = "to_local" => AskedFor(m, f) \/ Unchanged(m, f, local[m][f])
<1> DEFINE l == local[m][f]
           c == cloud[f]
           p == manifest[m][f]
           d == BothSides(l, c, p, policy)
<1>1. l \in Copies(f) /\ c \in Copies(f)
  BY CopiesTyped
<1>2. /\ SameFile(l, c) <=> l.mtime = c.mtime
      /\ Close(l.mtime, c.mtime) <=> l.mtime = c.mtime
      /\ l.mtime = c.mtime => Fingerprint(l) = Fingerprint(c)
  BY <1>1, SameFileIsSameTime
<1>3. Recorded(m, f) => (Changed(l, p.local) <=> ~Unchanged(m, f, l)) /\ (Changed(c, p.cloud) <=> ~Unchanged(m, f, c))
  BY <1>1, ChangedIsRestamped
<1>4. Unchanged(m, f, l) /\ Unchanged(m, f, c) => l.mtime = c.mtime
  BY DEF Unchanged
<1>5. Unchanged(m, f, l) => Recorded(m, f)
  BY DEF Unchanged
<1>6. CASE SameFile(l, c)
  <2>1. d = "nothing"
    BY <1>6 DEF BothSides
  <2>2. Alike(m, f)
    BY <1>2, <1>6 DEF Alike
  <2>3. QED
    BY <2>1, <2>2
<1>7. CASE ~SameFile(l, c) /\ BothChanged(l, c, p)
  <2>1. d = Resolve(l, c, policy)
    BY <1>7 DEF BothSides
  <2>2. d \in {"to_cloud", "to_local", "conflict"}
    BY <2>1, BaselineAssumption DEF Resolve, ConflictPolicies, Newer
  <2>3. AskedFor(m, f) /\ ~Unchanged(m, f, l)
    BY <1>3, <1>7 DEF AskedFor, BothChanged, Recorded
  <2>4. QED
    BY <2>2, <2>3
<1>8. CASE ~SameFile(l, c) /\ ~BothChanged(l, c, p) /\ p # None /\ Changed(l, p.local)
  <2>1. d = "to_cloud" /\ ~Changed(c, p.cloud)
    BY <1>8 DEF BothSides, BothChanged
  <2>2. QED
    BY <1>3, <1>8, <2>1 DEF Recorded
<1>9. CASE ~SameFile(l, c) /\ ~BothChanged(l, c, p) /\ p # None /\ ~Changed(l, p.local) /\ Changed(c, p.cloud)
  <2>1. d = "to_local"
    BY <1>9 DEF BothSides
  <2>2. QED
    BY <1>3, <1>9, <2>1 DEF Recorded
<1>10. CASE ~SameFile(l, c) /\ p # None /\ ~Changed(l, p.local) /\ ~Changed(c, p.cloud)
  BY <1>2, <1>3, <1>4, <1>10 DEF Recorded
<1>11. CASE ~SameFile(l, c) /\ p = None
  <2>1. d = Newer(l, c)
    BY <1>2, <1>11 DEF BothSides, BothChanged, ByTime
  <2>2. d \in {"to_cloud", "to_local"}
    BY <2>1 DEF Newer
  <2>3. AskedFor(m, f) /\ ~Recorded(m, f)
    BY <1>11 DEF AskedFor, Recorded
  <2>4. QED
    BY <1>5, <2>2, <2>3
<1>12. QED
  BY <1>6, <1>7, <1>8, <1>9, <1>10, <1>11 DEF BothChanged

\* What each decision of the planner says about the two copies and the record.
LEMMA DecideFacts ==
    ASSUME TypeOK, TimesTellApart, RecordsStand, NEW m \in Machines, NEW f \in Files, NEW policy \in Policies
    PROVE  LET d == Raw(m, policy)[f] IN
           /\ d \in Decisions
           /\ d = "nothing" => Alike(m, f)
           /\ d = "to_cloud" =>
                 /\ ~Missing(local[m][f])
                 /\ AskedFor(m, f) \/ AsRecorded(m, f, cloud[f])
                 /\ DeletePolicy = "never" \/ ~Unchanged(m, f, local[m][f])
           /\ d = "to_local" =>
                 /\ ~Missing(cloud[f])
                 /\ AskedFor(m, f) \/ AsRecorded(m, f, local[m][f])
                 /\ Missing(local[m][f]) /\ Recorded(m, f) => DeletePolicy = "never"
           /\ d \in Deletions => ~AskedFor(m, f) /\ DeletePolicy = "propagate"
           /\ d = "del_cloud" => Missing(local[m][f]) /\ Unchanged(m, f, cloud[f])
           /\ d = "del_local" => Missing(cloud[f]) /\ Unchanged(m, f, local[m][f])
<1> DEFINE l == local[m][f]
           c == cloud[f]
           p == manifest[m][f]
           d == Raw(m, policy)[f]
<1>1. d = Decide(l, c, p, policy)
  BY DEF Raw
<1>2. l \in Copies(f) /\ c \in Copies(f)
  BY CopiesTyped
<1>3. CASE Missing(l) /\ Missing(c)
  <2>1. d = "nothing" /\ Alike(m, f)
    BY <1>1, <1>3 DEF Decide, Alike
  <2>2. QED
    BY <2>1 DEF Decisions, Deletions
<1>4. CASE ~Missing(l) /\ Missing(c)
  <2>1. d = OneSide(l, "local", p)
    BY <1>1, <1>4 DEF Decide
  <2>2. /\ d \in {"conflict", "del_local", "to_cloud"}
        /\ d = "del_local" => Unchanged(m, f, l) /\ Recorded(m, f) /\ DeletePolicy = "propagate"
        /\ d = "to_cloud" => ~Recorded(m, f) \/ DeletePolicy = "never"
    BY <1>2, <1>4, <2>1, OneSideFacts DEF DeleteFrom, From
  <2>3. QED
    BY <1>4, <2>2 DEF Decisions, Deletions, AskedFor, AsRecorded, Unchanged
<1>5. CASE Missing(l) /\ ~Missing(c)
  <2>1. d = OneSide(c, "cloud", p)
    BY <1>1, <1>5 DEF Decide
  <2>2. /\ d \in {"conflict", "del_cloud", "to_local"}
        /\ d = "del_cloud" => Unchanged(m, f, c) /\ Recorded(m, f) /\ DeletePolicy = "propagate"
        /\ d = "to_local" => ~Recorded(m, f) \/ DeletePolicy = "never"
    BY <1>2, <1>5, <2>1, OneSideFacts DEF DeleteFrom, From
  <2>3. QED
    BY <1>5, <2>2 DEF Decisions, Deletions, AskedFor, AsRecorded
<1>6. CASE ~Missing(l) /\ ~Missing(c)
  <2>1. d = BothSides(l, c, p, policy)
    BY <1>1, <1>6 DEF Decide
  <2>2. QED
    BY <1>6, <2>1, BothSidesFacts DEF Decisions, Deletions, AsRecorded
<1>7. QED
  BY <1>3, <1>4, <1>5, <1>6

-----------------------------------------------------------------------------
(* Types. *)

\* The versions the actions write are versions, and a deletion joins what it removes.
LEMMA VersionsTyped ==
    /\ Empty \in Version /\ First \in Version /\ Missing(Empty) /\ ~Missing(First)
    /\ \A v, w \in Version : Heads(v) \subseteq Ids /\ Removed(v, w) \in Version
    /\ \A v, w \in Version : Missing(Removed(v, w)) /\ Heads(Removed(v, w)) = Heads(v) \union Heads(w)
<1>1. 1 \in Ids /\ None \notin Ids
  BY BaselineAssumption DEF Ids
<1>2. Empty \in Version /\ First \in Version /\ Missing(Empty) /\ ~Missing(First)
  BY <1>1 DEF Empty, First, Version, Missing
<1>3. \A v \in Version : Heads(v) \subseteq Ids
  BY DEF Heads, Missing, Version
<1>4. ASSUME NEW v \in Version, NEW w \in Version
      PROVE  /\ Removed(v, w) \in Version /\ Missing(Removed(v, w))
             /\ Heads(Removed(v, w)) = Heads(v) \union Heads(w)
  <2>1. Removed(v, w) = [id |-> None, mtime |-> 0, gone |-> Heads(v) \union Heads(w)]
    BY DEF Removed, Empty
  <2>2. Heads(v) \union Heads(w) \in SUBSET Ids
    BY <1>3
  <2>3. QED
    BY <2>1, <2>2 DEF Version, Missing, Heads
<1>5. QED
  BY <1>2, <1>3, <1>4

\* The fingerprint of a copy is one, and a copy that is there has a number and a time.
LEMMA FingerprintTyped ==
    ASSUME TypeOK, TimesTellApart, NEW f \in Files, NEW v \in Copies(f)
    PROVE  /\ Fingerprint(v) \in Prints \union {None}
           /\ ~Missing(v) => Fingerprint(v) \in Prints /\ v.id \in Ids /\ v.mtime \in Times \union {1}
<1>1. v \in Version
  BY CopiesTyped
<1>2. ~Missing(v) => v.id \in Ids /\ v.mtime \in Times \union {1}
  BY <1>1 DEF TimesTellApart, TypeOK, Version, Missing
<1>3. QED
  BY <1>2 DEF Fingerprint, Prints

\* The initial state is typed.
LEMMA InitTyped == Init => TypeOK
<1> SUFFICES ASSUME Init PROVE TypeOK
  OBVIOUS
<1> DEFINE start == IF Synced THEN First ELSE Empty
           both == [local |-> Fingerprint(start), cloud |-> Fingerprint(start)]
<1>1. start \in Version
  BY VersionsTyped
<1>2. 1 \in Ids
  BY BaselineAssumption DEF Ids
<1>3. Synced => both \in Pair
  <2>1. [mtime |-> 1, size |-> SizeOf[1]] \in Prints
    BY <1>2 DEF Prints
  <2>2. ASSUME Synced PROVE both = [local |-> [mtime |-> 1, size |-> SizeOf[1]], cloud |-> [mtime |-> 1, size |-> SizeOf[1]]]
    <3>1. start = First /\ ~Missing(First)
      BY <2>2, VersionsTyped
    <3>2. Fingerprint(First) = [mtime |-> 1, size |-> SizeOf[1]]
      BY <3>1 DEF Fingerprint, First
    <3>3. QED
      BY <3>1, <3>2
  <2>3. QED
    BY <2>1, <2>2 DEF Pair
<1>4. local \in [Machines -> [Files -> Version]] /\ cloud \in [Files -> Version]
  BY <1>1 DEF Init
<1>5. manifest \in [Machines -> [Files -> Pair \union {None}]]
  BY <1>3 DEF Init
<1>6. /\ open \subseteq Machines /\ pc \in [Machines -> PCs]
      /\ skipped \in [Machines -> SUBSET Files] /\ decided \in [Machines -> SUBSET Files]
  BY DEF Init, PCs
<1>7. todo \in [Machines -> [Files -> Decisions \ {"conflict"}]]
  BY DEF Init, Nothing, Decisions
<1>8. /\ staged \in [Machines -> [Files -> Version]]
      /\ index \in [Machines -> [Files -> Pair \union {None}]]
      /\ loaded \in [Machines -> [Machines -> [Files -> Pair \union {None}]]]
  BY VersionsTyped DEF Init, NoEntry, NoManifest
<1>9. stamps \subseteq Times \union {1} /\ clock \in [Machines -> Times \union {0}] /\ used \in [Bounds -> Nat]
  BY DEF Init
<1>10. saw \in [Files -> SUBSET (Ids \X Ids)] /\ mirror \in [Roots -> {"whole", "emptied", "refilled"}]
  BY <1>2 DEF Init
<1>11. lost \subseteq Ids /\ revived \subseteq Ids
  BY DEF Init
<1>12. QED
  BY <1>4, <1>5, <1>6, <1>7, <1>8, <1>9, <1>10, <1>11 DEF TypeOK

\* Leaving a run keeps the types of what it resets.
LEMMA LeaveTyped ==
    ASSUME TypeOK, NEW m \in Machines, Leave(m)
    PROVE  /\ pc' \in [Machines -> PCs] /\ todo' \in [Machines -> [Files -> Decisions \ {"conflict"}]]
           /\ skipped' \in [Machines -> SUBSET Files] /\ decided' \in [Machines -> SUBSET Files]
           /\ staged' \in [Machines -> [Files -> Version]]
           /\ index' \in [Machines -> [Files -> Pair \union {None}]]
           /\ loaded' \in [Machines -> [Machines -> [Files -> Pair \union {None}]]]
<1>1. Nothing \in [Files -> Decisions \ {"conflict"}] /\ [f \in Files |-> Empty] \in [Files -> Version]
  BY VersionsTyped DEF Nothing, Decisions
<1>2. NoEntry \in [Files -> Pair \union {None}] /\ NoManifest \in [Machines -> [Files -> Pair \union {None}]]
  BY DEF NoEntry, NoManifest
<1>3. "idle" \in PCs
  BY DEF PCs
<1>4. QED
  BY <1>1, <1>2, <1>3 DEF TypeOK, Leave, Go

\* What a bounded event counts goes up by one, the other counts stand.
LEMMA SpendTyped ==
    ASSUME TypeOK, NEW what \in Bounds, NEW bound, Spend(what, bound)
    PROVE  used' \in [Bounds -> Nat] /\ used'[what] = used[what] + 1 /\ \A b \in Bounds : b # what => used'[b] = used[b]
  BY DEF TypeOK, Spend

\* What the runs themselves do to the types.
LEMMA RunTyped ==
    ASSUME TypeOK, TimesTellApart, RecordsStand, NEW m \in Machines
    PROVE  Step(m) \/ StartSync(m) \/ Fail(m) \/ Resume(m) => TypeOK'
<1>1. ASSUME NEW policy \in Policies, NEW d \in Directions, Plan(m, policy, d) PROVE TypeOK'
  <2> DEFINE plan == Decided(m, policy)
             drop == {f \in Files : plan[f] \in Dropped(d)}
             asked == {f \in Files : \/ manifest[m][f] = None
                                     \/ /\ ~Missing(local[m][f]) /\ ~Missing(cloud[f])
                                        /\ BothChanged(local[m][f], cloud[f], manifest[m][f])}
  <2>1. \A f \in Files : plan[f] \in Decisions /\ plan[f] # "conflict"
    <3>1. \A f \in Files : Raw(m, policy)[f] \in Decisions
      BY DecideFacts
    <3>2. \A f \in Files : plan[f] \in Decisions
      BY <3>1 DEF Decided, Decisions
    <3>3. ConflictFree(plan, policy)
      BY <1>1 DEF Plan
    <3>4. QED
      BY <3>2, <3>3 DEF ConflictFree
  <2>2. /\ todo' = [todo EXCEPT ![m] = [f \in Files |-> IF f \in drop THEN "nothing" ELSE plan[f]]]
        /\ skipped' = [skipped EXCEPT ![m] = drop]
        /\ decided' = [decided EXCEPT ![m] = asked]
        /\ pc' = [pc EXCEPT ![m] = "scan"]
        /\ UNCHANGED <<local, cloud, manifest, open, staged, index, loaded, stamps, clock, used, history>>
    BY <1>1 DEF Plan, Go
  <2> HIDE DEF plan
  <2>3. [f \in Files |-> IF f \in drop THEN "nothing" ELSE plan[f]] \in [Files -> Decisions \ {"conflict"}]
    BY <2>1 DEF Decisions
  <2>4. drop \subseteq Files /\ asked \subseteq Files /\ "scan" \in PCs
    BY DEF PCs
  <2> HIDE DEF drop, asked
  <2>5. QED
    BY <2>2, <2>3, <2>4 DEF TypeOK, history
<1>2. ASSUME Scan(m) \/ Open(m) \/ Load(m) \/ Resume(m) PROVE TypeOK'
  <2>1. {"open", "stage", "save"} \subseteq PCs
    BY DEF PCs, Writing
  <2>2. Scan(m) => TypeOK'
    BY <2>1 DEF TypeOK, Scan, Go, run, history
  <2>3. Open(m) => TypeOK'
    BY <2>1 DEF TypeOK, Open, Go, run, history
  <2>4. Load(m) => TypeOK'
    BY <2>1 DEF TypeOK, Load, Go, history
  <2>5. Resume(m) => TypeOK'
    BY DEF TypeOK, Resume, run, history
  <2>6. QED
    BY <1>2, <2>2, <2>3, <2>4, <2>5
<1>3. ASSUME ScanBlocked(m) \/ CannotStage(m) PROVE TypeOK'
  <2>1. /\ Leave(m) /\ open' \subseteq Machines
        /\ UNCHANGED <<local, cloud, manifest, stamps, clock, used, history>>
    BY <1>3 DEF ScanBlocked, CannotStage, TypeOK
  <2>2. QED
    BY <2>1, LeaveTyped DEF TypeOK, history
<1>4. ASSUME Fail(m) PROVE TypeOK'
  <2>1. /\ Leave(m) /\ open' \subseteq Machines /\ used' \in [Bounds -> Nat]
        /\ UNCHANGED <<local, cloud, manifest, stamps, clock, history>>
    BY <1>4, SpendTyped DEF Fail, TypeOK, Bounds
  <2>2. QED
    BY <2>1, LeaveTyped DEF TypeOK, history
<1>5. ASSUME Save(m) PROVE TypeOK'
  <2>1. /\ Leave(m) /\ open' \subseteq Machines
        /\ UNCHANGED <<local, cloud, stamps, clock, used, history>>
    BY <1>5 DEF Save, TypeOK
  <2>2. Baseline(m) \in [Files -> Pair \union {None}] /\ Others(m) \in [Machines -> [Files -> Pair \union {None}]]
    BY DEF TypeOK, Baseline, Others
  <2>3. manifest' \in [Machines -> [Files -> Pair \union {None}]]
    BY <1>5, <2>2 DEF Save
  <2>4. QED
    BY <2>1, <2>3, LeaveTyped DEF TypeOK, history
<1>6. ASSUME Stage(m) PROVE TypeOK'
  <2> DEFINE new == [f \in Files |-> IF todo[m][f] \in {"to_local", "to_cloud"} THEN Source(m, f) ELSE Empty]
  <2>1. new \in [Files -> Version]
    BY VersionsTyped DEF Source, TypeOK
  <2>2. /\ staged' = [staged EXCEPT ![m] = new] /\ pc' = [pc EXCEPT ![m] = "apply"] /\ "apply" \in PCs
        /\ UNCHANGED <<local, cloud, manifest, open, todo, skipped, decided, index, loaded, stamps, clock, used, history>>
    BY <1>6 DEF Stage, Go, PCs, Writing
  <2> HIDE DEF new
  <2>3. QED
    BY <2>1, <2>2 DEF TypeOK, history
<1>7. ASSUME Rescan(m) PROVE TypeOK'
  <2> DEFINE entry(f) == IF f \in GoneOnBoth(m) THEN None
                         ELSE [local |-> Fingerprint(local[m][f]), cloud |-> Fingerprint(cloud[f])]
             one(f) == IF f \in GoneOnBoth(m) THEN Mourn(m, f) ELSE local[m][f]
             other(f) == IF f \in GoneOnBoth(m) THEN Mourn(m, f) ELSE cloud[f]
  <2>1. ASSUME NEW f \in Files PROVE entry(f) \in Pair \union {None} /\ one(f) \in Version /\ other(f) \in Version
    <3>1. local[m][f] \in Version /\ cloud[f] \in Version /\ Mourn(m, f) \in Version
      BY VersionsTyped DEF TypeOK, Mourn
    <3>2. Fingerprint(local[m][f]) \in Prints \union {None} /\ Fingerprint(cloud[f]) \in Prints \union {None}
      BY CopiesTyped, FingerprintTyped
    <3>3. QED
      BY <3>1, <3>2 DEF Pair
  <2>2. /\ index' = [index EXCEPT ![m] = [f \in Files |-> entry(f)]]
        /\ local' = [local EXCEPT ![m] = [f \in Files |-> one(f)]]
        /\ cloud' = [f \in Files |-> other(f)]
        /\ pc' = [pc EXCEPT ![m] = "load"] /\ "load" \in PCs
        /\ UNCHANGED <<manifest, open, todo, skipped, decided, staged, loaded, stamps, clock, used, history>>
    BY <1>7 DEF Rescan, Go, PCs, Writing, TypeOK
  <2> HIDE DEF entry, one, other
  <2>3. QED
    BY <2>1, <2>2 DEF TypeOK, history
<1>8. ASSUME Apply(m) PROVE TypeOK'
  <2>1. PICK f \in Files : /\ Turn(m, f)
                           /\ ToCloud(m, f) \/ ToLocal(m, f) \/ DeleteLocal(m, f) \/ DeleteCloud(m, f)
                           /\ todo' = [todo EXCEPT ![m][f] = "nothing"]
    BY <1>8 DEF Apply
  <2>2. UNCHANGED <<manifest, open, pc, skipped, decided, staged, index, loaded, stamps, clock, used>>
    BY <1>8 DEF Apply
  <2>3. todo' \in [Machines -> [Files -> Decisions \ {"conflict"}]]
    BY <2>1 DEF TypeOK, Decisions
  <2>4. PICK old \in Version, new \in Version : Supersede(m, f, old, new)
    BY <2>1 DEF ToCloud, ToLocal, DeleteLocal, DeleteCloud, TypeOK
  <2>5. saw' \in [Files -> SUBSET (Ids \X Ids)] /\ lost' \subseteq Ids /\ revived' \subseteq Ids
    <3>1. Below(f, old) \subseteq Ids /\ Above(f, new) \subseteq Ids
      BY DEF Below, Above, TypeOK
    <3>2. old.id \in Ids \union {None} /\ (new.id \in Below(f, old) => new.id \in Ids)
      BY <3>1 DEF Version
    <3>3. QED
      BY <2>4, <3>1, <3>2 DEF Supersede, TypeOK, Missing
  <2>6. local' \in [Machines -> [Files -> Version]] /\ cloud' \in [Files -> Version]
    <3>1. \A v, w \in Version : Removed(v, w) \in Version
      BY VersionsTyped
    <3>2. ToCloud(m, f) \/ ToLocal(m, f) =>
             local' \in [Machines -> [Files -> Version]] /\ cloud' \in [Files -> Version]
      <4>1. staged[m][f] \in Version
        BY DEF TypeOK
      <4>2. ToCloud(m, f) => local' \in [Machines -> [Files -> Version]] /\ cloud' \in [Files -> Version]
        BY <4>1 DEF ToCloud, TypeOK
      <4>3. ToLocal(m, f) => local' \in [Machines -> [Files -> Version]] /\ cloud' \in [Files -> Version]
        BY <4>1 DEF ToLocal, TypeOK
      <4>4. QED
        BY <4>2, <4>3
    <3>3. DeleteLocal(m, f) => local' \in [Machines -> [Files -> Version]] /\ cloud' \in [Files -> Version]
      BY <3>1 DEF DeleteLocal, TypeOK
    <3>4. DeleteCloud(m, f) => local' \in [Machines -> [Files -> Version]] /\ cloud' \in [Files -> Version]
      BY <3>1 DEF DeleteCloud, TypeOK
    <3>5. QED
      BY <2>1, <3>2, <3>3, <3>4
  <2>7. mirror' \in [Roots -> {"whole", "emptied", "refilled"}]
    BY <2>1 DEF ToCloud, ToLocal, DeleteLocal, DeleteCloud, Refill, TypeOK
  <2>8. QED
    BY <2>2, <2>3, <2>5, <2>6, <2>7 DEF TypeOK
<1>9. QED
  BY <1>1, <1>2, <1>3, <1>4, <1>5, <1>6, <1>7, <1>8 DEF Step, StartSync

\* What people and the cloud client do to the types.
LEMMA ChangeTyped ==
    ASSUME TypeOK
    PROVE  /\ \A m \in Machines, f \in Files : Write(m, f) \/ Remove(m, f) => TypeOK'
           /\ \A f \in Files : Restamp(f) => TypeOK'
           /\ \A r \in Roots : EmptyRoot(r) => TypeOK'
<1>1. ASSUME NEW m \in Machines, NEW f \in Files, Write(m, f) PROVE TypeOK'
  <2> DEFINE new == used["write"] + 2
  <2>1. PICK t \in Times :
          /\ clock' = [clock EXCEPT ![m] = t]
          /\ local' = [local EXCEPT ![m][f] = [id |-> new, mtime |-> t, gone |-> {}]]
          /\ saw' = [saw EXCEPT ![f] = @ \union (Below(f, local[m][f]) \union {new}) \X {new}]
          /\ stamps' = stamps \union {t}
    BY <1>1 DEF Write
  <2>2. new \in Ids
    BY <1>1, BaselineAssumption DEF Write, Spend, Ids, TypeOK, Bounds
  <2>3. [id |-> new, mtime |-> t, gone |-> {}] \in Version
    BY <2>2 DEF Version
  <2>4. used' \in [Bounds -> Nat]
    BY <1>1, SpendTyped DEF Write, Bounds
  <2>5. Below(f, local[m][f]) \subseteq Ids
    BY DEF Below
  <2>6. UNCHANGED <<cloud, manifest, open, pc, run, mirror, lost, revived>>
    BY <1>1 DEF Write
  <2> HIDE DEF new
  <2>7. local' \in [Machines -> [Files -> Version]] /\ clock' \in [Machines -> Times \union {0}]
        /\ stamps' \subseteq Times \union {1}
    BY <2>1, <2>3 DEF TypeOK
  <2>8. saw' \in [Files -> SUBSET (Ids \X Ids)]
    <3>1. (Below(f, local[m][f]) \union {new}) \X {new} \subseteq Ids \X Ids
      BY <2>2, <2>5
    <3>2. QED
      BY <2>1, <3>1 DEF TypeOK
  <2>9. QED
    BY <2>4, <2>6, <2>7, <2>8 DEF TypeOK, run
<1>2. ASSUME NEW m \in Machines, NEW f \in Files, Remove(m, f) PROVE TypeOK'
  <2>1. local[m][f].id \in Ids
    BY <1>2 DEF Remove, TypeOK, Version, Missing
  <2>2. [Empty EXCEPT !.gone = {local[m][f].id}] = [id |-> None, mtime |-> 0, gone |-> {local[m][f].id}]
    BY DEF Empty
  <2>3. [Empty EXCEPT !.gone = {local[m][f].id}] \in Version
    BY <2>1, <2>2 DEF Version
  <2>4. used' \in [Bounds -> Nat]
    BY <1>2, SpendTyped DEF Remove, Bounds
  <2>5. local' \in [Machines -> [Files -> Version]]
    BY <1>2, <2>3 DEF Remove, TypeOK
  <2>6. QED
    BY <1>2, <2>4, <2>5 DEF Remove, TypeOK, run, history
<1>3. ASSUME NEW f \in Files, Restamp(f) PROVE TypeOK'
  <2>1. PICK t \in Times : cloud' = [cloud EXCEPT ![f].mtime = t] /\ stamps' = stamps \union {t}
    BY <1>3 DEF Restamp
  <2>2. used' \in [Bounds -> Nat]
    BY <1>3, SpendTyped DEF Restamp, Bounds
  <2>3. cloud' \in [Files -> Version]
    <3>1. [cloud[f] EXCEPT !.mtime = t] \in Version
      <4>1. cloud[f] \in Version
        BY DEF TypeOK
      <4>2. [cloud[f] EXCEPT !.mtime = t] = [id |-> cloud[f].id, mtime |-> t, gone |-> cloud[f].gone]
        BY <4>1 DEF Version
      <4>3. QED
        BY <4>1, <4>2 DEF Version
    <3>2. QED
      BY <2>1, <3>1 DEF TypeOK
  <2>4. QED
    BY <1>3, <2>1, <2>2, <2>3 DEF Restamp, TypeOK, run, history
<1>4. ASSUME NEW r \in Roots, EmptyRoot(r) PROVE TypeOK'
  <2>1. used' \in [Bounds -> Nat]
    BY <1>4, SpendTyped DEF EmptyRoot, Bounds
  <2>2. cloud' \in [Files -> Version] /\ mirror' \in [Roots -> {"whole", "emptied", "refilled"}]
    BY <1>4, VersionsTyped DEF EmptyRoot, TypeOK
  <2>3. QED
    BY <1>4, <2>1, <2>2 DEF EmptyRoot, TypeOK, run
<1>5. QED
  BY <1>1, <1>2, <1>3, <1>4

-----------------------------------------------------------------------------
(* What a step that leaves the baselines alone keeps. *)

\* A copy that was there before, maybe on another side.
Kept(f, v) == \E w \in Copies(f) : ~Missing(w) /\ w.id = v.id /\ w.mtime = v.mtime

Stamped(t) == stamps' = stamps \union {t} /\ \A s \in stamps : ~Close(s, t)

\* A step whose only new copies carry a stamp not used before keeps times telling versions apart, and the records standing.
LEMMA TimesStep ==
    ASSUME TypeOK, TimesTellApart, RecordsStand, manifest' = manifest, NEW t \in Int, NEW k,
           stamps' = stamps \/ Stamped(t),
           \A f \in Files : \A v \in Copies(f)' : ~Missing(v) =>
               Kept(f, v) \/ (v.mtime = t /\ v.id = k /\ Stamped(t))
    PROVE  /\ TimesTellApart' /\ RecordsStand'
           /\ \A m \in Machines, f \in Files : \A v \in Copies(f)' : Unchanged(m, f, v)' => Kept(f, v)
<1>1. stamps \subseteq Int
  BY BaselineAssumption DEF TypeOK
<1>2. \A s \in Int : Close(s, s) /\ (Close(s, t) <=> Close(t, s))
  BY PlannerAssumption DEF Close
<1>3. Stamped(t) => t \notin stamps /\ \A s \in stamps : ~Close(s, t) /\ ~Close(t, s)
  BY <1>1, <1>2 DEF Stamped
<1>4. \A r, s \in stamps' : r # s => ~Close(r, s)
  BY <1>3 DEF Stamped, TimesTellApart
<1>5. stamps \subseteq stamps'
  BY DEF Stamped
<1>6. \A f \in Files : \A v : Kept(f, v) => v.mtime \in stamps /\ ~Missing(v) /\
           \A w : Kept(f, w) /\ v.mtime = w.mtime => v.id = w.id
  BY DEF Kept, TimesTellApart, Missing
<1>7. \A f \in Files : \A v, w \in Copies(f)' : ~Missing(v) /\ ~Missing(w) =>
          v.mtime \in stamps' /\ (v.mtime = w.mtime => v.id = w.id)
  <2> TAKE f \in Files
  <2> TAKE v \in Copies(f)', w \in Copies(f)'
  <2> HAVE ~Missing(v) /\ ~Missing(w)
  <2>1. Kept(f, v) \/ (v.mtime = t /\ v.id = k /\ Stamped(t))
    OBVIOUS
  <2>2. Kept(f, w) \/ (w.mtime = t /\ w.id = k /\ Stamped(t))
    OBVIOUS
  <2>3. v.mtime \in stamps'
    BY <1>5, <1>6, <2>1 DEF Stamped
  <2>4. v.mtime = w.mtime => v.id = w.id
    BY <1>3, <1>6, <2>1, <2>2
  <2>5. QED
    BY <2>3, <2>4
<1>8. TimesTellApart'
  BY <1>4, <1>7 DEF TimesTellApart, Missing
<1>9. ASSUME NEW m \in Machines, NEW f \in Files, NEW v \in Copies(f)', Unchanged(m, f, v)'
      PROVE  Kept(f, v) /\ SizeOf[v.id] = manifest[m][f].local.size
  <2>1. Recorded(m, f) /\ ~Missing(v) /\ v.mtime = manifest[m][f].local.mtime
    BY <1>9 DEF Unchanged, Recorded, Missing
  <2>2. v.mtime \in stamps
    BY <2>1 DEF RecordsStand
  <2>3. Kept(f, v)
    BY <1>3, <2>1, <2>2
  <2>4. PICK w \in Copies(f) : ~Missing(w) /\ w.id = v.id /\ w.mtime = v.mtime
    BY <2>3 DEF Kept
  <2>5. Unchanged(m, f, w)
    BY <2>1, <2>4 DEF Unchanged
  <2>6. QED
    BY <2>1, <2>3, <2>4, <2>5 DEF RecordsStand
<1>10. RecordsStand'
  <2> SUFFICES ASSUME NEW m \in Machines, NEW f \in Files, Recorded(m, f)'
               PROVE  /\ manifest'[m][f].local = manifest'[m][f].cloud
                      /\ manifest'[m][f].local \in Prints /\ manifest'[m][f].local.mtime \in stamps'
                      /\ \A v \in Copies(f)' : Unchanged(m, f, v)' => SizeOf[v.id] = manifest'[m][f].local.size
    BY DEF RecordsStand
  <2>1. Recorded(m, f)
    BY DEF Recorded
  <2>2. /\ manifest[m][f].local = manifest[m][f].cloud
        /\ manifest[m][f].local \in Prints /\ manifest[m][f].local.mtime \in stamps
    BY <2>1 DEF RecordsStand
  <2>3. QED
    BY <1>5, <1>9, <2>2
<1>11. QED
  BY <1>8, <1>9, <1>10

\* What a recorded copy precedes stays after it, when what is below a side only grows.
LEMMA BelowStep ==
    ASSUME TypeOK, RecordedIsBelow, manifest' = manifest, NeverRefilled' => NeverRefilled,
           \A m \in Machines, f \in Files : \A v \in Copies(f)' : Unchanged(m, f, v)' => Kept(f, v),
           \A m \in Machines, f \in Files : NeverRefilled =>
               \/ Below(f, local[m][f]) \subseteq Below(f, local[m][f])'
               \/ mirror[RootOf[f]] = "whole" /\ Below(f, cloud[f]) \subseteq Below(f, local[m][f])',
           \A f \in Files : NeverRefilled /\ mirror'[RootOf[f]] = "whole" =>
               mirror[RootOf[f]] = "whole" /\ Below(f, cloud[f]) \subseteq Below(f, cloud[f])'
    PROVE  RecordedIsBelow'
<1> SUFFICES ASSUME NeverRefilled', NEW m \in Machines, NEW f \in Files, NEW v \in Copies(f)', Unchanged(m, f, v)'
             PROVE  /\ v.id \in Below(f, local[m][f])'
                    /\ mirror'[RootOf[f]] = "whole" => v.id \in Below(f, cloud[f])'
  BY DEF RecordedIsBelow
<1>1. PICK w \in Copies(f) : ~Missing(w) /\ w.id = v.id /\ w.mtime = v.mtime
  BY DEF Kept
<1>2. Unchanged(m, f, w)
  BY <1>1 DEF Unchanged, Recorded
<1>3. v.id \in Below(f, local[m][f]) /\ (mirror[RootOf[f]] = "whole" => v.id \in Below(f, cloud[f]))
  BY <1>1, <1>2 DEF RecordedIsBelow
<1>4. QED
  BY <1>3

\* What a step that touches no copy, no baseline and no history keeps.
LEMMA QuietData ==
    ASSUME Data, UNCHANGED <<local, cloud, manifest, stamps, saw, mirror>>, used'["write"] = used["write"]
    PROVE  Data'
<1>1. TimesTellApart' /\ RecordsStand'
  BY DEF Data, TimesTellApart, RecordsStand, Copies, Recorded, Unchanged, Missing
<1>2. SawIsOrder'
  BY DEF Data, SawIsOrder, Copies, Heads, Missing, Written
<1>3. RecordedIsBelow'
  <2>1. NeverRefilled' <=> NeverRefilled
    BY DEF NeverRefilled
  <2>2. \A f : \A v : Below(f, v)' = Below(f, v) /\ Copies(f)' = Copies(f)
    BY DEF Below, Heads, Missing, Copies
  <2>3. \A m, f, v : Unchanged(m, f, v)' <=> Unchanged(m, f, v)
    BY DEF Unchanged, Recorded, Missing
  <2>4. \A m, f : Below(f, local[m][f])' = Below(f, local[m][f]) /\ Below(f, cloud[f])' = Below(f, cloud[f])
    BY DEF Below, Heads, Missing
  <2>5. QED
    BY <2>1, <2>2, <2>3, <2>4 DEF Data, RecordedIsBelow
<1>4. EmptiedIsEmpty' /\ NeverDeleted'
  BY DEF Data, EmptiedIsEmpty, NeverDeleted, Recorded, Missing
<1>5. QED
  BY <1>1, <1>2, <1>3, <1>4 DEF Data

\* A path nobody touches.
LEMMA SameBelow ==
    ASSUME NEW f, NEW v, saw[f] \subseteq saw'[f]
    PROVE  Below(f, v) \subseteq Below(f, v)' /\ Heads(v)' = Heads(v)
  BY DEF Below, Heads, Missing

-----------------------------------------------------------------------------
(* What people and the cloud client do to the data. *)

\* What a person's write does: a version of a new number and a new time, over the one that was there.
LEMMA WriteFacts ==
    ASSUME TypeOK, SawIsOrder, ~SharedTimes, NEW m \in Machines, NEW f \in Files, Write(m, f)
    PROVE  \E t \in Times : LET new == used["write"] + 2
                                v == [id |-> new, mtime |-> t, gone |-> {}] IN
             /\ Stamped(t) /\ new \in Ids /\ new \notin Written /\ Written' = Written \union {new}
             /\ local'[m][f] = v /\ ~Missing(v) /\ Heads(v) = {new}
             /\ \A n \in Machines, g \in Files : n # m \/ g # f => local'[n][g] = local[n][g]
             /\ saw'[f] = saw[f] \union (Below(f, local[m][f]) \union {new}) \X {new}
             /\ \A g \in Files : g # f => saw'[g] = saw[g]
             /\ UNCHANGED <<cloud, manifest, open, pc, run, mirror, lost, revived>>
<1> DEFINE new == used["write"] + 2
<1>1. PICK t \in Times :
        /\ Fresh(t)
        /\ local' = [local EXCEPT ![m][f] = [id |-> new, mtime |-> t, gone |-> {}]]
        /\ saw' = [saw EXCEPT ![f] = @ \union (Below(f, local[m][f]) \union {new}) \X {new}]
        /\ stamps' = stamps \union {t}
  BY DEF Write
<1> DEFINE v == [id |-> new, mtime |-> t, gone |-> {}]
<1>2. Stamped(t)
  BY <1>1 DEF Fresh, Stamped
<1>3. used["write"] \in Nat /\ used'["write"] = used["write"] + 1 /\ used["write"] < MaxWrites
  BY SpendTyped DEF Write, Bounds, TypeOK, Spend
<1>4. new \in Ids /\ new \notin Written /\ Written' = Written \union {new}
  <2>1. new \in Ids /\ new \notin Written
    BY <1>3, BaselineAssumption DEF Ids, Written
  <2>2. Written' = 1..(used["write"] + 2)
    BY <1>3 DEF Written
  <2>3. QED
    BY <1>3, <2>1, <2>2 DEF Written
<1>5. ~Missing(v) /\ Heads(v) = {new}
  BY <1>4, BaselineAssumption DEF Missing, Heads
<1>6. local'[m][f] = v /\ \A n \in Machines, g \in Files : n # m \/ g # f => local'[n][g] = local[n][g]
  BY <1>1 DEF TypeOK
<1>7. /\ saw'[f] = saw[f] \union (Below(f, local[m][f]) \union {new}) \X {new}
      /\ \A g \in Files : g # f => saw'[g] = saw[g]
  BY <1>1 DEF TypeOK
<1>8. UNCHANGED <<cloud, manifest, open, pc, run, mirror, lost, revived>>
  BY DEF Write
<1>9. QED
  BY <1>2, <1>4, <1>5, <1>6, <1>7, <1>8

\* A write keeps the data part of the invariant.
LEMMA WriteData ==
    ASSUME TypeOK, Data, ~SharedTimes, NEW m \in Machines, NEW f \in Files, Write(m, f)
    PROVE  Data'
<1> DEFINE new == used["write"] + 2
<1>0. TimesTellApart /\ RecordsStand /\ SawIsOrder /\ RecordedIsBelow /\ EmptiedIsEmpty /\ NeverDeleted
  BY DEF Data
<1>1. PICK t \in Times : LET v == [id |-> new, mtime |-> t, gone |-> {}] IN
             /\ Stamped(t) /\ new \in Ids /\ new \notin Written /\ Written' = Written \union {new}
             /\ local'[m][f] = v /\ ~Missing(v) /\ Heads(v) = {new}
             /\ \A n \in Machines, g \in Files : n # m \/ g # f => local'[n][g] = local[n][g]
             /\ saw'[f] = saw[f] \union (Below(f, local[m][f]) \union {new}) \X {new}
             /\ \A g \in Files : g # f => saw'[g] = saw[g]
             /\ UNCHANGED <<cloud, manifest, open, pc, run, mirror, lost, revived>>
  BY <1>0, WriteFacts
<1> DEFINE v == [id |-> new, mtime |-> t, gone |-> {}]
<1>2. t \in Int
  BY BaselineAssumption
<1>3. \A g \in Files : \A w \in Copies(g)' : w \in Copies(g) \/ (g = f /\ w = v)
  BY <1>1 DEF Copies
<1> DEFINE B == Below(f, local[m][f])
<1>4. /\ B \subseteq Ids /\ B \subseteq Written
      /\ \A i, j \in Ids : <<i, j>> \in saw[f] /\ j \in B => i \in B
  BY <1>0, CopiesTyped, BelowIsClosed
<1>5. /\ \A g \in Files : saw[g] \subseteq Written \X Written
      /\ \A g \in Files : \A i, j, k \in Ids : <<i, j>> \in saw[g] /\ <<j, k>> \in saw[g] => <<i, k>> \in saw[g]
      /\ \A g \in Files : \A w \in Copies(g) : \A i \in Heads(w) : <<i, i>> \in saw[g]
  BY <1>0 DEF SawIsOrder
<1> HIDE DEF B, new
<1>6. TimesTellApart' /\ RecordsStand'
      /\ \A n \in Machines, g \in Files : \A w \in Copies(g)' : Unchanged(n, g, w)' => Kept(g, w)
  <2>1. \A g \in Files : \A w \in Copies(g)' : ~Missing(w) =>
            Kept(g, w) \/ (w.mtime = t /\ w.id = new /\ Stamped(t))
    BY <1>1, <1>3 DEF Kept
  <2>2. QED
    BY <1>0, <1>1, <1>2, <2>1, TimesStep
<1>7. \A g \in Files : saw[g] \subseteq saw'[g]
  BY <1>1
<1>8. SawIsOrder'
  <2>1. \A i, j, k \in Ids : <<i, j>> \in saw'[f] /\ <<j, k>> \in saw'[f] => <<i, k>> \in saw'[f]
    <3>1. \A i, j \in Ids : <<i, j>> \in saw[f] /\ j \in B \union {new} => i \in B \union {new}
      BY <1>1, <1>4, <1>5
    <3>2. \A i, j \in Ids : <<i, j>> \in saw[f] /\ i \in {new} => j \in {new}
      BY <1>1, <1>5
    <3>3. saw'[f] = saw[f] \union (B \union {new}) \X {new}
      BY <1>1 DEF B
    <3>4. QED
      BY <1>5, <3>1, <3>2, <3>3, OrderGrows
  <2>2. \A g \in Files : saw'[g] \subseteq Written' \X Written'
    <3> TAKE g \in Files
    <3>1. CASE g = f
      <4>1. saw'[g] = saw[f] \union (B \union {new}) \X {new}
        BY <1>1, <3>1 DEF B
      <4>2. QED
        BY <1>1, <1>4, <1>5, <4>1
    <3>2. CASE g # f
      BY <1>1, <1>5, <3>2
    <3>3. QED
      BY <3>1, <3>2
  <2>3. \A g \in Files : \A w \in Copies(g)' : \A i \in Heads(w)' : <<i, i>> \in saw'[g]
    <3> TAKE g \in Files
    <3> TAKE w \in Copies(g)'
    <3>1. Heads(w)' = Heads(w)
      BY DEF Heads, Missing
    <3>2. CASE w \in Copies(g)
      BY <1>5, <1>7, <3>1, <3>2
    <3>3. CASE g = f /\ w = v
      BY <1>1, <3>1, <3>3
    <3>4. QED
      BY <1>3, <3>2, <3>3
  <2>4. \A g \in Files : \A i, j, k \in Ids : <<i, j>> \in saw'[g] /\ <<j, k>> \in saw'[g] => <<i, k>> \in saw'[g]
    BY <1>1, <1>5, <2>1
  <2>5. QED
    BY <2>2, <2>3, <2>4 DEF SawIsOrder
<1>9. RecordedIsBelow'
  <2>1. NeverRefilled' => NeverRefilled
    BY <1>1 DEF NeverRefilled
  <2>2. \A n \in Machines, g \in Files : Below(g, local[n][g]) \subseteq Below(g, local[n][g])'
    <3> TAKE n \in Machines, g \in Files
    <3>1. CASE n = m /\ g = f
      BY <1>1, <1>4, <3>1 DEF Below, Heads, Missing, B
    <3>2. CASE n # m \/ g # f
      <4>1. local'[n][g] = local[n][g]
        BY <1>1, <3>2
      <4>2. QED
        BY <1>7, <4>1 DEF Below, Heads, Missing
    <3>3. QED
      BY <3>1, <3>2
  <2>3. \A g \in Files : Below(g, cloud[g]) \subseteq Below(g, cloud[g])'
    BY <1>1, <1>7 DEF Below, Heads, Missing
  <2>4. QED
    BY <1>0, <1>1, <1>6, <2>1, <2>2, <2>3, BelowStep
<1>10. EmptiedIsEmpty' /\ NeverDeleted'
  BY <1>0, <1>1 DEF EmptiedIsEmpty, NeverDeleted, Recorded, Missing
<1>11. QED
  BY <1>6, <1>8, <1>9, <1>10 DEF Data

\* A step that brings no new number and leaves the order of versions alone keeps it an order.
LEMMA SameOrder ==
    ASSUME SawIsOrder, saw' = saw, used'["write"] = used["write"],
           \A g \in Files : \A w \in Copies(g)' : \A i \in Heads(w) : \E u \in Copies(g) : i \in Heads(u)
    PROVE  SawIsOrder'
<1>1. \A g \in Files : \A w \in Copies(g)' : \A i \in Heads(w) : <<i, i>> \in saw'[g]
  BY DEF SawIsOrder
<1>2. \A w : Heads(w)' = Heads(w)
  BY DEF Heads, Missing
<1>3. Written' = Written
  BY DEF Written
<1>4. QED
  BY <1>1, <1>2, <1>3 DEF SawIsOrder

\* What a person's deletion does: the local copy goes, its number is remembered.
LEMMA RemoveFacts ==
    ASSUME TypeOK, NEW m \in Machines, NEW f \in Files, Remove(m, f)
    PROVE  /\ ~Missing(local[m][f]) /\ Missing(local'[m][f]) /\ Heads(local'[m][f]) = Heads(local[m][f])
           /\ \A n \in Machines, g \in Files : n # m \/ g # f => local'[n][g] = local[n][g]
           /\ \A n \in Machines, g \in Files : Heads(local'[n][g]) = Heads(local[n][g])
           /\ \A n \in Machines, g \in Files : ~Missing(local'[n][g]) => local'[n][g] = local[n][g]
           /\ used'["write"] = used["write"] /\ used'["fail"] = used["fail"]
           /\ UNCHANGED <<cloud, manifest, open, pc, run, stamps, clock, history>>
<1>1. [Empty EXCEPT !.gone = {local[m][f].id}] = [id |-> None, mtime |-> 0, gone |-> {local[m][f].id}]
  BY DEF Empty
<1>2. local'[m][f] = [id |-> None, mtime |-> 0, gone |-> {local[m][f].id}]
      /\ \A n \in Machines, g \in Files : n # m \/ g # f => local'[n][g] = local[n][g]
  BY <1>1 DEF Remove, TypeOK
<1>3. ~Missing(local[m][f]) /\ Missing(local'[m][f]) /\ Heads(local'[m][f]) = Heads(local[m][f])
  BY <1>2 DEF Remove, Missing, Heads
<1>4. used'["write"] = used["write"] /\ used'["fail"] = used["fail"]
  BY SpendTyped DEF Remove, Bounds
<1>5. UNCHANGED <<cloud, manifest, open, pc, run, stamps, clock, history>>
  BY DEF Remove
<1>6. QED
  BY <1>2, <1>3, <1>4, <1>5

\* A deletion by a person keeps the data part of the invariant.
LEMMA RemoveData ==
    ASSUME TypeOK, Data, NEW m \in Machines, NEW f \in Files, Remove(m, f)
    PROVE  Data'
<1>0. TimesTellApart /\ RecordsStand /\ SawIsOrder /\ RecordedIsBelow /\ EmptiedIsEmpty /\ NeverDeleted
  BY DEF Data
<1>1. /\ \A n \in Machines, g \in Files : Heads(local'[n][g]) = Heads(local[n][g])
      /\ \A n \in Machines, g \in Files : ~Missing(local'[n][g]) => local'[n][g] = local[n][g]
      /\ used'["write"] = used["write"]
      /\ UNCHANGED <<cloud, manifest, stamps, saw, mirror>>
  BY RemoveFacts DEF history
<1>2. /\ \A g \in Files : \A w \in Copies(g)' : ~Missing(w) => Kept(g, w)
      /\ \A g \in Files : \A w \in Copies(g)' : \A i \in Heads(w) : \E u \in Copies(g) : i \in Heads(u)
  BY <1>1 DEF Copies, Kept
<1>3. TimesTellApart' /\ RecordsStand'
      /\ \A n \in Machines, g \in Files : \A w \in Copies(g)' : Unchanged(n, g, w)' => Kept(g, w)
  BY <1>0, <1>1, <1>2, TimesStep
<1>4. SawIsOrder'
  BY <1>0, <1>1, <1>2, SameOrder
<1>5. RecordedIsBelow'
  <2>1. NeverRefilled' => NeverRefilled
    BY <1>1 DEF NeverRefilled
  <2>2. \A n \in Machines, g \in Files : Below(g, local[n][g]) \subseteq Below(g, local[n][g])'
    BY <1>1 DEF Below, Heads, Missing
  <2>3. \A g \in Files : Below(g, cloud[g]) \subseteq Below(g, cloud[g])'
    BY <1>1 DEF Below, Heads, Missing
  <2>4. QED
    BY <1>0, <1>1, <1>3, <2>1, <2>2, <2>3, BelowStep
<1>6. EmptiedIsEmpty' /\ NeverDeleted'
  BY <1>0, <1>1 DEF EmptiedIsEmpty, NeverDeleted, Recorded, Missing
<1>7. QED
  BY <1>3, <1>4, <1>5, <1>6 DEF Data

\* What a restamp does: the mirror's copy keeps its contents and gets a time not used before.
LEMMA RestampFacts ==
    ASSUME TypeOK, ~SharedTimes, NEW f \in Files, Restamp(f)
    PROVE  \E t \in Times :
             /\ Stamped(t) /\ ~Missing(cloud[f]) /\ ~Missing(cloud'[f])
             /\ cloud'[f].id = cloud[f].id /\ cloud'[f].mtime = t
             /\ \A g \in Files : g # f => cloud'[g] = cloud[g]
             /\ \A g \in Files : Heads(cloud'[g]) = Heads(cloud[g]) /\ (Missing(cloud'[g]) <=> Missing(cloud[g]))
                                /\ cloud'[g].id = cloud[g].id
             /\ used'["write"] = used["write"] /\ used'["fail"] = used["fail"]
             /\ UNCHANGED <<local, manifest, open, pc, run, clock, history>>
<1>1. PICK t \in Times : Fresh(t) /\ cloud' = [cloud EXCEPT ![f].mtime = t] /\ stamps' = stamps \union {t}
  BY DEF Restamp
<1>2. Stamped(t)
  BY <1>1 DEF Fresh, Stamped
<1>3. cloud[f] \in Version
  BY DEF TypeOK
<1>4. [cloud[f] EXCEPT !.mtime = t] = [id |-> cloud[f].id, mtime |-> t, gone |-> cloud[f].gone]
  BY <1>3 DEF Version
<1>5. cloud'[f] = [id |-> cloud[f].id, mtime |-> t, gone |-> cloud[f].gone] /\ \A g \in Files : g # f => cloud'[g] = cloud[g]
  BY <1>1, <1>4 DEF TypeOK
<1>6. ~Missing(cloud[f]) /\ ~Missing(cloud'[f])
  BY <1>5 DEF Restamp, Missing
<1>7. \A g \in Files : Heads(cloud'[g]) = Heads(cloud[g]) /\ (Missing(cloud'[g]) <=> Missing(cloud[g])) /\ cloud'[g].id = cloud[g].id
  BY <1>5, <1>6 DEF Heads, Missing
<1>8. used'["write"] = used["write"] /\ used'["fail"] = used["fail"]
  BY SpendTyped DEF Restamp, Bounds
<1>9. UNCHANGED <<local, manifest, open, pc, run, clock, history>>
  BY DEF Restamp
<1>10. QED
  BY <1>2, <1>5, <1>6, <1>7, <1>8, <1>9

\* A restamp keeps the data part of the invariant.
LEMMA RestampData ==
    ASSUME TypeOK, Data, ~SharedTimes, NEW f \in Files, Restamp(f)
    PROVE  Data'
<1>0. TimesTellApart /\ RecordsStand /\ SawIsOrder /\ RecordedIsBelow /\ EmptiedIsEmpty /\ NeverDeleted
  BY DEF Data
<1>1. PICK t \in Times :
             /\ Stamped(t) /\ cloud'[f].id = cloud[f].id /\ cloud'[f].mtime = t
             /\ \A g \in Files : g # f => cloud'[g] = cloud[g]
             /\ \A g \in Files : Heads(cloud'[g]) = Heads(cloud[g]) /\ (Missing(cloud'[g]) <=> Missing(cloud[g]))
             /\ used'["write"] = used["write"]
             /\ UNCHANGED <<local, manifest, saw, mirror>>
  BY RestampFacts DEF history
<1>2. /\ \A g \in Files : \A w \in Copies(g)' :
              w \in Copies(g) \/ (w.mtime = t /\ w.id = cloud[f].id)
      /\ \A g \in Files : \A w \in Copies(g)' : \A i \in Heads(w) : \E u \in Copies(g) : i \in Heads(u)
  BY <1>1 DEF Copies
<1>3. \A g \in Files : \A w \in Copies(g)' : ~Missing(w) =>
          Kept(g, w) \/ (w.mtime = t /\ w.id = cloud[f].id /\ Stamped(t))
  BY <1>1, <1>2 DEF Kept
<1>4. t \in Int
  BY BaselineAssumption
<1>5. TimesTellApart' /\ RecordsStand'
      /\ \A n \in Machines, g \in Files : \A w \in Copies(g)' : Unchanged(n, g, w)' => Kept(g, w)
  BY <1>0, <1>1, <1>3, <1>4, TimesStep
<1>6. SawIsOrder'
  BY <1>0, <1>1, <1>2, SameOrder
<1>7. RecordedIsBelow'
  <2>1. NeverRefilled' => NeverRefilled
    BY <1>1 DEF NeverRefilled
  <2>2. \A n \in Machines, g \in Files : Below(g, local[n][g]) \subseteq Below(g, local[n][g])'
    BY <1>1 DEF Below, Heads, Missing
  <2>3. \A g \in Files : Below(g, cloud[g]) \subseteq Below(g, cloud[g])'
    BY <1>1 DEF Below, Heads, Missing
  <2>4. QED
    BY <1>0, <1>1, <1>5, <2>1, <2>2, <2>3, BelowStep
<1>8. EmptiedIsEmpty' /\ NeverDeleted'
  BY <1>0, <1>1 DEF EmptiedIsEmpty, NeverDeleted, Recorded, Missing
<1>9. QED
  BY <1>5, <1>6, <1>7, <1>8 DEF Data

\* What an emptied root does: its files go from the mirror, and the root is known as emptied.
LEMMA EmptyRootFacts ==
    ASSUME TypeOK, NEW r \in Roots, EmptyRoot(r)
    PROVE  /\ \A g \in Files : cloud'[g] = (IF RootOf[g] = r THEN Empty ELSE cloud[g])
           /\ \A q \in Roots : mirror'[q] = (IF q = r /\ mirror[q] = "whole" THEN "emptied" ELSE mirror[q])
           /\ used'["write"] = used["write"] /\ used'["fail"] = used["fail"]
           /\ UNCHANGED <<local, manifest, open, pc, run, stamps, clock, saw, lost, revived>>
<1>1. /\ \A g \in Files : cloud'[g] = (IF RootOf[g] = r THEN Empty ELSE cloud[g])
      /\ UNCHANGED <<local, manifest, open, pc, run, stamps, clock, saw, lost, revived>>
  BY DEF EmptyRoot
<1>2. \A q \in Roots : mirror'[q] = (IF q = r /\ mirror[q] = "whole" THEN "emptied" ELSE mirror[q])
  BY DEF EmptyRoot, TypeOK
<1>3. used'["write"] = used["write"] /\ used'["fail"] = used["fail"]
  BY SpendTyped DEF EmptyRoot, Bounds
<1>4. QED
  BY <1>1, <1>2, <1>3

\* An emptied root keeps the data part of the invariant.
LEMMA EmptyRootData ==
    ASSUME TypeOK, Data, NEW r \in Roots, EmptyRoot(r)
    PROVE  Data'
<1>0. TimesTellApart /\ RecordsStand /\ SawIsOrder /\ RecordedIsBelow /\ EmptiedIsEmpty /\ NeverDeleted
  BY DEF Data
<1>1. /\ \A g \in Files : cloud'[g] = (IF RootOf[g] = r THEN Empty ELSE cloud[g])
      /\ \A q \in Roots : mirror'[q] = (IF q = r /\ mirror[q] = "whole" THEN "emptied" ELSE mirror[q])
      /\ used'["write"] = used["write"]
      /\ UNCHANGED <<local, manifest, stamps, saw>>
  BY EmptyRootFacts
<1>2. Missing(Empty) /\ Heads(Empty) = {}
  BY DEF Missing, Heads, Empty
<1>3. /\ \A g \in Files : \A w \in Copies(g)' : ~Missing(w) => Kept(g, w)
      /\ \A g \in Files : \A w \in Copies(g)' : \A i \in Heads(w) : \E u \in Copies(g) : i \in Heads(u)
  BY <1>1, <1>2 DEF Copies, Kept
<1>4. TimesTellApart' /\ RecordsStand'
      /\ \A n \in Machines, g \in Files : \A w \in Copies(g)' : Unchanged(n, g, w)' => Kept(g, w)
  BY <1>0, <1>1, <1>3, TimesStep
<1>5. SawIsOrder'
  BY <1>0, <1>1, <1>3, SameOrder
<1>6. \A g \in Files : RootOf[g] \in Roots
  BY DEF Roots
<1>7. \A g \in Files : mirror'[RootOf[g]] = "whole" => mirror[RootOf[g]] = "whole" /\ cloud'[g] = cloud[g]
  <2> TAKE g \in Files
  <2> HAVE mirror'[RootOf[g]] = "whole"
  <2>1. RootOf[g] # r
    BY <1>1, <1>6 DEF TypeOK
  <2>2. QED
    BY <1>1, <1>6, <2>1
<1>8. RecordedIsBelow'
  <2>1. NeverRefilled' => NeverRefilled
    BY <1>1 DEF NeverRefilled
  <2>2. \A n \in Machines, g \in Files : Below(g, local[n][g]) \subseteq Below(g, local[n][g])'
    BY <1>1 DEF Below, Heads, Missing
  <2>3. \A g \in Files : mirror'[RootOf[g]] = "whole" => Below(g, cloud[g]) \subseteq Below(g, cloud[g])'
    BY <1>1, <1>7 DEF Below, Heads, Missing
  <2>4. QED
    BY <1>0, <1>1, <1>4, <1>7, <2>1, <2>2, <2>3, BelowStep
<1>9. EmptiedIsEmpty'
  BY <1>0, <1>1, <1>2, <1>6 DEF EmptiedIsEmpty, Missing
<1>10. NeverDeleted'
  BY <1>0, <1>1, <1>7 DEF NeverDeleted, Recorded, Missing
<1>11. QED
  BY <1>4, <1>5, <1>8, <1>9, <1>10 DEF Data

-----------------------------------------------------------------------------
(* What a run writes. *)

\* What a copy to the mirror does, by the plan it follows.
LEMMA ToCloudFacts ==
    ASSUME TypeOK, PlansHold, StagedIsSource, NEW m \in Machines, NEW f \in Files, pc[m] = "apply", ToCloud(m, f)
    PROVE  LET new == local[m][f] IN
           /\ PlanHolds(m, f) /\ todo[m][f] = "to_cloud" /\ ~Missing(new)
           /\ cloud'[f] = new /\ \A g \in Files : g # f => cloud'[g] = cloud[g]
           /\ Supersede(m, f, cloud[f], new)
           /\ RootOf[f] \in Roots /\ mirror'[RootOf[f]] # "emptied"
           /\ \A r \in Roots : mirror'[r] # "refilled" => mirror'[r] = mirror[r]
           /\ UNCHANGED local
<1>1. PlanHolds(m, f) /\ todo[m][f] = "to_cloud" /\ staged[m][f] = local[m][f]
  BY DEF PlansHold, ToCloud, StagedIsSource, Source
<1>2. ~Missing(local[m][f])
  BY <1>1 DEF PlanHolds
<1>3. /\ cloud'[f] = local[m][f] /\ \A g \in Files : g # f => cloud'[g] = cloud[g]
      /\ Supersede(m, f, cloud[f], local[m][f]) /\ UNCHANGED local
  BY <1>1 DEF ToCloud, TypeOK
<1>4. RootOf[f] \in Roots
  BY DEF Roots
<1>5. /\ mirror'[RootOf[f]] # "emptied"
      /\ \A r \in Roots : mirror'[r] # "refilled" => mirror'[r] = mirror[r]
  BY <1>4 DEF ToCloud, Refill, TypeOK
<1>6. QED
  BY <1>1, <1>2, <1>3, <1>4, <1>5

\* What a replace of one side by a version of the other keeps, whichever sides they are.
LEMMA CopyKeeps ==
    ASSUME TypeOK, Data, NEW m \in Machines, NEW f \in Files, NEW old \in Copies(f), NEW new \in Copies(f),
           ~Missing(new), Supersede(m, f, old, new), manifest' = manifest, stamps' = stamps,
           used'["write"] = used["write"],
           \A g \in Files : Copies(g)' \subseteq Copies(g)
    PROVE  /\ TimesTellApart' /\ RecordsStand' /\ SawIsOrder'
           /\ \A n \in Machines, g \in Files : \A w \in Copies(g)' : Unchanged(n, g, w)' => Kept(g, w)
           /\ \A g \in Files : saw[g] \subseteq saw'[g]
           /\ f \in decided[m] => Below(f, old) \subseteq Below(f, new)'
<1>0. TimesTellApart /\ RecordsStand /\ SawIsOrder
  BY DEF Data
<1>1. /\ \A g \in Files : saw[g] \subseteq saw'[g] /\ saw'[g] \subseteq Written \X Written
      /\ \A g \in Files : \A i, j, k \in Ids : <<i, j>> \in saw'[g] /\ <<j, k>> \in saw'[g] => <<i, k>> \in saw'[g]
  BY <1>0, SupersedeGrows
<1>2. \A g \in Files : \A w \in Copies(g)' : ~Missing(w) => Kept(g, w)
  BY DEF Kept
<1>3. TimesTellApart' /\ RecordsStand'
      /\ \A n \in Machines, g \in Files : \A w \in Copies(g)' : Unchanged(n, g, w)' => Kept(g, w)
  BY <1>0, <1>2, TimesStep
<1>4. SawIsOrder'
  <2>1. Written' = Written /\ \A w : Heads(w)' = Heads(w)
    BY DEF Written, Heads, Missing
  <2>2. \A g \in Files : \A w \in Copies(g)' : \A i \in Heads(w)' : <<i, i>> \in saw'[g]
    BY <1>0, <1>1, <2>1 DEF SawIsOrder
  <2>3. QED
    BY <1>1, <2>1, <2>2 DEF SawIsOrder
<1>5. f \in decided[m] => Below(f, old) \subseteq Below(f, new)'
  <2> SUFFICES ASSUME f \in decided[m], NEW i \in Below(f, old) PROVE i \in Below(f, new)'
    OBVIOUS
  <2>1. saw'[f] = saw[f] \union Below(f, old) \X Above(f, new)
    BY DEF Supersede, TypeOK
  <2>2. new.id \in Above(f, new) /\ i \in Ids
    BY <1>0, BelowIsClosed
  <2>3. <<i, new.id>> \in saw'[f]
    BY <2>1, <2>2
  <2>4. QED
    BY <2>2, <2>3 DEF Below, Heads, Missing
<1>6. QED
  BY <1>1, <1>3, <1>4, <1>5

\* What a version below another superseded is superseded by that other too.
LEMMA BelowOfBelow ==
    ASSUME TypeOK, SawIsOrder, NEW f \in Files, NEW v \in Copies(f), ~Missing(v), NEW u, v.id \in Below(f, u)
    PROVE  Below(f, v) \subseteq Below(f, u)
<1> SUFFICES ASSUME NEW i \in Below(f, v) PROVE i \in Below(f, u)
  OBVIOUS
<1>1. <<i, v.id>> \in saw[f] /\ i \in Ids
  BY DEF Below, Heads
<1>2. QED
  BY <1>1, BelowIsClosed

\* A copy to the mirror keeps the data part of the invariant.
LEMMA ToCloudData ==
    ASSUME TypeOK, Data, PlansHold, StagedIsSource, NEW m \in Machines, NEW f \in Files, pc[m] = "apply",
           ToCloud(m, f), UNCHANGED <<manifest, stamps, used>>
    PROVE  Data'
<1> DEFINE new == local[m][f]
           old == cloud[f]
<1>0. TimesTellApart /\ RecordsStand /\ SawIsOrder /\ RecordedIsBelow /\ EmptiedIsEmpty /\ NeverDeleted
  BY DEF Data
<1>1. /\ PlanHolds(m, f) /\ todo[m][f] = "to_cloud" /\ ~Missing(new)
      /\ cloud'[f] = new /\ \A g \in Files : g # f => cloud'[g] = cloud[g]
      /\ Supersede(m, f, old, new)
      /\ RootOf[f] \in Roots /\ mirror'[RootOf[f]] # "emptied"
      /\ \A r \in Roots : mirror'[r] # "refilled" => mirror'[r] = mirror[r]
      /\ UNCHANGED local
  BY ToCloudFacts
<1>2. new \in Copies(f) /\ old \in Copies(f)
  BY CopiesTyped
<1>3. \A g \in Files : Copies(g)' \subseteq Copies(g)
  BY <1>1 DEF Copies
<1>4. /\ TimesTellApart' /\ RecordsStand' /\ SawIsOrder'
      /\ \A n \in Machines, g \in Files : \A w \in Copies(g)' : Unchanged(n, g, w)' => Kept(g, w)
      /\ \A g \in Files : saw[g] \subseteq saw'[g]
      /\ f \in decided[m] => Below(f, old) \subseteq Below(f, new)'
  BY <1>1, <1>2, <1>3, CopyKeeps
<1>5. \A g \in Files : RootOf[g] \in Roots
  BY DEF Roots
<1>6. RecordedIsBelow'
  <2>1. NeverRefilled' => NeverRefilled
    <3> SUFFICES ASSUME NeverRefilled', NEW r \in Roots PROVE mirror[r] # "refilled"
      BY DEF NeverRefilled
    <3>1. mirror'[r] # "refilled"
      BY DEF NeverRefilled
    <3>2. QED
      BY <1>1, <3>1
  <2>2. \A n \in Machines, g \in Files : Below(g, local[n][g]) \subseteq Below(g, local[n][g])'
    BY <1>1, <1>4 DEF Below, Heads, Missing
  <2>3. \A g \in Files : mirror'[RootOf[g]] = "whole" => mirror[RootOf[g]] = "whole"
    BY <1>1, <1>5
  <2>4. ASSUME NeverRefilled, NEW g \in Files, mirror'[RootOf[g]] = "whole"
        PROVE  Below(g, cloud[g]) \subseteq Below(g, cloud[g])'
    <3>1. CASE g # f
      BY <1>1, <1>4, <3>1 DEF Below, Heads, Missing
    <3>2. CASE g = f /\ f \in decided[m]
      BY <1>1, <1>4, <3>2 DEF Below, Heads, Missing
    <3>3. CASE g = f /\ f \notin decided[m]
      <4>1. MayReplace(m, f, old)
        BY <1>1 DEF PlanHolds
      <4>2. Recorded(m, f) /\ AsRecorded(m, f, old)
        BY <3>3, <4>1 DEF MayReplace
      <4>3. ~Missing(old)
        BY <1>0, <2>3, <2>4, <3>3, <4>2 DEF NeverDeleted, AsRecorded
      <4>4. Unchanged(m, f, old)
        BY <4>2, <4>3 DEF AsRecorded
      <4>5. old.id \in Below(f, new)
        BY <1>0, <1>2, <2>4, <4>4 DEF RecordedIsBelow
      <4>6. Below(f, old) \subseteq Below(f, new)
        BY <1>0, <1>2, <4>3, <4>5, BelowOfBelow
      <4>7. QED
        BY <1>1, <1>4, <3>3, <4>6 DEF Below, Heads, Missing
    <3>4. QED
      BY <3>1, <3>2, <3>3
  <2>5. QED
    BY <1>0, <1>4, <2>1, <2>2, <2>3, <2>4, BelowStep
<1>7. EmptiedIsEmpty'
  <2> SUFFICES ASSUME NEW g \in Files, mirror'[RootOf[g]] = "emptied" PROVE Missing(cloud'[g])
    BY DEF EmptiedIsEmpty, Missing
  <2>1. g # f /\ mirror[RootOf[g]] = "emptied"
    BY <1>1, <1>5
  <2>2. QED
    BY <1>0, <1>1, <2>1 DEF EmptiedIsEmpty
<1>8. NeverDeleted'
  <2> SUFFICES ASSUME DeletePolicy = "never", NEW n \in Machines, NEW g \in Files, Recorded(n, g)', mirror'[RootOf[g]] = "whole"
               PROVE  ~Missing(cloud'[g])
    BY DEF NeverDeleted, Missing
  <2>1. Recorded(n, g) /\ mirror[RootOf[g]] = "whole"
    BY <1>1, <1>5 DEF Recorded
  <2>2. ~Missing(cloud[g])
    BY <1>0, <2>1 DEF NeverDeleted
  <2>3. QED
    BY <1>1, <2>2
<1>9. QED
  BY <1>4, <1>6, <1>7, <1>8 DEF Data

\* What a copy from the mirror does, by the plan it follows.
LEMMA ToLocalFacts ==
    ASSUME TypeOK, PlansHold, StagedIsSource, NEW m \in Machines, NEW f \in Files, pc[m] = "apply", ToLocal(m, f)
    PROVE  LET new == cloud[f] IN
           /\ PlanHolds(m, f) /\ todo[m][f] = "to_local" /\ ~Missing(new)
           /\ local'[m][f] = new
           /\ \A n \in Machines, g \in Files : n # m \/ g # f => local'[n][g] = local[n][g]
           /\ Supersede(m, f, local[m][f], new)
           /\ UNCHANGED <<cloud, mirror>>
<1>1. PlanHolds(m, f) /\ todo[m][f] = "to_local" /\ staged[m][f] = cloud[f]
  BY DEF PlansHold, ToLocal, StagedIsSource, Source
<1>2. ~Missing(cloud[f])
  BY <1>1 DEF PlanHolds
<1>3. /\ local'[m][f] = cloud[f] /\ \A n \in Machines, g \in Files : n # m \/ g # f => local'[n][g] = local[n][g]
      /\ Supersede(m, f, local[m][f], cloud[f]) /\ UNCHANGED <<cloud, mirror>>
  BY <1>1 DEF ToLocal, TypeOK
<1>4. QED
  BY <1>1, <1>2, <1>3

\* A copy from the mirror keeps the data part of the invariant.
LEMMA ToLocalData ==
    ASSUME TypeOK, Data, PlansHold, StagedIsSource, NEW m \in Machines, NEW f \in Files, pc[m] = "apply",
           ToLocal(m, f), UNCHANGED <<manifest, stamps, used>>
    PROVE  Data'
<1> DEFINE new == cloud[f]
           old == local[m][f]
<1>0. TimesTellApart /\ RecordsStand /\ SawIsOrder /\ RecordedIsBelow /\ EmptiedIsEmpty /\ NeverDeleted
  BY DEF Data
<1>1. /\ ~Missing(new) /\ local'[m][f] = new
      /\ \A n \in Machines, g \in Files : n # m \/ g # f => local'[n][g] = local[n][g]
      /\ Supersede(m, f, old, new)
      /\ UNCHANGED <<cloud, mirror>>
  BY ToLocalFacts
<1>2. new \in Copies(f) /\ old \in Copies(f)
  BY CopiesTyped
<1>3. \A g \in Files : Copies(g)' \subseteq Copies(g)
  BY <1>1 DEF Copies
<1>4. /\ TimesTellApart' /\ RecordsStand' /\ SawIsOrder'
      /\ \A n \in Machines, g \in Files : \A w \in Copies(g)' : Unchanged(n, g, w)' => Kept(g, w)
      /\ \A g \in Files : saw[g] \subseteq saw'[g]
  BY <1>1, <1>2, <1>3, CopyKeeps
<1>5. NeverRefilled => mirror[RootOf[f]] = "whole"
  <2>1. RootOf[f] \in Roots
    BY DEF Roots
  <2>2. mirror[RootOf[f]] \in {"whole", "emptied", "refilled"}
    BY <2>1 DEF TypeOK
  <2>3. mirror[RootOf[f]] # "emptied"
    BY <1>0, <1>1 DEF EmptiedIsEmpty
  <2>4. QED
    BY <2>1, <2>2, <2>3 DEF NeverRefilled
<1>6. RecordedIsBelow'
  <2>1. NeverRefilled' => NeverRefilled
    BY <1>1 DEF NeverRefilled
  <2>2. ASSUME NEW n \in Machines, NEW g \in Files, NeverRefilled
        PROVE  \/ Below(g, local[n][g]) \subseteq Below(g, local[n][g])'
               \/ mirror[RootOf[g]] = "whole" /\ Below(g, cloud[g]) \subseteq Below(g, local[n][g])'
    <3>1. CASE n = m /\ g = f
      BY <1>1, <1>4, <1>5, <2>2, <3>1 DEF Below, Heads, Missing
    <3>2. CASE n # m \/ g # f
      <4>1. local'[n][g] = local[n][g]
        BY <1>1, <3>2
      <4>2. QED
        BY <1>4, <4>1 DEF Below, Heads, Missing
    <3>3. QED
      BY <3>1, <3>2
  <2>3. \A g \in Files : Below(g, cloud[g]) \subseteq Below(g, cloud[g])'
    BY <1>1, <1>4 DEF Below, Heads, Missing
  <2>4. QED
    BY <1>0, <1>1, <1>4, <2>1, <2>2, <2>3, BelowStep
<1>7. EmptiedIsEmpty' /\ NeverDeleted'
  BY <1>0, <1>1 DEF EmptiedIsEmpty, NeverDeleted, Recorded, Missing
<1>8. QED
  BY <1>4, <1>6, <1>7 DEF Data

\* A step that only takes files away, and keeps what their removals stand for.
LEMMA RemovalData ==
    ASSUME TypeOK, Data, UNCHANGED <<manifest, stamps, saw, mirror>>, used'["write"] = used["write"],
           \A n \in Machines, g \in Files : Heads(local[n][g]) \subseteq Heads(local'[n][g]),
           \A g \in Files : Heads(cloud[g]) \subseteq Heads(cloud'[g]),
           \A g \in Files : \A w \in Copies(g)' : ~Missing(w) => w \in Copies(g),
           \A g \in Files : \A w \in Copies(g)' : \A i \in Heads(w) : \E u \in Copies(g) : i \in Heads(u),
           \A g \in Files : Missing(cloud[g]) => Missing(cloud'[g]),
           DeletePolicy = "never" => \A g \in Files : Missing(cloud'[g]) => Missing(cloud[g])
    PROVE  Data'
<1>0. TimesTellApart /\ RecordsStand /\ SawIsOrder /\ RecordedIsBelow /\ EmptiedIsEmpty /\ NeverDeleted
  BY DEF Data
<1>1. \A g \in Files : \A w \in Copies(g)' : ~Missing(w) => Kept(g, w)
  BY DEF Kept
<1>2. TimesTellApart' /\ RecordsStand'
      /\ \A n \in Machines, g \in Files : \A w \in Copies(g)' : Unchanged(n, g, w)' => Kept(g, w)
  BY <1>0, <1>1, TimesStep
<1>3. SawIsOrder'
  BY <1>0, SameOrder
<1>4. RecordedIsBelow'
  <2>1. NeverRefilled' => NeverRefilled
    BY DEF NeverRefilled
  <2>2. \A g : Heads(cloud[g])' = Heads(cloud'[g]) /\ \A n : Heads(local[n][g])' = Heads(local'[n][g])
    BY DEF Heads, Missing
  <2>3. \A n \in Machines, g \in Files : Below(g, local[n][g]) \subseteq Below(g, local[n][g])'
    BY <2>2 DEF Below
  <2>4. \A g \in Files : Below(g, cloud[g]) \subseteq Below(g, cloud[g])'
    BY <2>2 DEF Below
  <2>5. QED
    BY <1>0, <1>2, <2>1, <2>3, <2>4, BelowStep
<1>5. EmptiedIsEmpty' /\ NeverDeleted'
  BY <1>0 DEF EmptiedIsEmpty, NeverDeleted, Recorded, Missing
<1>6. QED
  BY <1>2, <1>3, <1>4, <1>5 DEF Data

\* What a deletion by the run does: only under the policy that propagates, on no decision of a person; the emptied side remembers the numbers of both.
LEMMA DeletionFacts ==
    ASSUME TypeOK, PlansHold, NEW m \in Machines, NEW f \in Files, pc[m] = "apply",
           DeleteLocal(m, f) \/ DeleteCloud(m, f)
    PROVE  LET gone == Removed(local[m][f], cloud[f]) IN
           /\ PlanHolds(m, f) /\ f \notin decided[m] /\ DeletePolicy = "propagate"
           /\ Missing(gone) /\ Heads(gone) = Heads(local[m][f]) \union Heads(cloud[f])
           /\ \A n \in Machines, g \in Files : n # m \/ g # f => local'[n][g] = local[n][g]
           /\ \A g \in Files : g # f => cloud'[g] = cloud[g]
           /\ saw' = saw /\ mirror' = mirror
           /\ DeleteLocal(m, f) =>
                 /\ todo[m][f] = "del_local" /\ Supersede(m, f, local[m][f], cloud[f])
                 /\ local'[m][f] = gone /\ cloud' = cloud
           /\ DeleteCloud(m, f) =>
                 /\ todo[m][f] = "del_cloud" /\ Supersede(m, f, cloud[f], local[m][f])
                 /\ Missing(cloud'[f]) /\ Heads(cloud'[f]) = Heads(gone) /\ local' = local
<1>1. todo[m][f] \in Deletions /\ PlanHolds(m, f)
  BY DEF DeleteLocal, DeleteCloud, Deletions, PlansHold
<1>2. f \notin decided[m] /\ DeletePolicy = "propagate"
  BY <1>1 DEF PlanHolds
<1>3. local[m][f] \in Version /\ cloud[f] \in Version
  BY DEF TypeOK
<1>4. /\ Missing(Removed(local[m][f], cloud[f])) /\ Missing(Removed(cloud[f], local[m][f]))
      /\ Heads(Removed(local[m][f], cloud[f])) = Heads(local[m][f]) \union Heads(cloud[f])
      /\ Heads(Removed(cloud[f], local[m][f])) = Heads(local[m][f]) \union Heads(cloud[f])
  <2>1. \A v, w \in Version : Missing(Removed(v, w)) /\ Heads(Removed(v, w)) = Heads(v) \union Heads(w)
    BY VersionsTyped
  <2> HIDE DEF Version
  <2>2. QED
    BY <1>3, <2>1
<1>5. saw' = saw /\ mirror' = mirror
  BY <1>2 DEF DeleteLocal, DeleteCloud, Supersede
<1>6. DeleteLocal(m, f) =>
         /\ todo[m][f] = "del_local" /\ Supersede(m, f, local[m][f], cloud[f])
         /\ local'[m][f] = Removed(local[m][f], cloud[f]) /\ cloud' = cloud
         /\ \A n \in Machines, g \in Files : n # m \/ g # f => local'[n][g] = local[n][g]
  BY DEF DeleteLocal, TypeOK
<1>7. DeleteCloud(m, f) =>
         /\ todo[m][f] = "del_cloud" /\ Supersede(m, f, cloud[f], local[m][f])
         /\ cloud'[f] = Removed(cloud[f], local[m][f]) /\ local' = local
         /\ \A g \in Files : g # f => cloud'[g] = cloud[g]
  BY DEF DeleteCloud, TypeOK
<1>8. QED
  BY <1>1, <1>2, <1>4, <1>5, <1>6, <1>7

\* A deletion by the run keeps the data part of the invariant.
LEMMA DeletionData ==
    ASSUME TypeOK, Data, PlansHold, NEW m \in Machines, NEW f \in Files, pc[m] = "apply",
           DeleteLocal(m, f) \/ DeleteCloud(m, f), UNCHANGED <<manifest, stamps, used>>
    PROVE  Data'
<1> DEFINE gone == Removed(local[m][f], cloud[f])
<1>1. /\ DeletePolicy = "propagate"
      /\ Missing(gone) /\ Heads(gone) = Heads(local[m][f]) \union Heads(cloud[f])
      /\ \A n \in Machines, g \in Files : n # m \/ g # f => local'[n][g] = local[n][g]
      /\ \A g \in Files : g # f => cloud'[g] = cloud[g]
      /\ saw' = saw /\ mirror' = mirror
      /\ \/ local'[m][f] = gone /\ cloud' = cloud
         \/ Missing(cloud'[f]) /\ Heads(cloud'[f]) = Heads(gone) /\ local' = local
  BY DeletionFacts
<1> HIDE DEF gone
<1>2. \A n \in Machines, g \in Files :
          /\ local'[n][g] = local[n][g] \/ (n = m /\ g = f /\ local'[n][g] = gone)
          /\ Heads(local[n][g]) \subseteq Heads(local'[n][g])
  BY <1>1
<1>3. \A g \in Files : /\ cloud'[g] = cloud[g] \/ (g = f /\ Missing(cloud'[f]) /\ Heads(cloud'[f]) = Heads(gone))
                      /\ Heads(cloud[g]) \subseteq Heads(cloud'[g]) /\ (Missing(cloud[g]) => Missing(cloud'[g]))
  BY <1>1
<1>4. \A g \in Files : \A w \in Copies(g)' : w \in Copies(g) \/ (g = f /\ Missing(w) /\ Heads(w) = Heads(gone))
  BY <1>1, <1>2, <1>3 DEF Copies
<1>5. local[m][f] \in Copies(f) /\ cloud[f] \in Copies(f)
  BY CopiesTyped
<1>6. /\ \A g \in Files : \A w \in Copies(g)' : ~Missing(w) => w \in Copies(g)
      /\ \A g \in Files : \A w \in Copies(g)' : \A i \in Heads(w) : \E u \in Copies(g) : i \in Heads(u)
  BY <1>1, <1>4, <1>5
<1>7. QED
  BY <1>1, <1>2, <1>3, <1>6, RemovalData

\* What the scan after the copies does: the index says what is there now.
LEMMA RescanFacts ==
    ASSUME TypeOK, NEW m \in Machines, Rescan(m)
    PROVE  /\ pc[m] = "apply" /\ todo[m] = Nothing /\ pc' = [pc EXCEPT ![m] = "load"]
           /\ UNCHANGED <<manifest, open, todo, skipped, decided, staged, loaded, stamps, clock, used, history>>
           /\ \A g \in Files : index'[m][g] = IF g \in GoneOnBoth(m) THEN None
                  ELSE [local |-> Fingerprint(local[m][g]), cloud |-> Fingerprint(cloud[g])]
           /\ \A n \in Machines, g \in Files :
                 IF n = m /\ g \in GoneOnBoth(m)
                 THEN /\ Missing(local[n][g]) /\ Missing(local'[n][g])
                      /\ Heads(local'[n][g]) = Heads(local[n][g]) \union Heads(cloud[g])
                 ELSE local'[n][g] = local[n][g]
           /\ \A g \in Files :
                 IF g \in GoneOnBoth(m)
                 THEN /\ Missing(cloud[g]) /\ Missing(cloud'[g])
                      /\ Heads(cloud'[g]) = Heads(local[m][g]) \union Heads(cloud[g])
                 ELSE cloud'[g] = cloud[g]
<1>1. \A g \in Files : Missing(Mourn(m, g)) /\ Heads(Mourn(m, g)) = Heads(local[m][g]) \union Heads(cloud[g])
  <2>1. \A v, w \in Version : Missing(Removed(v, w)) /\ Heads(Removed(v, w)) = Heads(v) \union Heads(w)
    BY VersionsTyped
  <2>2. \A g \in Files : local[m][g] \in Version /\ cloud[g] \in Version
    BY DEF TypeOK
  <2>3. QED
    BY <2>1, <2>2 DEF Mourn
<1>2. \A g \in Files : index'[m][g] = IF g \in GoneOnBoth(m) THEN None
                  ELSE [local |-> Fingerprint(local[m][g]), cloud |-> Fingerprint(cloud[g])]
  BY DEF Rescan, TypeOK
<1>3. \A n \in Machines, g \in Files :
          local'[n][g] = IF n = m /\ g \in GoneOnBoth(m) THEN Mourn(m, g) ELSE local[n][g]
  BY DEF Rescan, TypeOK
<1>4. \A g \in Files : cloud'[g] = IF g \in GoneOnBoth(m) THEN Mourn(m, g) ELSE cloud[g]
  BY DEF Rescan
<1>5. \A g \in GoneOnBoth(m) : Missing(local[m][g]) /\ Missing(cloud[g])
  BY DEF GoneOnBoth
<1>6. /\ pc[m] = "apply" /\ todo[m] = Nothing /\ pc' = [pc EXCEPT ![m] = "load"]
      /\ UNCHANGED <<manifest, open, todo, skipped, decided, staged, loaded, stamps, clock, used, history>>
  BY DEF Rescan, Go
<1>7. QED
  BY <1>1, <1>2, <1>3, <1>4, <1>5, <1>6

\* The scan after the copies keeps the data part of the invariant.
LEMMA RescanData ==
    ASSUME TypeOK, Data, NEW m \in Machines, Rescan(m)
    PROVE  Data'
<1>1. /\ UNCHANGED <<manifest, stamps, used, history>>
      /\ \A n \in Machines, g \in Files :
            IF n = m /\ g \in GoneOnBoth(m)
            THEN /\ Missing(local[n][g]) /\ Missing(local'[n][g])
                 /\ Heads(local'[n][g]) = Heads(local[n][g]) \union Heads(cloud[g])
            ELSE local'[n][g] = local[n][g]
      /\ \A g \in Files :
            IF g \in GoneOnBoth(m)
            THEN /\ Missing(cloud[g]) /\ Missing(cloud'[g])
                 /\ Heads(cloud'[g]) = Heads(local[m][g]) \union Heads(cloud[g])
            ELSE cloud'[g] = cloud[g]
  BY RescanFacts
<1>2. /\ \A n \in Machines, g \in Files : Heads(local[n][g]) \subseteq Heads(local'[n][g])
      /\ \A g \in Files : Heads(cloud[g]) \subseteq Heads(cloud'[g])
      /\ \A g \in Files : Missing(cloud[g]) <=> Missing(cloud'[g])
  BY <1>1
<1>3. \A g \in Files : \A w \in Copies(g)' :
          w \in Copies(g) \/ (Missing(w) /\ Heads(w) = Heads(local[m][g]) \union Heads(cloud[g]))
  BY <1>1 DEF Copies
<1>4. \A g \in Files : local[m][g] \in Copies(g) /\ cloud[g] \in Copies(g)
  BY CopiesTyped
<1>5. /\ \A g \in Files : \A w \in Copies(g)' : ~Missing(w) => w \in Copies(g)
      /\ \A g \in Files : \A w \in Copies(g)' : \A i \in Heads(w) : \E u \in Copies(g) : i \in Heads(u)
  BY <1>3, <1>4
<1>6. UNCHANGED <<manifest, stamps, saw, mirror>> /\ used'["write"] = used["write"]
  BY <1>1 DEF history
<1>7. QED
  BY <1>2, <1>5, <1>6, RemovalData

\* What the saved manifest says of a path.
LEMMA SaveFacts ==
    ASSUME TypeOK, TimesTellApart, PlansHold, IndexIsCurrent, LoadedIsCurrent, NEW m \in Machines, Save(m)
    PROVE  /\ pc[m] = "save"
           /\ UNCHANGED <<local, cloud, stamps, clock, used, history>>
           /\ Leave(m) /\ open' = open \ {m}
           /\ \A n \in Machines, f \in Files : n # m => manifest'[n][f] = manifest[n][f]
           /\ \A f \in Files :
                IF Missing(local[m][f]) /\ Missing(cloud[f]) THEN manifest'[m][f] = None
                ELSE IF f \in skipped[m] THEN manifest'[m][f] = manifest[m][f]
                ELSE /\ ~Missing(local[m][f]) /\ ~Missing(cloud[f]) /\ local[m][f].mtime = cloud[f].mtime
                     /\ manifest'[m][f] = [local |-> Fingerprint(local[m][f]), cloud |-> Fingerprint(local[m][f])]
                     /\ manifest'[m][f] # None
<1>1. /\ pc[m] = "save" /\ Leave(m) /\ open' = open \ {m}
      /\ UNCHANGED <<local, cloud, stamps, clock, used, history>>
      /\ manifest' = [loaded[m] EXCEPT ![m] = Baseline(m)]
  BY DEF Save, Others
<1>2. loaded[m] = manifest /\ manifest \in [Machines -> [Files -> Pair \union {None}]]
  BY <1>1 DEF LoadedIsCurrent, TypeOK
<1>3. /\ \A n \in Machines : n # m => manifest'[n] = manifest[n]
      /\ \A f \in Files : manifest'[m][f] = IF f \in skipped[m]
                                            THEN IF index[m][f] = None THEN None ELSE manifest[m][f]
                                            ELSE index[m][f]
  BY <1>1, <1>2 DEF Baseline
<1>4. ASSUME NEW f \in Files
      PROVE  IF Missing(local[m][f]) /\ Missing(cloud[f]) THEN manifest'[m][f] = None
             ELSE IF f \in skipped[m] THEN manifest'[m][f] = manifest[m][f]
             ELSE /\ ~Missing(local[m][f]) /\ ~Missing(cloud[f]) /\ local[m][f].mtime = cloud[f].mtime
                  /\ manifest'[m][f] = [local |-> Fingerprint(local[m][f]), cloud |-> Fingerprint(local[m][f])]
                  /\ manifest'[m][f] # None
  <2> DEFINE both == [local |-> Fingerprint(local[m][f]), cloud |-> Fingerprint(cloud[f])]
  <2>1. index[m][f] = IF Missing(local[m][f]) /\ Missing(cloud[f]) THEN None ELSE both
    BY <1>1 DEF IndexIsCurrent
  <2>2. both # None
    <3>1. Fingerprint(local[m][f]) \in Prints \union {None} /\ Fingerprint(cloud[f]) \in Prints \union {None}
      BY CopiesTyped, FingerprintTyped
    <3>2. both \in Pair
      BY <3>1 DEF Pair
    <3>3. QED
      BY <3>2, BaselineAssumption
  <2>3. f \in skipped[m] \/ Alike(m, f)
    BY <1>1 DEF PlansHold, PlanHolds
  <2>4. Alike(m, f) /\ ~(Missing(local[m][f]) /\ Missing(cloud[f])) =>
           /\ ~Missing(local[m][f]) /\ ~Missing(cloud[f]) /\ local[m][f].mtime = cloud[f].mtime
           /\ Fingerprint(cloud[f]) = Fingerprint(local[m][f])
    BY DEF Alike, Fingerprint
  <2> HIDE DEF both
  <2>5. CASE Missing(local[m][f]) /\ Missing(cloud[f])
    BY <1>3, <2>1, <2>5
  <2>6. CASE ~(Missing(local[m][f]) /\ Missing(cloud[f])) /\ f \in skipped[m]
    BY <1>3, <2>1, <2>2, <2>6
  <2>7. CASE ~(Missing(local[m][f]) /\ Missing(cloud[f])) /\ f \notin skipped[m]
    <3>1. manifest'[m][f] = both
      BY <1>3, <2>1, <2>7
    <3>2. QED
      BY <2>2, <2>3, <2>4, <2>7, <3>1 DEF both
  <2>8. QED
    BY <2>5, <2>6, <2>7
<1>5. QED
  BY <1>1, <1>3, <1>4

\* The record a run writes is of what both sides held, so it stands.
LEMMA SaveData ==
    ASSUME TypeOK, Data, PlansHold, IndexIsCurrent, LoadedIsCurrent, NEW m \in Machines, Save(m)
    PROVE  Data'
<1>0. TimesTellApart /\ RecordsStand /\ SawIsOrder /\ RecordedIsBelow /\ EmptiedIsEmpty /\ NeverDeleted
  BY DEF Data
<1> DEFINE new(n, f) == /\ n = m /\ ~Missing(local[m][f]) /\ ~Missing(cloud[f]) /\ local[m][f].mtime = cloud[f].mtime
                        /\ manifest'[n][f] = [local |-> Fingerprint(local[m][f]), cloud |-> Fingerprint(local[m][f])]
<1>1. /\ UNCHANGED <<local, cloud, stamps, used, saw, mirror>>
      /\ \A n \in Machines, f \in Files : manifest'[n][f] # None => manifest'[n][f] = manifest[n][f] \/ new(n, f)
  BY <1>0, SaveFacts DEF history
<1>2. ASSUME NEW n \in Machines, NEW f \in Files, new(n, f)
      PROVE  LET p == manifest'[n][f] IN
             /\ p.local = p.cloud /\ p.local \in Prints /\ p.local.mtime \in stamps
             /\ p.local.mtime = local[m][f].mtime /\ p.local.size = SizeOf[local[m][f].id]
             /\ \A v \in Copies(f) : ~Missing(v) /\ v.mtime = p.local.mtime => v.id = local[m][f].id /\ v.id = cloud[f].id
  <2>1. Fingerprint(local[m][f]) = [mtime |-> local[m][f].mtime, size |-> SizeOf[local[m][f].id]]
    BY <1>2 DEF Fingerprint
  <2>2. Fingerprint(local[m][f]) \in Prints /\ local[m][f] \in Copies(f) /\ cloud[f] \in Copies(f)
    BY <1>0, <1>2, CopiesTyped, FingerprintTyped
  <2>3. QED
    BY <1>0, <1>2, <2>1, <2>2 DEF TimesTellApart
<1> HIDE DEF new
<1>3. TimesTellApart' /\ SawIsOrder' /\ EmptiedIsEmpty'
  BY <1>0, <1>1 DEF TimesTellApart, SawIsOrder, EmptiedIsEmpty, Copies, Heads, Missing, Written
<1>4. \A f : Copies(f)' = Copies(f)
  BY <1>1 DEF Copies
<1>5. \A n, f, v : Unchanged(n, f, v)' <=> manifest'[n][f] # None /\ ~Missing(v) /\ v.mtime = manifest'[n][f].local.mtime
  BY DEF Unchanged, Recorded, Missing
<1>6. RecordsStand'
  <2> SUFFICES ASSUME NEW n \in Machines, NEW f \in Files, manifest'[n][f] # None
               PROVE  /\ manifest'[n][f].local = manifest'[n][f].cloud
                      /\ manifest'[n][f].local \in Prints /\ manifest'[n][f].local.mtime \in stamps'
                      /\ \A v \in Copies(f)' : Unchanged(n, f, v)' => SizeOf[v.id] = manifest'[n][f].local.size
    BY DEF RecordsStand, Recorded
  <2>1. CASE manifest'[n][f] = manifest[n][f]
    BY <1>0, <1>1, <1>4, <1>5, <2>1 DEF RecordsStand, Recorded, Unchanged
  <2>2. CASE new(n, f)
    BY <1>1, <1>2, <1>4, <1>5, <2>2
  <2>3. QED
    BY <1>1, <2>1, <2>2
<1>7. RecordedIsBelow'
  <2>1. NeverRefilled' <=> NeverRefilled
    BY <1>1 DEF NeverRefilled
  <2>2. \A n, f : Below(f, local[n][f])' = Below(f, local[n][f]) /\ Below(f, cloud[f])' = Below(f, cloud[f])
    BY <1>1 DEF Below, Heads, Missing
  <2> SUFFICES ASSUME NeverRefilled, NEW n \in Machines, NEW f \in Files, NEW v \in Copies(f), Unchanged(n, f, v)'
               PROVE  /\ v.id \in Below(f, local[n][f])
                      /\ mirror[RootOf[f]] = "whole" => v.id \in Below(f, cloud[f])
    BY <1>1, <1>4, <2>1, <2>2 DEF RecordedIsBelow
  <2>3. manifest'[n][f] # None /\ ~Missing(v) /\ v.mtime = manifest'[n][f].local.mtime
    BY <1>5
  <2>4. CASE manifest'[n][f] = manifest[n][f]
    BY <1>0, <2>3, <2>4 DEF RecordedIsBelow, Unchanged, Recorded
  <2>5. CASE new(n, f)
    <3>1. v.id = local[m][f].id /\ v.id = cloud[f].id
      BY <1>2, <2>3, <2>5
    <3>2. n = m /\ ~Missing(local[m][f]) /\ ~Missing(cloud[f])
      BY <2>5 DEF new
    <3>3. local[m][f] \in Copies(f) /\ cloud[f] \in Copies(f)
      BY CopiesTyped
    <3>4. QED
      BY <1>0, <3>1, <3>2, <3>3, BelowIsClosed
  <2>6. QED
    BY <1>1, <2>3, <2>4, <2>5
<1>8. NeverDeleted'
  <2> SUFFICES ASSUME DeletePolicy = "never", NEW n \in Machines, NEW f \in Files, manifest'[n][f] # None,
                      mirror[RootOf[f]] = "whole"
               PROVE  ~Missing(cloud[f])
    BY <1>1 DEF NeverDeleted, Recorded, Missing
  <2>1. CASE manifest'[n][f] = manifest[n][f]
    BY <1>0, <2>1 DEF NeverDeleted, Recorded
  <2>2. CASE new(n, f)
    BY <2>2 DEF new
  <2>3. QED
    BY <1>1, <2>1, <2>2
<1>9. QED
  BY <1>3, <1>6, <1>7, <1>8 DEF Data

-----------------------------------------------------------------------------
(* The run under way. *)

\* When no run is under way there is nothing to say about runs.
LEMMA IdleRuns ==
    ASSUME \A m \in Machines : pc'[m] = "idle"
    PROVE  Runs'
<1>1. Alone' /\ PlansHold' /\ StagedIsSource' /\ IndexIsCurrent' /\ LoadedIsCurrent'
  BY DEF Alone, PlansHold, StagedIsSource, IndexIsCurrent, LoadedIsCurrent
<1>2. QED
  BY <1>1 DEF Runs

\* A run that is left, with no other under way, leaves none.
LEMMA LeaveRuns ==
    ASSUME TypeOK, Alone, NEW m \in Machines, pc[m] # "idle", Leave(m)
    PROVE  Runs'
<1>1. \A n \in Machines : pc'[n] = "idle"
  BY DEF Alone, Leave, Go, TypeOK
<1>2. QED
  BY <1>1, IdleRuns

\* What a plan says of a path stands while neither its copies nor its baseline change.
LEMMA PlanStays ==
    ASSUME NEW m, NEW f, PlanHolds(m, f),
           local'[m][f] = local[m][f], cloud'[f] = cloud[f], manifest'[m][f] = manifest[m][f],
           todo'[m][f] = todo[m][f], skipped'[m] = skipped[m], decided'[m] = decided[m],
           mirror'[RootOf[f]] = "emptied" => mirror[RootOf[f]] = "emptied"
    PROVE  PlanHolds(m, f)'
<1>1. /\ Alike(m, f)' <=> Alike(m, f)
      /\ Recorded(m, f)' <=> Recorded(m, f)
      /\ Missing(local[m][f])' <=> Missing(local[m][f])
      /\ Missing(cloud[f])' <=> Missing(cloud[f])
      /\ Unchanged(m, f, local[m][f])' <=> Unchanged(m, f, local[m][f])
      /\ Unchanged(m, f, cloud[f])' <=> Unchanged(m, f, cloud[f])
  BY DEF Alike, Recorded, Missing, Unchanged, Fingerprint
<1>2. /\ MayReplace(m, f, cloud[f])' <=> MayReplace(m, f, cloud[f])
      /\ MayReplace(m, f, local[m][f])' <=> MayReplace(m, f, local[m][f])
  BY <1>1 DEF MayReplace, AsRecorded
<1>3. QED
  BY <1>1, <1>2 DEF PlanHolds

\* A run that has planned holds a plan that fits the copies.
LEMMA PlanRuns ==
    ASSUME TypeOK, Data, OneAtATime, NEW m \in Machines, NEW policy \in Policies, NEW direction \in Directions,
           Plan(m, policy, direction)
    PROVE  Runs'
<1> DEFINE plan == Decided(m, policy)
           drop == {f \in Files : plan[f] \in Dropped(direction)}
<1>0. TimesTellApart /\ RecordsStand /\ EmptiedIsEmpty
  BY DEF Data
<1>1. /\ todo' = [todo EXCEPT ![m] = [f \in Files |-> IF f \in drop THEN "nothing" ELSE plan[f]]]
      /\ skipped' = [skipped EXCEPT ![m] = drop]
      /\ pc' = [pc EXCEPT ![m] = "scan"]
      /\ ConflictFree(plan, policy)
      /\ \A n \in Machines : pc[n] = "idle"
      /\ UNCHANGED <<local, cloud, manifest, mirror>>
  BY DEF Plan, Go, MyTurn, AllIdle, history
<1>2. \A f \in Files : f \in decided'[m] <=> AskedFor(m, f)
  BY DEF Plan, AskedFor, Recorded, TypeOK
<1>3. pc'[m] = "scan" /\ \A n \in Machines : n # m => pc'[n] = "idle"
  BY <1>1 DEF TypeOK
<1>4. \A f \in Files : plan[f] = IF HeldBack(m, f, Raw(m, policy)[f]) THEN "conflict" ELSE Raw(m, policy)[f]
  BY DEF Decided
<1>5. \A f \in Files : plan[f] # "conflict" /\ plan[f] = Raw(m, policy)[f]
  BY <1>1, <1>4 DEF ConflictFree
<1>6. skipped'[m] = drop /\ \A f \in Files : todo'[m][f] = IF f \in drop THEN "nothing" ELSE Raw(m, policy)[f]
  BY <1>1, <1>5 DEF TypeOK
<1>7. ASSUME NEW f \in Files, Raw(m, policy)[f] = "del_local" PROVE mirror[RootOf[f]] # "emptied"
  <2>1. ~HeldBack(m, f, "del_local")
    BY <1>4, <1>5, <1>7
  <2>2. PICK g \in Files : RootOf[g] = RootOf[f] /\ ~Missing(cloud[g])
    BY <2>1 DEF HeldBack, Deletions
  <2>3. QED
    BY <1>0, <2>2 DEF EmptiedIsEmpty
<1> HIDE DEF plan, drop
<1>8. ASSUME NEW f \in Files PROVE PlanHolds(m, f)'
  <2> DEFINE d == Raw(m, policy)[f]
  <2>1. /\ d \in Decisions
        /\ d = "nothing" => Alike(m, f)
        /\ d = "to_cloud" =>
              /\ ~Missing(local[m][f])
              /\ AskedFor(m, f) \/ AsRecorded(m, f, cloud[f])
              /\ DeletePolicy = "never" \/ ~Unchanged(m, f, local[m][f])
        /\ d = "to_local" =>
              /\ ~Missing(cloud[f])
              /\ AskedFor(m, f) \/ AsRecorded(m, f, local[m][f])
              /\ Missing(local[m][f]) /\ Recorded(m, f) => DeletePolicy = "never"
        /\ d \in Deletions => ~AskedFor(m, f) /\ DeletePolicy = "propagate"
        /\ d = "del_cloud" => Missing(local[m][f]) /\ Unchanged(m, f, cloud[f])
        /\ d = "del_local" => Missing(cloud[f]) /\ Unchanged(m, f, local[m][f])
    BY <1>0, DecideFacts
  <2>2. ~AskedFor(m, f) => Recorded(m, f)
    BY DEF AskedFor
  <2>3. /\ Alike(m, f)' <=> Alike(m, f)
        /\ Recorded(m, f)' <=> Recorded(m, f)
        /\ Missing(local[m][f])' <=> Missing(local[m][f])
        /\ Missing(cloud[f])' <=> Missing(cloud[f])
        /\ Unchanged(m, f, local[m][f])' <=> Unchanged(m, f, local[m][f])
        /\ Unchanged(m, f, cloud[f])' <=> Unchanged(m, f, cloud[f])
    BY <1>1 DEF Alike, Recorded, Missing, Unchanged, Fingerprint
  <2>4. /\ MayReplace(m, f, cloud[f])' <=> AskedFor(m, f) \/ (Recorded(m, f) /\ AsRecorded(m, f, cloud[f]))
        /\ MayReplace(m, f, local[m][f])' <=> AskedFor(m, f) \/ (Recorded(m, f) /\ AsRecorded(m, f, local[m][f]))
    BY <1>2, <2>3 DEF MayReplace, AsRecorded
  <2>5. /\ f \in skipped'[m] <=> f \in drop
        /\ todo'[m][f] = IF f \in drop THEN "nothing" ELSE d
        /\ f \in decided'[m] <=> AskedFor(m, f)
        /\ d = "del_local" => mirror'[RootOf[f]] # "emptied"
    BY <1>1, <1>2, <1>6, <1>7
  <2> HIDE DEF d
  <2>6. CASE f \in drop
    BY <2>5, <2>6 DEF PlanHolds, Deletions
  <2>7. CASE f \notin drop
    BY <2>1, <2>2, <2>3, <2>4, <2>5, <2>7 DEF PlanHolds
  <2>8. QED
    BY <2>6, <2>7
<1>9. Alone' /\ PlansHold'
  BY <1>3, <1>8 DEF Alone, PlansHold
<1>10. StagedIsSource' /\ IndexIsCurrent' /\ LoadedIsCurrent'
  BY <1>3 DEF StagedIsSource, IndexIsCurrent, LoadedIsCurrent
<1>11. QED
  BY <1>9, <1>10 DEF Runs

\* The steps of a run that change neither a copy nor a baseline.
LEMMA ControlRuns ==
    ASSUME TypeOK, Runs, NEW m \in Machines
    PROVE  /\ Scan(m) \/ Open(m) \/ Stage(m) => Runs'
           /\ Load(m) => Runs'
           /\ Resume(m) => Runs'
           /\ ScanBlocked(m) \/ CannotStage(m) \/ Fail(m) \/ Save(m) => Runs'
<1>0. Alone /\ PlansHold /\ StagedIsSource /\ IndexIsCurrent /\ LoadedIsCurrent
  BY DEF Runs
<1>1. ASSUME UNCHANGED <<local, cloud, manifest, todo, skipped, decided, mirror>>, NEW n \in Machines, NEW f \in Files, pc[n] # "idle"
      PROVE  PlanHolds(n, f)'
  BY <1>0, <1>1, PlanStays DEF PlansHold
<1>2. ASSUME NEW where \in PCs, pc' = [pc EXCEPT ![m] = where], pc[m] # "idle"
      PROVE  /\ Alone' /\ pc'[m] = where
             /\ \A n \in Machines : n # m => pc[n] = "idle" /\ pc'[n] = "idle"
  BY <1>0, <1>2 DEF Alone, TypeOK
<1>3. {"open", "stage", "apply", "save"} \subseteq PCs
  BY DEF PCs, Writing
<1>4. ASSUME Scan(m) \/ Open(m) \/ Stage(m) PROVE Runs'
  <2>1. PICK where \in {"open", "stage", "apply"} : pc' = [pc EXCEPT ![m] = where] /\ (where = "apply" => Stage(m))
    BY <1>4 DEF Scan, Open, Stage, Go
  <2>2. /\ pc[m] # "idle" /\ UNCHANGED <<local, cloud, manifest, todo, skipped, decided, mirror>>
    BY <1>4 DEF Scan, Open, Stage, run, history
  <2>3. /\ Alone' /\ pc'[m] = where
        /\ \A n \in Machines : n # m => pc[n] = "idle" /\ pc'[n] = "idle"
    BY <1>2, <1>3, <2>1, <2>2
  <2>4. PlansHold'
    BY <1>1, <2>1, <2>2, <2>3 DEF PlansHold
  <2>5. StagedIsSource'
    <3> SUFFICES ASSUME NEW n \in Machines, NEW f \in Files, pc'[n] = "apply", todo'[n][f] \in {"to_local", "to_cloud"}
                 PROVE  staged'[n][f] = Source(n, f)'
      BY DEF StagedIsSource
    <3>1. n = m /\ Stage(m)
      BY <2>1, <2>3
    <3>2. staged'[m][f] = Source(m, f)
      BY <2>2, <3>1 DEF Stage, TypeOK
    <3>3. QED
      BY <2>2, <3>1, <3>2 DEF Source
  <2>6. IndexIsCurrent' /\ LoadedIsCurrent'
    BY <2>1, <2>3 DEF IndexIsCurrent, LoadedIsCurrent
  <2>7. QED
    BY <2>3, <2>4, <2>5, <2>6 DEF Runs
<1>5. ASSUME Load(m) PROVE Runs'
  <2>1. /\ pc[m] = "load" /\ pc' = [pc EXCEPT ![m] = "save"] /\ loaded'[m] = manifest
        /\ UNCHANGED <<local, cloud, manifest, todo, skipped, decided, index, mirror>>
    BY <1>5 DEF Load, Go, history, TypeOK
  <2>2. /\ Alone' /\ pc'[m] = "save"
        /\ \A n \in Machines : n # m => pc[n] = "idle" /\ pc'[n] = "idle"
    BY <1>2, <1>3, <2>1
  <2>3. PlansHold'
    BY <1>0, <1>1, <2>1, <2>2 DEF PlansHold
  <2>4. StagedIsSource' /\ LoadedIsCurrent'
    BY <2>1, <2>2 DEF StagedIsSource, LoadedIsCurrent
  <2>5. IndexIsCurrent'
    BY <1>0, <2>1, <2>2 DEF IndexIsCurrent, Missing, Fingerprint
  <2>6. QED
    BY <2>2, <2>3, <2>4, <2>5 DEF Runs
<1>6. ASSUME Resume(m) PROVE Runs'
  <2>1. UNCHANGED <<local, cloud, manifest, pc, todo, skipped, decided, staged, index, loaded, mirror>>
    BY <1>6 DEF Resume, run, history
  <2>2. Alone' /\ LoadedIsCurrent'
    BY <1>0, <2>1 DEF Alone, LoadedIsCurrent
  <2>3. PlansHold'
    BY <1>0, <1>1, <2>1 DEF PlansHold
  <2>4. StagedIsSource'
    BY <1>0, <2>1 DEF StagedIsSource, Source
  <2>5. IndexIsCurrent'
    BY <1>0, <2>1 DEF IndexIsCurrent, Missing, Fingerprint
  <2>6. QED
    BY <2>2, <2>3, <2>4, <2>5 DEF Runs
<1>7. ASSUME ScanBlocked(m) \/ CannotStage(m) \/ Fail(m) \/ Save(m) PROVE Runs'
  <2>1. pc[m] # "idle" /\ Leave(m)
    BY <1>7 DEF ScanBlocked, CannotStage, Fail, Save
  <2>2. QED
    BY <1>0, <2>1, LeaveRuns
<1>8. QED
  BY <1>4, <1>5, <1>6, <1>7

\* After the scan the index of the run is that of the copies.
LEMMA RescanRuns ==
    ASSUME TypeOK, Runs, NEW m \in Machines, Rescan(m)
    PROVE  Runs'
<1>0. Alone /\ PlansHold
  BY DEF Runs
<1>1. /\ pc[m] = "apply" /\ todo[m] = Nothing /\ pc' = [pc EXCEPT ![m] = "load"]
      /\ UNCHANGED <<manifest, todo, skipped, decided, mirror>>
      /\ \A g \in Files : index'[m][g] = IF g \in GoneOnBoth(m) THEN None
             ELSE [local |-> Fingerprint(local[m][g]), cloud |-> Fingerprint(cloud[g])]
      /\ \A n \in Machines, g \in Files :
            IF n = m /\ g \in GoneOnBoth(m) THEN Missing(local[n][g]) /\ Missing(local'[n][g])
            ELSE local'[n][g] = local[n][g]
      /\ \A g \in Files :
            IF g \in GoneOnBoth(m) THEN Missing(cloud[g]) /\ Missing(cloud'[g]) ELSE cloud'[g] = cloud[g]
  BY RescanFacts DEF history
<1>2. pc'[m] = "load" /\ \A n \in Machines : n # m => pc'[n] = "idle"
  BY <1>0, <1>1 DEF Alone, TypeOK
<1>3. ASSUME NEW f \in Files
      PROVE  /\ todo[m][f] = "nothing" /\ PlanHolds(m, f)'
             /\ index'[m][f] = IF Missing(local'[m][f]) /\ Missing(cloud'[f]) THEN None
                               ELSE [local |-> Fingerprint(local'[m][f]), cloud |-> Fingerprint(cloud'[f])]
  <2>1. todo[m][f] = "nothing" /\ PlanHolds(m, f)
    BY <1>0, <1>1 DEF PlansHold, Nothing
  <2>2. f \in GoneOnBoth(m) <=> Missing(local[m][f]) /\ Missing(cloud[f])
    BY DEF GoneOnBoth
  <2>3. CASE f \in GoneOnBoth(m)
    <3>1. Missing(local'[m][f]) /\ Missing(cloud'[f]) /\ index'[m][f] = None
      BY <1>1, <2>3
    <3>2. Alike(m, f)'
      BY <3>1 DEF Alike, Missing
    <3>3. QED
      BY <1>1, <2>1, <3>1, <3>2 DEF PlanHolds, Deletions
  <2>4. CASE f \notin GoneOnBoth(m)
    <3>1. local'[m][f] = local[m][f] /\ cloud'[f] = cloud[f]
          /\ index'[m][f] = [local |-> Fingerprint(local[m][f]), cloud |-> Fingerprint(cloud[f])]
      BY <1>1, <2>4
    <3>2. PlanHolds(m, f)'
      BY <1>1, <2>1, <3>1, PlanStays
    <3>3. QED
      BY <2>1, <2>2, <2>4, <3>1, <3>2
  <2>5. QED
    BY <2>3, <2>4
<1>4. Alone' /\ PlansHold'
  BY <1>1, <1>2, <1>3 DEF Alone, PlansHold
<1>5. StagedIsSource' /\ LoadedIsCurrent'
  BY <1>2 DEF StagedIsSource, LoadedIsCurrent
<1>6. IndexIsCurrent'
  <2> SUFFICES ASSUME NEW n \in Machines, NEW f \in Files, pc'[n] \in {"load", "save"}
               PROVE  index'[n][f] = IF Missing(local'[n][f]) /\ Missing(cloud'[f]) THEN None
                               ELSE [local |-> Fingerprint(local'[n][f]), cloud |-> Fingerprint(cloud'[f])]
    BY DEF IndexIsCurrent, Missing, Fingerprint
  <2>1. n = m
    BY <1>2
  <2>2. QED
    BY <1>3, <2>1
<1>7. QED
  BY <1>4, <1>5, <1>6 DEF Runs

\* One destination: the plan holds for the paths that are left.
LEMMA ApplyRuns ==
    ASSUME TypeOK, Runs, NEW m \in Machines, NEW f \in Files, pc[m] = "apply",
           ToCloud(m, f) \/ ToLocal(m, f) \/ DeleteLocal(m, f) \/ DeleteCloud(m, f),
           todo' = [todo EXCEPT ![m][f] = "nothing"],
           UNCHANGED <<manifest, open, pc, skipped, decided, staged, index, loaded, stamps, clock, used>>
    PROVE  Runs'
<1>0. Alone /\ PlansHold /\ StagedIsSource
  BY DEF Runs
<1>1. /\ pc'[m] = "apply" /\ \A n \in Machines : n # m => pc'[n] = "idle"
      /\ todo'[m][f] = "nothing" /\ \A g \in Files : g # f => todo'[m][g] = todo[m][g]
  BY <1>0 DEF Alone, TypeOK
<1>2. /\ \A g \in Files : g # f => local'[m][g] = local[m][g] /\ cloud'[g] = cloud[g]
      /\ \A g \in Files : mirror'[RootOf[g]] = "emptied" => mirror[RootOf[g]] = "emptied"
      /\ Alike(m, f)'
  <2>0. \A g \in Files : RootOf[g] \in Roots
    BY DEF Roots
  <2>1. CASE ToCloud(m, f)
    <3>1. /\ ~Missing(local[m][f]) /\ cloud'[f] = local[m][f] /\ local' = local
          /\ \A g \in Files : g # f => cloud'[g] = cloud[g]
          /\ \A r \in Roots : mirror'[r] # "refilled" => mirror'[r] = mirror[r]
      BY <1>0, <2>1, ToCloudFacts
    <3>2. Alike(m, f)'
      BY <3>1 DEF Alike, Missing, Fingerprint
    <3>3. QED
      BY <2>0, <3>1, <3>2
  <2>2. CASE ToLocal(m, f)
    <3>1. /\ ~Missing(cloud[f]) /\ local'[m][f] = cloud[f] /\ cloud' = cloud /\ mirror' = mirror
          /\ \A n \in Machines, g \in Files : n # m \/ g # f => local'[n][g] = local[n][g]
      BY <1>0, <2>2, ToLocalFacts
    <3>2. Alike(m, f)'
      BY <3>1 DEF Alike, Missing, Fingerprint
    <3>3. QED
      BY <3>1, <3>2
  <2>3. CASE DeleteLocal(m, f) \/ DeleteCloud(m, f)
    <3>1. /\ \A n \in Machines, g \in Files : n # m \/ g # f => local'[n][g] = local[n][g]
          /\ \A g \in Files : g # f => cloud'[g] = cloud[g]
          /\ mirror' = mirror /\ PlanHolds(m, f)
          /\ \/ todo[m][f] = "del_local" /\ Missing(local'[m][f]) /\ cloud' = cloud
             \/ todo[m][f] = "del_cloud" /\ Missing(cloud'[f]) /\ local' = local
      BY <1>0, <2>3, DeletionFacts
    <3>2. Missing(local'[m][f]) /\ Missing(cloud'[f])
      BY <3>1 DEF PlanHolds
    <3>3. Alike(m, f)'
      BY <3>2 DEF Alike, Missing
    <3>4. QED
      BY <3>1, <3>3
  <2>4. QED
    BY <2>1, <2>2, <2>3
<1>3. PlanHolds(m, f)'
  <2>1. f \notin skipped[m]
    <3>1. PlanHolds(m, f) /\ todo[m][f] # "nothing"
      BY <1>0 DEF PlansHold, ToCloud, ToLocal, DeleteLocal, DeleteCloud
    <3>2. QED
      BY <3>1 DEF PlanHolds
  <2>2. QED
    BY <1>1, <1>2, <2>1 DEF PlanHolds, Deletions
<1>4. \A g \in Files : g # f => PlanHolds(m, g)'
  BY <1>0, <1>1, <1>2, PlanStays DEF PlansHold
<1>5. Alone' /\ PlansHold'
  BY <1>1, <1>3, <1>4 DEF Alone, PlansHold
<1>6. StagedIsSource'
  <2> SUFFICES ASSUME NEW n \in Machines, NEW g \in Files, pc'[n] = "apply", todo'[n][g] \in {"to_local", "to_cloud"}
               PROVE  staged'[n][g] = Source(n, g)'
    BY DEF StagedIsSource
  <2>1. n = m /\ g # f /\ todo'[m][g] = todo[m][g]
    BY <1>1
  <2>2. staged[m][g] = Source(m, g)
    BY <1>0, <2>1 DEF StagedIsSource
  <2>3. QED
    BY <1>2, <2>1, <2>2 DEF Source
<1>7. IndexIsCurrent' /\ LoadedIsCurrent'
  BY <1>1 DEF IndexIsCurrent, LoadedIsCurrent
<1>8. QED
  BY <1>5, <1>6, <1>7 DEF Runs

-----------------------------------------------------------------------------
(* Nothing is lost. *)

\* No replacement or deletion by a run loses a version nobody asked to lose.
LEMMA ApplyLosesNothing ==
    ASSUME TypeOK, Data, Runs, NothingLostUnasked, NEW m \in Machines, NEW f \in Files, pc[m] = "apply",
           ToCloud(m, f) \/ ToLocal(m, f) \/ DeleteLocal(m, f) \/ DeleteCloud(m, f)
    PROVE  NothingLostUnasked'
<1>0. EmptiedIsEmpty /\ RecordedIsBelow /\ PlansHold /\ StagedIsSource
  BY DEF Data, Runs
<1>1. local[m][f] \in Copies(f) /\ cloud[f] \in Copies(f)
  BY CopiesTyped
<1>2. RootOf[f] \in Roots
  BY DEF Roots
<1>3. NeverRefilled' => NeverRefilled
  <2>1. CASE ToCloud(m, f)
    <3>1. \A r \in Roots : mirror'[r] # "refilled" => mirror'[r] = mirror[r]
      BY <1>0, <2>1, ToCloudFacts
    <3> SUFFICES ASSUME NeverRefilled', NEW r \in Roots PROVE mirror[r] # "refilled"
      BY DEF NeverRefilled
    <3>2. mirror'[r] # "refilled"
      BY DEF NeverRefilled
    <3>3. QED
      BY <3>1, <3>2
  <2>2. CASE ToLocal(m, f) \/ DeleteLocal(m, f) \/ DeleteCloud(m, f)
    <3>1. mirror' = mirror
      BY <2>2 DEF ToLocal, DeleteLocal, DeleteCloud
    <3>2. QED
      BY <3>1 DEF NeverRefilled
  <2>3. QED
    BY <2>1, <2>2
<1>4. ASSUME NeverRefilled, NEW old, NEW new, Supersede(m, f, old, new), lost = {},
             Missing(old) \/ old.id \in Below(f, new) \/ f \in decided[m]
      PROVE  lost' = {}
  BY <1>4 DEF Supersede
<1>5. ASSUME NeverRefilled, ~Missing(cloud[f]) \/ mirror[RootOf[f]] # "emptied" PROVE mirror[RootOf[f]] = "whole"
  BY <1>0, <1>2, <1>5 DEF NeverRefilled, EmptiedIsEmpty, TypeOK
<1> SUFFICES ASSUME NeverRefilled, lost = {} PROVE lost' = {}
  BY <1>3 DEF NothingLostUnasked, NeverRefilled
<1>6. CASE ToCloud(m, f)
  <2>1. /\ PlanHolds(m, f) /\ todo[m][f] = "to_cloud" /\ Supersede(m, f, cloud[f], local[m][f])
    BY <1>0, <1>6, ToCloudFacts
  <2>2. f \in decided[m] \/ Missing(cloud[f]) \/ Unchanged(m, f, cloud[f])
    BY <2>1 DEF PlanHolds, MayReplace, AsRecorded
  <2>3. Unchanged(m, f, cloud[f]) => cloud[f].id \in Below(f, local[m][f])
    BY <1>0, <1>1 DEF RecordedIsBelow
  <2>4. QED
    BY <1>4, <2>1, <2>2, <2>3
<1>7. CASE ToLocal(m, f)
  <2>1. /\ PlanHolds(m, f) /\ todo[m][f] = "to_local" /\ Supersede(m, f, local[m][f], cloud[f])
        /\ ~Missing(cloud[f])
    BY <1>0, <1>7, ToLocalFacts
  <2>2. f \in decided[m] \/ Missing(local[m][f]) \/ Unchanged(m, f, local[m][f])
    BY <2>1 DEF PlanHolds, MayReplace, AsRecorded
  <2>3. Unchanged(m, f, local[m][f]) => local[m][f].id \in Below(f, cloud[f])
    BY <1>0, <1>1, <1>5, <2>1 DEF RecordedIsBelow
  <2>4. QED
    BY <1>4, <2>1, <2>2, <2>3
<1>8. CASE DeleteLocal(m, f)
  <2>1. /\ PlanHolds(m, f) /\ todo[m][f] = "del_local" /\ Supersede(m, f, local[m][f], cloud[f])
    BY <1>0, <1>8, DeletionFacts
  <2>2. Unchanged(m, f, local[m][f]) /\ mirror[RootOf[f]] # "emptied"
    BY <2>1 DEF PlanHolds
  <2>3. local[m][f].id \in Below(f, cloud[f])
    BY <1>0, <1>1, <1>5, <2>2 DEF RecordedIsBelow
  <2>4. QED
    BY <1>4, <2>1, <2>3
<1>9. CASE DeleteCloud(m, f)
  <2>1. /\ PlanHolds(m, f) /\ todo[m][f] = "del_cloud" /\ Supersede(m, f, cloud[f], local[m][f])
    BY <1>0, <1>9, DeletionFacts
  <2>2. Unchanged(m, f, cloud[f])
    BY <2>1 DEF PlanHolds
  <2>3. cloud[f].id \in Below(f, local[m][f])
    BY <1>0, <1>1, <2>2 DEF RecordedIsBelow
  <2>4. QED
    BY <1>4, <2>1, <2>3
<1>10. QED
  BY <1>6, <1>7, <1>8, <1>9

-----------------------------------------------------------------------------
(* A deletion stays a deletion. *)

\* A step that changes no copy and no baseline, and makes nothing pending.
LEMMA QuietApart ==
    ASSUME Apart, UNCHANGED <<local, cloud, manifest, saw, revived>>,
           \A m \in Machines, f \in Files : Pending(m, f)' => Pending(m, f)
    PROVE  Apart'
<1>1. \A m, f : Below(f, local[m][f])' = Below(f, local[m][f]) /\ Below(f, cloud[f])' = Below(f, cloud[f])
  BY DEF Below, Heads, Missing
<1>2. \A m, f : Unchanged(m, f, local[m][f])' <=> Unchanged(m, f, local[m][f])
  BY DEF Unchanged, Recorded, Missing
<1>3. NewIsPrivate'
  BY <1>1, <1>2 DEF Apart, NewIsPrivate, Missing
<1>4. UnknownIsNew'
  BY <1>1 DEF Apart, UnknownIsNew, Recorded, Missing
<1>5. QED
  BY <1>3, <1>4 DEF Apart

\* What is pending depends on the run alone.
LEMMA SamePending ==
    ASSUME UNCHANGED <<pc, skipped, todo>>
    PROVE  \A m, f : Pending(m, f)' <=> Pending(m, f)
  BY DEF Pending

\* After a write, what is new on a machine is known to it alone, what a record does not know is new, and nothing deleted is back.
LEMMA WriteApart ==
    ASSUME TypeOK, SawIsOrder, Apart, ~SharedTimes, NEW m \in Machines, NEW f \in Files, Write(m, f)
    PROVE  Apart'
<1> DEFINE new == used["write"] + 2
<1>1. PICK t \in Times : LET v == [id |-> new, mtime |-> t, gone |-> {}] IN
             /\ Stamped(t) /\ new \in Ids /\ new \notin Written /\ Written' = Written \union {new}
             /\ local'[m][f] = v /\ ~Missing(v) /\ Heads(v) = {new}
             /\ \A n \in Machines, g \in Files : n # m \/ g # f => local'[n][g] = local[n][g]
             /\ saw'[f] = saw[f] \union (Below(f, local[m][f]) \union {new}) \X {new}
             /\ \A g \in Files : g # f => saw'[g] = saw[g]
             /\ UNCHANGED <<cloud, manifest, open, pc, run, mirror, lost, revived>>
  BY WriteFacts
<1> DEFINE v == [id |-> new, mtime |-> t, gone |-> {}]
           old == local[m][f]
<1> HIDE DEF new
<1>2. saw[f] \subseteq Written \X Written
  BY DEF SawIsOrder
<1>3. ASSUME NEW u \in Copies(f) PROVE Below(f, u)' = Below(f, u) /\ Below(f, u) \subseteq Written /\ Heads(u) \subseteq Written
  <2>1. Heads(u) \subseteq Written /\ Below(f, u) \subseteq Written /\ Heads(u)' = Heads(u)
    BY BelowIsClosed DEF Heads, Missing
  <2>2. \A i, j \in Ids : j \in Heads(u) => (<<i, j>> \in saw'[f] <=> <<i, j>> \in saw[f])
    BY <1>1, <2>1
  <2>3. Heads(u) \subseteq Ids
    BY BelowIsClosed
  <2>4. QED
    BY <2>1, <2>2, <2>3 DEF Below
<1>4. Below(f, local[m][f])' \subseteq Below(f, old) \union {new}
  <2>1. Heads(local[m][f])' = {new}
    BY <1>1 DEF Heads, Missing
  <2>2. QED
    BY <1>1, <1>2, <2>1 DEF Below
<1>5. \A n, g : Pending(n, g)' <=> Pending(n, g)
  BY <1>1, SamePending DEF run
<1>6. cloud[f] \in Copies(f) /\ \A n \in Machines : local[n][f] \in Copies(f)
  BY CopiesTyped
<1>7. Below(f, cloud[f])' = Below(f, cloud[f])
  <2>1. Heads(cloud[f])' = Heads(cloud[f])
    BY <1>1 DEF Heads, Missing
  <2>2. \A i, j \in Ids : j \in Heads(cloud[f]) => (<<i, j>> \in saw'[f] <=> <<i, j>> \in saw[f])
    BY <1>1, <1>3, <1>6
  <2>3. Heads(cloud[f]) \subseteq Ids
    BY <1>6, BelowIsClosed
  <2>4. QED
    BY <2>1, <2>2, <2>3 DEF Below
<1>8. \A n \in Machines : n # m => Below(f, local[n][f])' = Below(f, local[n][f])
  <2> TAKE n \in Machines
  <2> HAVE n # m
  <2>1. Heads(local[n][f])' = Heads(local[n][f])
    BY <1>1 DEF Heads, Missing
  <2>2. \A i, j \in Ids : j \in Heads(local[n][f]) => (<<i, j>> \in saw'[f] <=> <<i, j>> \in saw[f])
    BY <1>1, <1>3, <1>6
  <2>3. Heads(local[n][f]) \subseteq Ids
    BY <1>6, BelowIsClosed
  <2>4. QED
    BY <2>1, <2>2, <2>3 DEF Below
<1>9. \A n \in Machines, g \in Files : g # f =>
          /\ local'[n][g] = local[n][g] /\ Below(g, local[n][g])' = Below(g, local[n][g])
          /\ Below(g, cloud[g])' = Below(g, cloud[g])
  <2> TAKE n \in Machines, g \in Files
  <2> HAVE g # f
  <2>1. local'[n][g] = local[n][g] /\ cloud'[g] = cloud[g] /\ saw'[g] = saw[g]
    BY <1>1
  <2>2. QED
    BY <2>1 DEF Below, Heads, Missing
<1>10. ASSUME NEW n \in Machines, NEW g \in Files, Pending(n, g)', ~Missing(local'[n][g]), ~Unchanged(n, g, local[n][g])'
       PROVE  /\ local'[n][g].id \notin Below(g, cloud[g])'
              /\ \A k \in Machines \ {n} : local'[n][g].id \notin Below(g, local[k][g])'
  <2>1. CASE n = m /\ g = f
    <3>1. local'[n][g].id = new
      BY <1>1, <2>1
    <3>2. Below(f, cloud[f]) \subseteq Written /\ \A k \in Machines : Below(f, local[k][f]) \subseteq Written
      BY <1>3, <1>6
    <3>3. QED
      BY <1>1, <1>7, <1>8, <2>1, <3>1, <3>2
  <2>2. CASE n # m \/ g # f
    <3>1. local'[n][g] = local[n][g] /\ ~Missing(local[n][g]) /\ ~Unchanged(n, g, local[n][g])
      BY <1>1, <1>10, <2>2 DEF Unchanged, Recorded, Missing
    <3>2. /\ local[n][g].id \notin Below(g, cloud[g])
          /\ \A k \in Machines \ {n} : local[n][g].id \notin Below(g, local[k][g])
      BY <1>5, <1>10, <3>1 DEF Apart, NewIsPrivate
    <3>3. CASE g # f
      BY <1>9, <3>1, <3>2, <3>3
    <3>4. CASE g = f
      <4>1. local[n][f].id \in Written
        BY <1>6, <3>1, <3>4, BelowIsClosed
      <4>2. ASSUME NEW k \in Machines \ {n} PROVE local[n][f].id \notin Below(f, local[k][f])'
        <5>1. local[n][f].id \notin Below(f, local[k][f])
          BY <3>2, <3>4
        <5>2. CASE k = m
          BY <1>1, <1>4, <4>1, <5>1, <5>2
        <5>3. CASE k # m
          BY <1>8, <5>1, <5>3
        <5>4. QED
          BY <5>2, <5>3
      <4>3. QED
        BY <1>7, <3>1, <3>2, <3>4, <4>2
    <3>5. QED
      BY <3>3, <3>4
  <2>3. QED
    BY <2>1, <2>2
<1>11. NewIsPrivate'
  BY <1>10 DEF NewIsPrivate, Missing
<1>12. ASSUME NEW n \in Machines, NEW g \in Files, Pending(n, g), ~Recorded(n, g), ~Missing(cloud[g])
       PROVE  cloud[g].id \notin Below(g, local[n][g])'
  <2>1. cloud[g].id \notin Below(g, local[n][g])
    BY <1>12 DEF Apart, UnknownIsNew
  <2>2. CASE g # f
    BY <1>9, <2>1, <2>2
  <2>3. CASE g = f /\ n # m
    BY <1>8, <2>1, <2>3
  <2>4. CASE g = f /\ n = m
    <3>1. cloud[f].id \in Written
      BY <1>6, <1>12, <2>4, BelowIsClosed
    <3>2. QED
      BY <1>1, <1>4, <2>1, <2>4, <3>1
  <2>5. QED
    BY <2>2, <2>3, <2>4
<1>13. UnknownIsNew'
  BY <1>1, <1>5, <1>12 DEF UnknownIsNew, Recorded, Missing
<1>14. QED
  BY <1>1, <1>11, <1>13 DEF Apart

\* A step that takes files away or stamps them anew.
LEMMA TakenApart ==
    ASSUME Apart, UNCHANGED <<manifest, saw, revived>>,
           \A n \in Machines, g \in Files : Pending(n, g)' => Pending(n, g),
           \A n \in Machines, g \in Files : ~Missing(local'[n][g]) => local'[n][g] = local[n][g],
           \A n \in Machines, g \in Files : Heads(local'[n][g]) \subseteq Heads(local[n][g]) \union Heads(cloud[g]),
           \A g \in Files :
               \/ Heads(cloud'[g]) \subseteq Heads(cloud[g])
               \/ \E m \in Machines : /\ Missing(local'[m][g])
                                     /\ Heads(cloud'[g]) \subseteq Heads(cloud[g]) \union Heads(local[m][g]),
           \A g \in Files : ~Missing(cloud'[g]) =>
               /\ ~Missing(cloud[g]) /\ cloud'[g].id = cloud[g].id
               /\ \A n \in Machines : Heads(local'[n][g]) \subseteq Heads(local[n][g])
    PROVE  Apart'
<1>1. \A g : Heads(cloud[g])' = Heads(cloud'[g]) /\ \A n : Heads(local[n][g])' = Heads(local'[n][g])
  BY DEF Heads, Missing
<1>2. \A n \in Machines, g \in Files : Below(g, local[n][g])' \subseteq Below(g, local[n][g]) \union Below(g, cloud[g])
  BY <1>1 DEF Below
<1>3. ASSUME NEW n \in Machines, NEW g \in Files, Pending(n, g)', ~Missing(local'[n][g]), ~Unchanged(n, g, local[n][g])'
      PROVE  /\ local'[n][g].id \notin Below(g, cloud[g])'
             /\ \A k \in Machines \ {n} : local'[n][g].id \notin Below(g, local[k][g])'
  <2>1. local'[n][g] = local[n][g] /\ ~Missing(local[n][g]) /\ ~Unchanged(n, g, local[n][g])
    BY <1>3 DEF Unchanged, Recorded, Missing
  <2>2. /\ local[n][g].id \notin Below(g, cloud[g])
        /\ \A k \in Machines \ {n} : local[n][g].id \notin Below(g, local[k][g])
    BY <1>3, <2>1 DEF Apart, NewIsPrivate
  <2>3. local[n][g].id \notin Below(g, cloud[g])'
    <3>1. CASE Heads(cloud'[g]) \subseteq Heads(cloud[g])
      BY <1>1, <2>2, <3>1 DEF Below
    <3>2. CASE \E m \in Machines : /\ Missing(local'[m][g])
                                  /\ Heads(cloud'[g]) \subseteq Heads(cloud[g]) \union Heads(local[m][g])
      <4>1. PICK m \in Machines : /\ Missing(local'[m][g])
                                 /\ Heads(cloud'[g]) \subseteq Heads(cloud[g]) \union Heads(local[m][g])
        BY <3>2
      <4>2. Below(g, cloud[g])' \subseteq Below(g, cloud[g]) \union Below(g, local[m][g])
        BY <1>1, <4>1 DEF Below
      <4>3. m # n
        BY <1>3, <4>1
      <4>4. QED
        BY <2>2, <4>2, <4>3
    <3>3. QED
      BY <3>1, <3>2
  <2>4. QED
    BY <1>2, <2>1, <2>2, <2>3
<1>4. ASSUME NEW n \in Machines, NEW g \in Files, Pending(n, g)', ~Recorded(n, g)', ~Missing(cloud'[g])
      PROVE  cloud'[g].id \notin Below(g, local[n][g])'
  <2>1. cloud[g].id \notin Below(g, local[n][g])
    BY <1>4 DEF Apart, UnknownIsNew, Recorded
  <2>2. Below(g, local[n][g])' \subseteq Below(g, local[n][g])
    BY <1>1, <1>4 DEF Below
  <2>3. QED
    BY <1>4, <2>1, <2>2
<1>5. NewIsPrivate' /\ UnknownIsNew'
  BY <1>3, <1>4 DEF NewIsPrivate, UnknownIsNew, Missing
<1>6. QED
  BY <1>5 DEF Apart

\* The other changes from outside keep new, unknown and deleted versions apart.
LEMMA ChangeApart ==
    ASSUME TypeOK, Apart, ~SharedTimes
    PROVE  /\ \A m \in Machines, f \in Files : Remove(m, f) => Apart'
           /\ \A f \in Files : Restamp(f) => Apart'
           /\ \A r \in Roots : EmptyRoot(r) => Apart'
<1>1. ASSUME NEW m \in Machines, NEW f \in Files, Remove(m, f) PROVE Apart'
  <2>1. /\ \A n \in Machines, g \in Files : Heads(local'[n][g]) = Heads(local[n][g])
        /\ \A n \in Machines, g \in Files : ~Missing(local'[n][g]) => local'[n][g] = local[n][g]
        /\ UNCHANGED <<cloud, manifest, pc, run, history>>
    BY <1>1, RemoveFacts
  <2>2. \A n, g : Pending(n, g)' <=> Pending(n, g)
    BY <2>1, SamePending DEF run
  <2>3. UNCHANGED <<saw, revived>>
    BY <2>1 DEF history
  <2>4. QED
    BY <2>1, <2>2, <2>3, TakenApart
<1>2. ASSUME NEW f \in Files, Restamp(f) PROVE Apart'
  <2>1. /\ \A g \in Files : Heads(cloud'[g]) = Heads(cloud[g]) /\ (Missing(cloud'[g]) <=> Missing(cloud[g]))
                          /\ cloud'[g].id = cloud[g].id
        /\ UNCHANGED <<local, manifest, pc, run, history>>
    BY <1>2, RestampFacts
  <2>2. \A n, g : Pending(n, g)' <=> Pending(n, g)
    BY <2>1, SamePending DEF run
  <2>3. UNCHANGED <<saw, revived>>
    BY <2>1 DEF history
  <2>4. QED
    BY <2>1, <2>2, <2>3, TakenApart
<1>3. ASSUME NEW r \in Roots, EmptyRoot(r) PROVE Apart'
  <2>1. /\ \A g \in Files : cloud'[g] = (IF RootOf[g] = r THEN Empty ELSE cloud[g])
        /\ UNCHANGED <<local, manifest, pc, run, saw, revived>>
    BY <1>3, EmptyRootFacts
  <2>2. \A n, g : Pending(n, g)' <=> Pending(n, g)
    BY <2>1, SamePending DEF run
  <2>3. Missing(Empty) /\ Heads(Empty) = {}
    BY DEF Missing, Heads, Empty
  <2>4. \A g \in Files : Heads(cloud'[g]) \subseteq Heads(cloud[g]) /\ (~Missing(cloud'[g]) => cloud'[g] = cloud[g])
    BY <2>1, <2>3
  <2>5. QED
    BY <2>1, <2>2, <2>4, TakenApart
<1>4. QED
  BY <1>1, <1>2, <1>3

\* What is still pending in the middle of a run is what it has not applied.
LEMMA ApplyPending ==
    ASSUME TypeOK, PlansHold, NEW m \in Machines, NEW f \in Files, pc[m] = "apply", todo[m][f] # "nothing",
           todo' = [todo EXCEPT ![m][f] = "nothing"], UNCHANGED <<pc, skipped>>
    PROVE  /\ Pending(m, f) /\ ~Pending(m, f)'
           /\ \A n \in Machines, g \in Files : Pending(n, g)' => Pending(n, g)
<1>1. f \notin skipped[m]
  BY DEF PlansHold, PlanHolds
<1>2. \A n \in Machines, g \in Files : todo'[n][g] = IF n = m /\ g = f THEN "nothing" ELSE todo[n][g]
  BY DEF TypeOK
<1>3. QED
  BY <1>1, <1>2 DEF Pending, Writing

\* A deletion by a run keeps new, unknown and deleted versions apart.
LEMMA DeletionApart ==
    ASSUME TypeOK, PlansHold, Apart, NEW m \in Machines, NEW f \in Files, pc[m] = "apply",
           DeleteLocal(m, f) \/ DeleteCloud(m, f),
           todo' = [todo EXCEPT ![m][f] = "nothing"], UNCHANGED <<manifest, pc, skipped>>
    PROVE  Apart'
<1> DEFINE gone == Removed(local[m][f], cloud[f])
<1>1. /\ PlanHolds(m, f)
      /\ Missing(gone) /\ Heads(gone) = Heads(local[m][f]) \union Heads(cloud[f])
      /\ \A n \in Machines, g \in Files : n # m \/ g # f => local'[n][g] = local[n][g]
      /\ \A g \in Files : g # f => cloud'[g] = cloud[g]
      /\ saw' = saw
      /\ DeleteLocal(m, f) =>
            /\ todo[m][f] = "del_local" /\ Supersede(m, f, local[m][f], cloud[f])
            /\ local'[m][f] = gone /\ cloud' = cloud
      /\ DeleteCloud(m, f) =>
            /\ todo[m][f] = "del_cloud" /\ Supersede(m, f, cloud[f], local[m][f])
            /\ Missing(cloud'[f]) /\ Heads(cloud'[f]) = Heads(gone) /\ local' = local
  BY DeletionFacts
<1> HIDE DEF gone
<1>2. todo[m][f] # "nothing"
  BY <1>1
<1>3. \A n \in Machines, g \in Files : Pending(n, g)' => Pending(n, g)
  BY <1>2, ApplyPending
<1>4. revived' = revived
  <2>1. CASE DeleteLocal(m, f)
    <3>1. ~Missing(local[m][f])
      BY <1>1, <2>1 DEF PlanHolds, Unchanged
    <3>2. QED
      BY <1>1, <2>1, <3>1 DEF Supersede
  <2>2. CASE DeleteCloud(m, f)
    <3>1. ~Missing(cloud[f])
      BY <1>1, <2>2 DEF PlanHolds, Unchanged
    <3>2. QED
      BY <1>1, <2>2, <3>1 DEF Supersede
  <2>3. QED
    BY <2>1, <2>2
<1>5. CASE DeleteLocal(m, f)
  <2>1. local'[m][f] = gone /\ cloud' = cloud /\ Missing(cloud[f])
    BY <1>1, <1>5 DEF PlanHolds
  <2>2. \A n \in Machines, g \in Files :
            /\ ~Missing(local'[n][g]) => local'[n][g] = local[n][g]
            /\ Heads(local'[n][g]) \subseteq Heads(local[n][g]) \union Heads(cloud[g])
    BY <1>1, <2>1
  <2>3. \A g \in Files : ~Missing(cloud'[g]) =>
            /\ ~Missing(cloud[g]) /\ cloud'[g].id = cloud[g].id
            /\ \A n \in Machines : Heads(local'[n][g]) \subseteq Heads(local[n][g])
    BY <1>1, <2>1
  <2>4. QED
    BY <1>1, <1>3, <1>4, <2>1, <2>2, <2>3, TakenApart
<1>6. CASE DeleteCloud(m, f)
  <2>1. Missing(cloud'[f]) /\ Heads(cloud'[f]) = Heads(gone) /\ local' = local /\ Missing(local[m][f])
    BY <1>1, <1>6 DEF PlanHolds
  <2>2. \A g \in Files :
            \/ Heads(cloud'[g]) \subseteq Heads(cloud[g])
            \/ \E k \in Machines : /\ Missing(local'[k][g])
                                  /\ Heads(cloud'[g]) \subseteq Heads(cloud[g]) \union Heads(local[k][g])
    BY <1>1, <2>1
  <2>3. \A g \in Files : ~Missing(cloud'[g]) => ~Missing(cloud[g]) /\ cloud'[g].id = cloud[g].id
    BY <1>1, <2>1
  <2>4. QED
    BY <1>1, <1>3, <1>4, <2>1, <2>2, <2>3, TakenApart
<1>7. QED
  BY <1>5, <1>6

\* The scan keeps new, unknown and deleted versions apart.
LEMMA RescanApart ==
    ASSUME TypeOK, PlansHold, Apart, NEW m \in Machines, Rescan(m)
    PROVE  Apart'
<1>1. /\ pc[m] = "apply" /\ pc' = [pc EXCEPT ![m] = "load"]
      /\ UNCHANGED <<manifest, todo, skipped, saw, revived>>
      /\ \A n \in Machines, g \in Files :
            IF n = m /\ g \in GoneOnBoth(m)
            THEN /\ Missing(local[n][g]) /\ Missing(local'[n][g])
                 /\ Heads(local'[n][g]) = Heads(local[n][g]) \union Heads(cloud[g])
            ELSE local'[n][g] = local[n][g]
      /\ \A g \in Files :
            IF g \in GoneOnBoth(m)
            THEN /\ Missing(cloud[g]) /\ Missing(cloud'[g])
                 /\ Heads(cloud'[g]) = Heads(local[m][g]) \union Heads(cloud[g])
            ELSE cloud'[g] = cloud[g]
  BY RescanFacts DEF history
<1>2. \A n \in Machines, g \in Files : Pending(n, g)' => Pending(n, g)
  BY <1>1 DEF Pending, Writing, TypeOK
<1>3. \A n \in Machines, g \in Files :
          /\ ~Missing(local'[n][g]) => local'[n][g] = local[n][g]
          /\ Heads(local'[n][g]) \subseteq Heads(local[n][g]) \union Heads(cloud[g])
  BY <1>1
<1>4. \A g \in Files :
          \/ Heads(cloud'[g]) \subseteq Heads(cloud[g])
          \/ \E k \in Machines : /\ Missing(local'[k][g])
                                /\ Heads(cloud'[g]) \subseteq Heads(cloud[g]) \union Heads(local[k][g])
  BY <1>1
<1>5. \A g \in Files : ~Missing(cloud'[g]) =>
          /\ ~Missing(cloud[g]) /\ cloud'[g].id = cloud[g].id
          /\ \A n \in Machines : Heads(local'[n][g]) \subseteq Heads(local[n][g])
  BY <1>1
<1>6. QED
  BY <1>1, <1>2, <1>3, <1>4, <1>5, TakenApart

\* What a replace adds below a version: what was below the replaced one, and
\* only where the replacing one has been.
LEMMA SupersedeBelow ==
    ASSUME TypeOK, SawIsOrder, NEW m \in Machines, NEW f \in Files, NEW old \in Copies(f), NEW new \in Copies(f),
           ~Missing(new), Supersede(m, f, old, new)
    PROVE  /\ \A u \in Copies(f) : Below(f, u)' \subseteq Below(f, u) \union Below(f, old)
           /\ \A u \in Copies(f) : new.id \notin Below(f, u) => Below(f, u)' \subseteq Below(f, u)
           /\ \A g \in Files : g # f => \A u \in Copies(g) : Below(g, u)' \subseteq Below(g, u)
<1>1. \A g \in Files : \A i, j \in Ids : <<i, j>> \in saw'[g] =>
          <<i, j>> \in saw[g] \/ (g = f /\ i \in Below(f, old) /\ j \in Above(f, new))
  BY SupersedeGrows
<1>2. \A g \in Files : \A u \in Copies(g) : Heads(u) \subseteq Ids /\ Heads(u)' = Heads(u)
  <2> TAKE g \in Files
  <2> TAKE u \in Copies(g)
  <2>1. Heads(u) \subseteq Ids
    BY BelowIsClosed
  <2>2. Heads(u)' = Heads(u)
    BY DEF Heads, Missing
  <2>3. QED
    BY <2>1, <2>2
<1>3. new.id \in Ids /\ \A j \in Above(f, new) : <<new.id, j>> \in saw[f]
  BY BelowIsClosed DEF Above
<1>4. \A u \in Copies(f) : Below(f, u)' \subseteq Below(f, u) \union Below(f, old)
  BY <1>1, <1>2 DEF Below
<1>5. \A u \in Copies(f) : new.id \notin Below(f, u) => Below(f, u)' \subseteq Below(f, u)
  BY <1>1, <1>2, <1>3 DEF Below
<1>6. \A g \in Files : g # f => \A u \in Copies(g) : Below(g, u)' \subseteq Below(g, u)
  BY <1>1, <1>2 DEF Below
<1>7. QED
  BY <1>4, <1>5, <1>6

\* A copy to the mirror keeps new, unknown and deleted versions apart.
LEMMA ToCloudApart ==
    ASSUME TypeOK, Data, PlansHold, StagedIsSource, Apart, DeletePolicy = "propagate",
           NEW m \in Machines, NEW f \in Files, pc[m] = "apply", ToCloud(m, f),
           todo' = [todo EXCEPT ![m][f] = "nothing"], UNCHANGED <<manifest, pc, skipped>>
    PROVE  Apart'
<1> DEFINE new == local[m][f]
           old == cloud[f]
<1>0. SawIsOrder /\ NewIsPrivate /\ UnknownIsNew /\ revived = {}
  BY DEF Data, Apart
<1>1. /\ PlanHolds(m, f) /\ todo[m][f] = "to_cloud" /\ ~Missing(new)
      /\ cloud'[f] = new /\ \A g \in Files : g # f => cloud'[g] = cloud[g]
      /\ Supersede(m, f, old, new)
      /\ UNCHANGED local
  BY ToCloudFacts
<1>2. /\ Pending(m, f) /\ ~Pending(m, f)'
      /\ \A n \in Machines, g \in Files : Pending(n, g)' => Pending(n, g)
  BY <1>1, ApplyPending
<1>3. \A g \in Files : cloud[g] \in Copies(g) /\ \A n \in Machines : local[n][g] \in Copies(g)
  BY CopiesTyped
<1>4. /\ \A u \in Copies(f) : Below(f, u)' \subseteq Below(f, u) \union Below(f, old)
      /\ \A g \in Files : g # f => \A u \in Copies(g) : Below(g, u)' \subseteq Below(g, u)
  BY <1>0, <1>1, <1>3, SupersedeBelow
<1>5. /\ new.id \notin Below(f, old)
      /\ \A n \in Machines \ {m} : new.id \notin Below(f, local[n][f])
  <2>1. ~Unchanged(m, f, new)
    BY <1>1 DEF PlanHolds
  <2>2. QED
    BY <1>0, <1>1, <1>2, <2>1 DEF NewIsPrivate
<1>6. revived' = {}
  BY <1>0, <1>1, <1>5 DEF Supersede
<1>7. /\ \A n, g, u : local'[n][g] = u => Below(g, local[n][g])' = Below(g, u)'
      /\ \A g, u : cloud'[g] = u => Below(g, cloud[g])' = Below(g, u)'
  BY DEF Below, Heads, Missing
<1>8. \A n, g : Unchanged(n, g, local[n][g])' <=> Unchanged(n, g, local[n][g])
  BY <1>1 DEF Unchanged, Recorded, Missing
<1>9. ASSUME NEW n \in Machines, NEW g \in Files, Pending(n, g)', ~Missing(local[n][g]), ~Unchanged(n, g, local[n][g])
      PROVE  /\ local[n][g].id \notin Below(g, cloud[g])'
             /\ \A k \in Machines \ {n} : local[n][g].id \notin Below(g, local[k][g])'
  <2>1. /\ local[n][g].id \notin Below(g, cloud[g])
        /\ \A k \in Machines \ {n} : local[n][g].id \notin Below(g, local[k][g])
    BY <1>0, <1>2, <1>9 DEF NewIsPrivate
  <2>2. CASE g # f
    BY <1>1, <1>3, <1>4, <1>7, <2>1, <2>2
  <2>3. CASE g = f
    <3>1. n # m
      BY <1>2, <1>9, <2>3
    <3>2. local[n][f].id \notin Below(f, new) /\ local[n][f].id \notin Below(f, old)
      BY <2>1, <2>3, <3>1
    <3>3. Below(f, cloud[f])' \subseteq Below(f, new) \union Below(f, old)
      BY <1>1, <1>3, <1>4, <1>7
    <3>4. \A k \in Machines : Below(f, local[k][f])' \subseteq Below(f, local[k][f]) \union Below(f, old)
      BY <1>1, <1>3, <1>4, <1>7
    <3>5. QED
      BY <2>1, <2>3, <3>2, <3>3, <3>4
  <2>4. QED
    BY <2>2, <2>3
<1>10. ASSUME NEW n \in Machines, NEW g \in Files, Pending(n, g)', ~Recorded(n, g), ~Missing(cloud'[g])
       PROVE  cloud'[g].id \notin Below(g, local[n][g])'
  <2>1. CASE g # f
    <3>1. cloud[g].id \notin Below(g, local[n][g]) /\ cloud'[g] = cloud[g]
      BY <1>0, <1>1, <1>2, <1>10, <2>1 DEF UnknownIsNew
    <3>2. QED
      BY <1>1, <1>3, <1>4, <1>7, <2>1, <3>1
  <2>2. CASE g = f
    <3>1. n # m
      BY <1>2, <1>10, <2>2
    <3>2. Below(f, local[n][f])' \subseteq Below(f, local[n][f]) \union Below(f, old)
      BY <1>1, <1>3, <1>4, <1>7
    <3>3. QED
      BY <1>1, <1>5, <2>2, <3>1, <3>2
  <2>3. QED
    BY <2>1, <2>2
<1>11. NewIsPrivate'
  BY <1>1, <1>8, <1>9 DEF NewIsPrivate, Missing
<1>12. UnknownIsNew'
  BY <1>10 DEF UnknownIsNew, Recorded, Missing
<1>13. QED
  BY <1>6, <1>11, <1>12 DEF Apart

\* A copy from the mirror keeps new, unknown and deleted versions apart.
LEMMA ToLocalApart ==
    ASSUME TypeOK, Data, PlansHold, StagedIsSource, Apart, DeletePolicy = "propagate",
           NEW m \in Machines, NEW f \in Files, pc[m] = "apply", ToLocal(m, f),
           todo' = [todo EXCEPT ![m][f] = "nothing"], UNCHANGED <<manifest, pc, skipped>>
    PROVE  Apart'
<1> DEFINE new == cloud[f]
           old == local[m][f]
<1>0. SawIsOrder /\ NewIsPrivate /\ UnknownIsNew /\ revived = {}
  BY DEF Data, Apart
<1>1. /\ PlanHolds(m, f) /\ todo[m][f] = "to_local" /\ ~Missing(new)
      /\ local'[m][f] = new
      /\ \A n \in Machines, g \in Files : n # m \/ g # f => local'[n][g] = local[n][g]
      /\ Supersede(m, f, old, new)
      /\ UNCHANGED cloud
  BY ToLocalFacts
<1>2. /\ Pending(m, f) /\ ~Pending(m, f)'
      /\ \A n \in Machines, g \in Files : Pending(n, g)' => Pending(n, g)
  BY <1>1, ApplyPending
<1>3. \A g \in Files : cloud[g] \in Copies(g) /\ \A n \in Machines : local[n][g] \in Copies(g)
  BY CopiesTyped
<1>4. /\ \A u \in Copies(f) : Below(f, u)' \subseteq Below(f, u) \union Below(f, old)
      /\ \A u \in Copies(f) : new.id \notin Below(f, u) => Below(f, u)' \subseteq Below(f, u)
      /\ \A g \in Files : g # f => \A u \in Copies(g) : Below(g, u)' \subseteq Below(g, u)
  BY <1>0, <1>1, <1>3, SupersedeBelow
<1>5. revived' = {}
  <2>1. Missing(old) => new.id \notin Below(f, old)
    <3> SUFFICES ASSUME Missing(old) PROVE new.id \notin Below(f, old)
      OBVIOUS
    <3>1. ~Recorded(m, f)
      BY <1>1 DEF PlanHolds
    <3>2. QED
      BY <1>0, <1>1, <1>2, <3>1 DEF UnknownIsNew
  <2>2. QED
    BY <1>0, <1>1, <2>1 DEF Supersede
<1>6. /\ \A n, g, u : local'[n][g] = u => Below(g, local[n][g])' = Below(g, u)'
      /\ \A g, u : cloud'[g] = u => Below(g, cloud[g])' = Below(g, u)'
  BY DEF Below, Heads, Missing
<1>7. ASSUME NEW n \in Machines, NEW g \in Files, Pending(n, g)', ~Missing(local'[n][g]), ~Unchanged(n, g, local[n][g])'
      PROVE  /\ local'[n][g].id \notin Below(g, cloud[g])'
             /\ \A k \in Machines \ {n} : local'[n][g].id \notin Below(g, local[k][g])'
  <2>1. n # m \/ g # f
    BY <1>2, <1>7
  <2>2. local'[n][g] = local[n][g] /\ ~Unchanged(n, g, local[n][g])
    BY <1>1, <1>7, <2>1 DEF Unchanged, Recorded, Missing
  <2>3. /\ local[n][g].id \notin Below(g, cloud[g])
        /\ \A k \in Machines \ {n} : local[n][g].id \notin Below(g, local[k][g])
    BY <1>0, <1>2, <1>7, <2>2 DEF NewIsPrivate
  <2>4. CASE g # f
    <3>1. \A k \in Machines : local'[k][g] = local[k][g]
      BY <1>1, <2>4
    <3>2. QED
      BY <1>1, <1>3, <1>4, <1>6, <2>2, <2>3, <2>4, <3>1
  <2>5. CASE g = f
    <3>1. local[n][f].id \notin Below(f, new) /\ local[n][f].id \notin Below(f, old)
      BY <2>1, <2>3, <2>5
    <3>2. Below(f, cloud[f])' \subseteq Below(f, new) \union Below(f, old)
      BY <1>1, <1>3, <1>4, <1>6
    <3>3. ASSUME NEW k \in Machines \ {n} PROVE local[n][f].id \notin Below(f, local[k][f])'
      <4>1. CASE k = m
        <5>1. Below(f, local[k][f])' \subseteq Below(f, new) \union Below(f, old)
          BY <1>1, <1>3, <1>4, <1>6, <4>1
        <5>2. QED
          BY <3>1, <5>1
      <4>2. CASE k # m
        <5>1. Below(f, local[k][f])' \subseteq Below(f, local[k][f]) \union Below(f, old)
          BY <1>1, <1>3, <1>4, <1>6, <4>2
        <5>2. QED
          BY <2>3, <2>5, <3>1, <5>1
      <4>3. QED
        BY <4>1, <4>2
    <3>4. QED
      BY <2>2, <2>5, <3>1, <3>2, <3>3
  <2>6. QED
    BY <2>4, <2>5
<1>8. ASSUME NEW n \in Machines, NEW g \in Files, Pending(n, g)', ~Recorded(n, g), ~Missing(cloud[g])
      PROVE  cloud[g].id \notin Below(g, local[n][g])'
  <2>1. n # m \/ g # f
    BY <1>2, <1>8
  <2>2. local'[n][g] = local[n][g] /\ cloud[g].id \notin Below(g, local[n][g])
    BY <1>0, <1>1, <1>2, <1>8, <2>1 DEF UnknownIsNew
  <2>3. Below(g, local[n][g])' \subseteq Below(g, local[n][g])
    BY <1>3, <1>4, <1>6, <2>2
  <2>4. QED
    BY <2>2, <2>3
<1>9. NewIsPrivate'
  BY <1>7 DEF NewIsPrivate, Missing
<1>10. UnknownIsNew'
  BY <1>1, <1>8 DEF UnknownIsNew, Recorded, Missing
<1>11. QED
  BY <1>5, <1>9, <1>10 DEF Apart

\* The record a run writes keeps new, unknown and deleted versions apart.
LEMMA SaveApart ==
    ASSUME TypeOK, Data, Runs, Apart, NEW m \in Machines, Save(m)
    PROVE  Apart'
<1>0. NewIsPrivate /\ UnknownIsNew /\ TimesTellApart /\ PlansHold /\ IndexIsCurrent /\ LoadedIsCurrent
  BY DEF Data, Runs, Apart
<1>1. /\ UNCHANGED <<local, cloud, saw, revived>> /\ Leave(m) /\ pc[m] = "save"
      /\ \A n \in Machines, f \in Files : n # m => manifest'[n][f] = manifest[n][f]
      /\ \A f \in Files :
           IF Missing(local[m][f]) /\ Missing(cloud[f]) THEN manifest'[m][f] = None
           ELSE IF f \in skipped[m] THEN manifest'[m][f] = manifest[m][f]
           ELSE /\ ~Missing(local[m][f]) /\ ~Missing(cloud[f])
                /\ manifest'[m][f] = [local |-> Fingerprint(local[m][f]), cloud |-> Fingerprint(local[m][f])]
                /\ manifest'[m][f] # None
  BY <1>0, SaveFacts DEF history
<1>2. \A n \in Machines, f \in Files : n # m => (Pending(n, f)' <=> Pending(n, f))
  BY <1>1 DEF Leave, Go, Pending, TypeOK
<1>3. \A f \in skipped[m] : Pending(m, f)
  BY DEF Pending
<1>4. \A n, f : Below(f, local[n][f])' = Below(f, local[n][f]) /\ Below(f, cloud[f])' = Below(f, cloud[f])
  BY <1>1 DEF Below, Heads, Missing
<1>5. \A n, f : /\ Recorded(n, f)' <=> manifest'[n][f] # None
               /\ Unchanged(n, f, local[n][f])' <=> /\ manifest'[n][f] # None /\ ~Missing(local[n][f])
                                                   /\ local[n][f].mtime = manifest'[n][f].local.mtime
  BY <1>1 DEF Recorded, Unchanged, Missing
<1>6. ASSUME NEW n \in Machines, NEW f \in Files, Pending(n, f)', ~Missing(local[n][f]), ~Unchanged(n, f, local[n][f])'
      PROVE  Pending(n, f) /\ ~Unchanged(n, f, local[n][f])
  <2>1. CASE n # m
    BY <1>1, <1>2, <1>5, <1>6, <2>1 DEF Unchanged, Recorded
  <2>2. CASE n = m /\ f \in skipped[m]
    BY <1>1, <1>3, <1>5, <1>6, <2>2 DEF Unchanged, Recorded
  <2>3. CASE n = m /\ f \notin skipped[m]
    <3>1. /\ manifest'[m][f] # None
          /\ manifest'[m][f] = [local |-> Fingerprint(local[m][f]), cloud |-> Fingerprint(local[m][f])]
      BY <1>1, <1>6, <2>3
    <3>2. manifest'[m][f].local.mtime = local[m][f].mtime
      BY <1>6, <2>3, <3>1 DEF Fingerprint
    <3>3. QED
      BY <1>5, <1>6, <2>3, <3>1, <3>2
  <2>4. QED
    BY <2>1, <2>2, <2>3
<1>7. ASSUME NEW n \in Machines, NEW f \in Files, Pending(n, f)', ~Recorded(n, f)', ~Missing(cloud[f])
      PROVE  Pending(n, f) /\ ~Recorded(n, f)
  <2>1. CASE n # m
    BY <1>1, <1>2, <1>5, <1>7, <2>1 DEF Recorded
  <2>2. CASE n = m /\ f \in skipped[m]
    BY <1>1, <1>3, <1>5, <1>7, <2>2 DEF Recorded
  <2>3. CASE n = m /\ f \notin skipped[m]
    <3>1. manifest'[m][f] # None
      BY <1>1, <1>7, <2>3
    <3>2. QED
      BY <1>7, <2>3, <3>1 DEF Recorded
  <2>4. QED
    BY <2>1, <2>2, <2>3
<1>8. NewIsPrivate'
  BY <1>0, <1>1, <1>4, <1>6 DEF NewIsPrivate, Missing
<1>9. UnknownIsNew'
  BY <1>0, <1>1, <1>4, <1>7 DEF UnknownIsNew, Missing
<1>10. QED
  BY <1>1, <1>8, <1>9 DEF Apart

-----------------------------------------------------------------------------
(* The invariant. *)

\* The invariant holds at first.
LEMMA InitInv == Init => Inv
<1> SUFFICES ASSUME Init PROVE Inv
  OBVIOUS
<1>1. TypeOK
  BY InitTyped
<1> DEFINE start == IF Synced THEN First ELSE Empty
           both == [local |-> Fingerprint(start), cloud |-> Fingerprint(start)]
<1>2. /\ \A m \in Machines, f \in Files : local[m][f] = start
      /\ \A f \in Files : cloud[f] = start /\ Copies(f) \subseteq {start}
      /\ \A m \in Machines, f \in Files : manifest[m][f] = IF Synced THEN both ELSE None
      /\ stamps = IF Synced THEN {1} ELSE {}
      /\ \A f \in Files : saw[f] = IF Synced THEN {<<1, 1>>} ELSE {}
      /\ \A r \in Roots : mirror[r] = "whole"
      /\ \A m \in Machines : pc[m] = "idle"
      /\ used["fail"] = 0 /\ used["write"] = 0
      /\ lost = {} /\ revived = {}
  BY DEF Init, Copies, Bounds
<1>3. Missing(Empty) /\ ~Missing(First) /\ Heads(Empty) = {} /\ Heads(First) = {1}
  BY VersionsTyped DEF Heads, Missing, Empty, First
<1>4. Synced => /\ start = First /\ both.local = [mtime |-> 1, size |-> SizeOf[1]] /\ both.cloud = both.local
  BY <1>3 DEF Fingerprint, First
<1>5. ~Synced => Missing(start) /\ Heads(start) = {}
  BY <1>3
<1>6. 1 \in Ids /\ Written = {1}
  BY <1>2, BaselineAssumption DEF Ids, Written
<1>7. \A f \in Files : RootOf[f] \in Roots
  BY DEF Roots
<1> HIDE DEF start, both
<1>8. TimesTellApart
  BY <1>2, <1>4, <1>5 DEF TimesTellApart, First
<1>9. RecordsStand
  <2> SUFFICES ASSUME NEW m \in Machines, NEW f \in Files, Recorded(m, f)
               PROVE  /\ manifest[m][f].local = manifest[m][f].cloud
                      /\ manifest[m][f].local \in Prints /\ manifest[m][f].local.mtime \in stamps
                      /\ \A v \in Copies(f) : Unchanged(m, f, v) => SizeOf[v.id] = manifest[m][f].local.size
    BY DEF RecordsStand
  <2>1. Synced /\ manifest[m][f] = both
    BY <1>2 DEF Recorded
  <2>2. [mtime |-> 1, size |-> SizeOf[1]] \in Prints
    BY <1>6 DEF Prints
  <2>3. QED
    BY <1>2, <1>4, <2>1, <2>2 DEF First
<1>10. SawIsOrder
  <2>1. CASE Synced
    BY <1>2, <1>3, <1>4, <1>6, <2>1 DEF SawIsOrder
  <2>2. CASE ~Synced
    BY <1>2, <1>5, <2>2 DEF SawIsOrder
  <2>3. QED
    BY <2>1, <2>2
<1>11. RecordedIsBelow
  <2> SUFFICES ASSUME NEW m \in Machines, NEW f \in Files, NEW v \in Copies(f), Unchanged(m, f, v)
               PROVE  v.id \in Below(f, local[m][f]) /\ v.id \in Below(f, cloud[f])
    BY DEF RecordedIsBelow
  <2>1. v = start /\ ~Missing(v) /\ local[m][f] = v /\ cloud[f] = v
    BY <1>2 DEF Unchanged
  <2>2. QED
    BY <1>1, <1>10, <2>1, BelowIsClosed
<1>12. EmptiedIsEmpty
  BY <1>2, <1>7 DEF EmptiedIsEmpty
<1>13. NeverDeleted
  BY <1>2, <1>3, <1>4 DEF NeverDeleted, Recorded
<1>14. Alone /\ PlansHold /\ StagedIsSource /\ IndexIsCurrent /\ LoadedIsCurrent
  BY <1>2 DEF Alone, PlansHold, StagedIsSource, IndexIsCurrent, LoadedIsCurrent
<1>15. NewIsPrivate
  <2> SUFFICES ASSUME NEW m \in Machines, NEW f \in Files, ~Missing(local[m][f]), ~Unchanged(m, f, local[m][f]) PROVE FALSE
    BY DEF NewIsPrivate
  <2>1. Synced
    BY <1>2, <1>5
  <2>2. manifest[m][f] = both /\ manifest[m][f] # None
    <3>1. manifest[m][f] = both
      BY <1>2, <2>1
    <3>2. both.local \in Prints
      BY <1>4, <1>6, <2>1 DEF Prints
    <3>3. both \in Pair
      BY <1>4, <2>1, <3>2 DEF Pair, both
    <3>4. QED
      BY <3>1, <3>3, BaselineAssumption
  <2>3. local[m][f].mtime = 1 /\ both.local.mtime = 1
    BY <1>2, <1>4, <2>1 DEF First
  <2>4. QED
    BY <2>2, <2>3 DEF Unchanged, Recorded
<1>16. UnknownIsNew
  <2> SUFFICES ASSUME NEW m \in Machines, NEW f \in Files, ~Recorded(m, f), ~Missing(cloud[f]) PROVE FALSE
    BY DEF UnknownIsNew
  <2>1. Synced /\ ~Missing(local[m][f]) /\ ~Unchanged(m, f, local[m][f])
    BY <1>2, <1>5 DEF Unchanged
  <2>2. both.local \in Prints
    BY <1>4, <1>6, <2>1 DEF Prints
  <2>3. both \in Pair
    BY <1>4, <2>1, <2>2 DEF Pair, both
  <2>4. QED
    BY <1>2, <2>1, <2>3, BaselineAssumption DEF Recorded
<1>17. Private /\ NothingLostUnasked
  BY <1>2, <1>15, <1>16 DEF Private, Apart, NothingLostUnasked
<1>18. QED
  BY <1>1, <1>8, <1>9, <1>10, <1>11, <1>12, <1>13, <1>14, <1>17 DEF Inv, Data, Runs

\* One item of the plan keeps the invariant.
LEMMA ApplyInv ==
    ASSUME Inv, NEW m \in Machines, Apply(m)
    PROVE  Data' /\ Runs' /\ Private' /\ NothingLostUnasked'
<1>0. TypeOK /\ Data /\ Runs /\ Private /\ NothingLostUnasked /\ PlansHold /\ StagedIsSource
  BY DEF Inv, Runs
<1>1. PICK f \in Files : /\ ToCloud(m, f) \/ ToLocal(m, f) \/ DeleteLocal(m, f) \/ DeleteCloud(m, f)
                         /\ todo' = [todo EXCEPT ![m][f] = "nothing"]
  BY DEF Apply
<1>2. pc[m] = "apply" /\ UNCHANGED <<manifest, open, pc, skipped, decided, staged, index, loaded, stamps, clock, used>>
  BY DEF Apply
<1>3. Data'
  <2>1. ToCloud(m, f) => Data'
    BY <1>0, <1>2, ToCloudData
  <2>2. ToLocal(m, f) => Data'
    BY <1>0, <1>2, ToLocalData
  <2>3. DeleteLocal(m, f) \/ DeleteCloud(m, f) => Data'
    BY <1>0, <1>2, DeletionData
  <2>4. QED
    BY <1>1, <2>1, <2>2, <2>3
<1>4. Runs'
  BY <1>0, <1>1, <1>2, ApplyRuns
<1>5. NothingLostUnasked'
  BY <1>0, <1>1, <1>2, ApplyLosesNothing
<1>6. ASSUME DeletePolicy = "propagate", Apart PROVE Apart'
  <2>1. ToCloud(m, f) => Apart'
    BY <1>0, <1>1, <1>2, <1>6, ToCloudApart
  <2>2. ToLocal(m, f) => Apart'
    BY <1>0, <1>1, <1>2, <1>6, ToLocalApart
  <2>3. DeleteLocal(m, f) \/ DeleteCloud(m, f) => Apart'
    BY <1>0, <1>1, <1>2, <1>6, DeletionApart
  <2>4. QED
    BY <1>1, <2>1, <2>2, <2>3
<1>7. Private'
  BY <1>0, <1>2, <1>6 DEF Private, Careful
<1>8. QED
  BY <1>3, <1>4, <1>5, <1>7

\* Any step of a run keeps the invariant.
LEMMA RunInv ==
    ASSUME Inv, Calm, NEW m \in Machines, Step(m) \/ StartSync(m) \/ Fail(m) \/ Resume(m)
    PROVE  Inv'
<1>0. /\ TypeOK /\ Data /\ Runs /\ Private /\ NothingLostUnasked
      /\ TimesTellApart /\ RecordsStand /\ PlansHold /\ IndexIsCurrent /\ LoadedIsCurrent
  BY DEF Inv, Data, Runs
<1>1. TypeOK'
  BY <1>0, RunTyped
<1>2. ASSUME UNCHANGED <<local, cloud, manifest, stamps, used, history>>, Runs',
             \A n \in Machines, f \in Files : Pending(n, f)' => Pending(n, f)
      PROVE  Inv'
  <2>1. Data'
    BY <1>0, <1>2, QuietData DEF history
  <2>2. Private'
    BY <1>0, <1>2, QuietApart DEF Private, Careful, history
  <2>3. NothingLostUnasked'
    BY <1>0, <1>2 DEF NothingLostUnasked, history
  <2>4. QED
    BY <1>1, <1>2, <2>1, <2>2, <2>3 DEF Inv
<1>3. ASSUME NEW policy \in Policies, NEW d \in Directions, Plan(m, policy, d) PROVE Inv'
  <2>1. Runs'
    BY <1>0, <1>3, PlanRuns DEF Calm
  <2>2. UNCHANGED <<local, cloud, manifest, stamps, used, history>>
    BY <1>3 DEF Plan
  <2>3. \A n \in Machines, f \in Files : Pending(n, f)' => Pending(n, f)
    <3>1. \A n \in Machines : pc[n] = "idle"
      BY <1>3 DEF Plan, MyTurn, AllIdle, Calm
    <3>2. QED
      BY <3>1 DEF Pending, Writing
  <2>4. QED
    BY <1>2, <2>1, <2>2, <2>3
<1>4. ASSUME Scan(m) \/ Open(m) \/ Stage(m) \/ Load(m) \/ Resume(m) \/ ScanBlocked(m) \/ CannotStage(m) PROVE Inv'
  <2>1. Runs'
    BY <1>0, <1>4, ControlRuns
  <2>2. UNCHANGED <<local, cloud, manifest, stamps, used, history>>
    BY <1>4 DEF Scan, Open, Stage, Load, Resume, ScanBlocked, CannotStage
  <2>3. \A n \in Machines, f \in Files : Pending(n, f)' => Pending(n, f)
    <3>1. CASE Scan(m) \/ Open(m) \/ Stage(m) \/ Load(m)
      <4>1. PICK from \in {"scan", "open", "stage", "load"}, to \in PCs :
                pc[m] = from /\ pc' = [pc EXCEPT ![m] = to] /\ (from \in Writing => to \in Writing)
        BY <3>1 DEF Scan, Open, Stage, Load, Go, PCs, Writing
      <4>2. UNCHANGED <<skipped, todo>>
        BY <3>1 DEF Scan, Open, Stage, Load, run
      <4>3. QED
        BY <1>0, <4>1, <4>2 DEF Pending, TypeOK
    <3>2. CASE Resume(m)
      BY <3>2 DEF Resume, run, Pending
    <3>3. CASE ScanBlocked(m) \/ CannotStage(m)
      <4>1. Leave(m) /\ pc[m] \notin Writing
        BY <3>3 DEF ScanBlocked, CannotStage, Writing
      <4>2. /\ \A n \in Machines : n # m => pc'[n] = pc[n] /\ todo'[n] = todo[n] /\ skipped'[n] = skipped[n]
            /\ pc'[m] \notin Writing
        BY <1>0, <4>1 DEF Leave, Go, TypeOK, Writing
      <4>3. QED
        BY <4>1, <4>2 DEF Pending
    <3>4. QED
      BY <1>4, <3>1, <3>2, <3>3
  <2>4. QED
    BY <1>2, <2>1, <2>2, <2>3
<1>5. ASSUME Fail(m) PROVE Inv'
  <2>1. Runs'
    BY <1>0, <1>5, ControlRuns
  <2>2. used'["write"] = used["write"] /\ used'["fail"] # 0
    BY <1>0, <1>5, SpendTyped DEF Fail, Bounds, TypeOK
  <2>3. UNCHANGED <<local, cloud, manifest, stamps, history>>
    BY <1>5 DEF Fail
  <2>4. Data'
    BY <1>0, <2>2, <2>3, QuietData DEF history
  <2>5. Private' /\ NothingLostUnasked'
    BY <1>0, <2>2, <2>3 DEF Private, Careful, NothingLostUnasked, history
  <2>6. QED
    BY <1>1, <2>1, <2>4, <2>5 DEF Inv
<1>6. ASSUME Save(m) PROVE Inv'
  <2>1. Runs'
    BY <1>0, <1>6, ControlRuns
  <2>2. Data'
    BY <1>0, <1>6, SaveData
  <2>3. UNCHANGED <<used, history>>
    BY <1>6 DEF Save
  <2>4. Private'
    BY <1>0, <1>6, <2>3, SaveApart DEF Private, Careful
  <2>5. NothingLostUnasked'
    BY <1>0, <2>3 DEF NothingLostUnasked, history
  <2>6. QED
    BY <1>1, <2>1, <2>2, <2>4, <2>5 DEF Inv
<1>7. ASSUME Rescan(m) PROVE Inv'
  <2>1. Runs'
    BY <1>0, <1>7, RescanRuns
  <2>2. Data'
    BY <1>0, <1>7, RescanData
  <2>3. UNCHANGED <<used, history>>
    BY <1>7 DEF Rescan
  <2>4. Private'
    BY <1>0, <1>7, <2>3, RescanApart DEF Private, Careful
  <2>5. NothingLostUnasked'
    BY <1>0, <2>3 DEF NothingLostUnasked, history
  <2>6. QED
    BY <1>1, <2>1, <2>2, <2>4, <2>5 DEF Inv
<1>8. ASSUME Apply(m) PROVE Inv'
  BY <1>1, <1>8, ApplyInv DEF Inv
<1>9. QED
  BY <1>3, <1>4, <1>5, <1>6, <1>7, <1>8 DEF Step, StartSync

\* Any change from outside keeps the invariant.
LEMMA ChangeInv ==
    ASSUME Inv, Calm, Change
    PROVE  Inv'
<1>0. TypeOK /\ Data /\ Private /\ NothingLostUnasked /\ SawIsOrder /\ ~SharedTimes
  BY DEF Inv, Data, Calm
<1>1. Roots = {RootOf[f] : f \in Files}
  BY DEF Roots
<1>2. TypeOK'
  BY <1>0, <1>1, ChangeTyped DEF Change
<1>3. Data'
  BY <1>0, <1>1, WriteData, RemoveData, RestampData, EmptyRootData DEF Change
<1>4. UNCHANGED <<pc, lost>>
  BY DEF Change, Write, Remove, Restamp, EmptyRoot, history
<1>5. Runs'
  <2>1. \A m \in Machines : pc[m] = "idle"
    BY DEF Change, Write, Remove, Restamp, EmptyRoot, Undisturbed, AllIdle, Calm
  <2>2. QED
    BY <1>4, <2>1, IdleRuns
<1>6. Apart => Apart'
  BY <1>0, <1>1, WriteApart, ChangeApart DEF Change
<1>7. used'["fail"] = used["fail"]
  <2>1. \A m \in Machines, f \in Files : Write(m, f) => used'["fail"] = used["fail"]
    BY <1>0, SpendTyped DEF Write, Bounds
  <2>2. QED
    BY <1>0, <1>1, <2>1, RemoveFacts, RestampFacts, EmptyRootFacts DEF Change
<1>8. Private'
  BY <1>0, <1>6, <1>7 DEF Private, Careful
<1>9. NothingLostUnasked'
  <2>1. NeverRefilled' => NeverRefilled
    <3>1. \A r \in Roots : mirror[r] = "refilled" => mirror'[r] = "refilled"
      <4>1. (\E m \in Machines, f \in Files : Write(m, f) \/ Remove(m, f)) => mirror' = mirror
        BY DEF Write, Remove, history
      <4>2. (\E f \in Files : Restamp(f)) => mirror' = mirror
        BY DEF Restamp, history
      <4>3. \A r \in Roots : EmptyRoot(r) => \A q \in Roots : mirror[q] = "refilled" => mirror'[q] = "refilled"
        BY <1>0, EmptyRootFacts
      <4>4. QED
        BY <1>1, <4>1, <4>2, <4>3 DEF Change
    <3>2. QED
      BY <3>1 DEF NeverRefilled
  <2>2. QED
    BY <1>0, <1>4, <2>1 DEF NothingLostUnasked, NeverRefilled
<1>10. QED
  BY <1>2, <1>3, <1>5, <1>8, <1>9 DEF Inv

\* A step that changes nothing keeps the invariant.
LEMMA StutterInv ==
    ASSUME Inv, UNCHANGED vars
    PROVE  Inv'
<1>0. TypeOK /\ Data /\ Runs /\ Private /\ NothingLostUnasked
  BY DEF Inv
<1>1. UNCHANGED <<local, cloud, manifest, open, pc, todo, skipped, decided, staged, index, loaded, stamps, clock, used,
                  saw, mirror, lost, revived>>
  BY DEF vars, run, history
<1>2. TypeOK'
  BY <1>0, <1>1 DEF TypeOK
<1>3. Data'
  BY <1>0, <1>1, QuietData
<1>4. Alone' /\ LoadedIsCurrent' /\ StagedIsSource'
  BY <1>0, <1>1 DEF Runs, Alone, LoadedIsCurrent, StagedIsSource, Source
<1>5. IndexIsCurrent'
  BY <1>0, <1>1 DEF Runs, IndexIsCurrent, Missing, Fingerprint
<1>6. PlansHold'
  BY <1>0, <1>1, PlanStays DEF Runs, PlansHold
<1>7. Private'
  BY <1>0, <1>1, SamePending, QuietApart DEF Private, Careful
<1>8. NothingLostUnasked'
  BY <1>0, <1>1 DEF NothingLostUnasked
<1>9. QED
  BY <1>2, <1>3, <1>4, <1>5, <1>6, <1>7, <1>8 DEF Inv, Runs

-----------------------------------------------------------------------------
(* The theorems. *)

\* One machine at a time, nobody writing meanwhile: the invariant holds of every
\* run, whatever the policies, the directions, the sizes and the tolerance.
THEOREM Invariance == ASSUME Calm PROVE Spec => []Inv
<1>1. Init => Inv
  BY InitInv
<1>2. Inv /\ [Next]_vars => Inv'
  BY RunInv, ChangeInv, StutterInv DEF Next
<1>3. QED
  BY <1>1, <1>2, PTL DEF Spec

\* What a baseline records of a path it records of both sides alike.
THEOREM BaselinesAgree == ASSUME Calm PROVE Spec => []BaselineIsAgreement
<1>1. Inv => BaselineIsAgreement
  BY DEF Inv, Data, RecordsStand, Recorded, BaselineIsAgreement
<1>2. QED
  BY <1>1, Invariance, PTL

\* No run overwrites or deletes what does not come before what it puts there, as
\* long as no run copied into a mirror that had gone missing.
THEOREM NothingIsLost == ASSUME Calm PROVE Spec => []NothingLostUnasked
<1>1. Inv => NothingLostUnasked
  BY DEF Inv
<1>2. QED
  BY <1>1, Invariance, PTL

\* Under "propagate", no run puts back what a person removed, as long as every
\* run that began to write saved its manifest.
THEOREM RemovedStaysRemoved == ASSUME Calm PROVE Spec => []DeletedStaysDeleted
<1>1. Inv => DeletedStaysDeleted
  BY DEF Inv, Private, Careful, Apart, DeletedStaysDeleted
<1>2. QED
  BY <1>1, Invariance, PTL
=============================================================================
