----------------------- MODULE SessionTransferProofs -----------------------
(***************************************************************************)
(* What the transfer of a chat guarantees for every set of machines,       *)
(* settings and starts and every bound: types and what a plan, an apply    *)
(* and a staged file are (Base); what an apply is about to overwrite is    *)
(* held elsewhere, as long as no two applies overlap (InvAlone) or every   *)
(* apply past COMMITTING was recorded (InvRecorded); so no history is      *)
(* lost; one file per chat (InvOne); what Codex projected is only ever     *)
(* continued; an archive move is never undone by who knows no later one    *)
(* (InvMoves).                                                             *)
(***************************************************************************)
EXTENDS SessionTransfer, FiniteSetTheorems, TLAPS

-----------------------------------------------------------------------------
(***************************************************************************)
(* Histories, and the number of the next record.                           *)
(***************************************************************************)
\* Records go on where they end.
LEMMA ContinuesSelf == \A h : Continues(h, h)
  BY DEF Continues

\* Going on is transitive.
LEMMA ContinuesOn == ASSUME NEW h, NEW g, NEW f, Continues(h, g), Continues(g, f)
                     PROVE  Continues(h, f)
  BY DEF Continues

\* The parts of a stored file.
LEMMA StoredParts == ASSUME NEW h \in Stored, h # Absent
                     PROVE  /\ h \in History /\ h.recs \in SUBSET (1 .. MaxRecords)
                            /\ h.format \in 0 .. 1 /\ h.read \in {"whole", "torn", "headless"}
  BY DEF Stored, History

\* What the files hold Codex has had.
FilesWritten == \A s \in Sides : \A p \in Present(s) : files[s][p].recs \in written

\* A path is named by its parts.
LEMMA PathParts == /\ \A place \in Places, box \in Boxes : At(place, box) \in Paths
                   /\ \A p \in Paths : p.place \in Places /\ p.box \in Boxes /\ p = At(p.place, p.box)
                   /\ \A place, box : At(place, box).place = place /\ At(place, box).box = box
                   /\ \A p, q \in Paths : p.place = q.place /\ p.box = q.box => p = q
  BY DEF At, Paths

\* Bounded sets of records have a last one.
LEMMA LastBound ==
  ASSUME NEW S, S \subseteq SUBSET (1 .. MaxRecords)
  PROVE  \E n \in 0 .. MaxRecords : /\ \A h \in S : \A r \in h : r <= n
                                    /\ (n = 0 \/ \E h \in S : n \in h)
<1>0. MaxRecords \in Nat
  BY TransferAssumption DEF TransferAssumption
<1> DEFINE B == {n \in 0 .. MaxRecords : \A h \in S : \A r \in h : r <= n}
           All == 0 .. MaxRecords
           T == {0 .. n : n \in B}
<1>1. MaxRecords \in B
  BY <1>0
<1>2. T # {} /\ T \subseteq SUBSET All
  BY <1>0, <1>1
<1>3. IsFiniteSet(All)
  BY <1>0, FS_Interval
<1>4. IsWellFoundedOn(StrictSubsetOrdering(All), SUBSET All)
  BY <1>3, FS_StrictSubsetOrderingWellFounded, FS_FiniteSubsetsOfFinite
<1>5. PICK x \in T : \A y \in T : ~ (<<y, x>> \in StrictSubsetOrdering(All))
  <2> HIDE DEF All, T
  <2> QED BY <1>2, <1>4, WFMin
<1>6. PICK n \in B : x = 0 .. n
  OBVIOUS
<1>7. SUFFICES ASSUME n # 0, \A h \in S : n \notin h PROVE FALSE
  BY <1>6
<1>8. n - 1 \in B
  BY <1>0, <1>7
<1>9. 0 .. (n - 1) \in T
  BY <1>8
<1>10. <<0 .. (n - 1), x>> \in StrictSubsetOrdering(All)
  <2>1. 0 .. (n - 1) \subseteq 0 .. n /\ n \in 0 .. n /\ n \notin 0 .. (n - 1)
    BY <1>0, <1>6
  <2>2. 0 .. (n - 1) \in SUBSET All /\ x \in SUBSET All
    BY <1>2, <1>9
  <2> QED BY <2>1, <2>2, <1>6 DEF StrictSubsetOrdering
<1> QED BY <1>5, <1>9, <1>10

\* The next record is later than all.
LEMMA NextRecordType ==
  ASSUME TypeOK
  PROVE  /\ NextRecord \in Nat /\ NextRecord > 0
         /\ \A h \in written : \A r \in h : r < NextRecord
<1>0. MaxRecords \in Nat
  BY TransferAssumption DEF TransferAssumption
<1> DEFINE Ends(n) == /\ \A h \in written : \A r \in h : r <= n
                      /\ (n = 0 \/ \E h \in written : n \in h)
           last == CHOOSE n \in 0 .. MaxRecords : Ends(n)
<1>1. \E n \in 0 .. MaxRecords : Ends(n)
  BY LastBound DEF TypeOK
<1>2. last \in 0 .. MaxRecords /\ Ends(last)
  <2> HIDE DEF Ends
  <2> QED BY <1>1
<1>3. \A h \in written : \A r \in h : r \in Nat
  BY <1>0 DEF TypeOK
<1>4. NextRecord = 1 + last
  BY DEF NextRecord
<1>5. last \in Nat /\ \A h \in written : \A r \in h : r <= last
  BY <1>0, <1>2
<1> HIDE DEF last
<1> QED BY <1>3, <1>4, <1>5

-----------------------------------------------------------------------------
(***************************************************************************)
(* What a plan is good for: an item that writes names a source that can be *)
(* read, and all it overwrites or removes is the chat's own file there,    *)
(* which the source continues or a bundle keeps.                           *)
(***************************************************************************)
OriginOf(m, i) == IF i.side = "mirror" THEN m ELSE Mirror
DestOf(m, i) == IF i.side = "mirror" THEN Mirror ELSE m
Displaces(m, i) == Present(DestOf(m, i)) \intersect {i.to, i.old}

ItemFormed(i) ==
    /\ i.action = "write" /\ i.side \in {"mirror", "local"}
    /\ i.by \in {"ancestry", "rule", "person"}
    /\ i.from \in Paths /\ i.to \in Paths /\ i.old # i.to
    /\ i.side = "local" => i.to.box = "jsonl"
    /\ i.place = IF i.side = "local" THEN i.from.place ELSE i.to.place
    /\ i.by # "ancestry" => i.local \in History /\ i.remote \in History
WellFormed(m, i) == ItemFormed(i) /\ i.from \in Copies(OriginOf(m, i))

LosesNothing(m, i) ==
    \A p \in Displaces(m, i) :
       /\ i.by = "ancestry" =>
             Prefix(files[DestOf(m, i)][p], files[OriginOf(m, i)][i.from])
       /\ i.by # "ancestry" => files[DestOf(m, i)][p] \in Bundled(i)
       /\ i.by # "ancestry" /\ i.side = "local" => ~projected[m]

\* The one copy of a side is the one displaced.
TakesTheCopy(m, i) ==
    \A p \in Copies(DestOf(m, i)) :
       (\A q \in Copies(DestOf(m, i)) : q = p) => p \in {i.to, i.old}

\* A new file of .codex has no neighbour in its folder but the one it replaces.
NoNeighbour(m, i) ==
    i.side = "local" =>
       \A p \in Present(m) :
          p.place = i.to.place /\ i.to \notin Present(m) => p = i.old

\* By ancestry nothing is taken from the mirror over a file that holds all of
\* it, where the mirror is as this machine agreed.
TakesOnlyNews(m, i) ==
    i.side = "local" /\ i.by = "ancestry" =>
       \A p \in Displaces(m, i) :
          Continues(files[Mirror][i.from].recs, files[m][p].recs) =>
             entry[m] # i.from.place

OneInMirror == \A p, q \in Copies(Mirror) : p = q

Sound(m, i) ==
    /\ i \in PlanItem
    /\ i.action = "write" =>
          /\ WellFormed(m, i) /\ LosesNothing(m, i) /\ TakesTheCopy(m, i)
          /\ NoNeighbour(m, i) /\ TakesOnlyNews(m, i) /\ OneInMirror
    /\ i.action = "noop" => \A p \in Copies(Mirror) : p.place = i.place

\* What is known of the chat's file on both sides where they are compared.
Known(m, lp, rp) ==
    /\ lp \in Copies(m) \/ (lp = None /\ Copies(m) = {})
    /\ rp \in Copies(Mirror) \/ (rp = None /\ Copies(Mirror) = {})
    /\ OneInMirror
IsSetting(st) == st.box \in Boxes

\* A copy is a stored file with a path.
LEMMA CopyParts == ASSUME TypeOK, NEW s \in Sides
                   PROVE  /\ \A p \in Present(s) : /\ p \in Paths /\ p # None
                                                   /\ files[s][p] \in History /\ files[s][p] # Absent
                          /\ Copies(s) \subseteq Present(s)
                          /\ \A p \in Paths : files[s][p] \in Stored
  BY TransferAssumption DEF TypeOK, Present, Copies, Stored, TransferAssumption

\* Machines and the mirror are sides.
LEMMA SideParts == Mirror \in Sides /\ \A m \in Machines : m \in Sides /\ m # Mirror
  BY TransferAssumption DEF Sides, TransferAssumption

\* Items of a plan are typed.
LEMMA ItemType ==
  ASSUME TypeOK, NEW m \in Machines,
         NEW action \in {"write", "noop", "conflict", "left"}, NEW side \in {"mirror", "local", "none"},
         NEW by \in {"ancestry", "rule", "person", "none"},
         NEW lp \in PathOrNone, NEW rp \in PathOrNone, NEW to \in PathOrNone, NEW old \in PathOrNone,
         side = "local" => rp # None
  PROVE  Item(m, action, side, by, lp, rp, to, old) \in PlanItem
<1>1. Content(m, lp) \in Stored /\ Content(Mirror, rp) \in Stored
  BY CopyParts, SideParts DEF Content, PathOrNone, Stored
<1>2. (IF side = "mirror" THEN lp ELSE rp) \in PathOrNone
  OBVIOUS
<1>3. (IF side = "local" THEN rp.place ELSE IF lp = None THEN None ELSE lp.place) \in Places \union {None}
  BY PathParts DEF PathOrNone
<1> QED BY <1>1, <1>2, <1>3 DEF Item, PlanItem

\* Nothing is left that was not one.
LEMMA LeftSound == ASSUME TypeOK, NEW m \in Machines, NEW lp \in PathOrNone, NEW rp \in PathOrNone
                   PROVE  Sound(m, Left(m, lp, rp))
<1>1. Left(m, lp, rp) \in PlanItem
  BY ItemType DEF Left, PathOrNone
<1>2. Left(m, lp, rp).action = "left"
  BY DEF Left, Item
<1> QED BY <1>1, <1>2 DEF Sound

\* A copy into the mirror.
LEMMA ToMirrorSound ==
  ASSUME TypeOK, NEW m \in Machines, NEW st, IsSetting(st), NEW by \in {"ancestry", "rule", "person"},
         NEW lp, NEW rp, Known(m, lp, rp), lp # None,
         by # "ancestry" => rp # None,
         by = "ancestry" /\ rp # None => Prefix(files[Mirror][rp], files[m][lp])
  PROVE  Sound(m, ToMirror(m, st, by, lp, rp))
<1>1. /\ lp \in Copies(m) /\ lp \in Paths /\ files[m][lp] # Absent
      /\ (rp = None /\ Copies(Mirror) = {}) \/ (rp \in Copies(Mirror) /\ rp \in Paths)
      /\ None \notin Paths
  BY CopyParts, SideParts, TransferAssumption DEF Known, TransferAssumption
<1> DEFINE moving == rp # None /\ rp.place # lp.place
           to == At(lp.place, KeptBox(rp, st.box))
           old == IF moving THEN rp ELSE None
           i == Item(m, "write", "mirror", by, lp, rp, to, old)
<1>2. to \in Paths
  BY <1>1, PathParts DEF KeptBox, IsSetting
<1>3. to.place = lp.place
  BY PathParts
<1>4. lp \in PathOrNone /\ rp \in PathOrNone /\ old \in PathOrNone /\ to \in PathOrNone
  BY <1>1, <1>2 DEF PathOrNone
<1>5. CASE (rp = None \/ moving) /\ Occupied(Mirror, lp.place)
  <2>1. ToMirror(m, st, by, lp, rp) = Left(m, lp, rp)
    BY <1>5 DEF ToMirror
  <2> QED BY <2>1, <1>4, LeftSound
<1>6. CASE ~((rp = None \/ moving) /\ Occupied(Mirror, lp.place))
  <2>1. ToMirror(m, st, by, lp, rp) = i
    BY <1>6 DEF ToMirror
  <2>2. i \in PlanItem
    BY <1>4, ItemType
  <2>3. /\ i.action = "write" /\ i.side = "mirror" /\ i.by = by /\ i.from = lp /\ i.to = to
        /\ i.old = old /\ i.remote = Content(Mirror, rp) /\ i.local = Content(m, lp)
        /\ i.place = IF lp = None THEN None ELSE lp.place
    BY DEF Item
  <2>4. old # to
    BY <1>1, <1>2, <1>3
  <2>5. DestOf(m, i) = Mirror /\ OriginOf(m, i) = m
    BY <2>3 DEF DestOf, OriginOf
  <2> HIDE DEF i
  <2>6. Displaces(m, i) \subseteq {rp} /\ (rp # None => rp \in {i.to, i.old})
    <3>1. CASE rp = None \/ moving
      <4>1. to \notin Present(Mirror)
        BY <1>6, <3>1, <1>3 DEF Occupied
      <4>2. None \notin Present(Mirror)
        BY CopyParts, SideParts
      <4> QED BY <2>3, <2>5, <4>1, <4>2, <3>1 DEF Displaces
    <3>2. CASE rp # None /\ rp.place = lp.place
      <4>1. to = rp
        BY <1>1, <3>2, PathParts DEF KeptBox
      <4>2. None \notin Present(Mirror)
        BY CopyParts, SideParts
      <4> QED BY <2>3, <2>5, <4>1, <4>2, <3>2 DEF Displaces
    <3> QED BY <3>1, <3>2
  <2>70. i.by # "ancestry" => i.local \in History /\ i.remote \in History
    BY <2>3, <1>1, CopyParts, SideParts DEF Content, Known
  <2>7. WellFormed(m, i)
    BY <2>3, <2>4, <2>5, <2>70, <1>1, <1>2, <1>3 DEF WellFormed, ItemFormed
  <2>8. LosesNothing(m, i)
    <3> SUFFICES ASSUME NEW p \in Displaces(m, i)
                 PROVE  /\ i.by = "ancestry" => Prefix(files[Mirror][p], files[m][i.from])
                        /\ i.by # "ancestry" => files[Mirror][p] \in Bundled(i)
      BY <2>3, <2>5 DEF LosesNothing
    <3>1. p = rp /\ rp # None
      BY <2>6, CopyParts, SideParts, <2>5 DEF Displaces
    <3>2. files[Mirror][p] = i.remote
      BY <3>1, <2>3 DEF Content
    <3> QED BY <3>1, <3>2, <2>3 DEF Bundled
  <2>9. TakesTheCopy(m, i)
    BY <2>5, <2>6, <1>1 DEF TakesTheCopy, Known, OneInMirror
  <2>10. NoNeighbour(m, i) /\ TakesOnlyNews(m, i)
    BY <2>3 DEF NoNeighbour, TakesOnlyNews
  <2>12. i.action = "write"
    BY <2>3
  <2> QED BY <2>1, <2>2, <2>7, <2>8, <2>9, <2>10, <2>12 DEF Sound, Known
<1> QED BY <1>5, <1>6

\* A copy into .codex.
LEMMA ToLocalSound ==
  ASSUME TypeOK, NEW m \in Machines, NEW st, NEW by \in {"ancestry", "rule", "person"},
         NEW lp, NEW rp, Known(m, lp, rp), rp # None,
         by # "ancestry" => lp # None,
         by = "ancestry" /\ lp # None =>
            /\ Prefix(files[m][lp], files[Mirror][rp])
            /\ Continues(files[Mirror][rp].recs, files[m][lp].recs) => entry[m] # rp.place
  PROVE  Sound(m, ToLocal(m, st, by, lp, rp))
<1>1. /\ rp \in Copies(Mirror) /\ rp \in Paths /\ files[Mirror][rp] # Absent
      /\ (lp = None /\ Copies(m) = {}) \/ (lp \in Copies(m) /\ lp \in Paths /\ files[m][lp] # Absent)
      /\ None \notin Paths
  BY CopyParts, SideParts, TransferAssumption DEF Known, TransferAssumption
<1> DEFINE to == At(rp.place, "jsonl")
           old == IF lp = None \/ lp = to THEN None ELSE lp
           limited == \/ lp = None /\ st.newChats = "keep_in_cloud"
                      \/ lp = None /\ row[m] \notin {"unlisted", rp.place}
                      \/ lp # None /\ InPlaceRefused(m, lp, rp, by # "ancestry")
                      \/ (lp = None \/ lp.place # rp.place) /\ Occupied(m, rp.place)
                      \/ old # None /\ old.place = rp.place /\ to \in Present(m)
           i == Item(m, "write", "local", by, lp, rp, to, old)
<1>2. to \in Paths /\ to.place = rp.place /\ to.box = "jsonl"
  BY <1>1, PathParts DEF Boxes
<1>4. lp \in PathOrNone /\ rp \in PathOrNone /\ old \in PathOrNone /\ to \in PathOrNone
  BY <1>1, <1>2 DEF PathOrNone
<1>5. CASE limited
  <2>1. ToLocal(m, st, by, lp, rp) = Left(m, lp, rp)
    BY <1>5 DEF ToLocal
  <2> QED BY <2>1, <1>4, LeftSound
<1>6. CASE ~limited
  <2>1. ToLocal(m, st, by, lp, rp) = i
    BY <1>6 DEF ToLocal
  <2>2. i \in PlanItem
    BY <1>4, ItemType
  <2>3. /\ i.action = "write" /\ i.side = "local" /\ i.by = by /\ i.from = rp /\ i.to = to
        /\ i.old = old /\ i.remote = Content(Mirror, rp) /\ i.local = Content(m, lp)
        /\ i.place = rp.place
    BY DEF Item
  <2>4. old # to
    BY <1>1, <1>2
  <2>5. DestOf(m, i) = m /\ OriginOf(m, i) = Mirror
    BY <2>3 DEF DestOf, OriginOf
  <2>0. /\ lp # None => ~InPlaceRefused(m, lp, rp, by # "ancestry")
        /\ lp = None \/ lp.place # rp.place => ~Occupied(m, rp.place)
        /\ old # None /\ old.place = rp.place => to \notin Present(m)
    BY <1>6
  <2>00. None \notin Present(m) /\ \A p \in Present(m) : p \in Paths
    BY CopyParts, SideParts
  <2> HIDE DEF i, limited
  <2>6. Displaces(m, i) \subseteq {lp} /\ (lp # None => lp \in {i.to, i.old})
    <3>1. CASE lp = None \/ lp.place # rp.place
      <4>1. to \notin Present(m)
        BY <2>0, <3>1, <1>2 DEF Occupied
      <4> QED BY <2>3, <2>5, <4>1, <2>00, <3>1 DEF Displaces
    <3>2. CASE lp # None /\ lp.place = rp.place /\ lp = to
      BY <2>3, <2>5, <2>00, <3>2 DEF Displaces
    <3>3. CASE lp # None /\ lp.place = rp.place /\ lp # to
      BY <2>3, <2>5, <2>00, <2>0, <3>3 DEF Displaces
    <3> QED BY <3>1, <3>2, <3>3
  <2>70. i.by # "ancestry" => i.local \in History /\ i.remote \in History
    BY <2>3, <1>1, CopyParts, SideParts DEF Content, Known
  <2>7. WellFormed(m, i)
    BY <2>3, <2>4, <2>5, <2>70, <1>1, <1>2 DEF WellFormed, ItemFormed
  <2>8. LosesNothing(m, i)
    <3> SUFFICES ASSUME NEW p \in Displaces(m, i)
                 PROVE  /\ i.by = "ancestry" => Prefix(files[m][p], files[Mirror][i.from])
                        /\ i.by # "ancestry" => files[m][p] \in Bundled(i)
                        /\ i.by # "ancestry" => ~projected[m]
      BY <2>3, <2>5 DEF LosesNothing
    <3>1. p = lp /\ lp # None
      BY <2>6, <2>00, <2>5 DEF Displaces
    <3>2. files[m][p] = i.local
      BY <3>1, <2>3 DEF Content
    <3>3. i.by # "ancestry" => ~projected[m]
      BY <3>1, <2>0, <2>3 DEF InPlaceRefused
    <3> QED BY <3>1, <3>2, <3>3, <2>3 DEF Bundled
  <2>9. TakesTheCopy(m, i)
    BY <2>5, <2>6, <1>1 DEF TakesTheCopy
  <2>10. NoNeighbour(m, i)
    <3> SUFFICES ASSUME NEW p \in Present(m), p.place = to.place, to \notin Present(m)
                 PROVE  p = old
      BY <2>3 DEF NoNeighbour
    <3>1. lp # None /\ lp.place = rp.place
      BY <2>0, <1>2 DEF Occupied
    <3>2. lp # to /\ lp \in Paths
      BY <3>1, <1>1, CopyParts, SideParts
    <3>3. p.box = "packed" /\ lp.box = "packed"
      BY <3>1, <3>2, <2>00, <1>2, PathParts DEF Boxes
    <3> QED BY <3>1, <3>2, <3>3, <2>00, <1>2, PathParts
  <2>11. TakesOnlyNews(m, i)
    <3> SUFFICES ASSUME by = "ancestry", NEW p \in Displaces(m, i),
                        Continues(files[Mirror][rp].recs, files[m][p].recs)
                 PROVE  entry[m] # rp.place
      BY <2>3 DEF TakesOnlyNews
    <3>1. p = lp /\ lp # None
      BY <2>6, <2>00, <2>5 DEF Displaces
    <3> QED BY <3>1
  <2>12. i.action = "write"
    BY <2>3
  <2> QED BY <2>1, <2>2, <2>7, <2>8, <2>9, <2>10, <2>11, <2>12 DEF Sound, Known
<1> QED BY <1>5, <1>6

\* A decision of a rule or a person.
LEMMA ResolvedSound ==
  ASSUME TypeOK, NEW m \in Machines, NEW st, IsSetting(st),
         NEW lp, NEW rp, Known(m, lp, rp), lp # None, rp # None
  PROVE  Sound(m, Resolved(m, st, lp, rp))
<1> DEFINE c == Choice(m, st.rule, files[m][lp], files[Mirror][rp])
<1>1. c.by \in {"rule", "person"}
  BY DEF Choice
<1> HIDE DEF c
<1>2. CASE c.keep = "local"
  <2>1. Sound(m, ToMirror(m, st, c.by, lp, rp))
    BY <1>1, ToMirrorSound
  <2> QED BY <2>1, <1>2 DEF Resolved, c
<1>3. CASE c.keep = "remote"
  <2>1. Sound(m, ToLocal(m, st, c.by, lp, rp))
    BY <1>1, ToLocalSound
  <2> QED BY <2>1, <1>3 DEF Resolved, c
<1>4. CASE c.keep # "local" /\ c.keep # "remote"
  <2>1. Resolved(m, st, lp, rp) = Item(m, "conflict", "none", "none", lp, rp, None, None)
    BY <1>4 DEF Resolved, c
  <2>2. lp \in PathOrNone /\ rp \in PathOrNone /\ None \in PathOrNone
    BY CopyParts, SideParts DEF Known, PathOrNone
  <2>3. Resolved(m, st, lp, rp) \in PlanItem
    BY <2>1, <2>2, ItemType
  <2>4. Resolved(m, st, lp, rp).action = "conflict"
    BY <2>1 DEF Item
  <2> QED BY <2>3, <2>4 DEF Sound
<1> QED BY <1>2, <1>3, <1>4

\* Of two related histories the one with no fewer records continues the other.
LEMMA LongerContinues ==
  ASSUME NEW l \in History, NEW r \in History, Related(l, r),
         ~(Cardinality(r.recs) > Cardinality(l.recs))
  PROVE  Prefix(r, l)
<1>1. CASE Prefix(r, l)
  BY <1>1
<1>2. CASE Prefix(l, r)
  <2>1. l.recs \subseteq r.recs /\ r.recs \subseteq 1 .. MaxRecords /\ MaxRecords \in Nat
    BY <1>2, TransferAssumption DEF Prefix, Continues, History, TransferAssumption
  <2>2. IsFiniteSet(r.recs)
    <3>1. IsFiniteSet(1 .. MaxRecords)
      <4>1. 1 \in Int /\ MaxRecords \in Int
        BY <2>1
      <4> QED BY <4>1, FS_Interval
    <3> QED BY <2>1, <3>1, FS_Subset
  <2>3. Cardinality(l.recs) <= Cardinality(r.recs) /\ (Cardinality(r.recs) = Cardinality(l.recs) => r.recs = l.recs)
    BY <2>1, <2>2, FS_Subset
  <2>4. Cardinality(l.recs) \in Nat /\ Cardinality(r.recs) \in Nat
    BY <2>1, <2>2, FS_Subset, FS_CardinalityType
  <2>5. r.recs = l.recs
    BY <2>3, <2>4
  <2> QED BY <1>2, <2>5 DEF Prefix, Continues
<1> QED BY <1>1, <1>2 DEF Related

\* An archive move of a chat both sides agree on.
LEMMA ArchiveMoveSound ==
  ASSUME TypeOK, NEW m \in Machines, NEW st, IsSetting(st),
         NEW lp, NEW rp, Known(m, lp, rp), lp # None, rp # None,
         Related(files[m][lp], files[Mirror][rp])
  PROVE  Sound(m, ArchiveMove(m, st, lp, rp))
<1> DEFINE l == files[m][lp]
           r == files[Mirror][rp]
<1>1. l \in History /\ r \in History
  BY CopyParts, SideParts DEF Known
<1>2. Sound(m, Resolved(m, st, lp, rp))
  BY ResolvedSound
<1>3. CASE FollowsLocal(m, rp)
  <2>1. CASE Cardinality(r.recs) > Cardinality(l.recs)
    BY <1>2, <1>3, <2>1 DEF ArchiveMove
  <2>2. CASE ~(Cardinality(r.recs) > Cardinality(l.recs))
    <3>1. Prefix(r, l)
      BY <1>1, <2>2, LongerContinues
    <3>2. Sound(m, ToMirror(m, st, "ancestry", lp, rp))
      BY <3>1, ToMirrorSound
    <3> QED BY <1>3, <2>2, <3>2 DEF ArchiveMove
  <2> QED BY <2>1, <2>2
<1>4. CASE ~FollowsLocal(m, rp)
  <2>1. CASE Cardinality(l.recs) > Cardinality(r.recs)
    BY <1>2, <1>4, <2>1 DEF ArchiveMove
  <2>2. CASE ~(Cardinality(l.recs) > Cardinality(r.recs))
    <3>1. Prefix(l, r)
      <4>1. Related(r, l)
        BY DEF Related
      <4> QED BY <1>1, <4>1, <2>2, LongerContinues
    <3>2. entry[m] # rp.place
      <4>1. rp \in Paths /\ rp.place \in Places /\ None \notin Places
        BY CopyParts, SideParts, PathParts, TransferAssumption DEF Known, TransferAssumption
      <4> QED BY <1>4, <4>1 DEF FollowsLocal
    <3>3. Sound(m, ToLocal(m, st, "ancestry", lp, rp))
      BY <3>1, <3>2, ToLocalSound
    <3> QED BY <1>4, <2>2, <3>3 DEF ArchiveMove
  <2> QED BY <2>1, <2>2
<1> QED BY <1>3, <1>4

\* Two sides that both hold the chat.
LEMMA ComparedSound ==
  ASSUME TypeOK, NEW m \in Machines, NEW st, IsSetting(st),
         NEW lp, NEW rp, Known(m, lp, rp), lp # None, rp # None
  PROVE  Sound(m, Compared(m, st, lp, rp))
<1> DEFINE l == files[m][lp]
           r == files[Mirror][rp]
           same == lp.place = rp.place
           relation == Relation(l, r, same, HasBase)
<1>1. l \in History /\ r \in History
  BY CopyParts, SideParts DEF Known
<1>2. Sound(m, Resolved(m, st, lp, rp))
  BY ResolvedSound
<1>3. CASE relation = "IDENTICAL"
  <2>1. Compared(m, st, lp, rp) = Item(m, "noop", "none", "none", lp, rp, None, None)
    BY <1>3 DEF Compared
  <2>2. lp \in PathOrNone /\ rp \in PathOrNone /\ None \in PathOrNone
    BY CopyParts, SideParts DEF Known, PathOrNone
  <2>3. Compared(m, st, lp, rp) \in PlanItem
    BY <2>1, <2>2, ItemType
  <2>4. Compared(m, st, lp, rp).action = "noop" /\ Compared(m, st, lp, rp).place = lp.place
    BY <2>1, CopyParts, SideParts DEF Item, Known
  <2>5. same
    BY <1>3 DEF Relation
  <2>6. \A p \in Copies(Mirror) : p = rp
    BY DEF Known, OneInMirror
  <2> QED BY <2>3, <2>4, <2>5, <2>6 DEF Sound
<1>4. CASE relation \in {"DIVERGED", "MISSING_BASE"}
  BY <1>2, <1>4 DEF Compared
<1>5. CASE relation = "ARCHIVE_TRANSITION"
  <2>1. Related(l, r)
    BY <1>5 DEF Relation
  <2>2. Sound(m, ArchiveMove(m, st, lp, rp))
    BY <2>1, ArchiveMoveSound
  <2> QED BY <1>5, <2>2 DEF Compared
<1>6. CASE relation = "FAST_FORWARD_LOCAL"
  <2>1. Prefix(l, r) /\ l.recs # r.recs
    BY <1>6 DEF Relation
  <2>2. ~Continues(r.recs, l.recs)
    BY <2>1 DEF Prefix, Continues
  <2>3. Sound(m, ToLocal(m, st, "ancestry", lp, rp))
    BY <2>1, <2>2, ToLocalSound
  <2> QED BY <1>6, <2>3 DEF Compared
<1>7. CASE relation \notin {"IDENTICAL", "DIVERGED", "MISSING_BASE", "ARCHIVE_TRANSITION", "FAST_FORWARD_LOCAL"}
  <2>1. Related(l, r) /\ same
    BY <1>7 DEF Relation
  <2>2. Prefix(r, l)
    <3>1. CASE l.recs = r.recs
      BY <3>1, <2>1, <1>7 DEF Relation, Related, Prefix
    <3>2. CASE l.recs # r.recs
      BY <3>2, <2>1, <1>7 DEF Relation, Related
    <3> QED BY <3>1, <3>2
  <2>3. Sound(m, ToMirror(m, st, "ancestry", lp, rp))
    BY <2>2, ToMirrorSound
  <2> QED BY <1>7, <2>3 DEF Compared
<1> QED BY <1>3, <1>4, <1>5, <1>6, <1>7

\* No more than one of them.
LEMMA AtMostOne == ASSUME NEW S, IsFiniteSet(S), ~(Cardinality(S) > 1)
                   PROVE  \A p, q \in S : p = q
<1> SUFFICES ASSUME NEW p \in S, NEW q \in S, p # q
             PROVE  FALSE
  OBVIOUS
<1>1. IsFiniteSet({p}) /\ Cardinality({p}) = 1
  BY FS_Singleton
<1>2. IsFiniteSet({p} \union {q}) /\ Cardinality({p} \union {q}) = 2
  <2>1. q \notin {p}
    OBVIOUS
  <2>2. IsFiniteSet({p} \union {q}) /\ Cardinality({p} \union {q}) = Cardinality({p}) + 1
    BY <1>1, <2>1, FS_AddElement, Zenon
  <2> QED BY <1>1, <2>2
<1>3. {p} \union {q} \in SUBSET S
  OBVIOUS
<1>4. Cardinality({p} \union {q}) <= Cardinality(S) /\ Cardinality(S) \in Nat
  BY <1>2, <1>3, FS_Subset, FS_CardinalityType
<1> QED BY <1>2, <1>4

\* The paths of a chat are finitely many.
LEMMA PathsFinite == IsFiniteSet(Paths)
<1> DEFINE four == {At("sessions", "jsonl"), At("sessions", "packed"),
                    At("archived_sessions", "jsonl"), At("archived_sessions", "packed")}
<1>1. Paths \subseteq four
  BY PathParts DEF Places, Boxes
<1>2. IsFiniteSet({}) /\ IsFiniteSet({At("sessions", "jsonl")})
  BY FS_EmptySet, FS_Singleton
<1>3. IsFiniteSet({At("sessions", "jsonl")} \union {At("sessions", "packed")})
  BY <1>2, FS_AddElement
<1>4. IsFiniteSet({At("sessions", "jsonl")} \union {At("sessions", "packed")}
                  \union {At("archived_sessions", "jsonl")})
  BY <1>3, FS_AddElement
<1>5. IsFiniteSet({At("sessions", "jsonl")} \union {At("sessions", "packed")}
                  \union {At("archived_sessions", "jsonl")} \union {At("archived_sessions", "packed")})
  BY <1>4, FS_AddElement
<1>6. four = {At("sessions", "jsonl")} \union {At("sessions", "packed")}
             \union {At("archived_sessions", "jsonl")} \union {At("archived_sessions", "packed")}
  OBVIOUS
<1> QED BY <1>1, <1>5, <1>6, FS_Subset

\* One of them, where there is one.
OneOrNone(S) == IF S = {} THEN None ELSE The(S)

\* It is one of them, and None only of the empty set.
LEMMA OneOf ==
  ASSUME NEW S, NEW T, S \subseteq T, S = {} => T = {}
  PROVE  OneOrNone(S) \in T \/ (OneOrNone(S) = None /\ T = {})
<1>1. S # {} => The(S) \in S
  BY DEF The
<1>2. CASE S = {}
  <2>1. OneOrNone(S) = None
    BY <1>2 DEF OneOrNone
  <2> QED BY <1>2, <2>1
<1>3. CASE S # {}
  <2>1. OneOrNone(S) = The(S)
    BY <1>3 DEF OneOrNone
  <2> QED BY <1>1, <1>3, <2>1
<1> QED BY <1>2, <1>3

\* What is decided of a chat.
LEMMA ClassifySound ==
  ASSUME TypeOK, NEW m \in Machines, NEW st, IsSetting(st)
  PROVE  Sound(m, Classify(m, st))
<1> DEFINE lp == OneOrNone(Settled(m))
           rp == OneOrNone(Copies(Mirror))
<1>1. Settled(m) \subseteq Copies(m) /\ (Settled(m) = {} => Copies(m) = {})
  BY DEF Settled, Named
<1>2. /\ lp \in Copies(m) \/ (lp = None /\ Copies(m) = {})
      /\ rp \in Copies(Mirror) \/ (rp = None /\ Copies(Mirror) = {})
  BY <1>1, OneOf
<1>3. lp \in PathOrNone /\ rp \in PathOrNone /\ None \in PathOrNone
  BY <1>2, CopyParts, SideParts DEF PathOrNone
<1>0. /\ lp \in Copies(m) => lp # None
      /\ rp \in Copies(Mirror) => rp # None
  BY CopyParts, SideParts
<1>4. CASE Unusable(m)
  <2>1. Classify(m, st) = Left(m, None, None)
    BY <1>4 DEF Classify
  <2> QED BY <2>1, <1>3, LeftSound
<1>5. CASE ~Unusable(m)
  <2>1. OneInMirror
    <3>1. Copies(Mirror) \subseteq Paths
      BY CopyParts, SideParts
    <3>2. IsFiniteSet(Copies(Mirror))
      BY <3>1, PathsFinite, FS_Subset
    <3> QED BY <1>5, <3>2, AtMostOne DEF Unusable, OneInMirror
  <2>2. Known(m, lp, rp)
    BY <1>2, <2>1 DEF Known
  <2> HIDE DEF lp, rp
  <2>3. CASE lp = None /\ rp = None
    <3>1. Classify(m, st) = Left(m, lp, rp)
      BY <1>5, <2>3 DEF Classify, lp, rp, OneOrNone
    <3> QED BY <3>1, <1>3, LeftSound
  <2>4. CASE lp = None /\ rp # None
    <3>1. Classify(m, st) = ToLocal(m, st, "ancestry", lp, rp)
      BY <1>5, <2>4 DEF Classify, lp, rp, OneOrNone
    <3>2. Sound(m, ToLocal(m, st, "ancestry", lp, rp))
      BY <2>2, <2>4, ToLocalSound
    <3> QED BY <3>1, <3>2
  <2>5. CASE lp # None /\ rp = None
    <3>1. Classify(m, st) = ToMirror(m, st, "ancestry", lp, rp)
      BY <1>5, <2>5 DEF Classify, lp, rp, OneOrNone
    <3>2. Sound(m, ToMirror(m, st, "ancestry", lp, rp))
      BY <2>2, <2>5, ToMirrorSound
    <3> QED BY <3>1, <3>2
  <2>6. CASE lp # None /\ rp # None
    <3>1. Classify(m, st) = Compared(m, st, lp, rp)
      BY <1>5, <2>6 DEF Classify, lp, rp, OneOrNone
    <3>2. Sound(m, Compared(m, st, lp, rp))
      BY <2>2, <2>6, ComparedSound
    <3> QED BY <3>1, <3>2
  <2> QED BY <2>3, <2>4, <2>5, <2>6
<1> QED BY <1>4, <1>5

\* An item that is held back writes nothing.
LEMMA HeldBackSound ==
  ASSUME NEW m, NEW i, Sound(m, i)
  PROVE  Sound(m, [i EXCEPT !.action = "left", !.side = "none"])
<1>1. i \in PlanItem
  BY DEF Sound
<1>2. [i EXCEPT !.action = "left", !.side = "none"] \in PlanItem
  BY <1>1 DEF PlanItem
<1>3. [i EXCEPT !.action = "left", !.side = "none"].action = "left"
  BY <1>1 DEF PlanItem
<1> QED BY <1>2, <1>3 DEF Sound

\* The item of a plan.
LEMMA DecideSound ==
  ASSUME TypeOK, NEW m \in Machines
  PROVE  Sound(m, Decide(m, setting[m]))
<1> DEFINE st == setting[m]
           ruled == [st EXCEPT !.rule = RuleFor(st)]
<1>1. st \in Setting
  BY TransferAssumption DEF TypeOK, TransferAssumption
<1>2. IsSetting(ruled)
  BY <1>1 DEF IsSetting, Setting
<1>3. Sound(m, Classify(m, ruled))
  BY <1>2, ClassifySound
<1> HIDE DEF ruled, st
<1>4. Sound(m, Scoped(st, Classify(m, ruled)))
  BY <1>3, HeldBackSound DEF Scoped
<1>5. Sound(m, Directed(st, Scoped(st, Classify(m, ruled))))
  BY <1>4, HeldBackSound DEF Directed
<1> QED BY <1>5 DEF Decide, st, ruled

-----------------------------------------------------------------------------
(***************************************************************************)
(* What the steps do to the files.                                         *)
(***************************************************************************)
\* Codex on m rewrites one file of the chat, under its name or another one.
Rewrites(m, p, q, h) ==
    /\ p \in Present(m) /\ q \in Paths /\ h \in History
    /\ p.box = "packed" => At(p.place, "jsonl") \notin Present(m)
    /\ files'[m] = [r \in Paths |-> IF r = q THEN h
                                    ELSE IF r = p THEN Absent ELSE files[m][r]]
    /\ \A s \in Sides \ {m} : files'[s] = files[s]
    /\ h.read = files[m][p].read /\ Continues(files[m][p].recs, h.recs)
    /\ \/ q = p
       \/ \A r \in Present(m) : r.place = q.place => r = p
       \/ p = At(q.place, "jsonl") /\ q = At(q.place, "packed")
    /\ \/ written' = written /\ h.recs = files[m][p].recs
       \/ written' = written \union {h.recs} /\ q.box = "jsonl"
CodexRewrites(m) ==
    /\ codex[m] /\ \E p, q \in Paths, h \in History : Rewrites(m, p, q, h)
    /\ files' \in [Sides -> [Paths -> Stored]] /\ used' \in [Events -> Nat]
    /\ used'["headless"] = used["headless"]
    /\ UNCHANGED <<setting, codex, projected, entry, kept, decisions, run,
                   pending, overlap, interrupted>>

\* The cloud client changes only what can be read of a file.
Touches(p, how) ==
    /\ p \in Present(Mirror) /\ how \in {"whole", "torn", "headless"}
    /\ files' = [files EXCEPT ![Mirror][p].read = how]

\* A bounded event is counted.
LEMMA SpendType ==
  ASSUME TypeOK, NEW what \in Events, Spend(what)
  PROVE  /\ used' \in [Events -> Nat] /\ used'[what] = used[what] + 1
         /\ \A e \in Events \ {what} : used'[e] = used[e]
  BY DEF TypeOK, Spend

\* All events are named.
LEMMA EventParts == /\ "headless" \in Events /\ "turn" \in Events /\ "move" \in Events
                    /\ "upgrade" \in Events /\ "project" \in Events /\ "compress" \in Events
                    /\ "fail" \in Events /\ "crash" \in Events /\ "resolve" \in Events
                    /\ "torn" \in Events
  BY DEF Events, Mishaps

\* One side's files are replaced as a whole.
LEMMA SideWritten ==
  ASSUME TypeOK, NEW s \in Sides, NEW g \in [Paths -> Stored], files' = [files EXCEPT ![s] = g]
  PROVE  /\ files' \in [Sides -> [Paths -> Stored]] /\ files'[s] = g
         /\ \A t \in Sides \ {s} : files'[t] = files[t]
  BY DEF TypeOK

\* Where Codex opens the chat.
LEMMA OpenedParts ==
  ASSUME TypeOK, NEW m \in Machines, NEW p \in Opened(m)
  PROVE  /\ p \in Present(m) /\ p \in Paths /\ p.place = row[m]
         /\ files[m][p] \in History /\ files[m][p] # Absent
         /\ p.box = "packed" => At(p.place, "jsonl") \notin Present(m)
  BY CopyParts, SideParts DEF Opened

\* A turn.
LEMMA WorkRewrites ==
  ASSUME TypeOK, FilesWritten, NEW m \in Machines, Work(m)
  PROVE  CodexRewrites(m)
<1>1. PICK p \in Opened(m) :
         LET h == [files[m][p] EXCEPT !.recs = @ \union {NextRecord}]
         IN  /\ files' = [files EXCEPT ![m] =
                    [@ EXCEPT ![p] = Absent, ![At(p.place, "jsonl")] = h]]
             /\ written' = written \union {h.recs}
  BY DEF Work
<1> DEFINE q == At(p.place, "jsonl")
           h == [files[m][p] EXCEPT !.recs = @ \union {NextRecord}]
           g == [[files[m] EXCEPT ![p] = Absent] EXCEPT ![q] = h]
<1>2. /\ p \in Present(m) /\ p \in Paths /\ files[m][p] \in History
      /\ p.box = "packed" => q \notin Present(m)
  BY OpenedParts
<1>3. q \in Paths /\ q.place = p.place /\ q.box = "jsonl"
  BY <1>2, PathParts DEF Boxes
<1>4. NextRecord \in 1 .. MaxRecords /\ \A k \in written : \A r \in k : r < NextRecord
  BY NextRecordType, TransferAssumption DEF Work, TransferAssumption
<1>5. h \in History /\ h.recs = files[m][p].recs \union {NextRecord} /\ h.read = files[m][p].read
  BY <1>2, <1>4 DEF History
<1>6. m \in Sides /\ files[m] \in [Paths -> Stored] /\ files' = [files EXCEPT ![m] = g]
  <2>1. m \in Sides /\ files[m] \in [Paths -> Stored]
    BY SideParts DEF TypeOK
  <2>2. files' = [files EXCEPT ![m] = [files[m] EXCEPT ![p] = Absent, ![q] = h]]
    BY <1>1, <2>1 DEF TypeOK
  <2> QED BY <2>1, <2>2
<1>7. Absent \in Stored /\ h \in Stored
  BY <1>5 DEF Stored
<1> HIDE DEF h, q
<1>8. g \in [Paths -> Stored] /\ g = [r \in Paths |-> IF r = q THEN h ELSE IF r = p THEN Absent ELSE files[m][r]]
  BY <1>2, <1>3, <1>6, <1>7
<1> HIDE DEF g
<1>9. files' \in [Sides -> [Paths -> Stored]] /\ files'[m] = g /\ \A t \in Sides \ {m} : files'[t] = files[t]
  BY <1>6, <1>8, SideWritten
<1>10. Continues(files[m][p].recs, h.recs)
  <2>1. files[m][p].recs \in written
    BY <1>2, SideParts DEF FilesWritten
  <2> QED BY <1>4, <1>5, <2>1 DEF Continues
<1>11. q = p \/ \A r \in Present(m) : r.place = q.place => r = p
  <2> SUFFICES ASSUME p # q, NEW r \in Present(m), r.place = q.place PROVE r = p
    OBVIOUS
  <2>1. r \in Paths
    BY CopyParts, SideParts
  <2>2. p.box = "packed"
    BY <1>2, <1>3, PathParts DEF Boxes
  <2>3. r.box # "jsonl"
    BY <1>2, <1>3, <2>1, <2>2, PathParts
  <2> QED BY <1>2, <1>3, <2>1, <2>2, <2>3, PathParts DEF Boxes
<1>12. written' = written \union {h.recs}
  BY <1>1 DEF h, q
<1>13. Rewrites(m, p, q, h)
  BY <1>2, <1>3, <1>5, <1>8, <1>9, <1>10, <1>11, <1>12 DEF Rewrites, q
<1>14. used' \in [Events -> Nat] /\ used'["headless"] = used["headless"]
  BY SpendType, EventParts DEF Work
<1> QED BY <1>2, <1>3, <1>5, <1>9, <1>13, <1>14 DEF CodexRewrites, Work, codexState

\* A file of the chat is put under another name, or in its own place.
LEMMA MovedRewrites ==
  ASSUME TypeOK, NEW m \in Machines, NEW p \in Opened(m), NEW q \in Paths, NEW h \in History,
         files' = [files EXCEPT ![m] = [@ EXCEPT ![p] = Absent, ![q] = h]],
         h.recs = files[m][p].recs, h.read = files[m][p].read, written' = written,
         \/ q = p
         \/ \A r \in Present(m) : r.place = q.place => r = p
         \/ p = At(q.place, "jsonl") /\ q = At(q.place, "packed")
  PROVE  /\ Rewrites(m, p, q, h) /\ p \in Paths
         /\ files' \in [Sides -> [Paths -> Stored]]
<1> DEFINE g == [[files[m] EXCEPT ![p] = Absent] EXCEPT ![q] = h]
<1>1. /\ p \in Present(m) /\ p \in Paths /\ files[m][p] \in History
      /\ m \in Sides /\ files[m] \in [Paths -> Stored]
  BY OpenedParts, SideParts DEF TypeOK
<1>2. files' = [files EXCEPT ![m] = g]
  <2>1. files' = [files EXCEPT ![m] = [files[m] EXCEPT ![p] = Absent, ![q] = h]]
    BY <1>1 DEF TypeOK
  <2> QED BY <2>1
<1>3. Absent \in Stored /\ h \in Stored
  BY DEF Stored
<1>4. g \in [Paths -> Stored] /\ g = [r \in Paths |-> IF r = q THEN h ELSE IF r = p THEN Absent ELSE files[m][r]]
  BY <1>1, <1>3
<1> HIDE DEF g
<1>5. files' \in [Sides -> [Paths -> Stored]] /\ files'[m] = g /\ \A t \in Sides \ {m} : files'[t] = files[t]
  BY <1>1, <1>2, <1>4, SideWritten
<1>6. Continues(files[m][p].recs, h.recs)
  BY ContinuesSelf
<1>7. p.box = "packed" => At(p.place, "jsonl") \notin Present(m)
  BY OpenedParts
<1> QED BY <1>1, <1>4, <1>5, <1>6, <1>7 DEF Rewrites

\* Archiving a chat or bringing it back.
LEMMA ArchiveRewrites ==
  ASSUME TypeOK, NEW m \in Machines, Archive(m)
  PROVE  CodexRewrites(m)
<1>1. PICK p \in Opened(m), place \in Places \ {row[m]} :
          /\ ~Occupied(m, place)
          /\ files' = [files EXCEPT ![m] =
                 [@ EXCEPT ![p] = Absent, ![At(place, p.box)] = files[m][p]]]
  BY DEF Archive
<1>2. p \in Present(m) /\ p \in Paths /\ files[m][p] \in History
  BY OpenedParts
<1>3. At(place, p.box) \in Paths /\ At(place, p.box).place = place
  BY <1>2, PathParts
<1>4. \A r \in Present(m) : r.place = At(place, p.box).place => r = p
  BY <1>1, <1>3 DEF Occupied
<1>5. written' = written /\ codex[m]
  BY DEF Archive
<1>6. Rewrites(m, p, At(place, p.box), files[m][p]) /\ files' \in [Sides -> [Paths -> Stored]]
  BY <1>1, <1>2, <1>3, <1>4, <1>5, MovedRewrites
<1>7. used' \in [Events -> Nat] /\ used'["headless"] = used["headless"]
  BY SpendType, EventParts DEF Archive
<1> QED BY <1>2, <1>3, <1>5, <1>6, <1>7 DEF CodexRewrites, Archive, codexState

\* Packing a chat.
LEMMA CompressRewrites ==
  ASSUME TypeOK, NEW m \in Machines, Compress(m)
  PROVE  CodexRewrites(m)
<1>1. PICK p \in Opened(m) :
          /\ p.box = "jsonl"
          /\ files' = [files EXCEPT ![m] =
                 [@ EXCEPT ![p] = Absent, ![At(p.place, "packed")] = files[m][p]]]
  BY DEF Compress
<1> DEFINE q == At(p.place, "packed")
<1>2. p \in Present(m) /\ p \in Paths /\ files[m][p] \in History
  BY OpenedParts
<1>3. q \in Paths /\ q.place = p.place /\ p = At(q.place, "jsonl") /\ q = At(q.place, "packed")
  BY <1>1, <1>2, PathParts DEF Boxes
<1>5. written' = written /\ codex[m]
  BY DEF Compress, ghosts
<1> HIDE DEF q
<1>6. Rewrites(m, p, q, files[m][p]) /\ files' \in [Sides -> [Paths -> Stored]]
  <2>1. files' = [files EXCEPT ![m] = [@ EXCEPT ![p] = Absent, ![q] = files[m][p]]]
    BY <1>1 DEF q
  <2> QED BY <2>1, <1>2, <1>3, <1>5, MovedRewrites
<1>7. used' \in [Events -> Nat] /\ used'["headless"] = used["headless"]
  BY SpendType, EventParts DEF Compress
<1> QED BY <1>2, <1>3, <1>5, <1>6, <1>7 DEF CodexRewrites, Compress, codexState, ghosts

\* An upgrade rewrites the records, not what they are.
LEMMA UpgradeRewrites ==
  ASSUME TypeOK, NEW m \in Machines, Upgrade(m)
  PROVE  CodexRewrites(m)
<1>1. PICK p \in Opened(m) : files' = [files EXCEPT ![m][p].format = 1]
  BY DEF Upgrade
<1> DEFINE h == [files[m][p] EXCEPT !.format = 1]
<1>2. /\ p \in Present(m) /\ p \in Paths /\ files[m][p] \in History
      /\ m \in Sides /\ files[m] \in [Paths -> Stored]
  BY OpenedParts, SideParts DEF TypeOK
<1>3. h \in History /\ h.recs = files[m][p].recs /\ h.read = files[m][p].read
  BY <1>2 DEF History
<1>4. files' = [files EXCEPT ![m] = [files[m] EXCEPT ![p] = h]]
  BY <1>1, <1>2 DEF TypeOK
<1> HIDE DEF h
<1>5. files' = [files EXCEPT ![m] = [@ EXCEPT ![p] = Absent, ![p] = h]]
  <2>1. [files[m] EXCEPT ![p] = h] = [[files[m] EXCEPT ![p] = Absent] EXCEPT ![p] = h]
    BY <1>2
  <2>2. [files EXCEPT ![m] = [files[m] EXCEPT ![p] = h]]
          = [files EXCEPT ![m] = [[files[m] EXCEPT ![p] = Absent] EXCEPT ![p] = h]]
    BY <2>1
  <2> QED BY <1>2, <1>4, <2>2 DEF TypeOK
<1>6. written' = written /\ codex[m]
  BY DEF Upgrade, ghosts
<1>7. Rewrites(m, p, p, h) /\ files' \in [Sides -> [Paths -> Stored]]
  BY <1>2, <1>3, <1>5, <1>6, MovedRewrites
<1>8. used' \in [Events -> Nat] /\ used'["headless"] = used["headless"]
  BY SpendType, EventParts DEF Upgrade
<1> QED BY <1>2, <1>3, <1>6, <1>7, <1>8 DEF CodexRewrites, Upgrade, codexState, ghosts

-----------------------------------------------------------------------------
(***************************************************************************)
(* What holds whatever happens: types, where the files come from, and what *)
(* can be read of them.                                                    *)
(***************************************************************************)
StagedWritten ==
    \A m \in Machines : run[m] # None /\ run[m].phase \in {"prepared", "committing"} =>
       /\ run[m].staged \in History /\ run[m].staged.read = "whole"
       /\ run[m].staged.recs \in written
LocalWhole == \A m \in Machines : \A p \in Present(m) : files[m][p].read = "whole"
HeadlessSeen == used["headless"] = 0 =>
                   \A p \in Present(Mirror) : files[Mirror][p].read # "headless"
RunFormed == \A m \in Machines : run[m] # None =>
    /\ ItemFormed(run[m].item)
    /\ run[m].phase = "replaced" => run[m].item.old # None
Base == /\ TypeOK /\ FilesWritten /\ StagedWritten /\ LocalWhole /\ HeadlessSeen
        /\ RunFormed

\* An apply in progress.
LEMMA RunParts ==
  ASSUME TypeOK, NEW m \in Machines, run[m] # None
  PROVE  /\ run[m] \in ApplyRun /\ run[m].phase \in Phases /\ run[m].item \in PlanItem
         /\ run[m].staged \in Stored
  BY DEF TypeOK, ApplyRun

\* The side an apply writes.
LEMMA ApplySides ==
  ASSUME NEW m \in Machines
  PROVE  /\ Dest(m) = DestOf(m, run[m].item) /\ Origin(m) = OriginOf(m, run[m].item)
         /\ Dest(m) \in Sides /\ Origin(m) \in Sides
  BY SideParts DEF Dest, Origin, DestOf, OriginOf

\* The start is typed, and every file is whole.
LEMMA InitBase == Init => Base
<1> SUFFICES ASSUME Init PROVE Base
  OBVIOUS
<1>1. PICK s \in Starts : files = s.files /\ row = s.row /\ entry = s.entry
  BY DEF Init
<1>2. /\ s.files \in [Sides -> [Paths -> Stored]]
      /\ s.row \in [Machines -> Places \union {"unlisted"}]
      /\ s.entry \in [Machines -> Places \union {None}]
  BY TransferAssumption DEF TransferAssumption
<1>3. \A d \in Sides : OnceAndWhole(files[d])
  BY <1>1, TransferAssumption DEF TransferAssumption
<1>4. \A d \in Sides : \A p \in Present(d) : /\ files[d][p] \in History
                                             /\ files[d][p].read = "whole"
  BY <1>1, <1>2, <1>3 DEF Present, Stored, OnceAndWhole
<1>5. written = UNION {{files[d][p].recs : p \in Present(d)} : d \in Sides}
  BY DEF Init
<1>6. FilesWritten
  BY <1>5 DEF FilesWritten
<1>7. written \subseteq SUBSET (1 .. MaxRecords)
  BY <1>4, <1>5 DEF History
<1>8. TypeOK
  BY <1>1, <1>2, <1>7 DEF Init, TypeOK
<1>9. LocalWhole /\ HeadlessSeen
  BY <1>4, SideParts DEF LocalWhole, HeadlessSeen
<1>10. StagedWritten /\ RunFormed
  BY DEF Init, StagedWritten, RunFormed
<1> QED BY <1>6, <1>8, <1>9, <1>10 DEF Base

\* A step that touches neither files nor applies.
LEMMA QuietBase ==
  ASSUME Base, UNCHANGED <<files, run, written>>, used' \in [Events -> Nat],
         used'["headless"] = used["headless"], TypeOK'
  PROVE  Base'
<1>1. FilesWritten' /\ LocalWhole'
  BY DEF Base, FilesWritten, LocalWhole, Present
<1>2. StagedWritten' /\ RunFormed'
  BY DEF Base, StagedWritten, RunFormed, ItemFormed
<1>3. HeadlessSeen'
  BY DEF Base, HeadlessSeen, Present
<1> QED BY <1>1, <1>2, <1>3 DEF Base

\* The plans and decisions of a machine are typed.
LEMMA PlansType ==
  ASSUME Base, NEW m \in Machines, Plans(m)
  PROVE  TypeOK' /\ used' \in [Events -> Nat] /\ used'["headless"] = used["headless"]
<1>0. TypeOK
  BY DEF Base
<1>1. CASE Scan(m)
  <2>1. Decide(m, setting[m]) \in PlanItem
    BY <1>0, DecideSound DEF Sound
  <2>2. UNCHANGED <<setting, codexState, files, entry, kept, resolution, run, pending, ghosts, used>>
    BY <1>1 DEF Scan
  <2>3. plan' \in [Machines -> PlanItem \union {None}]
    BY <1>0, <1>1, <2>1 DEF Scan, TypeOK
  <2> QED BY <1>0, <2>2, <2>3 DEF TypeOK, codexState, ghosts
<1>2. ASSUME NEW c \in Choices, plan[m] # None, Spend("resolve"),
             resolution' = [resolution EXCEPT ![m] =
                [local |-> plan[m].local, remote |-> plan[m].remote, choice |-> c]],
             UNCHANGED <<setting, codexState, files, entry, kept, plan, run, pending, ghosts>>
      PROVE  TypeOK' /\ used' \in [Events -> Nat] /\ used'["headless"] = used["headless"]
  <2>1. plan[m] \in PlanItem
    BY <1>0, <1>2 DEF TypeOK
  <2>2. [local |-> plan[m].local, remote |-> plan[m].remote, choice |-> c] \in Decision
    BY <2>1 DEF PlanItem, Decision
  <2>3. resolution' \in [Machines -> Decision \union {None}]
    BY <1>0, <1>2, <2>2 DEF TypeOK
  <2>4. used' \in [Events -> Nat] /\ used'["headless"] = used["headless"]
    BY <1>0, <1>2, SpendType, EventParts
  <2> QED BY <1>0, <1>2, <2>3, <2>4 DEF TypeOK, codexState, ghosts
<1>3. CASE \E c \in Choices : Resolve(m, c)
  BY <1>2, <1>3 DEF Resolve
<1>4. CASE ResolveMigration(m)
  <2>1. NewerFormat(plan[m].local, plan[m].remote) \in Choices
    BY DEF NewerFormat, Choices
  <2> QED BY <1>2, <1>4, <2>1 DEF ResolveMigration
<1> QED BY <1>1, <1>3, <1>4 DEF Plans

\* What leaves files and applies alone: plans, decisions, records of agreement,
\* the catalogue, opening and closing Codex.
Quiet(m) == \/ Plans(m) \/ RecordOnly(m) \/ Resume(m) \/ FollowArchive(m)
            \/ OpenCodex(m) \/ CloseCodex(m) \/ Project(m) \/ List(m)

\* Those steps keep the types, the files, the applies and the bundles.
LEMMA QuietType ==
  ASSUME Base, NEW m \in Machines, Quiet(m)
  PROVE  /\ TypeOK' /\ used' \in [Events -> Nat] /\ used'["headless"] = used["headless"]
         /\ UNCHANGED <<files, run, written, kept>>
<1>0. TypeOK /\ \A n \in Machines : n \in Machines
  BY DEF Base
<1>1. CASE Plans(m)
  BY <1>1, PlansType DEF Plans, Scan, Resolve, ResolveMigration, ghosts
<1>2. CASE RecordOnly(m)
  <2>1. plan[m] \in PlanItem
    BY <1>0, <1>2 DEF RecordOnly, Fresh, TypeOK
  <2>2. entry' \in [Machines -> Places \union {None}]
    BY <1>0, <1>2, <2>1 DEF RecordOnly, TypeOK, PlanItem
  <2>3. plan' \in [Machines -> PlanItem \union {None}]
    BY <1>0, <1>2 DEF RecordOnly, TypeOK
  <2>4. overlap' \in BOOLEAN
    BY <1>0, <1>2 DEF RecordOnly
  <2> QED BY <1>0, <1>2, <2>2, <2>3, <2>4 DEF RecordOnly, TypeOK, codexState
<1>3. CASE Resume(m)
  BY <1>0, <1>3 DEF Resume, TypeOK, codexState, decisions, ghosts
<1>4. CASE FollowArchive(m)
  <2>1. row' \in [Machines -> Places \union {"unlisted"}]
    BY <1>0, <1>4 DEF FollowArchive, TypeOK, Places
  <2> QED BY <1>0, <1>4, <2>1 DEF FollowArchive, TypeOK, decisions, ghosts
<1>5. CASE OpenCodex(m)
  <2>1. interrupted' \in BOOLEAN
    BY <1>0, <1>5 DEF OpenCodex
  <2>2. codex' \in [Machines -> BOOLEAN]
    BY <1>0, <1>5 DEF OpenCodex, TypeOK
  <2> QED BY <1>0, <1>5, <2>1, <2>2 DEF OpenCodex, TypeOK, decisions
<1>6. CASE CloseCodex(m)
  BY <1>0, <1>6 DEF CloseCodex, TypeOK, decisions, ghosts
<1>7. CASE Project(m)
  <2>1. used' \in [Events -> Nat] /\ used'["headless"] = used["headless"]
    BY <1>0, <1>7, SpendType, EventParts DEF Project
  <2> QED BY <1>0, <1>7, <2>1 DEF Project, TypeOK, decisions, ghosts
<1>8. CASE List(m)
  <2>1. PICK p \in Present(m) : row' = [row EXCEPT ![m] = p.place]
    BY <1>8 DEF List
  <2>2. p \in Paths /\ p.place \in Places
    BY <1>0, <2>1, CopyParts, SideParts, PathParts
  <2>3. row' \in [Machines -> Places \union {"unlisted"}]
    BY <1>0, <2>1, <2>2 DEF TypeOK
  <2> QED BY <1>0, <1>8, <2>3 DEF List, TypeOK, decisions, ghosts
<1> QED BY <1>1, <1>2, <1>3, <1>4, <1>5, <1>6, <1>7, <1>8 DEF Quiet

\* The steps of an apply that write no file.
Advances(m) == Rebuild(m) \/ Prepare(m) \/ Commit(m) \/ Verify(m)
Ends(m) == Record(m) \/ Refuse(m) \/ Fail(m) \/ Crash(m)

\* Only stored branches are bundled.
LEMMA BundledType == ASSUME NEW i, ItemFormed(i) PROVE Bundled(i) \subseteq History
  BY DEF ItemFormed, Bundled

\* The apply of a confirmed plan that is still what would be planned.
LEMMA RebuildParts ==
  ASSUME Base, NEW m \in Machines, Rebuild(m)
  PROVE  /\ Sound(m, plan[m]) /\ plan[m] \in PlanItem /\ plan[m].action = "write"
         /\ WellFormed(m, plan[m]) /\ ItemFormed(plan[m])
         /\ run[m] = None /\ ~codex[m]
         /\ run' \in [Machines -> ApplyRun \union {None}]
         /\ run'[m] = [phase |-> "rebuilt", item |-> plan[m], staged |-> Absent]
         /\ run'[m] # None
         /\ \A n \in Machines \ {m} : run'[n] = run[n]
         /\ kept' = kept \union Bundled(plan[m])
         /\ UNCHANGED <<setting, codexState, files, entry, pending, written, seen, interrupted, used>>
<1>1. TypeOK /\ plan[m] = Decide(m, setting[m]) /\ plan[m].action = "write"
  BY DEF Base, Rebuild, Fresh
<1>2. Sound(m, plan[m])
  BY <1>1, DecideSound
<1>3. plan[m] \in PlanItem /\ WellFormed(m, plan[m])
  BY <1>1, <1>2 DEF Sound
<1>4. [phase |-> "rebuilt", item |-> plan[m], staged |-> Absent] \in ApplyRun
  BY <1>3 DEF ApplyRun, Phases, Stored
<1>5. run' = [run EXCEPT ![m] = [phase |-> "rebuilt", item |-> plan[m], staged |-> Absent]]
  BY DEF Rebuild
<1>6. run' \in [Machines -> ApplyRun \union {None}]
  BY <1>1, <1>4, <1>5 DEF TypeOK
<1>7. run'[m] = [phase |-> "rebuilt", item |-> plan[m], staged |-> Absent]
      /\ \A n \in Machines \ {m} : run'[n] = run[n]
  BY <1>1, <1>5 DEF TypeOK
<1>8. run'[m] # None
  BY <1>4, <1>7, TransferAssumption DEF TransferAssumption
<1> QED BY <1>1, <1>2, <1>3, <1>6, <1>7, <1>8 DEF Rebuild, WellFormed

\* A phase follows another.
LEMMA PhaseParts ==
  ASSUME Base, NEW m \in Machines, run[m] # None, NEW phase \in Phases, To(m, phase)
  PROVE  /\ run' \in [Machines -> ApplyRun \union {None}] /\ run'[m] # None
         /\ run'[m].phase = phase /\ run'[m].item = run[m].item /\ run'[m].staged = run[m].staged
         /\ \A n \in Machines \ {m} : run'[n] = run[n]
<1>1. run[m] \in ApplyRun /\ run \in [Machines -> ApplyRun \union {None}]
  BY RunParts DEF Base, TypeOK
<1>2. run' = [run EXCEPT ![m] = [run[m] EXCEPT !.phase = phase]]
  BY <1>1 DEF To
<1>3. /\ [run[m] EXCEPT !.phase = phase] \in ApplyRun
      /\ [run[m] EXCEPT !.phase = phase].phase = phase
      /\ [run[m] EXCEPT !.phase = phase].item = run[m].item
      /\ [run[m] EXCEPT !.phase = phase].staged = run[m].staged
  BY <1>1 DEF ApplyRun
<1>4. /\ run' \in [Machines -> ApplyRun \union {None}]
      /\ run'[m] = [run[m] EXCEPT !.phase = phase]
      /\ \A n \in Machines \ {m} : run'[n] = run[n]
  BY <1>1, <1>2, <1>3
<1>5. run'[m] # None
  BY <1>3, <1>4, TransferAssumption DEF TransferAssumption
<1> QED BY <1>3, <1>4, <1>5

\* The source is staged.
LEMMA PrepareParts ==
  ASSUME Base, NEW m \in Machines, Prepare(m)
  PROVE  /\ run[m] # None /\ run[m].phase = "rebuilt" /\ CanPrepare(m)
         /\ run' \in [Machines -> ApplyRun \union {None}] /\ run'[m] # None
         /\ run'[m].phase = "prepared" /\ run'[m].item = run[m].item
         /\ run'[m].staged = files[Origin(m)][run[m].item.from]
         /\ run'[m].staged \in History /\ run'[m].staged.read = "whole"
         /\ run[m].item.from \in Present(Origin(m))
         /\ run'[m].staged.recs \in written
         /\ \A n \in Machines \ {m} : run'[n] = run[n]
         /\ UNCHANGED <<setting, codexState, files, entry, kept, decisions, pending, ghosts, used>>
<1>1. run[m] # None /\ run[m].phase = "rebuilt"
  BY DEF Prepare, Phase
<1>2. run[m] \in ApplyRun /\ run \in [Machines -> ApplyRun \union {None}] /\ TypeOK
  BY <1>1, RunParts DEF Base, TypeOK
<1> DEFINE h == files[Origin(m)][run[m].item.from]
<1>3. run[m].item.from \in Present(Origin(m)) /\ h.read = "whole"
  BY DEF Prepare, CanPrepare
<1>4. h \in History /\ h.recs \in written
  BY <1>2, <1>3, ApplySides, CopyParts DEF Base, FilesWritten
<1>5. run' = [run EXCEPT ![m] = [run[m] EXCEPT !.phase = "prepared", !.staged = h]]
  BY <1>2 DEF Prepare
<1> HIDE DEF h
<1>6. /\ [run[m] EXCEPT !.phase = "prepared", !.staged = h] \in ApplyRun
      /\ [run[m] EXCEPT !.phase = "prepared", !.staged = h].phase = "prepared"
      /\ [run[m] EXCEPT !.phase = "prepared", !.staged = h].item = run[m].item
      /\ [run[m] EXCEPT !.phase = "prepared", !.staged = h].staged = h
  BY <1>2, <1>4 DEF ApplyRun, Phases, Stored
<1>7. /\ run' \in [Machines -> ApplyRun \union {None}]
      /\ run'[m] = [run[m] EXCEPT !.phase = "prepared", !.staged = h]
      /\ \A n \in Machines \ {m} : run'[n] = run[n]
  BY <1>2, <1>5, <1>6
<1>8. run'[m] # None
  BY <1>6, <1>7, TransferAssumption DEF TransferAssumption
<1> QED BY <1>1, <1>3, <1>4, <1>6, <1>7, <1>8 DEF Prepare, h

\* An apply ends, recorded or not.
LEMMA EndsParts ==
  ASSUME Base, NEW m \in Machines, Ends(m)
  PROVE  /\ run[m] # None /\ run' \in [Machines -> ApplyRun \union {None}] /\ run'[m] = None
         /\ \A n \in Machines \ {m} : run'[n] = run[n]
         /\ used' \in [Events -> Nat] /\ used'["headless"] = used["headless"]
         /\ UNCHANGED <<setting, codexState, files, row, kept, decisions, written, seen, overlap>>
         /\ \/ /\ run[m].phase = "committed" /\ interrupted' = interrupted
               /\ entry' = [entry EXCEPT ![m] = run[m].item.place] /\ pending' = pending
            \/ /\ entry' = entry /\ pending' \subseteq Machines
               /\ interrupted' = (interrupted \/ run[m].phase \in MayCommit \union {"committed"})
<1>1. run[m] # None
  BY DEF Ends, Record, Refuse, Fail, Crash, Phase
<1>2. run' = [run EXCEPT ![m] = None]
  BY DEF Ends, Record, Refuse, Fail, Crash, Leave
<1>3. TypeOK
  BY DEF Base
<1>4. used' \in [Events -> Nat] /\ used'["headless"] = used["headless"]
  <2>1. CASE Record(m) \/ Refuse(m)
    BY <1>3, <2>1 DEF Record, Refuse, TypeOK
  <2>2. CASE Fail(m)
    BY <1>3, <2>2, SpendType, EventParts DEF Fail
  <2>3. CASE Crash(m)
    BY <1>3, <2>3, SpendType, EventParts DEF Crash
  <2> QED BY <2>1, <2>2, <2>3 DEF Ends
<1>5. /\ run' \in [Machines -> ApplyRun \union {None}] /\ run'[m] = None
      /\ \A n \in Machines \ {m} : run'[n] = run[n]
  BY <1>2, <1>3 DEF TypeOK
<1>6. UNCHANGED <<setting, codexState, files, row, kept, decisions, written, seen, overlap>>
  BY DEF Ends, Record, Refuse, Fail, Crash, Leave, codexState, ghosts
<1>7. \/ /\ run[m].phase = "committed" /\ interrupted' = interrupted
         /\ entry' = [entry EXCEPT ![m] = run[m].item.place] /\ pending' = pending
      \/ /\ entry' = entry /\ pending' \subseteq Machines
         /\ interrupted' = (interrupted \/ run[m].phase \in MayCommit \union {"committed"})
  <2>1. CASE Record(m)
    BY <1>1, <2>1 DEF Record, Phase, ghosts
  <2>2. CASE Leave(m)
    BY <1>1, <1>3, <2>2 DEF Leave, Phase, TypeOK
  <2> QED BY <2>1, <2>2 DEF Ends, Refuse, Fail, Crash
<1> QED BY <1>1, <1>4, <1>5, <1>6, <1>7

\* One file of a side is written or removed.
LEMMA FileWritten ==
  ASSUME TypeOK, NEW s \in Sides, NEW p \in Paths, NEW h \in Stored,
         files' = [files EXCEPT ![s][p] = h]
  PROVE  /\ files' \in [Sides -> [Paths -> Stored]]
         /\ files'[s][p] = h /\ \A q \in Paths \ {p} : files'[s][q] = files[s][q]
         /\ \A t \in Sides \ {s} : files'[t] = files[t]
  BY DEF TypeOK

\* The staged file is put in place.
LEMMA ReplaceParts ==
  ASSUME Base, NEW m \in Machines, Replace(m)
  PROVE  /\ run[m] # None /\ run[m].phase = "committing" /\ ~codex[m]
         /\ ItemFormed(run[m].item)
         /\ run[m].staged \in History /\ run[m].staged.read = "whole"
         /\ run[m].staged.recs \in written
         /\ files' \in [Sides -> [Paths -> Stored]]
         /\ files'[Dest(m)][run[m].item.to] = run[m].staged
         /\ \A q \in Paths \ {run[m].item.to} : files'[Dest(m)][q] = files[Dest(m)][q]
         /\ \A t \in Sides \ {Dest(m)} : files'[t] = files[t]
         /\ run' \in [Machines -> ApplyRun \union {None}] /\ run'[m] # None
         /\ run'[m].phase = IF run[m].item.old = None THEN "removed" ELSE "replaced"
         /\ run'[m].item = run[m].item /\ run'[m].staged = run[m].staged
         /\ \A n \in Machines \ {m} : run'[n] = run[n]
         /\ UNCHANGED <<setting, codexState, entry, kept, decisions, pending, written, overlap, interrupted, used>>
<1>1. run[m] # None /\ run[m].phase = "committing" /\ ~codex[m]
  BY DEF Replace, Phase
<1>2. /\ TypeOK /\ ItemFormed(run[m].item)
      /\ run[m].staged \in History /\ run[m].staged.read = "whole" /\ run[m].staged.recs \in written
  BY <1>1 DEF Base, StagedWritten, RunFormed
<1>3. files' = [files EXCEPT ![Dest(m)][run[m].item.to] = run[m].staged]
  BY DEF Replace
<1>4. run[m].item.to \in Paths /\ run[m].staged \in Stored /\ Dest(m) \in Sides
  BY <1>2, ApplySides DEF ItemFormed, Stored
<1>5. /\ files' \in [Sides -> [Paths -> Stored]]
      /\ files'[Dest(m)][run[m].item.to] = run[m].staged
      /\ \A q \in Paths \ {run[m].item.to} : files'[Dest(m)][q] = files[Dest(m)][q]
      /\ \A t \in Sides \ {Dest(m)} : files'[t] = files[t]
  BY <1>2, <1>3, <1>4, FileWritten
<1> DEFINE phase == IF run[m].item.old = None THEN "removed" ELSE "replaced"
<1>6. phase \in Phases /\ To(m, phase)
  BY DEF Replace, Phases
<1> HIDE DEF phase
<1>7. /\ run' \in [Machines -> ApplyRun \union {None}] /\ run'[m] # None
      /\ run'[m].phase = phase /\ run'[m].item = run[m].item /\ run'[m].staged = run[m].staged
      /\ \A n \in Machines \ {m} : run'[n] = run[n]
  BY <1>1, <1>6, PhaseParts
<1> QED BY <1>1, <1>2, <1>5, <1>7 DEF Replace, phase

\* A move ends with a removal.
LEMMA RemoveParts ==
  ASSUME Base, NEW m \in Machines, Remove(m), run[m].item.old # None
  PROVE  /\ run[m] # None /\ run[m].phase = "replaced" /\ ~codex[m]
         /\ ItemFormed(run[m].item) /\ run[m].item.old \in Paths
         /\ files' \in [Sides -> [Paths -> Stored]]
         /\ files'[Dest(m)][run[m].item.old] = Absent
         /\ \A q \in Paths \ {run[m].item.old} : files'[Dest(m)][q] = files[Dest(m)][q]
         /\ \A t \in Sides \ {Dest(m)} : files'[t] = files[t]
         /\ run' \in [Machines -> ApplyRun \union {None}] /\ run'[m] # None
         /\ run'[m].phase = "removed"
         /\ run'[m].item = run[m].item /\ run'[m].staged = run[m].staged
         /\ \A n \in Machines \ {m} : run'[n] = run[n]
         /\ UNCHANGED <<setting, codexState, entry, kept, decisions, pending, ghosts, used>>
<1>1. run[m] # None /\ run[m].phase = "replaced" /\ ~codex[m]
  BY DEF Remove, Phase
<1>2. TypeOK /\ ItemFormed(run[m].item) /\ run[m].item \in PlanItem
  BY <1>1, RunParts DEF Base, RunFormed
<1>3. files' = [files EXCEPT ![Dest(m)][run[m].item.old] = Absent]
  BY DEF Remove
<1>4. run[m].item.old \in Paths /\ Absent \in Stored /\ Dest(m) \in Sides
  BY <1>2, ApplySides DEF PlanItem, PathOrNone, Stored
<1>5. /\ files' \in [Sides -> [Paths -> Stored]]
      /\ files'[Dest(m)][run[m].item.old] = Absent
      /\ \A q \in Paths \ {run[m].item.old} : files'[Dest(m)][q] = files[Dest(m)][q]
      /\ \A t \in Sides \ {Dest(m)} : files'[t] = files[t]
  BY <1>2, <1>3, <1>4, FileWritten
<1>6. "removed" \in Phases /\ To(m, "removed")
  BY DEF Remove, Phases
<1>7. /\ run' \in [Machines -> ApplyRun \union {None}] /\ run'[m] # None
      /\ run'[m].phase = "removed" /\ run'[m].item = run[m].item /\ run'[m].staged = run[m].staged
      /\ \A n \in Machines \ {m} : run'[n] = run[n]
  BY <1>1, <1>6, PhaseParts
<1> QED BY <1>1, <1>2, <1>4, <1>5, <1>7 DEF Remove

\* The cloud client.
LEMMA ClientTouches ==
  ASSUME Base, NEW p \in Paths, Client(p)
  PROVE  /\ \E how \in {"whole", "torn", "headless"} : Touches(p, how)
         /\ p \in Paths /\ files' \in [Sides -> [Paths -> Stored]]
         /\ files'[Mirror][p] \in History /\ files'[Mirror][p].recs = files[Mirror][p].recs
         /\ files'[Mirror][p].format = files[Mirror][p].format
         /\ \A q \in Paths \ {p} : files'[Mirror][q] = files[Mirror][q]
         /\ \A s \in Machines : files'[s] = files[s]
         /\ p \in Present(Mirror) /\ files'[Mirror][p] # Absent
         /\ used' \in [Events -> Nat] /\ (used'["headless"] = 0 => used["headless"] = 0)
         /\ used'["headless"] = 0 => files'[Mirror][p].read # "headless"
         /\ UNCHANGED <<setting, codexState, entry, kept, decisions, run, pending, ghosts>>
<1>0. TypeOK
  BY DEF Base
<1>1. \E how \in {"whole", "torn", "headless"} :
         Touches(p, how) /\ (how = "headless" => Spend("headless"))
         /\ (how # "headless" => used' \in [Events -> Nat] /\ used'["headless"] = used["headless"])
  <2>1. CASE Deliver(p)
    BY <1>0, <2>1 DEF Deliver, Touches, TypeOK
  <2>2. CASE Tear(p)
    <3>1. PICK how \in {"torn", "headless"} : Spend(how) /\ files' = [files EXCEPT ![Mirror][p].read = how]
      BY <2>2 DEF Tear
    <3>2. Touches(p, how)
      BY <2>2, <3>1 DEF Tear, Touches
    <3>3. how = "torn" => used' \in [Events -> Nat] /\ used'["headless"] = used["headless"]
      BY <1>0, <3>1, SpendType, EventParts
    <3> QED BY <3>1, <3>2, <3>3
  <2> QED BY <2>1, <2>2 DEF Client
<1>2. PICK how \in {"whole", "torn", "headless"} :
         Touches(p, how) /\ (how = "headless" => Spend("headless"))
         /\ (how # "headless" => used' \in [Events -> Nat] /\ used'["headless"] = used["headless"])
  BY <1>1
<1>3. p \in Present(Mirror) /\ files[Mirror][p] \in History /\ Mirror \in Sides
  BY <1>0, <1>2, CopyParts, SideParts DEF Touches
<1> DEFINE h == [files[Mirror][p] EXCEPT !.read = how]
<1>4. h \in History /\ h.recs = files[Mirror][p].recs /\ h.format = files[Mirror][p].format /\ h.read = how
  BY <1>3 DEF History
<1>5. files' = [files EXCEPT ![Mirror][p] = h]
  BY <1>0, <1>2, <1>3 DEF Touches, TypeOK
<1> HIDE DEF h
<1>6. h \in Stored /\ h # Absent
  BY <1>4, TransferAssumption DEF Stored, TransferAssumption
<1>7. /\ files' \in [Sides -> [Paths -> Stored]] /\ files'[Mirror][p] = h
      /\ \A q \in Paths \ {p} : files'[Mirror][q] = files[Mirror][q]
      /\ \A t \in Sides \ {Mirror} : files'[t] = files[t]
  BY <1>0, <1>3, <1>5, <1>6, FileWritten
<1>8. /\ used' \in [Events -> Nat] /\ (used'["headless"] = 0 => used["headless"] = 0)
      /\ (used'["headless"] = 0 => h.read # "headless")
  <2>1. CASE how = "headless"
    <3>1. used' \in [Events -> Nat] /\ used'["headless"] = used["headless"] + 1 /\ used["headless"] \in Nat
      BY <1>0, <1>2, <2>1, SpendType, EventParts DEF TypeOK
    <3> QED BY <3>1
  <2>2. CASE how # "headless"
    BY <1>2, <1>4, <2>2
  <2> QED BY <2>1, <2>2
<1>9. UNCHANGED <<setting, codexState, entry, kept, decisions, run, pending, ghosts>>
  BY DEF Client, Tear, Deliver
<1> QED BY <1>2, <1>3, <1>4, <1>6, <1>7, <1>8, <1>9, SideParts

-----------------------------------------------------------------------------
(***************************************************************************)
(* Types, for every step.                                                  *)
(***************************************************************************)
\* Steps that touch neither files nor applies.
LEMMA QuietKeeps == ASSUME Base, NEW m \in Machines, Quiet(m) PROVE Base'
  BY QuietType, QuietBase

\* An apply goes on without writing a file.
LEMMA AdvancesKeeps == ASSUME Base, NEW m \in Machines, Advances(m) PROVE Base'
<1> DEFINE Goes == /\ run' \in [Machines -> ApplyRun \union {None}] /\ ItemFormed(run'[m].item)
                   /\ run'[m].phase # "replaced"
                   /\ run'[m].phase \in {"prepared", "committing"} =>
                        /\ run'[m].staged \in History /\ run'[m].staged.read = "whole"
                        /\ run'[m].staged.recs \in written
                   /\ \A n \in Machines \ {m} : run'[n] = run[n]
                   /\ kept' \subseteq History /\ overlap' \in BOOLEAN
                   /\ plan' \in [Machines -> PlanItem \union {None}]
                   /\ UNCHANGED <<setting, codexState, files, entry, resolution, pending, written,
                                  interrupted, used>>
<1>0. TypeOK /\ StagedWritten /\ RunFormed
  BY DEF Base
<1>1. ASSUME Goes PROVE Base'
  <2>1. TypeOK'
    BY <1>0, <1>1 DEF TypeOK, codexState
  <2>2. FilesWritten' /\ LocalWhole' /\ HeadlessSeen'
    BY <1>1 DEF Base, FilesWritten, LocalWhole, HeadlessSeen, Present
  <2>3. StagedWritten'
    BY <1>0, <1>1 DEF StagedWritten
  <2>4. RunFormed'
    BY <1>0, <1>1 DEF RunFormed, ItemFormed
  <2> QED BY <2>1, <2>2, <2>3, <2>4 DEF Base
<1>2. CASE Rebuild(m)
  <2>1. kept' \subseteq History
    <3>2. Bundled(plan[m]) \subseteq History
      BY <1>2, RebuildParts, BundledType
    <3> QED BY <1>0, <1>2, <3>2, RebuildParts DEF TypeOK
  <2>2. plan' \in [Machines -> PlanItem \union {None}] /\ overlap' \in BOOLEAN /\ resolution' = resolution
    BY <1>0, <1>2 DEF Rebuild, TypeOK
  <2>3. run'[m].item = plan[m] /\ run'[m].phase = "rebuilt"
    <3>1. run'[m] = [phase |-> "rebuilt", item |-> plan[m], staged |-> Absent]
      BY <1>2, RebuildParts
    <3> QED BY <3>1
  <2>4. ItemFormed(run'[m].item)
    <3>1. ItemFormed(plan[m])
      BY <1>2, RebuildParts
    <3> QED BY <2>3, <3>1 DEF ItemFormed
  <2>5. Goes
    BY <1>2, <2>1, <2>2, <2>3, <2>4, RebuildParts
  <2> QED BY <1>1, <2>5
<1>3. CASE Prepare(m)
  BY <1>0, <1>1, <1>3, PrepareParts DEF RunFormed, TypeOK, decisions, ghosts
<1>4. CASE Commit(m)
  <2>1. run[m] # None /\ run[m].phase = "prepared" /\ To(m, "committing") /\ "committing" \in Phases
    BY <1>4 DEF Commit, Phase, Phases
  <2> QED BY <1>0, <1>1, <1>4, <2>1, PhaseParts DEF RunFormed, StagedWritten, Commit, TypeOK, decisions, ghosts
<1>5. CASE Verify(m)
  <2>1. run[m] # None /\ To(m, "committed") /\ "committed" \in Phases
    BY <1>5 DEF Verify, Phase, Phases
  <2> QED BY <1>0, <1>1, <1>5, <2>1, PhaseParts DEF RunFormed, Verify, TypeOK, decisions, ghosts
<1> QED BY <1>2, <1>3, <1>4, <1>5 DEF Advances

\* An apply ends.
LEMMA EndsKeeps == ASSUME Base, NEW m \in Machines, Ends(m) PROVE Base'
<1>0. TypeOK /\ StagedWritten /\ RunFormed
  BY DEF Base
<1>1. entry' \in [Machines -> Places \union {None}]
  <2>1. CASE entry' = [entry EXCEPT ![m] = run[m].item.place]
    <3>1. run[m].item \in PlanItem
      BY <1>0, EndsParts, RunParts
    <3> QED BY <1>0, <2>1, <3>1 DEF TypeOK, PlanItem
  <2>2. CASE entry' = entry
    BY <1>0, <2>2 DEF TypeOK
  <2> QED BY <2>1, <2>2, EndsParts
<1>2. interrupted' \in BOOLEAN /\ pending' \subseteq Machines
  BY <1>0, EndsParts DEF TypeOK
<1>3. TypeOK'
  BY <1>0, <1>1, <1>2, EndsParts DEF TypeOK, codexState, decisions
<1>4. FilesWritten' /\ LocalWhole' /\ HeadlessSeen'
  BY EndsParts DEF Base, FilesWritten, LocalWhole, HeadlessSeen, Present
<1>5. StagedWritten'
  BY <1>0, EndsParts DEF StagedWritten
<1>6. RunFormed'
  BY <1>0, EndsParts DEF RunFormed, ItemFormed
<1> QED BY <1>3, <1>4, <1>5, <1>6 DEF Base

\* The staged file is a whole one Codex has had.
LEMMA ReplaceKeeps == ASSUME Base, NEW m \in Machines, Replace(m) PROVE Base'
<1>0. /\ TypeOK /\ StagedWritten /\ RunFormed /\ FilesWritten /\ LocalWhole /\ HeadlessSeen
      /\ Dest(m) \in Sides
  BY ApplySides DEF Base
<1> DEFINE to == run[m].item.to
<1>1. /\ \A s \in Sides : \A p \in Paths : (s = Dest(m) /\ p = to) \/ files'[s][p] = files[s][p]
      /\ files'[Dest(m)][to] = run[m].staged /\ run[m].staged.read = "whole"
      /\ run[m].staged.recs \in written /\ written' = written
  BY ReplaceParts
<1>2. TypeOK'
  BY <1>0, ReplaceParts DEF TypeOK, codexState, decisions
<1>3. FilesWritten'
  BY <1>0, <1>1 DEF FilesWritten, Present
<1>4. LocalWhole' /\ HeadlessSeen'
  <2>1. used' = used
    BY ReplaceParts
  <2> QED BY <1>0, <1>1, <2>1, SideParts DEF LocalWhole, HeadlessSeen, Present
<1>5. StagedWritten'
  BY <1>0, ReplaceParts DEF StagedWritten
<1>6. RunFormed'
  BY <1>0, ReplaceParts DEF RunFormed, ItemFormed
<1> QED BY <1>2, <1>3, <1>4, <1>5, <1>6 DEF Base

\* The old file is removed.
LEMMA RemoveKeeps == ASSUME Base, NEW m \in Machines, Remove(m) PROVE Base' /\ run[m].item.old # None
<1>0. /\ TypeOK /\ StagedWritten /\ RunFormed /\ FilesWritten /\ LocalWhole /\ HeadlessSeen
      /\ Dest(m) \in Sides
  BY ApplySides DEF Base
<1>1. run[m].item.old # None
  BY <1>0 DEF RunFormed, Remove, Phase
<1> DEFINE old == run[m].item.old
<1>2. /\ \A s \in Sides : \A p \in Paths : (s = Dest(m) /\ p = old) \/ files'[s][p] = files[s][p]
      /\ files'[Dest(m)][old] = Absent /\ written' = written /\ used' = used
  BY <1>1, RemoveParts DEF ghosts
<1>3. TypeOK'
  BY <1>0, <1>1, RemoveParts DEF TypeOK, codexState, decisions, ghosts
<1>4. FilesWritten'
  BY <1>0, <1>2 DEF FilesWritten, Present
<1>5. LocalWhole' /\ HeadlessSeen'
  BY <1>0, <1>2, SideParts DEF LocalWhole, HeadlessSeen, Present
<1>6. StagedWritten'
  BY <1>0, <1>1, <1>2, RemoveParts DEF StagedWritten
<1>7. RunFormed'
  BY <1>0, <1>1, RemoveParts DEF RunFormed, ItemFormed
<1> QED BY <1>1, <1>3, <1>4, <1>5, <1>6, <1>7 DEF Base

\* Codex rewrites a file with what it had and one record more at most.
LEMMA CodexKeeps ==
  ASSUME Base, NEW m \in Machines, CodexRewrites(m), row' \in [Machines -> Places \union {"unlisted"}]
  PROVE  Base'
<1>0. /\ TypeOK /\ StagedWritten /\ RunFormed /\ FilesWritten /\ LocalWhole /\ HeadlessSeen
      /\ m \in Sides /\ m # Mirror
  BY SideParts DEF Base
<1>1. PICK p \in Paths, q \in Paths, h \in History : Rewrites(m, p, q, h)
  BY DEF CodexRewrites
<1>2. /\ \A s \in Sides \ {m} : files'[s] = files[s]
      /\ \A r \in Paths : files'[m][r] = IF r = q THEN h ELSE IF r = p THEN Absent ELSE files[m][r]
      /\ h.read = files[m][p].read /\ p \in Present(m)
      /\ \/ written' = written /\ h.recs = files[m][p].recs
         \/ written' = written \union {h.recs}
  BY <1>1 DEF Rewrites
<1>3. h.recs \in written' /\ written \subseteq written'
  BY <1>0, <1>2 DEF FilesWritten
<1>4. written' \subseteq SUBSET (1 .. MaxRecords)
  BY <1>0, <1>2 DEF TypeOK, History
<1>5. TypeOK'
  BY <1>0, <1>4 DEF CodexRewrites, TypeOK, decisions
<1>6. FilesWritten'
  BY <1>0, <1>2, <1>3 DEF FilesWritten, Present
<1>7. LocalWhole' /\ HeadlessSeen'
  <2>1. used'["headless"] = used["headless"]
    BY DEF CodexRewrites
  <2>2. h.read = "whole"
    BY <1>0, <1>2 DEF LocalWhole
  <2> QED BY <1>0, <1>2, <2>1, <2>2, SideParts DEF LocalWhole, HeadlessSeen, Present
<1>8. StagedWritten' /\ RunFormed'
  BY <1>0, <1>3 DEF CodexRewrites, StagedWritten, RunFormed, ItemFormed
<1> QED BY <1>5, <1>6, <1>7, <1>8 DEF Base

\* The cloud client.
LEMMA ClientKeeps == ASSUME Base, NEW p \in Paths, Client(p) PROVE Base'
<1>0. /\ TypeOK /\ StagedWritten /\ RunFormed /\ FilesWritten /\ LocalWhole /\ HeadlessSeen
      /\ Mirror \in Sides /\ \A m \in Machines : m \in Sides /\ m # Mirror
  BY SideParts DEF Base
<1>1. TypeOK'
  BY <1>0, ClientTouches DEF TypeOK, codexState, decisions, ghosts
<1>2. written' = written /\ run' = run
  BY ClientTouches DEF ghosts
<1>3. FilesWritten'
  <2> SUFFICES ASSUME NEW s \in Sides, NEW q \in Paths, files'[s][q] # Absent
               PROVE  files'[s][q].recs \in written
    BY <1>2 DEF FilesWritten, Present
  <2>1. CASE s = Mirror /\ q = p
    BY <1>0, <2>1, ClientTouches DEF FilesWritten
  <2>2. CASE ~(s = Mirror /\ q = p)
    <3>1. files'[s][q] = files[s][q]
      BY <2>2, ClientTouches DEF Sides
    <3> QED BY <1>0, <3>1 DEF FilesWritten, Present
  <2> QED BY <2>1, <2>2
<1>4. LocalWhole'
  BY <1>0, ClientTouches DEF LocalWhole, Present
<1>5. HeadlessSeen'
  <2> SUFFICES ASSUME used'["headless"] = 0, NEW q \in Paths, files'[Mirror][q] # Absent
               PROVE  files'[Mirror][q].read # "headless"
    BY DEF HeadlessSeen, Present
  <2>1. CASE q = p
    BY <2>1, ClientTouches
  <2>2. CASE q # p
    BY <1>0, <2>2, ClientTouches DEF HeadlessSeen, Present
  <2> QED BY <2>1, <2>2
<1>6. StagedWritten' /\ RunFormed'
  BY <1>0, <1>2 DEF StagedWritten, RunFormed, ItemFormed
<1> QED BY <1>1, <1>3, <1>4, <1>5, <1>6 DEF Base

\* A step of Codex on the chat's file.
CodexEdits(m) == Work(m) \/ Archive(m) \/ Upgrade(m) \/ Compress(m)
Rewriting(m) == /\ CodexRewrites(m) /\ row' \in [Machines -> Places \union {"unlisted"}]
                /\ CodexEdits(m)

\* The kinds of steps there are.
LEMMA NextKinds ==
  ASSUME Base, Next
  PROVE  \/ \E m \in Machines : \/ Quiet(m) \/ Advances(m) \/ Replace(m) \/ Remove(m)
                                \/ Ends(m) \/ Rewriting(m)
         \/ \E p \in Paths : Client(p)
<1>0. TypeOK /\ FilesWritten
  BY DEF Base
<1>1. ASSUME NEW m \in Machines, Work(m) \/ Archive(m) \/ Upgrade(m) \/ Compress(m)
      PROVE  Rewriting(m)
  <2>1. CodexRewrites(m)
    BY <1>0, <1>1, WorkRewrites, ArchiveRewrites, UpgradeRewrites, CompressRewrites
  <2>2. row' \in [Machines -> Places \union {"unlisted"}]
    BY <1>0, <1>1 DEF Work, Archive, Upgrade, Compress, codexState, TypeOK
  <2> QED BY <1>1, <2>1, <2>2 DEF Rewriting, CodexEdits
<1>2. ASSUME NEW m \in Machines,
             Plans(m) \/ Apply(m) \/ Exits(m) \/ FollowArchive(m) \/ Codex(m)
      PROVE  \/ Quiet(m) \/ Advances(m) \/ Replace(m) \/ Remove(m) \/ Ends(m) \/ Rewriting(m)
  BY <1>1, <1>2 DEF Apply, Exits, Codex, Quiet, Advances, Ends
<1> QED BY <1>2 DEF Next

\* Every step keeps it.
LEMMA BaseStep == ASSUME Base, [Next]_vars PROVE Base'
<1>1. CASE Next
  <2>1. ASSUME NEW m \in Machines, Rewriting(m) PROVE Base'
    BY <2>1, CodexKeeps DEF Rewriting
  <2> QED BY <1>1, <2>1, NextKinds, QuietKeeps, AdvancesKeeps, ReplaceKeeps, RemoveKeeps, EndsKeeps,
             ClientKeeps
<1>2. CASE UNCHANGED vars
  <2>1. TypeOK'
    BY <1>2 DEF Base, TypeOK, vars, codexState, decisions, ghosts
  <2>2. UNCHANGED <<files, run, written, used>>
    BY <1>2 DEF vars, ghosts
  <2>3. used' \in [Events -> Nat]
    BY <2>2 DEF Base, TypeOK
  <2> QED BY <2>1, <2>2, <2>3, QuietBase
<1> QED BY <1>1, <1>2

\* Types, for any machines, settings, starts and bounds: what a plan, a saved
\* decision, an apply and a file are, the staged file a whole one Codex has had.
THEOREM BaseCorrect == Spec => []Base
<1>1. Base /\ [Next]_vars => Base'
  BY BaseStep
<1> QED BY InitBase, <1>1, PTL DEF Spec

\* The type invariant of the module.
THEOREM TypeCorrect == Spec => []TypeOK
<1>1. Base => TypeOK
  BY DEF Base
<1> QED BY BaseCorrect, <1>1, PTL

-----------------------------------------------------------------------------
(***************************************************************************)
(* Where no two applies overlap, whatever was interrupted.  What an apply  *)
(* is about to overwrite or remove is continued by what it writes, or lies *)
(* in a bundle: nobody else writes between the plan and the last removal.  *)
(***************************************************************************)
InBundle(h) == \E k \in kept : Continues(h, k.recs)
Unfinished == {"rebuilt", "prepared", "committing", "replaced"}
Flying(m) == run[m] # None /\ ~codex[m] /\ run[m].phase \in Unfinished

\* The files it has still to overwrite or remove, and what they give way to.
Doomed(m) == Present(Dest(m)) \intersect
                 IF run[m].phase = "replaced" THEN {run[m].item.old}
                 ELSE {run[m].item.to, run[m].item.old}
Replacement(m) == CASE run[m].phase = "rebuilt" -> files[Origin(m)][run[m].item.from]
                    [] run[m].phase = "replaced" -> files[Dest(m)][run[m].item.to]
                    [] OTHER -> run[m].staged
SafeFlight(m) ==
    \A p \in Doomed(m) :
       IF run[m].item.by = "ancestry"
       THEN Replacement(m) # Absent /\ Prefix(files[Dest(m)][p], Replacement(m))
       ELSE InBundle(files[Dest(m)][p].recs) /\ (run[m].item.side = "local" => ~projected[m])

Alone == \A m, n \in Machines : m # n => run[m] = None \/ run[n] = None
Flights == \A m \in Machines : Flying(m) => SafeFlight(m)
Neighbours == \A m \in Machines :
    Flying(m) /\ run[m].phase # "replaced" => NoNeighbour(m, run[m].item)
\* A packed file beside an open one of its name holds nothing more.
Pairs == \A m \in Machines, place \in Places :
    At(place, "jsonl") \in Present(m) /\ At(place, "packed") \in Present(m) =>
       \/ Continues(files[m][At(place, "packed")].recs, files[m][At(place, "jsonl")].recs)
       \/ InBundle(files[m][At(place, "packed")].recs)
Surviving == \A h \in written : Survives(h)
InvAlone == ~overlap => Alone /\ Flights /\ Neighbours /\ Pairs /\ Surviving

\* A file as it is, or as it goes on: elsewhere, or in a bundle.
GoesOn(h) == \/ \E s \in Sides, p \in Paths : files[s][p] # Absent /\ Continues(h, files[s][p].recs)
             \/ InBundle(h)

\* Copies are files or in bundles.
LEMMA CopiedParts ==
  \A c : c \in Copied <=> \/ c \in kept
                          \/ \E s \in Sides, p \in Paths : files[s][p] # Absent /\ c = files[s][p]
<1> DEFINE All == {{files[s][p] : p \in Present(s)} : s \in Sides}
<1>0. ASSUME NEW c PROVE c \in UNION All <=> \E s \in Sides : \E p \in Present(s) : c = files[s][p]
  <2>1. ASSUME NEW s \in Sides, NEW p \in Present(s), c = files[s][p] PROVE c \in UNION All
    <3>1. {files[s][q] : q \in Present(s)} \in All
      BY Zenon
    <3>2. c \in {files[s][q] : q \in Present(s)}
      BY <2>1
    <3> HIDE DEF All
    <3> QED BY <3>1, <3>2
  <2>2. ASSUME c \in UNION All PROVE \E s \in Sides : \E p \in Present(s) : c = files[s][p]
    BY <2>2, Zenon
  <2> QED BY <2>1, <2>2
<1>1. \A c : c \in Copied <=> c \in kept \/ \E s \in Sides : \E p \in Present(s) : c = files[s][p]
  <2>1. Copied = (UNION All) \union kept
    BY Zenon DEF Copied
  <2> HIDE DEF All
  <2> QED BY <1>0, <2>1
<1> HIDE DEF All
<1>2. \A s : \A p : p \in Present(s) <=> p \in Paths /\ files[s][p] # Absent
  BY DEF Present
<1> QED BY <1>1, <1>2

\* A file holds exactly this.
Stands(g) == \E s \in Sides, p \in Paths : files[s][p] # Absent /\ g = files[s][p].recs

\* To survive is to go on.
LEMMA SurvivesGoesOn == \A h : Survives(h) <=> GoesOn(h)
<1>1. ASSUME NEW h, Survives(h) PROVE GoesOn(h)
  <2>1. PICK c \in Copied : Continues(h, c.recs)
    BY <1>1 DEF Survives
  <2>2. CASE c \in kept
    BY <2>1, <2>2 DEF GoesOn, InBundle
  <2>3. CASE c \notin kept
    BY <2>1, <2>3, CopiedParts DEF GoesOn
  <2> QED BY <2>2, <2>3
<1>2. ASSUME NEW h, GoesOn(h) PROVE Survives(h)
  <2>1. CASE InBundle(h)
    BY <2>1, CopiedParts DEF Survives, InBundle
  <2>2. CASE \E s \in Sides, p \in Paths : files[s][p] # Absent /\ Continues(h, files[s][p].recs)
    BY <2>2, CopiedParts DEF Survives
  <2> QED BY <1>2, <2>1, <2>2 DEF GoesOn
<1> QED BY <1>1, <1>2

\* And in the next state.
LEMMA SurvivesGoesOnNext == (\A h : Survives(h) <=> GoesOn(h))'
  BY SurvivesGoesOn, PTL

\* What was bundled stays bundled.
LEMMA BundleOn == ASSUME kept \subseteq kept', NEW h, InBundle(h) PROVE InBundle(h)'
  BY DEF InBundle

\* What a bundled history holds is bundled.
LEMMA BundleUnder == ASSUME NEW h, NEW g, Continues(h, g), InBundle(g) PROVE InBundle(h)
  BY ContinuesOn DEF InBundle

\* Nothing is lost by a step after which every file goes on.
LEMMA StepSurvives ==
  ASSUME Surviving, kept \subseteq kept',
         \A g : Stands(g) => GoesOn(g)',
         \A h \in written' : h \in written \/ GoesOn(h)'
  PROVE  Surviving'
<1> SUFFICES ASSUME NEW h \in written' PROVE Survives(h)'
  BY DEF Surviving
<1>1. GoesOn(h)' => Survives(h)'
  BY SurvivesGoesOnNext
<1>2. CASE h \in written
  <2>1. GoesOn(h)
    BY <1>2, SurvivesGoesOn DEF Surviving
  <2>2. CASE InBundle(h)
    BY <2>2, <1>1, BundleOn DEF GoesOn
  <2>3. CASE ~InBundle(h)
    <3>1. PICK s \in Sides, p \in Paths : files[s][p] # Absent /\ Continues(h, files[s][p].recs)
      BY <2>1, <2>3 DEF GoesOn
    <3>0. PICK g : g = files[s][p].recs
      OBVIOUS
    <3>2. \/ \E t \in Sides, q \in Paths : files'[t][q] # Absent /\ Continues(g, files'[t][q].recs)
          \/ \E k \in kept' : Continues(g, k.recs)
      <4>1. Stands(g)
        BY <3>0, <3>1 DEF Stands
      <4>2. GoesOn(g)'
        BY <4>1
      <4> QED BY <4>2 DEF GoesOn, InBundle
    <3>3. Continues(h, g)
      BY <3>0, <3>1
    <3>4. \/ \E t \in Sides, q \in Paths : files'[t][q] # Absent /\ Continues(h, files'[t][q].recs)
          \/ \E k \in kept' : Continues(h, k.recs)
      BY <3>2, <3>3, ContinuesOn
    <3> QED BY <3>4, <1>1 DEF GoesOn, InBundle
  <2> QED BY <2>2, <2>3
<1> QED BY <1>1, <1>2

\* What the steps outside an apply do to the flags around it.
LEMMA QuietParts ==
  ASSUME Base, NEW m \in Machines, Quiet(m)
  PROVE  /\ UNCHANGED <<files, run, written, kept>> /\ used'["headless"] = used["headless"]
         /\ (overlap => overlap') /\ (interrupted => interrupted')
         /\ \A n \in Machines : run[n] # None /\ ~codex'[n] =>
               ~codex[n] /\ projected'[n] = projected[n]
         /\ \A n \in Machines :
               run[n] # None /\ ~codex[n] /\ run[n].phase \in {"committing", "replaced"}
               /\ ~interrupted' => ~codex'[n]
         /\ \A n \in Machines : entry'[n] = entry[n] \/
               (run[n] = None /\ \A p \in Copies(Mirror) : p.place = entry'[n])
<1>0. /\ TypeOK /\ UNCHANGED <<files, run, written, kept>>
      /\ used'["headless"] = used["headless"]
  BY QuietType DEF Base
<1> DEFINE Aside == /\ overlap' = overlap /\ (interrupted => interrupted') /\ entry' = entry
                    /\ \A n \in Machines : run[n] # None /\ ~codex'[n] =>
                          ~codex[n] /\ projected'[n] = projected[n]
                    /\ \A n \in Machines :
                          run[n] # None /\ ~codex[n] /\ run[n].phase \in {"committing", "replaced"}
                          /\ ~interrupted' => ~codex'[n]
<1>1. ASSUME UNCHANGED <<codex, projected, overlap, interrupted, entry>> PROVE Aside
  BY <1>1
<1>2. ASSUME Plans(m) \/ Resume(m) \/ FollowArchive(m) \/ List(m) PROVE Aside
  BY <1>1, <1>2 DEF Plans, Scan, Resolve, ResolveMigration, Resume, FollowArchive, List,
     codexState, ghosts
<1>3. CASE RecordOnly(m)
  <2>1. /\ UNCHANGED <<codex, projected, interrupted>> /\ (overlap => overlap')
        /\ run[m] = None /\ entry' = [entry EXCEPT ![m] = plan[m].place]
        /\ plan[m] = Decide(m, setting[m]) /\ plan[m].action = "noop"
    BY <1>3 DEF RecordOnly, Fresh, codexState
  <2>2. \A p \in Copies(Mirror) : p.place = plan[m].place
    BY <1>0, <2>1, DecideSound DEF Sound
  <2>3. \A n \in Machines : entry'[n] = entry[n] \/
           (run[n] = None /\ \A p \in Copies(Mirror) : p.place = entry'[n])
    BY <1>0, <2>1, <2>2 DEF TypeOK
  <2> QED BY <1>0, <2>1, <2>3
<1>4. ASSUME OpenCodex(m) PROVE Aside
  <2>1. /\ codex' = [codex EXCEPT ![m] = TRUE] /\ UNCHANGED <<projected, entry, overlap>>
        /\ interrupted' = (interrupted \/ Phase(m) \in {"committing", "replaced"})
    BY <1>4 DEF OpenCodex
  <2> QED BY <1>0, <2>1 DEF Phase, TypeOK
<1>5. ASSUME CloseCodex(m) PROVE Aside
  <2>1. /\ codex' = [codex EXCEPT ![m] = FALSE] /\ UNCHANGED <<projected, entry, overlap, interrupted>>
        /\ run[m] = None
    BY <1>5 DEF CloseCodex, ghosts
  <2> QED BY <1>0, <2>1 DEF TypeOK
<1>6. ASSUME Project(m) PROVE Aside
  <2>1. /\ projected' = [projected EXCEPT ![m] = TRUE] /\ UNCHANGED <<codex, entry, overlap, interrupted>>
        /\ codex[m]
    BY <1>6 DEF Project, ghosts
  <2> QED BY <1>0, <2>1 DEF TypeOK
<1>7. ASSUME Aside
      PROVE
         /\ (overlap => overlap') /\ (interrupted => interrupted')
         /\ \A n \in Machines : run[n] # None /\ ~codex'[n] =>
               ~codex[n] /\ projected'[n] = projected[n]
         /\ \A n \in Machines :
               run[n] # None /\ ~codex[n] /\ run[n].phase \in {"committing", "replaced"}
               /\ ~interrupted' => ~codex'[n]
         /\ \A n \in Machines : entry'[n] = entry[n] \/
               (run[n] = None /\ \A p \in Copies(Mirror) : p.place = entry'[n])
  BY <1>7
<1> HIDE DEF Aside
<1>8. CASE ~RecordOnly(m)
  BY <1>0, <1>2, <1>4, <1>5, <1>6, <1>7, <1>8 DEF Quiet
<1> QED BY <1>3, <1>8

\* The other files of a side hold what they held.
Alike(s) == \A p \in Paths :
    /\ files'[s][p] = Absent <=> files[s][p] = Absent
    /\ files[s][p] # Absent => /\ files'[s][p].recs = files[s][p].recs
                               /\ files'[s][p].format = files[s][p].format

\* An apply whose two sides hold what they held is as safe as it was.
LEMMA FlightKept ==
  ASSUME Base, NEW n \in Machines, run[n] # None, run'[n] = run[n], Alike(Mirror), Alike(n),
         kept \subseteq kept', projected'[n] = projected[n], SafeFlight(n)
  PROVE  SafeFlight(n)'
<1>1. /\ run'[n] = run[n] /\ Dest(n)' = Dest(n) /\ Origin(n)' = Origin(n)
      /\ Dest(n) \in {n, Mirror} /\ Origin(n) \in {n, Mirror}
  BY DEF Dest, Origin
<1>2. ItemFormed(run[n].item)
  BY DEF Base, RunFormed
<1>3. Alike(Dest(n)) /\ Alike(Origin(n))
  BY <1>1
<1> DEFINE i == run[n].item
<1>4. i.from \in Paths /\ i.to \in Paths
  BY <1>2 DEF ItemFormed
<1> SUFFICES ASSUME NEW p \in Doomed(n)'
             PROVE  IF i.by = "ancestry"
                    THEN Replacement(n)' # Absent /\ Prefix(files'[Dest(n)][p], Replacement(n)')
                    ELSE (\E k \in kept' : Continues(files'[Dest(n)][p].recs, k.recs)) /\ (i.side = "local" => ~projected[n])
  BY <1>1 DEF SafeFlight, InBundle
<1>5. p \in Doomed(n) /\ p \in Paths /\ files[Dest(n)][p] # Absent
  BY <1>1, <1>3 DEF Doomed, Present, Alike
<1>6. /\ files'[Dest(n)][p].recs = files[Dest(n)][p].recs
      /\ files'[Dest(n)][p].format = files[Dest(n)][p].format
  BY <1>3, <1>5 DEF Alike
<1>7. CASE i.by = "ancestry"
  <2>1. Replacement(n) # Absent /\ Prefix(files[Dest(n)][p], Replacement(n))
    BY <1>5, <1>7 DEF SafeFlight
  <2>2. /\ Replacement(n)' # Absent /\ Replacement(n)'.recs = Replacement(n).recs
        /\ Replacement(n)'.format = Replacement(n).format
    BY <1>1, <1>3, <1>4, <2>1 DEF Replacement, Alike
  <2> QED BY <1>6, <1>7, <2>1, <2>2 DEF Prefix
<1>8. CASE i.by # "ancestry"
  <2>1. InBundle(files[Dest(n)][p].recs) /\ (i.side = "local" => ~projected[n])
    BY <1>5, <1>8 DEF SafeFlight
  <2> QED BY <1>6, <1>8, <2>1 DEF InBundle
<1> QED BY <1>7, <1>8

\* What stands goes on.
LEMMA StandsGoesOn == \A g : Stands(g) => GoesOn(g)
  BY ContinuesSelf DEF Stands, GoesOn

\* Pairs and neighbours are about the files of the machines alone.
LEMMA LocalKept ==
  ASSUME Base, \A s \in Machines : Alike(s), kept \subseteq kept',
         \A n \in Machines : Flying(n)' /\ run'[n].phase # "replaced" =>
            Flying(n) /\ run[n].phase # "replaced" /\ run'[n].item = run[n].item
  PROVE  (Neighbours => Neighbours') /\ (Pairs => Pairs')
<1>1. \A s \in Machines : Present(s)' = Present(s)
  BY DEF Present, Alike
<1>2. Neighbours => Neighbours'
  <2> SUFFICES ASSUME Neighbours, NEW n \in Machines, Flying(n)', run'[n].phase # "replaced"
               PROVE  NoNeighbour(n, run[n].item)'
    BY DEF Neighbours
  <2>1. NoNeighbour(n, run[n].item) /\ run'[n].item = run[n].item
    BY DEF Neighbours
  <2> QED BY <1>1, <2>1 DEF NoNeighbour
<1>3. Pairs => Pairs'
  BY <1>1, PathParts DEF Pairs, InBundle, Present, Alike, Boxes
<1> QED BY <1>2, <1>3

\* Steps that leave files and applies alone.
LEMMA QuietAlone == ASSUME Base, InvAlone, NEW m \in Machines, Quiet(m) PROVE InvAlone'
<1> SUFFICES ASSUME ~overlap' PROVE (Alone /\ Flights /\ Neighbours /\ Pairs /\ Surviving)'
  BY DEF InvAlone
<1>0. /\ Alone /\ Flights /\ Neighbours /\ Pairs /\ Surviving
      /\ UNCHANGED <<files, run, written, kept>>
      /\ \A n \in Machines : run[n] # None /\ ~codex'[n] => ~codex[n] /\ projected'[n] = projected[n]
  BY QuietParts DEF InvAlone
<1>1. \A n \in Machines : Flying(n)' => Flying(n)
  BY <1>0 DEF Flying
<1>2. \A s \in Sides : Alike(s)
  BY <1>0 DEF Alike
<1>3. Flights'
  <2> SUFFICES ASSUME NEW n \in Machines, Flying(n)' PROVE SafeFlight(n)'
    BY DEF Flights
  <2>1. SafeFlight(n) /\ run[n] # None /\ projected'[n] = projected[n]
    BY <1>0, <1>1 DEF Flights, Flying
  <2> QED BY <1>0, <1>2, <2>1, FlightKept, SideParts
<1>4. Neighbours' /\ Pairs'
  BY <1>0, <1>1, <1>2, LocalKept, SideParts
<1>5. Alone'
  BY <1>0 DEF Alone
<1>6. Surviving'
  BY <1>0 DEF Surviving, Survives, Copied, Present
<1> QED BY <1>3, <1>4, <1>5, <1>6

\* An apply that has just been confirmed is safe.
LEMMA RebuiltSafe ==
  ASSUME Base, NEW m \in Machines, Rebuild(m)
  PROVE  SafeFlight(m)'
<1>0. /\ TypeOK /\ files' = files /\ projected' = projected /\ run'[m] # None
      /\ LosesNothing(m, plan[m]) /\ WellFormed(m, plan[m]) /\ kept' = kept \union Bundled(plan[m])
      /\ run'[m] = [phase |-> "rebuilt", item |-> plan[m], staged |-> Absent]
  BY RebuildParts DEF Sound, Base, codexState
<1>1. run'[m].phase = "rebuilt" /\ run'[m].item = plan[m]
  BY <1>0
<1> DEFINE i == plan[m]
           d == DestOf(m, plan[m])
           o == OriginOf(m, plan[m])
<1>2. Dest(m)' = d /\ Origin(m)' = o /\ d \in Sides /\ o \in Sides
  BY <1>1, SideParts DEF Dest, Origin, DestOf, OriginOf
<1>3. Doomed(m)' = Displaces(m, i)
  BY <1>0, <1>1, <1>2 DEF Doomed, Displaces, Present
<1>4. Replacement(m)' = files[o][i.from] /\ files[o][i.from] # Absent
  BY <1>0, <1>1, <1>2, CopyParts DEF Replacement, WellFormed
<1> SUFFICES ASSUME NEW p \in Displaces(m, i)
             PROVE  IF i.by = "ancestry"
                    THEN Replacement(m)' # Absent /\ Prefix(files[d][p], Replacement(m)')
                    ELSE (\E k \in kept' : Continues(files[d][p].recs, k.recs))
                         /\ (i.side = "local" => ~projected[m])
  BY <1>0, <1>1, <1>2, <1>3 DEF SafeFlight, InBundle
<1>5. /\ i.by = "ancestry" => Prefix(files[d][p], files[o][i.from])
      /\ i.by # "ancestry" => files[d][p] \in Bundled(i)
      /\ i.by # "ancestry" /\ i.side = "local" => ~projected[m]
  BY <1>0 DEF LosesNothing
<1> QED BY <1>0, <1>4, <1>5, ContinuesSelf

\* An apply goes on without writing a file.
LEMMA AdvancesAlone == ASSUME Base, InvAlone, NEW m \in Machines, Advances(m) PROVE InvAlone'
<1> SUFFICES ASSUME ~overlap' PROVE (Alone /\ Flights /\ Neighbours /\ Pairs /\ Surviving)'
  BY DEF InvAlone
<1>0. TypeOK /\ RunFormed /\ run \in [Machines -> ApplyRun \union {None}]
  BY DEF Base, TypeOK
<1>1. CASE Rebuild(m)
  <2>0. /\ ~overlap /\ \A n \in Machines \ {m} : run[n] = None /\ run'[n] = None
        /\ UNCHANGED <<files, codex, projected, written>> /\ kept \subseteq kept'
        /\ run'[m].item = plan[m] /\ NoNeighbour(m, plan[m])
    <3>1. overlap' = (overlap \/ \E n \in Machines \ {m} : run[n] # None)
      BY <1>1 DEF Rebuild
    <3>2. ~overlap /\ \A n \in Machines \ {m} : run[n] = None
      BY <3>1
    <3>3. run'[m] = [phase |-> "rebuilt", item |-> plan[m], staged |-> Absent]
      BY <1>1, RebuildParts
    <3>4. run'[m].item = plan[m]
      BY <3>3
    <3>5. plan[m].action = "write" /\ Sound(m, plan[m])
      BY <1>1, RebuildParts
    <3>6. /\ \A n \in Machines \ {m} : run'[n] = run[n]
          /\ UNCHANGED <<files, codex, projected, written>> /\ kept \subseteq kept'
      BY <1>1, RebuildParts DEF codexState
    <3> QED BY <3>2, <3>4, <3>5, <3>6 DEF Sound
  <2>1. Alone /\ Flights /\ Neighbours /\ Pairs /\ Surviving
    BY <2>0 DEF InvAlone
  <2>2. Alone' /\ Flights'
    BY <1>1, <2>0, RebuiltSafe DEF Alone, Flights, Flying
  <2>3. Neighbours'
    BY <2>0 DEF Neighbours, Flying, NoNeighbour, Present
  <2>4. Pairs'
    BY <2>0, <2>1 DEF Pairs, Present, InBundle
  <2>5. Surviving'
    BY <2>0, <2>1, StepSurvives, StandsGoesOn DEF Stands, GoesOn, InBundle
  <2> QED BY <2>2, <2>3, <2>4, <2>5
<1>2. ASSUME run[m] # None, run'[m] # None, run'[m].item = run[m].item,
             \A n \in Machines \ {m} : run'[n] = run[n],
             UNCHANGED <<files, codexState, kept, overlap, written>>,
             Flying(m)' => Flying(m) /\ run[m].phase # "replaced" /\ run'[m].phase # "replaced"
                           /\ Replacement(m)' = Replacement(m)
      PROVE  (Alone /\ Flights /\ Neighbours /\ Pairs /\ Surviving)'
  <2>1. /\ Alone /\ Flights /\ Neighbours /\ Pairs /\ Surviving
        /\ UNCHANGED <<codex, projected>>
    BY <1>2 DEF InvAlone, codexState
  <2>2. \A n \in Machines \ {m} : run[n] = None /\ run'[n] = None
    BY <1>2, <2>1 DEF Alone
  <2>3. Alone'
    BY <2>2 DEF Alone
  <2>4. Flights'
    <3> SUFFICES ASSUME Flying(m)' PROVE SafeFlight(m)'
      BY <2>2 DEF Flights, Flying
    <3>1. /\ SafeFlight(m) /\ Replacement(m)' = Replacement(m)
          /\ run[m].phase # "replaced" /\ run'[m].phase # "replaced"
      BY <1>2, <2>1 DEF Flights
    <3>2. Dest(m)' = Dest(m) /\ Doomed(m)' = Doomed(m)
      BY <1>2, <3>1 DEF Dest, Doomed, Present
    <3> QED BY <1>2, <2>1, <3>1, <3>2 DEF SafeFlight, InBundle
  <2>5. \A s \in Machines : Alike(s)
    BY <1>2 DEF Alike
  <2>6. Neighbours' /\ Pairs'
    <3>1. \A n \in Machines : Flying(n)' /\ run'[n].phase # "replaced" =>
             Flying(n) /\ run[n].phase # "replaced" /\ run'[n].item = run[n].item
      BY <1>2, <2>2 DEF Flying
    <3> QED BY <1>2, <2>1, <2>5, <3>1, LocalKept
  <2>7. Surviving'
    BY <1>2, <2>1 DEF Surviving, Survives, Copied, Present
  <2> QED BY <2>3, <2>4, <2>6, <2>7
<1>3. CASE Prepare(m)
  <2>1. /\ run[m].phase = "rebuilt" /\ run'[m].phase = "prepared"
        /\ run'[m].staged = files[Origin(m)][run[m].item.from]
        /\ UNCHANGED <<files, codexState, kept, overlap, written>>
    BY <1>3, PrepareParts DEF ghosts
  <2>2. Flying(m)' => Flying(m) /\ Replacement(m)' = Replacement(m)
    BY <1>3, <2>1, PrepareParts DEF Flying, Replacement, Unfinished, codexState
  <2> QED BY <1>2, <1>3, <2>1, <2>2, PrepareParts
<1>4. CASE Commit(m)
  <2>1. run[m] # None /\ run[m].phase = "prepared" /\ To(m, "committing") /\ "committing" \in Phases
    BY <1>4 DEF Commit, Phase, Phases
  <2>2. /\ UNCHANGED <<files, codexState, kept, overlap, written>>
        /\ run'[m] # None /\ run'[m].phase = "committing" /\ run'[m].item = run[m].item
        /\ run'[m].staged = run[m].staged /\ \A n \in Machines \ {m} : run'[n] = run[n]
    BY <1>4, <2>1, PhaseParts DEF Commit, ghosts
  <2>3. Flying(m)' => Flying(m) /\ Replacement(m)' = Replacement(m)
    BY <2>1, <2>2 DEF Flying, Replacement, Unfinished, codexState
  <2> QED BY <1>2, <2>1, <2>2, <2>3
<1>5. CASE Verify(m)
  <2>1. run[m] # None /\ To(m, "committed") /\ "committed" \in Phases
    BY <1>5 DEF Verify, Phase, Phases
  <2>2. /\ UNCHANGED <<files, codexState, kept, overlap, written>>
        /\ run'[m] # None /\ run'[m].phase = "committed" /\ run'[m].item = run[m].item
        /\ \A n \in Machines \ {m} : run'[n] = run[n]
    BY <1>5, <2>1, PhaseParts DEF Verify, ghosts
  <2>3. ~Flying(m)'
    BY <2>2 DEF Flying, Unfinished
  <2> QED BY <1>2, <2>1, <2>2, <2>3
<1> QED BY <1>1, <1>3, <1>4, <1>5 DEF Advances

\* An apply ends.
LEMMA EndsAlone == ASSUME Base, InvAlone, NEW m \in Machines, Ends(m) PROVE InvAlone'
<1> SUFFICES ASSUME ~overlap' PROVE (Alone /\ Flights /\ Neighbours /\ Pairs /\ Surviving)'
  BY DEF InvAlone
<1>0. /\ UNCHANGED <<files, codex, projected, kept, overlap, written>>
      /\ run'[m] = None /\ \A n \in Machines \ {m} : run'[n] = run[n]
      /\ run[m] # None
  BY EndsParts DEF codexState
<1>1. Alone /\ Flights /\ Neighbours /\ Pairs /\ Surviving
  BY <1>0 DEF InvAlone
<1>2. \A n \in Machines : run'[n] = None
  BY <1>0, <1>1 DEF Alone
<1>3. Alone' /\ Flights' /\ Neighbours'
  BY <1>2 DEF Alone, Flights, Neighbours, Flying
<1>4. Pairs'
  BY <1>0, <1>1 DEF Pairs, Present, InBundle
<1>5. Surviving'
  BY <1>0, <1>1 DEF Surviving, Survives, Copied, Present
<1> QED BY <1>3, <1>4, <1>5

\* The staged file goes over what it continues, or what lies in a bundle.
LEMMA ReplaceAlone == ASSUME Base, InvAlone, NEW m \in Machines, Replace(m) PROVE InvAlone'
<1> SUFFICES ASSUME ~overlap' PROVE (Alone /\ Flights /\ Neighbours /\ Pairs /\ Surviving)'
  BY DEF InvAlone
<1> DEFINE i == run[m].item
           d == Dest(m)
           h == run[m].staged
<1>0. /\ UNCHANGED <<codex, projected, kept, overlap, written>>
      /\ \A n \in Machines \ {m} : run'[n] = run[n]
      /\ run[m] # None /\ run'[m] # None /\ run[m].phase = "committing" /\ ~codex[m]
      /\ ItemFormed(i) /\ run'[m].item = i /\ run'[m].staged = h
      /\ run'[m].phase = IF i.old = None THEN "removed" ELSE "replaced"
      /\ h \in History /\ h # Absent
  BY ReplaceParts, TransferAssumption DEF codexState, decisions, TransferAssumption
<1>1. /\ files'[d][i.to] = h /\ \A q \in Paths \ {i.to} : files'[d][q] = files[d][q]
      /\ \A t \in Sides \ {d} : files'[t] = files[t]
      /\ d \in Sides /\ (d \in Machines => d = m /\ i.side = "local")
  BY ReplaceParts, ApplySides, SideParts DEF Dest, ItemFormed
<1>2. Alone /\ Flights /\ Neighbours /\ Pairs /\ Surviving
  BY <1>0 DEF InvAlone
<1>3. \A n \in Machines \ {m} : run[n] = None /\ run'[n] = None
  BY <1>0, <1>2 DEF Alone
<1>4. /\ SafeFlight(m) /\ NoNeighbour(m, i) /\ Replacement(m) = h
      /\ i.to \in Paths /\ i.old # i.to
      /\ Doomed(m) = Present(d) \intersect {i.to, i.old}
  BY <1>0, <1>2 DEF Flights, Neighbours, Flying, Unfinished, Replacement, ItemFormed, Doomed
<1>5. \A p \in Present(d) \intersect {i.to, i.old} :
         /\ Continues(files[d][p].recs, h.recs) \/ InBundle(files[d][p].recs)
         /\ i.by = "ancestry" => Prefix(files[d][p], h)
         /\ i.by # "ancestry" => /\ InBundle(files[d][p].recs)
                                 /\ i.side = "local" => ~projected[m]
  BY <1>4 DEF SafeFlight, Prefix
<1>6. Alone'
  BY <1>3 DEF Alone
<1>7. Flights'
  <2> SUFFICES ASSUME Flying(m)' PROVE SafeFlight(m)'
    BY <1>3 DEF Flights, Flying
  <2>1. run'[m].phase = "replaced"
    BY <1>0 DEF Flying, Unfinished
  <2>2. Dest(m)' = d /\ Replacement(m)' = h /\ Doomed(m)' \subseteq Present(d) \intersect {i.old}
    BY <1>0, <1>1, <1>4, <2>1 DEF Dest, Replacement, Doomed, Present
  <2>3. \A p \in Doomed(m)' : files'[d][p] = files[d][p] /\ p \in Present(d) \intersect {i.to, i.old}
    BY <1>1, <1>4, <2>2 DEF Present
  <2> QED BY <1>0, <1>5, <2>2, <2>3 DEF SafeFlight, InBundle
<1>8. Neighbours'
  BY <1>0, <1>3 DEF Neighbours, Flying, Unfinished
<1>9. Pairs'
  <2> SUFFICES ASSUME NEW s \in Machines, NEW place \in Places,
                      files'[s][At(place, "jsonl")] # Absent, files'[s][At(place, "packed")] # Absent
               PROVE  \/ Continues(files'[s][At(place, "packed")].recs, files'[s][At(place, "jsonl")].recs)
                      \/ \E b \in kept' : Continues(files'[s][At(place, "packed")].recs, b.recs)
    BY DEF Pairs, Present, InBundle
  <2> DEFINE j == At(place, "jsonl")
             k == At(place, "packed")
  <2>0. /\ j \in Paths /\ k \in Paths /\ j # k /\ j.place = place /\ k.place = place
        /\ j.box = "jsonl" /\ k.box = "packed" /\ s \in Sides
    BY PathParts, SideParts DEF Boxes
  <2>1. \/ j \notin Present(s) \/ k \notin Present(s)
        \/ Continues(files[s][k].recs, files[s][j].recs) \/ InBundle(files[s][k].recs)
    BY <1>2 DEF Pairs
  <2> HIDE DEF j, k
  <2>2. CASE s # d \/ (j # i.to /\ k # i.to)
    BY <1>0, <1>1, <2>0, <2>1, <2>2 DEF Present, InBundle, j, k
  <2>3. CASE s = d /\ (j = i.to \/ k = i.to)
    <3>1. i.side = "local" /\ s = m /\ i.to.box = "jsonl"
      BY <1>0, <1>1, <2>3 DEF ItemFormed
    <3>2. j = i.to
      BY <2>0, <2>3, <3>1
    <3>3. files'[s][k] = files[s][k] /\ files'[s][j] = h /\ k \in Present(s)
      BY <1>1, <2>0, <2>3, <3>2 DEF Present, k
    <3>4. CASE j \in Present(s)
      <4>1. Continues(files[s][j].recs, h.recs) \/ InBundle(files[s][j].recs)
        BY <1>5, <2>3, <3>2, <3>4
      <4>2. Continues(files[s][k].recs, files[s][j].recs) \/ InBundle(files[s][k].recs)
        BY <2>1, <3>3, <3>4
      <4>3. Continues(files[s][k].recs, h.recs) \/ InBundle(files[s][k].recs)
        BY <4>1, <4>2, ContinuesOn, BundleUnder
      <4> QED BY <1>0, <3>3, <4>3 DEF InBundle, j, k
    <3>5. CASE j \notin Present(s)
      <4>1. k = i.old
        BY <1>4, <2>0, <3>1, <3>2, <3>3, <3>5 DEF NoNeighbour
      <4>2. Continues(files[s][k].recs, h.recs) \/ InBundle(files[s][k].recs)
        BY <1>5, <2>3, <3>3, <4>1
      <4> QED BY <1>0, <3>3, <4>2 DEF InBundle, j, k
    <3> QED BY <3>4, <3>5
  <2> QED BY <2>2, <2>3
<1>10. Surviving'
  <2>1. ASSUME NEW g, Stands(g) PROVE GoesOn(g)'
    <3>1. PICK s \in Sides, p \in Paths : files[s][p] # Absent /\ g = files[s][p].recs
      BY <2>1 DEF Stands
    <3>2. CASE s = d /\ p = i.to
      <4>1. Continues(g, h.recs) \/ InBundle(g)
        BY <1>5, <3>1, <3>2 DEF Present
      <4> QED BY <1>0, <1>1, <1>4, <4>1 DEF GoesOn, InBundle
    <3>3. CASE ~(s = d /\ p = i.to)
      <4>1. files'[s][p] = files[s][p]
        BY <1>1, <3>3
      <4> QED BY <3>1, <4>1, ContinuesSelf DEF GoesOn
    <3> QED BY <3>2, <3>3
  <2> QED BY <1>0, <1>2, <2>1, StepSurvives
<1> QED BY <1>6, <1>7, <1>8, <1>9, <1>10

\* The old file goes once the new one is there.
LEMMA RemoveAlone == ASSUME Base, InvAlone, NEW m \in Machines, Remove(m) PROVE InvAlone'
<1> SUFFICES ASSUME ~overlap' PROVE (Alone /\ Flights /\ Neighbours /\ Pairs /\ Surviving)'
  BY DEF InvAlone
<1> DEFINE i == run[m].item
           d == Dest(m)
<1>0. /\ UNCHANGED <<codex, projected, kept, overlap, written>>
      /\ \A n \in Machines \ {m} : run'[n] = run[n]
      /\ run[m] # None /\ run'[m] # None /\ run[m].phase = "replaced" /\ ~codex[m]
      /\ ItemFormed(i) /\ run'[m].phase = "removed"
  BY RemoveKeeps, RemoveParts DEF codexState, ghosts
<1>1. /\ files'[d][i.old] = Absent /\ \A q \in Paths \ {i.old} : files'[d][q] = files[d][q]
      /\ \A t \in Sides \ {d} : files'[t] = files[t]
      /\ d \in Sides /\ i.old \in Paths
  BY RemoveKeeps, RemoveParts, ApplySides
<1>2. Alone /\ Flights /\ Neighbours /\ Pairs /\ Surviving
  BY <1>0 DEF InvAlone
<1>3. \A n \in Machines \ {m} : run[n] = None /\ run'[n] = None
  BY <1>0, <1>2 DEF Alone
<1>4. /\ SafeFlight(m) /\ Replacement(m) = files[d][i.to] /\ i.to \in Paths /\ i.old # i.to
      /\ Doomed(m) = Present(d) \intersect {i.old}
  BY <1>0, <1>2 DEF Flights, Flying, Unfinished, Replacement, ItemFormed, Doomed
<1>5. i.old \in Present(d) => \/ InBundle(files[d][i.old].recs)
                              \/ files[d][i.to] # Absent /\ Continues(files[d][i.old].recs, files[d][i.to].recs)
  BY <1>4 DEF SafeFlight, Prefix
<1>6. Alone' /\ Flights' /\ Neighbours'
  BY <1>0, <1>3 DEF Alone, Flights, Neighbours, Flying, Unfinished
<1>7. \A s \in Sides, p \in Paths : files'[s][p] # Absent => files'[s][p] = files[s][p]
  BY <1>1
<1>8. Pairs'
  BY <1>0, <1>2, <1>7, SideParts, PathParts DEF Pairs, Present, InBundle, Boxes
<1>9. Surviving'
  <2>1. ASSUME NEW g, Stands(g) PROVE GoesOn(g)'
    <3>1. PICK s \in Sides, p \in Paths : files[s][p] # Absent /\ g = files[s][p].recs
      BY <2>1 DEF Stands
    <3>2. CASE s = d /\ p = i.old
      <4>1. InBundle(g) \/ (files[d][i.to] # Absent /\ Continues(g, files[d][i.to].recs))
        BY <1>5, <3>1, <3>2 DEF Present
      <4>2. files'[d][i.to] = files[d][i.to]
        BY <1>1, <1>4
      <4> QED BY <1>0, <1>1, <1>4, <4>1, <4>2 DEF GoesOn, InBundle
    <3>3. CASE ~(s = d /\ p = i.old)
      <4>1. files'[s][p] = files[s][p]
        BY <1>1, <3>3
      <4> QED BY <3>1, <4>1, ContinuesSelf DEF GoesOn
    <3> QED BY <3>2, <3>3
  <2> QED BY <1>0, <1>2, <2>1, StepSurvives
<1> QED BY <1>6, <1>8, <1>9

\* Codex's own file goes on where it is put.
LEMMA RewritingAlone == ASSUME Base, InvAlone, NEW m \in Machines, Rewriting(m) PROVE InvAlone'
<1> SUFFICES ASSUME ~overlap' PROVE (Alone /\ Flights /\ Neighbours /\ Pairs /\ Surviving)'
  BY DEF InvAlone
<1>0. PICK p \in Paths, q \in Paths, h \in History : Rewrites(m, p, q, h)
  BY DEF Rewriting, CodexRewrites
<1>1. /\ UNCHANGED <<codex, projected, kept, run, overlap>> /\ codex[m]
      /\ m \in Sides /\ h # Absent
  BY SideParts, TransferAssumption DEF Rewriting, CodexRewrites, TransferAssumption
<1>2. /\ \A r \in Paths : files'[m][r] = IF r = q THEN h ELSE IF r = p THEN Absent ELSE files[m][r]
      /\ \A s \in Sides \ {m} : files'[s] = files[s]
      /\ p \in Present(m) /\ Continues(files[m][p].recs, h.recs)
      /\ p.box = "packed" => At(p.place, "jsonl") \notin Present(m)
      /\ \/ q = p
         \/ \A r \in Present(m) : r.place = q.place => r = p
         \/ p = At(q.place, "jsonl") /\ q = At(q.place, "packed")
      /\ written' = written \/ written' = written \union {h.recs}
  BY <1>0 DEF Rewrites
<1>3. Alone /\ Flights /\ Neighbours /\ Pairs /\ Surviving
  BY <1>1 DEF InvAlone
<1>4. Alone'
  BY <1>1, <1>3 DEF Alone
<1>5. \A n \in Machines : Flying(n)' => n # m /\ Flying(n)
  BY <1>1 DEF Flying
<1>6. \A s \in Sides \ {m} : Alike(s)
  BY <1>2 DEF Alike
<1>7. Flights'
  <2> SUFFICES ASSUME NEW n \in Machines, Flying(n)' PROVE SafeFlight(n)'
    BY DEF Flights
  <2>1. SafeFlight(n) /\ run[n] # None /\ n # m
    BY <1>3, <1>5 DEF Flights, Flying
  <2>2. Alike(n) /\ Alike(Mirror)
    BY <1>6, <2>1, SideParts
  <2> QED BY <1>1, <2>1, <2>2, FlightKept
<1>8. Neighbours'
  <2> SUFFICES ASSUME NEW n \in Machines, Flying(n)', run'[n].phase # "replaced"
               PROVE  NoNeighbour(n, run[n].item)'
    BY DEF Neighbours
  <2>1. NoNeighbour(n, run[n].item) /\ files'[n] = files[n]
    BY <1>1, <1>2, <1>3, <1>5, SideParts DEF Neighbours
  <2> QED BY <1>1, <2>1 DEF NoNeighbour, Present
<1>9. Pairs'
  <2> SUFFICES ASSUME NEW s \in Machines, NEW place \in Places,
                      files'[s][At(place, "jsonl")] # Absent, files'[s][At(place, "packed")] # Absent
               PROVE  \/ Continues(files'[s][At(place, "packed")].recs, files'[s][At(place, "jsonl")].recs)
                      \/ \E b \in kept' : Continues(files'[s][At(place, "packed")].recs, b.recs)
    BY DEF Pairs, Present, InBundle
  <2> DEFINE j == At(place, "jsonl")
             k == At(place, "packed")
  <2>0. /\ j \in Paths /\ k \in Paths /\ j # k /\ j.place = place /\ k.place = place
        /\ j.box = "jsonl" /\ k.box = "packed" /\ s \in Sides
        /\ files'[s][j] # Absent /\ files'[s][k] # Absent
    BY PathParts, SideParts DEF Boxes
  <2>1. \/ j \notin Present(s) \/ k \notin Present(s)
        \/ Continues(files[s][k].recs, files[s][j].recs) \/ InBundle(files[s][k].recs)
    BY <1>3 DEF Pairs
  <2>00. \A r \in Paths : r.place = place /\ r.box = "jsonl" => r = j
    BY PathParts
  <2>01. p = At(q.place, "jsonl") => p.place = q.place /\ p.box = "jsonl"
    BY PathParts
  <2> SUFFICES Continues(files'[s][k].recs, files'[s][j].recs)
               \/ \E b \in kept' : Continues(files'[s][k].recs, b.recs)
    OBVIOUS
  <2> HIDE DEF j, k
  <2>2. CASE s # m \/ (j # q /\ k # q)
    <3>1. files'[s][j] = files[s][j] /\ files'[s][k] = files[s][k]
      BY <1>2, <2>0, <2>2
    <3> QED BY <1>1, <2>0, <2>1, <3>1 DEF Present, InBundle
  <2>3. CASE s = m /\ j = q
    <3>1. files'[s][k] = files[s][k] /\ k # p /\ k \in Present(m)
      BY <1>2, <2>0, <2>3 DEF Present
    <3>2. q = p
      BY <1>2, <2>0, <2>3, <3>1, PathParts
    <3>3. files'[s][j] = h /\ j \in Present(m) /\ files[s][j] = files[m][p]
      BY <1>2, <2>3, <3>2
    <3>4. Continues(files[s][k].recs, files[m][p].recs) \/ InBundle(files[s][k].recs)
      BY <2>1, <2>3, <3>1, <3>3
    <3>5. Continues(files[s][k].recs, h.recs) \/ InBundle(files[s][k].recs)
      BY <1>2, <3>4, ContinuesOn
    <3> QED BY <1>1, <3>1, <3>3, <3>5 DEF InBundle
  <2>4. CASE s = m /\ k = q
    <3>1. files'[s][j] = files[s][j] /\ j # p /\ j \in Present(m)
      BY <1>2, <2>0, <2>4 DEF Present
    <3>2. CASE q = p
      <4>1. At(p.place, "jsonl") = j
        BY <2>0, <2>4, <3>2 DEF j
      <4> QED BY <1>2, <2>0, <2>4, <3>1, <3>2, <4>1
    <3>3. CASE \A r \in Present(m) : r.place = q.place => r = p
      BY <2>0, <2>4, <3>1, <3>3
    <3>4. CASE p = At(q.place, "jsonl")
      BY <2>0, <2>00, <2>01, <2>4, <3>1, <3>4
    <3> QED BY <1>2, <3>2, <3>3, <3>4
  <2> QED BY <2>2, <2>3, <2>4
<1>10. Surviving'
  <2>1. ASSUME NEW g, Stands(g) PROVE GoesOn(g)'
    <3>1. PICK s \in Sides, r \in Paths : files[s][r] # Absent /\ g = files[s][r].recs
      BY <2>1 DEF Stands
    <3>2. CASE s # m \/ (r # q /\ r # p)
      <4>1. files'[s][r] = files[s][r]
        BY <1>2, <3>2
      <4> QED BY <3>1, <4>1, ContinuesSelf DEF GoesOn
    <3>3. CASE s = m /\ r = p
      BY <1>1, <1>2, <3>1, <3>3 DEF GoesOn
    <3>4. CASE s = m /\ r = q /\ r # p
      <4>1. r \in Present(m)
        BY <3>1, <3>4 DEF Present
      <4>2. p = At(q.place, "jsonl") /\ q = At(q.place, "packed")
        BY <1>2, <3>4, <4>1
      <4>3. Continues(g, files[m][p].recs) \/ InBundle(g)
        <5>1. q.place \in Places /\ At(q.place, "jsonl") \in Present(m) /\ At(q.place, "packed") \in Present(m)
          BY <1>2, <3>4, <4>1, <4>2, PathParts
        <5> QED BY <1>3, <3>1, <3>4, <4>2, <5>1 DEF Pairs
      <4>4. Continues(g, h.recs) \/ InBundle(g)
        BY <1>2, <4>3, ContinuesOn
      <4>5. files'[m][q] = h
        BY <1>2
      <4> QED BY <1>1, <4>4, <4>5 DEF GoesOn, InBundle
    <3> QED BY <3>2, <3>3, <3>4
  <2>2. ASSUME NEW g \in written' PROVE g \in written \/ GoesOn(g)'
    <3>1. files'[m][q] = h
      BY <1>2
    <3>2. GoesOn(h.recs)'
      BY <1>1, <3>1, ContinuesSelf DEF GoesOn
    <3> QED BY <1>2, <2>2, <3>2
  <2> QED BY <1>1, <1>3, <2>1, <2>2, StepSurvives
<1> QED BY <1>4, <1>7, <1>8, <1>9, <1>10

\* The cloud client changes nothing a history is made of.
LEMMA ClientAlone == ASSUME Base, InvAlone, NEW p \in Paths, Client(p) PROVE InvAlone'
<1> SUFFICES ASSUME ~overlap' PROVE (Alone /\ Flights /\ Neighbours /\ Pairs /\ Surviving)'
  BY DEF InvAlone
<1>0. UNCHANGED <<codex, projected, kept, run, written, overlap>>
  BY ClientTouches DEF codexState, ghosts
<1>1. Alone /\ Flights /\ Neighbours /\ Pairs /\ Surviving
  BY <1>0 DEF InvAlone
<1>2. \A s \in Sides : Alike(s)
  <2>1. Alike(Mirror)
    <3>1. /\ files'[Mirror][p].recs = files[Mirror][p].recs
          /\ files'[Mirror][p].format = files[Mirror][p].format
          /\ files[Mirror][p] # Absent /\ files'[Mirror][p] # Absent
          /\ \A q \in Paths \ {p} : files'[Mirror][q] = files[Mirror][q]
      BY ClientTouches DEF Present
    <3> QED BY <3>1 DEF Alike
  <2>2. \A s \in Machines : Alike(s)
    BY ClientTouches DEF Alike
  <2> QED BY <2>1, <2>2 DEF Sides
<1>3. Alone'
  BY <1>0, <1>1 DEF Alone
<1>4. \A n \in Machines : Flying(n)' => Flying(n)
  BY <1>0 DEF Flying
<1>5. Flights'
  <2> SUFFICES ASSUME NEW n \in Machines, Flying(n)' PROVE SafeFlight(n)'
    BY DEF Flights
  <2>1. SafeFlight(n) /\ run[n] # None /\ n \in Sides /\ Mirror \in Sides
    BY <1>1, <1>4, SideParts DEF Flights, Flying
  <2> QED BY <1>0, <1>2, <2>1, FlightKept
<1>6. Neighbours' /\ Pairs'
  BY <1>0, <1>1, <1>2, <1>4, LocalKept, SideParts
<1>7. Surviving'
  <2>1. ASSUME NEW g, Stands(g) PROVE GoesOn(g)'
    <3>1. PICK s \in Sides, r \in Paths : files[s][r] # Absent /\ g = files[s][r].recs
      BY <2>1 DEF Stands
    <3>2. files'[s][r] # Absent /\ files'[s][r].recs = g
      BY <1>2, <3>1 DEF Alike
    <3> QED BY <3>2, ContinuesSelf DEF GoesOn
  <2> QED BY <1>0, <1>1, <2>1, StepSurvives
<1> QED BY <1>3, <1>5, <1>6, <1>7

\* At the start.
LEMMA InitAlone == Init => InvAlone
<1> SUFFICES ASSUME Init PROVE Alone /\ Flights /\ Neighbours /\ Pairs /\ Surviving
  BY DEF InvAlone
<1>0. \A n \in Machines : run[n] = None
  BY DEF Init
<1>1. Alone /\ Flights /\ Neighbours
  BY <1>0 DEF Alone, Flights, Neighbours, Flying
<1>2. Pairs
  <2>1. PICK s \in Starts : files = s.files
    BY DEF Init
  <2>2. \A d \in Sides : OnceAndWhole(files[d])
    BY <2>1, TransferAssumption DEF TransferAssumption
  <2> QED BY <2>2, SideParts, PathParts DEF Pairs, Present, OnceAndWhole, Boxes
<1>3. Surviving
  <2>1. \A h \in written : Stands(h)
    BY DEF Init, Stands, Present
  <2> QED BY <2>1, StandsGoesOn, SurvivesGoesOn DEF Surviving
<1> QED BY <1>1, <1>2, <1>3

\* Every step keeps it.
LEMMA AloneStep == ASSUME Base, InvAlone, [Next]_vars PROVE InvAlone'
<1>1. CASE Next
  BY <1>1, NextKinds, QuietAlone, AdvancesAlone, ReplaceAlone, RemoveAlone, EndsAlone,
     RewritingAlone, ClientAlone
<1>2. CASE UNCHANGED vars
  BY <1>2 DEF vars, codexState, ghosts, InvAlone, Alone, Flights, Neighbours, Pairs, Surviving,
     Flying, SafeFlight, NoNeighbour, InBundle, Survives, Copied, Present, Doomed, Replacement, Dest, Origin
<1> QED BY <1>1, <1>2

\* Without overlap nothing an apply is about to overwrite is lost, in any
\* behaviour.
THEOREM AloneCorrect == Spec => []InvAlone
<1>1. Base /\ InvAlone /\ [Next]_vars => InvAlone'
  BY AloneStep
<1> QED BY InitAlone, BaseCorrect, <1>1, PTL DEF Spec

-----------------------------------------------------------------------------
(***************************************************************************)
(* Where every apply that went past COMMITTING was recorded and every file *)
(* of the mirror showed its chat, however many applies overlap.  Whoever   *)
(* wrote a file of the mirror last still holds what is in it and has       *)
(* agreed to its place, so it takes nothing over its own file from there;  *)
(* an apply that is about to write the mirror holds what it is to write.   *)
(***************************************************************************)
MirrorFlight(m) == Flying(m) /\ run[m].item.side = "mirror"
LocalFlight(m) == Flying(m) /\ run[m].item.side = "local"
AtRisk(m, p) == LocalFlight(m) /\ p \in {run[m].item.to, run[m].item.old}
Holds(w, q, h) == files[w][q] # Absent /\ ~AtRisk(w, q) /\ Continues(h, files[w][q].recs)

\* Every apply about to write over this file of the mirror goes on from it.
AllFresh(p) == \A m \in Machines :
    MirrorFlight(m) /\ p \in {run[m].item.to, run[m].item.old} =>
       \A h : h = files[Mirror][p].recs => Continues(h, files[m][run[m].item.from].recs)

\* This machine's record says, or will say, the folder of the mirror's file.
Agreed(w, p) ==
    IF run[w] = None THEN entry[w] = p.place
    ELSE /\ run[w].phase \in {"rebuilt", "prepared", "committing"} => entry[w] = p.place
         /\ \/ run[w].item.place = p.place
            \/ run[w].phase \in Unfinished /\ run[w].item.side = "mirror" /\ run[w].item.old = p

Steady == \A m \in Machines :
    run[m] # None /\ run[m].phase \in {"committing", "replaced"} => ~codex[m]
Staging == \A m \in Machines : MirrorFlight(m) =>
    /\ files[m][run[m].item.from] # Absent
    /\ run[m].phase \in {"prepared", "committing"} =>
          run[m].staged.recs = files[m][run[m].item.from].recs
LocalFlights == \A m \in Machines :
    LocalFlight(m) => Present(m) \subseteq {run[m].item.to, run[m].item.old}
LocalOne == \A m \in Machines :
    \/ \A p, q \in Present(m) : p = q
    \/ LocalFlight(m) /\ run[m].phase = "replaced"
Covered(h, p) == \/ InBundle(h)
                 \/ AllFresh(p)
                 \/ \E w \in Machines, q \in Paths : Holds(w, q, h) /\ Agreed(w, p)
MirrorHeld == \A p \in Present(Mirror) : \A h : h = files[Mirror][p].recs => Covered(h, p)
HeldOn(h) == \/ InBundle(h)
             \/ \E w \in Machines, q \in Paths : Holds(w, q, h)
             \/ \E p \in Present(Mirror) : Continues(h, files[Mirror][p].recs) /\ AllFresh(p)
AllHeld == \A h \in written : HeldOn(h)
InvRecorded == ~interrupted /\ used["headless"] = 0 =>
    Steady /\ Staging /\ LocalFlights /\ LocalOne /\ MirrorHeld /\ AllHeld

\* What a step may leave of this.
HoldersStay == \A w \in Machines, q \in Paths : \A h : Holds(w, q, h) => \E r \in Paths : Holds(w, r, h)'
FreshStays == \A p \in Present(Mirror) : AllFresh(p) => AllFresh(p)'
AgreedStays == \A w \in Machines, p \in Present(Mirror) : Agreed(w, p) => Agreed(w, p)'

\* Then all stays held.
LEMMA HoldingOn ==
  ASSUME Base, MirrorHeld, AllHeld, kept \subseteq kept', Alike(Mirror), HoldersStay, FreshStays, AgreedStays,
         \A h \in written' : h \in written \/ HeldOn(h)'
  PROVE  MirrorHeld' /\ AllHeld'
<1>1. \A p : p \in Present(Mirror)' <=> p \in Present(Mirror)
  BY DEF Present, Alike
<1>2. \A h : InBundle(h) => InBundle(h)'
  BY DEF InBundle
<1>3. MirrorHeld'
  <2> SUFFICES ASSUME NEW p \in Present(Mirror)', NEW h, h = files'[Mirror][p].recs PROVE Covered(h, p)'
    BY DEF MirrorHeld
  <2>1. p \in Present(Mirror) /\ h = files[Mirror][p].recs
    BY <1>1 DEF Alike, Present
  <2>2. Covered(h, p)
    BY <2>1 DEF MirrorHeld
  <2> QED BY <1>2, <2>1, <2>2 DEF Covered, FreshStays, HoldersStay, AgreedStays
<1>4. ASSUME NEW h, HeldOn(h) PROVE HeldOn(h)'
  <2>1. CASE InBundle(h) \/ \E w \in Machines, q \in Paths : Holds(w, q, h)
    BY <1>2, <2>1 DEF HeldOn, HoldersStay
  <2>2. CASE \E p \in Present(Mirror) : Continues(h, files[Mirror][p].recs) /\ AllFresh(p)
    <3>1. PICK p \in Present(Mirror) : Continues(h, files[Mirror][p].recs) /\ AllFresh(p)
      BY <2>2
    <3>2. p \in Present(Mirror)' /\ AllFresh(p)'
      BY <1>1, <3>1 DEF FreshStays
    <3>3. files'[Mirror][p].recs = files[Mirror][p].recs
      BY <3>1 DEF Present, Alike
    <3> QED BY <3>1, <3>2, <3>3 DEF HeldOn
  <2> QED BY <1>4, <2>1, <2>2 DEF HeldOn
<1>5. AllHeld'
  BY <1>4 DEF AllHeld
<1> QED BY <1>3, <1>5

\* No apply takes off, none writes: holders and what is fresh stay.
LEMMA NoneTakesOff ==
  ASSUME Base, \A n \in Machines : files'[n] = files[n], Alike(Mirror),
         \A n \in Machines : Flying(n)' => Flying(n) /\ run'[n].item = run[n].item
  PROVE  HoldersStay /\ FreshStays
<1>1. HoldersStay
  BY DEF HoldersStay, Holds, AtRisk, LocalFlight
<1>2. FreshStays
  BY DEF FreshStays, AllFresh, MirrorFlight, Alike, Present
<1> QED BY <1>1, <1>2

\* Nor do files and flights of the machines become others.
LEMMA LocalStays ==
  ASSUME Base, Staging, LocalFlights, LocalOne, \A n \in Machines : files'[n] = files[n],
         \A n \in Machines : Flying(n)' =>
            /\ Flying(n) /\ run'[n].item = run[n].item
            /\ run'[n].phase \in {"prepared", "committing"} =>
                 \/ run[n].phase \in {"prepared", "committing"} /\ run'[n].staged = run[n].staged
                 \/ run'[n].staged = files[Origin(n)][run[n].item.from],
         \A n \in Machines : LocalFlight(n) /\ run[n].phase = "replaced" =>
            LocalFlight(n)' /\ run'[n].phase = "replaced"
  PROVE  Staging' /\ LocalFlights' /\ LocalOne'
<1>1. Staging'
  <2> SUFFICES ASSUME NEW n \in Machines, MirrorFlight(n)'
               PROVE  /\ files'[n][run'[n].item.from] # Absent
                      /\ run'[n].phase \in {"prepared", "committing"} =>
                            run'[n].staged.recs = files'[n][run'[n].item.from].recs
    BY DEF Staging
  <2>1. MirrorFlight(n) /\ run'[n].item = run[n].item /\ files'[n] = files[n] /\ Origin(n) = n
    BY DEF MirrorFlight, Origin
  <2> QED BY <2>1 DEF Staging, MirrorFlight
<1>2. LocalFlights'
  BY DEF LocalFlights, LocalFlight, Present
<1>3. LocalOne'
  BY DEF LocalOne, Present
<1> QED BY <1>1, <1>2, <1>3

\* Steps that leave files and applies alone.
LEMMA QuietRecorded == ASSUME Base, InvRecorded, NEW m \in Machines, Quiet(m) PROVE InvRecorded'
<1> SUFFICES ASSUME ~interrupted', used'["headless"] = 0
             PROVE (Steady /\ Staging /\ LocalFlights /\ LocalOne /\ MirrorHeld /\ AllHeld)'
  BY DEF InvRecorded
<1>0. /\ Steady /\ Staging /\ LocalFlights /\ LocalOne /\ MirrorHeld /\ AllHeld
      /\ UNCHANGED <<files, run, written, kept>>
      /\ \A n \in Machines : run[n] # None /\ ~codex'[n] => ~codex[n]
      /\ \A n \in Machines :
            run[n] # None /\ ~codex[n] /\ run[n].phase \in {"committing", "replaced"} => ~codex'[n]
      /\ \A n \in Machines : entry'[n] = entry[n] \/
            (run[n] = None /\ \A p \in Copies(Mirror) : p.place = entry'[n])
  BY QuietParts DEF InvRecorded
<1>1. \A n \in Machines : Flying(n)' => Flying(n)
  BY <1>0 DEF Flying
<1>2. Steady'
  BY <1>0 DEF Steady
<1>3. Staging' /\ LocalFlights' /\ LocalOne'
  <2>1. \A n \in Machines : LocalFlight(n) /\ run[n].phase = "replaced" =>
            LocalFlight(n)' /\ run'[n].phase = "replaced"
    BY <1>0 DEF LocalFlight, Flying
  <2>2. \A n \in Machines : Flying(n)' =>
            /\ Flying(n) /\ run'[n].item = run[n].item
            /\ run'[n].phase \in {"prepared", "committing"} =>
                 run[n].phase \in {"prepared", "committing"} /\ run'[n].staged = run[n].staged
    BY <1>0, <1>1
  <2> QED BY <1>0, <2>1, <2>2, LocalStays
<1>4. HoldersStay /\ FreshStays
  BY <1>0, <1>1, NoneTakesOff DEF Alike
<1>5. AgreedStays
  <2> SUFFICES ASSUME NEW w \in Machines, NEW p \in Present(Mirror), Agreed(w, p) PROVE Agreed(w, p)'
    BY DEF AgreedStays
  <2>1. p \in Copies(Mirror)
    <3>1. used["headless"] = 0
      BY QuietParts
    <3> QED BY <3>1 DEF Base, HeadlessSeen, Copies
  <2> QED BY <1>0, <2>1 DEF Agreed
<1>6. MirrorHeld' /\ AllHeld'
  BY <1>0, <1>4, <1>5, HoldingOn DEF Alike
<1> QED BY <1>2, <1>3, <1>6

\* An apply goes on without writing a file, and without a new one.
LEMMA OnwardRecorded ==
  ASSUME Base, InvRecorded, NEW m \in Machines, Prepare(m) \/ Commit(m) \/ Verify(m)
  PROVE  InvRecorded'
<1> SUFFICES ASSUME ~interrupted', used'["headless"] = 0
             PROVE (Steady /\ Staging /\ LocalFlights /\ LocalOne /\ MirrorHeld /\ AllHeld)'
  BY DEF InvRecorded
<1>0. /\ UNCHANGED <<files, codex, entry, kept, written, interrupted, used>>
      /\ run[m] # None /\ run'[m] # None /\ run'[m].item = run[m].item
      /\ \A n \in Machines \ {m} : run'[n] = run[n]
      /\ \/ /\ run[m].phase = "rebuilt" /\ run'[m].phase = "prepared"
            /\ run'[m].staged = files[Origin(m)][run[m].item.from]
         \/ /\ run[m].phase = "prepared" /\ run'[m].phase = "committing"
            /\ run'[m].staged = run[m].staged /\ ~codex[m]
         \/ run[m].phase = "removed" /\ run'[m].phase = "committed"
  <2>1. CASE Prepare(m)
    BY <2>1, PrepareParts DEF codexState, ghosts
  <2>2. CASE Commit(m)
    <3>1. run[m] # None /\ run[m].phase = "prepared" /\ To(m, "committing") /\ "committing" \in Phases
      BY <2>2 DEF Commit, Phase, Phases
    <3> QED BY <2>2, <3>1, PhaseParts DEF Commit, codexState, ghosts
  <2>3. CASE Verify(m)
    <3>1. run[m] # None /\ run[m].phase = "removed" /\ To(m, "committed") /\ "committed" \in Phases
      BY <2>3 DEF Verify, Phase, Phases
    <3> QED BY <2>3, <3>1, PhaseParts DEF Verify, codexState, ghosts
  <2> QED BY <2>1, <2>2, <2>3
<1>1. Steady /\ Staging /\ LocalFlights /\ LocalOne /\ MirrorHeld /\ AllHeld
  BY <1>0 DEF InvRecorded
<1>2. Steady'
  BY <1>0, <1>1 DEF Steady
<1>3. \A n \in Machines : Flying(n)' =>
            /\ Flying(n) /\ run'[n].item = run[n].item
            /\ run'[n].phase \in {"prepared", "committing"} =>
                 \/ run[n].phase \in {"prepared", "committing"} /\ run'[n].staged = run[n].staged
                 \/ run'[n].staged = files[Origin(n)][run[n].item.from]
  BY <1>0 DEF Flying, Unfinished
<1>4. \A n \in Machines : LocalFlight(n) /\ run[n].phase = "replaced" =>
            LocalFlight(n)' /\ run'[n].phase = "replaced"
  BY <1>0 DEF LocalFlight, Flying
<1>5. Staging' /\ LocalFlights' /\ LocalOne'
  BY <1>0, <1>1, <1>3, <1>4, LocalStays
<1>6. HoldersStay /\ FreshStays
  BY <1>0, <1>3, NoneTakesOff DEF Alike
<1>7. AgreedStays
  BY <1>0 DEF AgreedStays, Agreed, Unfinished
<1>8. MirrorHeld' /\ AllHeld'
  BY <1>0, <1>1, <1>6, <1>7, HoldingOn DEF Alike
<1> QED BY <1>2, <1>5, <1>8

\* An apply ends recorded, or before it could write.
LEMMA EndsRecorded == ASSUME Base, InvRecorded, NEW m \in Machines, Ends(m) PROVE InvRecorded'
<1> SUFFICES ASSUME ~interrupted', used'["headless"] = 0
             PROVE (Steady /\ Staging /\ LocalFlights /\ LocalOne /\ MirrorHeld /\ AllHeld)'
  BY DEF InvRecorded
<1>0. /\ UNCHANGED <<files, codex, kept, written>> /\ used'["headless"] = used["headless"]
      /\ run[m] # None /\ run'[m] = None /\ \A n \in Machines \ {m} : run'[n] = run[n]
      /\ ~interrupted
      /\ \/ run[m].phase = "committed" /\ entry' = [entry EXCEPT ![m] = run[m].item.place]
         \/ run[m].phase \in {"rebuilt", "prepared"} /\ entry' = entry
  <2>1. run[m].phase \in Phases
    BY EndsParts, RunParts DEF Base
  <2> QED BY <2>1, EndsParts DEF codexState, Phases, MayCommit
<1>1. /\ Steady /\ Staging /\ LocalFlights /\ LocalOne /\ MirrorHeld /\ AllHeld /\ TypeOK
      /\ run[m].phase \notin {"committing", "replaced"}
  BY <1>0 DEF InvRecorded, Base
<1>2. Steady'
  BY <1>0, <1>1 DEF Steady
<1>3. \A n \in Machines : Flying(n)' => n # m /\ Flying(n) /\ run'[n] = run[n]
  BY <1>0 DEF Flying
<1>4. \A n \in Machines : LocalFlight(n) /\ run[n].phase = "replaced" =>
            LocalFlight(n)' /\ run'[n].phase = "replaced"
  BY <1>0, <1>1 DEF LocalFlight, Flying
<1>5. Staging' /\ LocalFlights' /\ LocalOne'
  BY <1>0, <1>1, <1>3, <1>4, LocalStays
<1>6. HoldersStay /\ FreshStays
  BY <1>0, <1>3, NoneTakesOff DEF Alike
<1>7. AgreedStays
  <2>1. \A n \in Machines \ {m} : entry'[n] = entry[n]
    BY <1>0, <1>1 DEF TypeOK
  <2>2. entry'[m] = IF run[m].phase = "committed" THEN run[m].item.place ELSE entry[m]
    BY <1>0, <1>1 DEF TypeOK
  <2> QED BY <1>0, <2>1, <2>2 DEF AgreedStays, Agreed, Unfinished
<1>8. MirrorHeld' /\ AllHeld'
  BY <1>0, <1>1, <1>6, <1>7, HoldingOn DEF Alike
<1> QED BY <1>2, <1>5, <1>8

\* The cloud client changes nothing a history is made of.
LEMMA ClientRecorded == ASSUME Base, InvRecorded, NEW p \in Paths, Client(p) PROVE InvRecorded'
<1> SUFFICES ASSUME ~interrupted', used'["headless"] = 0
             PROVE (Steady /\ Staging /\ LocalFlights /\ LocalOne /\ MirrorHeld /\ AllHeld)'
  BY DEF InvRecorded
<1>0. /\ UNCHANGED <<codex, entry, kept, run, written, interrupted>>
      /\ used["headless"] = 0 /\ \A n \in Machines : files'[n] = files[n]
  BY ClientTouches DEF codexState, ghosts
<1>1. Steady /\ Staging /\ LocalFlights /\ LocalOne /\ MirrorHeld /\ AllHeld
  BY <1>0 DEF InvRecorded
<1>2. Alike(Mirror)
  <2>1. /\ files'[Mirror][p].recs = files[Mirror][p].recs
        /\ files'[Mirror][p].format = files[Mirror][p].format
        /\ files[Mirror][p] # Absent /\ files'[Mirror][p] # Absent
        /\ \A q \in Paths \ {p} : files'[Mirror][q] = files[Mirror][q]
    BY ClientTouches DEF Present
  <2> QED BY <2>1 DEF Alike
<1>3. \A n \in Machines : (Flying(n)' <=> Flying(n)) /\ run'[n] = run[n]
  BY <1>0 DEF Flying
<1>4. Steady'
  BY <1>0, <1>1 DEF Steady
<1>5. Staging' /\ LocalFlights' /\ LocalOne'
  <2>1. \A n \in Machines : LocalFlight(n) /\ run[n].phase = "replaced" =>
            LocalFlight(n)' /\ run'[n].phase = "replaced"
    BY <1>3 DEF LocalFlight
  <2> QED BY <1>0, <1>1, <1>3, <2>1, LocalStays
<1>6. HoldersStay /\ FreshStays
  BY <1>0, <1>2, <1>3, NoneTakesOff
<1>7. AgreedStays
  BY <1>0 DEF AgreedStays, Agreed
<1>8. MirrorHeld' /\ AllHeld'
  BY <1>0, <1>1, <1>2, <1>6, <1>7, HoldingOn
<1> QED BY <1>4, <1>5, <1>8

\* Codex's own file goes on where it is put, and no apply of that machine runs.
LEMMA RewritingRecorded == ASSUME Base, InvRecorded, NEW m \in Machines, Rewriting(m) PROVE InvRecorded'
<1> SUFFICES ASSUME ~interrupted', used'["headless"] = 0
             PROVE (Steady /\ Staging /\ LocalFlights /\ LocalOne /\ MirrorHeld /\ AllHeld)'
  BY DEF InvRecorded
<1>0. PICK p \in Paths, q \in Paths, h \in History : Rewrites(m, p, q, h)
  BY DEF Rewriting, CodexRewrites
<1>1. /\ UNCHANGED <<codex, entry, kept, run, interrupted>> /\ codex[m] /\ used["headless"] = 0
      /\ m \in Sides /\ m # Mirror /\ h # Absent
  BY SideParts, TransferAssumption DEF Rewriting, CodexRewrites, TransferAssumption
<1>2. /\ \A r \in Paths : files'[m][r] = IF r = q THEN h ELSE IF r = p THEN Absent ELSE files[m][r]
      /\ \A s \in Sides \ {m} : files'[s] = files[s]
      /\ p \in Present(m) /\ Continues(files[m][p].recs, h.recs)
      /\ written' = written \/ written' = written \union {h.recs}
  BY <1>0 DEF Rewrites
<1>3. Steady /\ Staging /\ LocalFlights /\ LocalOne /\ MirrorHeld /\ AllHeld
  BY <1>1 DEF InvRecorded
<1>4. \A n \in Machines : (Flying(n)' <=> Flying(n)) /\ (Flying(n) => n # m) /\ run'[n] = run[n]
  BY <1>1 DEF Flying
<1>5. \A n \in Machines \ {m} : files'[n] = files[n] /\ n \in Sides
  BY <1>2, SideParts
<1>6. Alike(Mirror)
  BY <1>1, <1>2, SideParts DEF Alike
<1>7. Steady'
  BY <1>1, <1>3 DEF Steady
<1>8. Staging' /\ LocalFlights'
  <2>1. Staging'
    BY <1>3, <1>4, <1>5 DEF Staging, MirrorFlight
  <2>2. LocalFlights'
    BY <1>3, <1>4, <1>5 DEF LocalFlights, LocalFlight, Present
  <2> QED BY <2>1, <2>2
<1>9. \A r \in Present(m) : r = p
  BY <1>2, <1>3, <1>4 DEF LocalOne, LocalFlight
<1>10. LocalOne'
  <2>1. \A r, s \in Present(m)' : r = s
    BY <1>2, <1>9 DEF Present
  <2> QED BY <1>3, <1>4, <1>5, <2>1 DEF LocalOne, LocalFlight, Present
<1>11. HoldersStay
  <2> SUFFICES ASSUME NEW w \in Machines, NEW r \in Paths, NEW g, Holds(w, r, g)
               PROVE  \E s \in Paths : Holds(w, s, g)'
    BY DEF HoldersStay
  <2>1. CASE w # m
    BY <1>4, <1>5, <2>1 DEF Holds, AtRisk, LocalFlight
  <2>2. CASE w = m
    <3>1. r = p /\ Continues(g, files[m][p].recs)
      BY <1>9, <2>2 DEF Holds, Present
    <3>2. Continues(g, h.recs)
      BY <1>2, <3>1, ContinuesOn
    <3>3. files'[m][q] = h
      BY <1>2
    <3>4. ~LocalFlight(m)'
      BY <1>4 DEF LocalFlight
    <3> QED BY <1>1, <2>2, <3>2, <3>3, <3>4 DEF Holds, AtRisk
  <2> QED BY <2>1, <2>2
<1>12. FreshStays
  BY <1>4, <1>5, <1>6 DEF FreshStays, AllFresh, MirrorFlight, Alike, Present
<1>13. AgreedStays
  BY <1>1 DEF AgreedStays, Agreed
<1>14. ASSUME NEW g \in written' PROVE g \in written \/ HeldOn(g)'
  <2>1. files'[m][q] = h /\ ~LocalFlight(m)'
    BY <1>2, <1>4 DEF LocalFlight
  <2>2. Holds(m, q, h.recs)'
    BY <1>1, <2>1, ContinuesSelf DEF Holds, AtRisk
  <2>3. HeldOn(h.recs)'
    BY <2>2 DEF HeldOn
  <2> QED BY <1>2, <1>14, <2>3
<1>15. MirrorHeld' /\ AllHeld'
  BY <1>1, <1>3, <1>6, <1>11, <1>12, <1>13, <1>14, HoldingOn
<1> QED BY <1>7, <1>8, <1>10, <1>15

\* A write into .codex changes no file anybody counts on.
LEMMA LocalWriteRecorded ==
  ASSUME Base, InvRecorded, NEW m \in Machines, Replace(m) \/ Remove(m), run[m].item.side = "local"
  PROVE  InvRecorded'
<1> SUFFICES ASSUME ~interrupted', used'["headless"] = 0
             PROVE (Steady /\ Staging /\ LocalFlights /\ LocalOne /\ MirrorHeld /\ AllHeld)'
  BY DEF InvRecorded
<1> DEFINE i == run[m].item
<1>0. /\ UNCHANGED <<codex, entry, kept, written, interrupted, used>>
      /\ run[m] # None /\ run'[m] # None /\ run'[m].item = i /\ ~codex[m]
      /\ \A n \in Machines \ {m} : run'[n] = run[n]
      /\ \A s \in Sides \ {m} : files'[s] = files[s]
      /\ \A r \in Paths \ {i.to, i.old} : files'[m][r] = files[m][r]
      /\ m \in Sides /\ m # Mirror /\ i.to \in Paths /\ i.old # i.to
      /\ run[m].phase \in {"committing", "replaced"}
  <2>1. Dest(m) = m /\ m \in Sides /\ m # Mirror
    BY SideParts DEF Dest
  <2>2. CASE Replace(m)
    BY <2>1, <2>2, ReplaceParts DEF codexState, ItemFormed
  <2>3. CASE Remove(m)
    BY <2>1, <2>3, RemoveKeeps, RemoveParts DEF codexState, ghosts, ItemFormed
  <2> QED BY <2>2, <2>3
<1>00. \/ run[m].phase = "committing" /\ run'[m].phase = "replaced"
       \/ /\ run'[m].phase = "removed"
          /\ \A r, s \in Paths : files'[m][r] # Absent /\ files'[m][s] # Absent
                                 /\ r \in {i.to, i.old} /\ s \in {i.to, i.old} => r = s
  <2>1. Dest(m) = m
    BY DEF Dest
  <2>2. CASE Replace(m)
    <3>1. CASE i.old = None
      <4>1. None \notin Paths
        BY TransferAssumption DEF TransferAssumption
      <4> QED BY <2>2, <3>1, <4>1, ReplaceParts
    <3>2. CASE i.old # None
      BY <2>2, <3>2, ReplaceParts
    <3> QED BY <3>1, <3>2
  <2>3. CASE Remove(m)
    BY <2>1, <2>3, RemoveKeeps, RemoveParts
  <2> QED BY <2>2, <2>3
<1>1. Steady /\ Staging /\ LocalFlights /\ LocalOne /\ MirrorHeld /\ AllHeld
  BY <1>0 DEF InvRecorded
<1>2. LocalFlight(m) /\ Present(m) \subseteq {i.to, i.old}
  BY <1>0, <1>1 DEF LocalFlights, LocalFlight, Flying, Unfinished
<1>3. \A n \in Machines \ {m} : (Flying(n)' <=> Flying(n)) /\ run'[n] = run[n] /\ files'[n] = files[n]
  BY <1>0, SideParts DEF Flying
<1>4. Present(m)' \subseteq {i.to, i.old}
  BY <1>0, <1>2 DEF Present
<1>5. Steady'
  BY <1>0, <1>1 DEF Steady
<1>6. Staging'
  BY <1>0, <1>1, <1>3 DEF Staging, MirrorFlight
<1>7. LocalFlights'
  BY <1>0, <1>1, <1>3, <1>4 DEF LocalFlights, LocalFlight, Present
<1>8. LocalOne'
  <2>1. (\A r, s \in Present(m)' : r = s) \/ (LocalFlight(m)' /\ run'[m].phase = "replaced")
    BY <1>0, <1>00, <1>4 DEF Present, LocalFlight, Flying, Unfinished
  <2>2. \A n \in Machines \ {m} : \/ \A r, s \in Present(n)' : r = s
                                  \/ LocalFlight(n)' /\ run'[n].phase = "replaced"
    BY <1>1, <1>3 DEF LocalOne, LocalFlight, Present
  <2> QED BY <2>1, <2>2 DEF LocalOne
<1>9. HoldersStay
  <2> SUFFICES ASSUME NEW w \in Machines, NEW r \in Paths, NEW g, Holds(w, r, g)
               PROVE  Holds(w, r, g)'
    BY DEF HoldersStay
  <2>1. CASE w # m
    BY <1>3, <2>1 DEF Holds, AtRisk, LocalFlight
  <2>2. CASE w = m
    BY <1>2, <2>2 DEF Holds, AtRisk, Present
  <2> QED BY <2>1, <2>2
<1>10. Alike(Mirror)
  BY <1>0, SideParts DEF Alike
<1>11. FreshStays
  BY <1>0, <1>3, <1>10 DEF FreshStays, AllFresh, MirrorFlight, Alike, Present
<1>12. AgreedStays
  BY <1>0, <1>00 DEF AgreedStays, Agreed, Unfinished
<1>13. MirrorHeld' /\ AllHeld'
  BY <1>0, <1>1, <1>9, <1>10, <1>11, <1>12, HoldingOn
<1> QED BY <1>5, <1>6, <1>7, <1>8, <1>13

\* A write into the mirror: its writer holds what it wrote, and what was there.
LEMMA MirrorWriteRecorded ==
  ASSUME Base, InvRecorded, NEW m \in Machines, Replace(m) \/ Remove(m), run[m].item.side = "mirror"
  PROVE  InvRecorded'
<1> SUFFICES ASSUME ~interrupted', used'["headless"] = 0
             PROVE (Steady /\ Staging /\ LocalFlights /\ LocalOne /\ MirrorHeld /\ AllHeld)'
  BY DEF InvRecorded
<1> DEFINE i == run[m].item
<1>0. /\ UNCHANGED <<codex, entry, kept, written, interrupted, used>>
      /\ run[m] # None /\ run'[m] # None /\ run'[m].item = i /\ ~codex[m]
      /\ \A n \in Machines \ {m} : run'[n] = run[n]
      /\ \A n \in Machines : files'[n] = files[n]
      /\ i.to \in Paths /\ i.from \in Paths /\ i.old # i.to /\ i.place = i.to.place
      /\ run[m].phase \in {"committing", "replaced"} /\ run'[m].phase \in {"replaced", "removed"}
      /\ run'[m].phase = "replaced" => run[m].phase = "committing"
      /\ run[m].phase = "committing" /\ run'[m].phase = "removed" => i.old = None
  <2>1. Dest(m) = Mirror /\ \A n \in Machines : n \in Sides \ {Mirror}
    BY SideParts DEF Dest
  <2>2. CASE Replace(m)
    BY <2>1, <2>2, ReplaceParts DEF codexState, ItemFormed
  <2>3. CASE Remove(m)
    BY <2>1, <2>3, RemoveKeeps, RemoveParts DEF codexState, ghosts, ItemFormed
  <2> QED BY <2>2, <2>3
<1>1. Steady /\ Staging /\ LocalFlights /\ LocalOne /\ MirrorHeld /\ AllHeld
  BY <1>0 DEF InvRecorded
<1>2. /\ MirrorFlight(m) /\ files[m][i.from] # Absent
      /\ run[m].phase = "committing" => run[m].staged.recs = files[m][i.from].recs
  BY <1>0, <1>1 DEF Staging, MirrorFlight, Flying, Unfinished
<1>3. PICK x \in Paths :
         /\ x \in {i.to, i.old} /\ (run[m].phase = "replaced" => x = i.old)
         /\ \A r \in Paths \ {x} : files'[Mirror][r] = files[Mirror][r]
         /\ files'[Mirror][x] # Absent => x = i.to /\ files'[Mirror][x].recs = files[m][i.from].recs
  <2>1. Dest(m) = Mirror
    BY DEF Dest
  <2>2. CASE Replace(m)
    BY <1>0, <1>2, <2>1, <2>2, ReplaceParts
  <2>3. CASE Remove(m)
    BY <1>0, <2>1, <2>3, RemoveKeeps, RemoveParts
  <2> QED BY <2>2, <2>3
<1>4. \A n \in Machines \ {m} : (Flying(n)' <=> Flying(n)) /\ run'[n] = run[n]
  BY <1>0 DEF Flying
<1>5. ~LocalFlight(m) /\ ~LocalFlight(m)' /\ (MirrorFlight(m)' => run'[m].phase = "replaced")
  BY <1>0 DEF LocalFlight, MirrorFlight, Flying, Unfinished
<1>6. Steady'
  BY <1>0, <1>1 DEF Steady
<1>7. Staging'
  BY <1>0, <1>1, <1>2, <1>4, <1>5 DEF Staging, MirrorFlight
<1>8. LocalFlights' /\ LocalOne'
  BY <1>0, <1>1, <1>4, <1>5 DEF LocalFlights, LocalOne, LocalFlight, Present
<1>9. HoldersStay
  BY <1>0, <1>4, <1>5 DEF HoldersStay, Holds, AtRisk, LocalFlight
<1>10. ASSUME NEW p \in Paths, p # x, AllFresh(p) PROVE AllFresh(p)'
  BY <1>0, <1>2, <1>3, <1>4, <1>10 DEF AllFresh, MirrorFlight
<1>11. ASSUME NEW w \in Machines, NEW p \in Paths, p # x, Agreed(w, p) PROVE Agreed(w, p)'
  <2>1. CASE w # m
    BY <1>0, <1>11, <2>1 DEF Agreed
  <2>2. CASE w = m
    <3>1. None # p
      BY TransferAssumption DEF TransferAssumption
    <3> QED BY <1>0, <1>3, <1>11, <2>2, <3>1 DEF Agreed, Unfinished
  <2> QED BY <2>1, <2>2
<1>12. \A h : InBundle(h) => InBundle(h)'
  BY <1>0 DEF InBundle
<1>13. ASSUME NEW h, Continues(h, files[m][i.from].recs) PROVE Holds(m, i.from, h)'
  BY <1>0, <1>2, <1>5, <1>13 DEF Holds, AtRisk
<1>14. MirrorHeld'
  <2> SUFFICES ASSUME NEW p \in Present(Mirror)', NEW h, h = files'[Mirror][p].recs PROVE Covered(h, p)'
    BY DEF MirrorHeld
  <2>1. p \in Paths /\ files'[Mirror][p] # Absent
    BY DEF Present
  <2>2. CASE p = x
    <3>1. Holds(m, i.from, h)' /\ p = i.to
      BY <1>3, <1>13, <2>1, <2>2, ContinuesSelf
    <3>2. Agreed(m, p)'
      BY <1>0, <3>1 DEF Agreed
    <3> QED BY <1>0, <3>1, <3>2 DEF Covered
  <2>3. CASE p # x
    <3>1. p \in Present(Mirror) /\ h = files[Mirror][p].recs
      BY <1>3, <2>1, <2>3 DEF Present
    <3>2. Covered(h, p)
      BY <1>1, <3>1 DEF MirrorHeld
    <3> QED BY <1>9, <1>10, <1>11, <1>12, <2>1, <2>3, <3>2 DEF Covered, HoldersStay
  <2> QED BY <2>2, <2>3
<1>15. AllHeld'
  <2> SUFFICES ASSUME NEW h, HeldOn(h) PROVE HeldOn(h)'
    BY <1>0, <1>1 DEF AllHeld
  <2>1. CASE InBundle(h) \/ \E w \in Machines, q \in Paths : Holds(w, q, h)
    BY <1>9, <1>12, <2>1 DEF HeldOn, HoldersStay
  <2>2. CASE \E p \in Present(Mirror) : Continues(h, files[Mirror][p].recs) /\ AllFresh(p)
    <3>1. PICK p \in Present(Mirror) : Continues(h, files[Mirror][p].recs) /\ AllFresh(p)
      BY <2>2
    <3>2. p \in Paths /\ files[Mirror][p] # Absent
      BY DEF Present
    <3>3. CASE p = x
      <4>1. Continues(files[Mirror][p].recs, files[m][i.from].recs)
        BY <1>2, <1>3, <3>1, <3>3 DEF AllFresh
      <4>2. Continues(h, files[m][i.from].recs)
        BY <3>1, <4>1, ContinuesOn
      <4> QED BY <1>0, <1>13, <4>2 DEF HeldOn
    <3>4. CASE p # x
      <4>1. files'[Mirror][p] = files[Mirror][p] /\ AllFresh(p)'
        BY <1>3, <1>10, <3>1, <3>2, <3>4
      <4> QED BY <3>1, <3>2, <4>1 DEF HeldOn, Present
    <3> QED BY <3>3, <3>4
  <2> QED BY <2>1, <2>2 DEF HeldOn
<1> QED BY <1>6, <1>7, <1>8, <1>14, <1>15

\* What an apply that has just been confirmed starts from.
LEMMA RebuildFrom ==
  ASSUME Base, InvRecorded, NEW m \in Machines, Rebuild(m), ~interrupted', used'["headless"] = 0
  PROVE  /\ Steady /\ Staging /\ LocalFlights /\ LocalOne /\ MirrorHeld /\ AllHeld
         /\ UNCHANGED <<files, codex, entry, written>> /\ kept' = kept \union Bundled(plan[m])
         /\ run[m] = None /\ run'[m] # None /\ run'[m].phase = "rebuilt" /\ run'[m].item = plan[m]
         /\ \A n \in Machines \ {m} : run'[n] = run[n]
         /\ ~codex[m] /\ ItemFormed(plan[m])
         /\ Copies(Mirror) = Present(Mirror) /\ Copies(m) = Present(m)
         /\ Steady' /\ \A n \in Machines \ {m} : Flying(n)' <=> Flying(n)
<1>0. /\ UNCHANGED <<files, codex, entry, written, interrupted, used>>
      /\ run[m] = None /\ run'[m] # None
      /\ run'[m] = [phase |-> "rebuilt", item |-> plan[m], staged |-> Absent]
      /\ kept' = kept \union Bundled(plan[m])
      /\ ~codex[m] /\ \A n \in Machines \ {m} : run'[n] = run[n]
      /\ ItemFormed(plan[m])
  BY RebuildParts DEF codexState
<1>1. Steady /\ Staging /\ LocalFlights /\ LocalOne /\ MirrorHeld /\ AllHeld
  BY <1>0 DEF InvRecorded
<1>2. run'[m].phase = "rebuilt" /\ run'[m].item = plan[m]
  BY <1>0
<1>3. Copies(Mirror) = Present(Mirror) /\ Copies(m) = Present(m)
  BY <1>0 DEF Base, HeadlessSeen, LocalWhole, Copies
<1>4. Steady'
  BY <1>0, <1>1, <1>2 DEF Steady
<1>5. \A n \in Machines \ {m} : Flying(n)' <=> Flying(n)
  BY <1>0 DEF Flying
<1> QED BY <1>0, <1>1, <1>2, <1>3, <1>4, <1>5

\* An apply into the mirror takes off.
LEMMA ToMirrorRecorded ==
  ASSUME Base, InvRecorded, NEW m \in Machines, Rebuild(m), plan[m].side = "mirror"
  PROVE  InvRecorded'
<1> SUFFICES ASSUME ~interrupted', used'["headless"] = 0
             PROVE (Steady /\ Staging /\ LocalFlights /\ LocalOne /\ MirrorHeld /\ AllHeld)'
  BY DEF InvRecorded
<1> DEFINE i == plan[m]
<1>0. /\ Steady /\ Staging /\ LocalFlights /\ LocalOne /\ MirrorHeld /\ AllHeld
      /\ UNCHANGED <<files, codex, entry, written>> /\ kept' = kept \union Bundled(i)
      /\ run[m] = None /\ run'[m] # None /\ run'[m].phase = "rebuilt" /\ run'[m].item = i
      /\ \A n \in Machines \ {m} : run'[n] = run[n]
      /\ Copies(Mirror) = Present(Mirror) /\ Steady'
      /\ \A n \in Machines \ {m} : Flying(n)' <=> Flying(n)
  BY RebuildFrom
<1>1. /\ i.from \in Paths /\ files[m][i.from] # Absent /\ ItemFormed(i)
      /\ LosesNothing(m, i) /\ TakesTheCopy(m, i) /\ OneInMirror
      /\ DestOf(m, i) = Mirror /\ OriginOf(m, i) = m
  BY RebuildParts DEF Sound, WellFormed, ItemFormed, Copies, Present, DestOf, OriginOf
<1>2. ~LocalFlight(m)' /\ ~LocalFlight(m)
  BY <1>0 DEF LocalFlight, Flying
<1>3. Staging'
  BY <1>0, <1>1 DEF Staging, MirrorFlight
<1>4. LocalFlights' /\ LocalOne'
  BY <1>0, <1>2 DEF LocalFlights, LocalOne, LocalFlight, Present
<1>5. HoldersStay
  BY <1>0, <1>2 DEF HoldersStay, Holds, AtRisk, LocalFlight
<1>6. \A p \in Present(Mirror) : p \in {i.to, i.old}
  BY <1>0, <1>1 DEF TakesTheCopy, OneInMirror
<1>7. ASSUME NEW p \in Present(Mirror), NEW h, h = files[Mirror][p].recs, AllFresh(p)
      PROVE  AllFresh(p)' \/ InBundle(h)'
  <2>1. p \in Displaces(m, i)
    BY <1>1, <1>6 DEF Displaces
  <2>2. CASE i.by = "ancestry"
    <3>1. Continues(files[Mirror][p].recs, files[m][i.from].recs)
      BY <1>1, <2>1, <2>2 DEF LosesNothing, Prefix
    <3> QED BY <1>0, <1>7, <3>1 DEF AllFresh, MirrorFlight
  <2>3. CASE i.by # "ancestry"
    <3>1. files[Mirror][p] \in kept'
      BY <1>0, <1>1, <2>1, <2>3 DEF LosesNothing
    <3> QED BY <1>7, <3>1, ContinuesSelf DEF InBundle
  <2> QED BY <2>2, <2>3
<1>8. ASSUME NEW w \in Machines, NEW p \in Present(Mirror), Agreed(w, p) PROVE Agreed(w, p)'
  BY <1>0, <1>1, <1>6, <1>8 DEF Agreed, Unfinished, ItemFormed
<1>9. \A h : InBundle(h) => InBundle(h)'
  BY <1>0 DEF InBundle
<1>10. MirrorHeld'
  <2> SUFFICES ASSUME NEW p \in Present(Mirror), NEW h, h = files[Mirror][p].recs PROVE Covered(h, p)'
    BY <1>0 DEF MirrorHeld, Present
  <2>1. Covered(h, p)
    BY <1>0 DEF MirrorHeld
  <2> QED BY <1>5, <1>7, <1>8, <1>9, <2>1 DEF Covered, HoldersStay
<1>11. AllHeld'
  <2> SUFFICES ASSUME NEW h, HeldOn(h) PROVE HeldOn(h)'
    BY <1>0 DEF AllHeld
  <2>1. CASE InBundle(h) \/ \E w \in Machines, q \in Paths : Holds(w, q, h)
    BY <1>5, <1>9, <2>1 DEF HeldOn, HoldersStay
  <2>2. CASE \E p \in Present(Mirror) : Continues(h, files[Mirror][p].recs) /\ AllFresh(p)
    <3>1. PICK p \in Present(Mirror) : Continues(h, files[Mirror][p].recs) /\ AllFresh(p)
      BY <2>2
    <3>2. PICK g : g = files[Mirror][p].recs
      OBVIOUS
    <3>3. CASE AllFresh(p)'
      BY <1>0, <3>1, <3>3 DEF HeldOn, Present
    <3>4. CASE InBundle(g)'
      <4>1. Continues(h, g)
        BY <3>1, <3>2
      <4> QED BY <3>4, <4>1, ContinuesOn DEF HeldOn, InBundle
    <3> QED BY <1>7, <3>1, <3>2, <3>3, <3>4
  <2> QED BY <2>1, <2>2 DEF HeldOn
<1> QED BY <1>0, <1>3, <1>4, <1>10, <1>11

\* An apply into .codex takes off: whoever wrote the mirror last is not the
\* one that takes from it.
LEMMA ToLocalRecorded ==
  ASSUME Base, InvRecorded, NEW m \in Machines, Rebuild(m), plan[m].side = "local"
  PROVE  InvRecorded'
<1> SUFFICES ASSUME ~interrupted', used'["headless"] = 0
             PROVE (Steady /\ Staging /\ LocalFlights /\ LocalOne /\ MirrorHeld /\ AllHeld)'
  BY DEF InvRecorded
<1> DEFINE i == plan[m]
<1>0. /\ Steady /\ Staging /\ LocalFlights /\ LocalOne /\ MirrorHeld /\ AllHeld
      /\ UNCHANGED <<files, codex, entry, written>> /\ kept' = kept \union Bundled(i)
      /\ run[m] = None /\ run'[m] # None /\ run'[m].phase = "rebuilt" /\ run'[m].item = i
      /\ \A n \in Machines \ {m} : run'[n] = run[n]
      /\ Copies(Mirror) = Present(Mirror) /\ Copies(m) = Present(m) /\ Steady'
      /\ \A n \in Machines \ {m} : Flying(n)' <=> Flying(n)
  BY RebuildFrom
<1>1. /\ i.from \in Paths /\ i.from \in Present(Mirror) /\ ItemFormed(i) /\ i.place = i.from.place
      /\ LosesNothing(m, i) /\ TakesTheCopy(m, i) /\ TakesOnlyNews(m, i) /\ OneInMirror
      /\ DestOf(m, i) = m /\ OriginOf(m, i) = Mirror
  BY RebuildParts DEF Sound, WellFormed, ItemFormed, Copies, DestOf, OriginOf
<1>2. \A p \in Present(Mirror) : p = i.from
  BY <1>0, <1>1 DEF OneInMirror
<1>3. ~LocalFlight(m) /\ ~MirrorFlight(m) /\ ~MirrorFlight(m)'
  BY <1>0 DEF LocalFlight, MirrorFlight, Flying
<1>4. (\A p, q \in Present(m) : p = q) /\ Present(m) \subseteq {i.to, i.old}
  BY <1>0, <1>1, <1>3 DEF LocalOne, TakesTheCopy
<1>5. Staging'
  BY <1>0, <1>3 DEF Staging, MirrorFlight
<1>6. LocalFlights'
  BY <1>0, <1>4 DEF LocalFlights, LocalFlight, Present
<1>7. LocalOne'
  BY <1>0, <1>4 DEF LocalOne, LocalFlight, Present
<1>8. ASSUME NEW w \in Machines, NEW q \in Paths, NEW h, Holds(w, q, h), w # m
      PROVE  Holds(w, q, h)'
  BY <1>0, <1>8 DEF Holds, AtRisk, LocalFlight
<1>9. \A p \in Present(Mirror) : AllFresh(p) => AllFresh(p)'
  BY <1>0, <1>3 DEF AllFresh, MirrorFlight
<1>10. \A h : InBundle(h) => InBundle(h)'
  BY <1>0 DEF InBundle
<1>11. ASSUME NEW q \in Paths, NEW h, Holds(m, q, h)
       PROVE  /\ q \in Displaces(m, i) /\ Continues(h, files[m][q].recs)
              /\ InBundle(h)' \/ i.by = "ancestry"
  <2>1. q \in Displaces(m, i) /\ Continues(h, files[m][q].recs)
    BY <1>1, <1>4, <1>11 DEF Holds, Displaces, Present
  <2>2. i.by # "ancestry" => files[m][q] \in kept'
    BY <1>0, <1>1, <2>1 DEF LosesNothing
  <2> QED BY <2>1, <2>2 DEF InBundle
\* What lies in the mirror does not rest on this machine.
<1>12. ASSUME NEW h, h = files[Mirror][i.from].recs
       PROVE  \/ InBundle(h)'
              \/ AllFresh(i.from)
              \/ \E w \in Machines \ {m}, q \in Paths : Holds(w, q, h) /\ Agreed(w, i.from)
  <2>1. Covered(h, i.from)
    BY <1>0, <1>1, <1>12 DEF MirrorHeld
  <2> SUFFICES ASSUME NEW q \in Paths, Holds(m, q, h), Agreed(m, i.from) PROVE InBundle(h)'
    BY <1>10, <2>1 DEF Covered
  <2>2. entry[m] = i.from.place
    BY <1>0 DEF Agreed
  <2>3. i.by # "ancestry"
    BY <1>1, <1>11, <1>12, <2>2 DEF TakesOnlyNews
  <2> QED BY <1>11, <2>3
<1>13. MirrorHeld'
  <2> SUFFICES ASSUME NEW p \in Present(Mirror), NEW h, h = files[Mirror][p].recs PROVE Covered(h, p)'
    BY <1>0 DEF MirrorHeld, Present
  <2>1. p = i.from
    BY <1>2
  <2>2. ASSUME NEW w \in Machines \ {m}, Agreed(w, p) PROVE Agreed(w, p)'
    BY <1>0, <2>2 DEF Agreed
  <2>3. \/ InBundle(h)'
        \/ AllFresh(p)
        \/ \E w \in Machines \ {m}, q \in Paths : Holds(w, q, h) /\ Agreed(w, p)
    BY <1>12, <2>1
  <2> QED BY <1>8, <1>9, <2>2, <2>3 DEF Covered
<1>14. AllHeld'
  <2> SUFFICES ASSUME NEW h, HeldOn(h) PROVE HeldOn(h)'
    BY <1>0 DEF AllHeld
  <2>1. CASE InBundle(h) \/ \E w \in Machines \ {m}, q \in Paths : Holds(w, q, h)
    BY <1>8, <1>10, <2>1 DEF HeldOn
  <2>2. ASSUME NEW p \in Present(Mirror), Continues(h, files[Mirror][p].recs), AllFresh(p)
        PROVE  HeldOn(h)'
    BY <1>0, <1>9, <2>2 DEF HeldOn, Present
  <2>3. CASE \E q \in Paths : Holds(m, q, h)
    <3>1. PICK q \in Paths : Holds(m, q, h)
      BY <2>3
    <3>2. CASE i.by # "ancestry"
      BY <1>11, <3>1, <3>2 DEF HeldOn
    <3>3. CASE i.by = "ancestry"
      <4>1. PICK g : g = files[Mirror][i.from].recs
        OBVIOUS
      <4>2. Continues(h, g)
        <5>1. Continues(h, files[m][q].recs) /\ Continues(files[m][q].recs, g)
          BY <1>1, <1>11, <3>1, <3>3, <4>1 DEF LosesNothing, Prefix
        <5> QED BY <5>1, ContinuesOn
      <4>3. CASE InBundle(g)'
        BY <4>2, <4>3, ContinuesOn DEF HeldOn, InBundle
      <4>4. CASE AllFresh(i.from)
        BY <1>1, <2>2, <4>1, <4>2, <4>4
      <4>5. ASSUME NEW w \in Machines \ {m}, NEW r \in Paths, Holds(w, r, g) PROVE HeldOn(h)'
        <5>1. Holds(w, r, h)
          BY <4>2, <4>5, ContinuesOn DEF Holds
        <5> QED BY <1>8, <5>1 DEF HeldOn
      <4> QED BY <1>12, <4>1, <4>3, <4>4, <4>5
    <3> QED BY <3>2, <3>3
  <2> QED BY <2>1, <2>2, <2>3 DEF HeldOn
<1> QED BY <1>0, <1>5, <1>6, <1>7, <1>13, <1>14

\* At the start.
LEMMA InitRecorded == Init => InvRecorded
<1> SUFFICES ASSUME Init PROVE Steady /\ Staging /\ LocalFlights /\ LocalOne /\ MirrorHeld /\ AllHeld
  BY DEF InvRecorded
<1>0. \A n \in Machines : run[n] = None
  BY DEF Init
<1>1. Steady /\ Staging /\ LocalFlights
  BY <1>0 DEF Steady, Staging, LocalFlights, LocalFlight, MirrorFlight, Flying
<1>2. LocalOne
  <2>1. PICK s \in Starts : files = s.files
    BY DEF Init
  <2>2. \A d \in Sides : OnceAndWhole(files[d])
    BY <2>1, TransferAssumption DEF TransferAssumption
  <2> QED BY <2>2, SideParts DEF LocalOne, Present, OnceAndWhole
<1>3. \A p : AllFresh(p)
  BY <1>0 DEF AllFresh, MirrorFlight, Flying
<1>4. MirrorHeld
  BY <1>3 DEF MirrorHeld, Covered
<1>5. AllHeld
  <2> SUFFICES ASSUME NEW h \in written PROVE HeldOn(h)
    BY DEF AllHeld
  <2>1. PICK s \in Sides, p \in Paths : files[s][p] # Absent /\ h = files[s][p].recs
    BY DEF Init, Present
  <2>2. CASE s = Mirror
    BY <1>3, <2>1, <2>2, ContinuesSelf DEF HeldOn, Present
  <2>3. CASE s \in Machines
    BY <1>0, <2>1, <2>3, ContinuesSelf DEF HeldOn, Holds, AtRisk, LocalFlight, Flying
  <2> QED BY <2>2, <2>3 DEF Sides
<1> QED BY <1>1, <1>2, <1>4, <1>5

\* Every step keeps it.
LEMMA RecordedStep == ASSUME Base, InvRecorded, [Next]_vars PROVE InvRecorded'
<1>1. ASSUME NEW m \in Machines, Replace(m) \/ Remove(m) PROVE InvRecorded'
  <2>1. run[m] # None /\ ItemFormed(run[m].item)
    BY <1>1 DEF Replace, Remove, Phase, Base, RunFormed
  <2>2. run[m].item.side \in {"mirror", "local"}
    BY <2>1 DEF ItemFormed
  <2> QED BY <1>1, <2>2, LocalWriteRecorded, MirrorWriteRecorded
<1>2. ASSUME NEW m \in Machines, Rebuild(m) PROVE InvRecorded'
  <2>1. plan[m].side \in {"mirror", "local"}
    BY <1>2, RebuildParts DEF ItemFormed
  <2> QED BY <1>2, <2>1, ToMirrorRecorded, ToLocalRecorded
<1>3. CASE Next
  BY <1>1, <1>2, <1>3, NextKinds, QuietRecorded, OnwardRecorded, EndsRecorded, RewritingRecorded,
     ClientRecorded DEF Advances
<1>4. CASE UNCHANGED vars
  BY <1>4 DEF vars, codexState, ghosts, InvRecorded, Steady, Staging, LocalFlights, LocalOne,
     MirrorHeld, AllHeld, Covered, HeldOn, InBundle, AllFresh, Agreed, Holds, AtRisk, LocalFlight,
     MirrorFlight, Flying, Present
<1> QED BY <1>3, <1>4

\* Where every apply past COMMITTING was recorded, all is held, in any
\* behaviour and however the applies of the machines overlap.
THEOREM RecordedCorrect == Spec => []InvRecorded
<1>1. Base /\ InvRecorded /\ [Next]_vars => InvRecorded'
  BY RecordedStep
<1> QED BY InitRecorded, BaseCorrect, <1>1, PTL DEF Spec

\* No decision, move, interruption or race of two machines loses records, for
\* any number of machines, settings, starts and events.
THEOREM NothingIsLost == Spec => []NothingLost
<1>1. Base /\ InvAlone /\ InvRecorded => NothingLost
  <2> SUFFICES ASSUME Base, InvAlone, InvRecorded,
                      ~(overlap /\ (interrupted \/ used["headless"] > 0)), NEW h \in written
               PROVE  TypeOK /\ Survives(h)
    BY DEF NothingLost, Base
  <2>1. CASE ~overlap
    BY <2>1 DEF InvAlone, Surviving, Base
  <2>2. CASE overlap
    <3>1. used["headless"] \in Nat /\ overlap \in BOOLEAN /\ interrupted \in BOOLEAN
      BY EventParts DEF Base, TypeOK
    <3>2. ~interrupted /\ used["headless"] = 0
      BY <2>2, <3>1
    <3>3. HeldOn(h)
      BY <3>2 DEF InvRecorded, AllHeld
    <3>4. \A m \in Machines : m \in Sides
      BY SideParts
    <3>5. GoesOn(h)
      BY <3>3, <3>4, SideParts DEF HeldOn, GoesOn, Holds, Present
    <3> QED BY <3>5, SurvivesGoesOn DEF Base
  <2> QED BY <2>1, <2>2
<1> QED BY BaseCorrect, AloneCorrect, RecordedCorrect, <1>1, PTL

-----------------------------------------------------------------------------
(***************************************************************************)
(* One file of the chat on a side.                                         *)
(***************************************************************************)
MirrorFlights == \A m \in Machines :
    MirrorFlight(m) => Present(Mirror) \subseteq {run[m].item.to, run[m].item.old}
MirrorOne == \/ \A p, q \in Present(Mirror) : p = q
             \/ \E m \in Machines : MirrorFlight(m) /\ run[m].phase = "replaced"
Regular == ~overlap /\ ~interrupted /\ used["headless"] = 0
InvOne == Regular => MirrorFlights /\ MirrorOne

\* The exceptions stay exceptions.
LEMMA RegularBefore == ASSUME Base, [Next]_vars, Regular' PROVE Regular
<1>1. ASSUME NEW m \in Machines, Quiet(m) PROVE Regular
  BY <1>1, QuietParts DEF Regular
<1>2. ASSUME NEW m \in Machines, Advances(m) PROVE Regular
  <2>1. CASE Rebuild(m)
    <3>1. overlap' = (overlap \/ \E n \in Machines \ {m} : run[n] # None)
      BY <2>1 DEF Rebuild
    <3> QED BY <2>1, <3>1, RebuildParts DEF Regular
  <2>2. CASE Prepare(m) \/ Commit(m) \/ Verify(m)
    BY <2>2 DEF Prepare, Commit, Verify, ghosts, Regular
  <2> QED BY <1>2, <2>1, <2>2 DEF Advances
<1>3. ASSUME NEW m \in Machines, Replace(m) PROVE Regular
  BY <1>3, ReplaceParts DEF Regular
<1>4. ASSUME NEW m \in Machines, Remove(m) PROVE Regular
  BY <1>4 DEF Remove, ghosts, Regular
<1>5. ASSUME NEW m \in Machines, Ends(m) PROVE Regular
  BY <1>5, EndsParts DEF Regular
<1>6. ASSUME NEW m \in Machines, Rewriting(m) PROVE Regular
  BY <1>6 DEF Rewriting, CodexRewrites, Regular
<1>7. ASSUME NEW p \in Paths, Client(p) PROVE Regular
  BY <1>7, ClientTouches DEF ghosts, Regular
<1>8. CASE UNCHANGED vars
  BY <1>8 DEF vars, ghosts, Regular
<1> QED BY <1>1, <1>2, <1>3, <1>4, <1>5, <1>6, <1>7, <1>8, NextKinds

\* What is regular: no two applies, and none that is cut off.
LEMMA RegularParts ==
  ASSUME Base, InvAlone, InvRecorded, InvOne, Regular
  PROVE  /\ Alone /\ Steady /\ Staging /\ LocalFlights /\ LocalOne /\ MirrorFlights /\ MirrorOne
         /\ Copies(Mirror) = Present(Mirror) /\ \A m \in Machines : Copies(m) = Present(m)
<1>1. Copies(Mirror) = Present(Mirror) /\ \A m \in Machines : Copies(m) = Present(m)
  BY DEF Regular, Base, HeadlessSeen, LocalWhole, Copies
<1> QED BY <1>1 DEF InvAlone, InvRecorded, InvOne, Regular

\* Every step keeps one file in the mirror.
LEMMA OneStep == ASSUME Base, InvAlone, InvRecorded, InvOne, [Next]_vars PROVE InvOne'
<1> SUFFICES ASSUME Regular' PROVE MirrorFlights' /\ MirrorOne'
  BY DEF InvOne
<1>0. /\ Regular /\ Alone /\ Steady /\ LocalOne /\ MirrorFlights /\ MirrorOne
      /\ Copies(Mirror) = Present(Mirror) /\ RunFormed
  BY RegularBefore, RegularParts DEF Base
\* Steps that bring no apply and leave the mirror as it is.
<1>1. ASSUME Present(Mirror)' = Present(Mirror),
             \A n \in Machines : Flying(n)' => Flying(n) /\ run'[n].item = run[n].item,
             \A n \in Machines : MirrorFlight(n) /\ run[n].phase = "replaced" =>
                MirrorFlight(n)' /\ run'[n].phase = "replaced"
      PROVE  MirrorFlights' /\ MirrorOne'
  <2>1. MirrorFlights'
    BY <1>0, <1>1 DEF MirrorFlights, MirrorFlight
  <2>2. MirrorOne'
    BY <1>0, <1>1 DEF MirrorOne
  <2> QED BY <2>1, <2>2
<1>2. ASSUME NEW m \in Machines, Quiet(m) PROVE MirrorFlights' /\ MirrorOne'
  <2>1. /\ UNCHANGED <<files, run>>
        /\ \A n \in Machines : run[n] # None /\ ~codex'[n] => ~codex[n]
        /\ \A n \in Machines :
              run[n] # None /\ ~codex[n] /\ run[n].phase \in {"committing", "replaced"} => ~codex'[n]
    BY <1>2, QuietParts DEF Regular
  <2> QED BY <1>1, <2>1 DEF Flying, MirrorFlight, Present
<1>3. ASSUME NEW m \in Machines, Rebuild(m) PROVE MirrorFlights' /\ MirrorOne'
  <2>1. /\ files' = files /\ run'[m].item = plan[m] /\ TakesTheCopy(m, plan[m])
    <3>1. run'[m] = [phase |-> "rebuilt", item |-> plan[m], staged |-> Absent]
      BY <1>3, RebuildParts
    <3>2. run'[m].item = plan[m]
      BY <3>1
    <3> QED BY <1>3, <3>2, RebuildParts DEF Sound
  <2>2. \A n \in Machines \ {m} : run[n] = None /\ run'[n] = None
    <3>1. overlap' = (overlap \/ \E n \in Machines \ {m} : run[n] # None)
      BY <1>3 DEF Rebuild
    <3> QED BY <1>3, <3>1, RebuildParts DEF Regular
  <2>3. run[m] = None
    BY <1>3, RebuildParts
  <2>4. \A p, q \in Present(Mirror) : p = q
    BY <1>0, <2>2, <2>3 DEF MirrorOne, MirrorFlight, Flying
  <2>5. MirrorOne'
    BY <2>1, <2>4 DEF MirrorOne, Present
  <2>6. run'[m].item.side = "mirror" => Present(Mirror) \subseteq {run'[m].item.to, run'[m].item.old}
    BY <1>0, <2>1, <2>4 DEF TakesTheCopy, DestOf
  <2>7. MirrorFlights'
    BY <2>1, <2>2, <2>6 DEF MirrorFlights, MirrorFlight, Flying, Present
  <2> QED BY <2>5, <2>7
<1>4. ASSUME NEW m \in Machines, Prepare(m) \/ Commit(m) \/ Verify(m) PROVE MirrorFlights' /\ MirrorOne'
  <2>1. /\ UNCHANGED <<files, codex>> /\ run[m] # None /\ run'[m].item = run[m].item
        /\ run[m].phase \in {"rebuilt", "prepared", "removed"}
        /\ run[m].phase = "removed" => run'[m].phase = "committed"
        /\ \A n \in Machines \ {m} : run'[n] = run[n]
    <3>1. CASE Prepare(m)
      BY <3>1, PrepareParts DEF codexState
    <3>2. CASE Commit(m)
      <4>1. run[m] # None /\ run[m].phase = "prepared" /\ To(m, "committing") /\ "committing" \in Phases
        BY <3>2 DEF Commit, Phase, Phases
      <4> QED BY <3>2, <4>1, PhaseParts DEF Commit, codexState
    <3>3. CASE Verify(m)
      <4>1. run[m] # None /\ run[m].phase = "removed" /\ To(m, "committed") /\ "committed" \in Phases
        BY <3>3 DEF Verify, Phase, Phases
      <4> QED BY <3>3, <4>1, PhaseParts DEF Verify, codexState
    <3> QED BY <1>4, <3>1, <3>2, <3>3
  <2> QED BY <1>1, <2>1 DEF Flying, MirrorFlight, Unfinished, Present
<1>5. ASSUME NEW m \in Machines, Replace(m) \/ Remove(m) PROVE MirrorFlights' /\ MirrorOne'
  <2> DEFINE i == run[m].item
  <2>0. /\ run[m] # None /\ run'[m] # None /\ run'[m].item = i /\ ~codex[m] /\ codex' = codex
        /\ \A n \in Machines \ {m} : run'[n] = run[n]
        /\ \A s \in Sides \ {Dest(m)} : files'[s] = files[s]
        /\ \A r \in Paths \ {i.to, i.old} : files'[Dest(m)][r] = files[Dest(m)][r]
        /\ i.to \in Paths /\ i.old # i.to /\ i.side \in {"mirror", "local"}
        /\ run[m].phase \in {"committing", "replaced"}
    <3>1. CASE Replace(m)
      BY <3>1, ReplaceParts DEF codexState, ItemFormed
    <3>2. CASE Remove(m)
      BY <3>2, RemoveKeeps, RemoveParts DEF codexState, ItemFormed
    <3> QED BY <1>5, <3>1, <3>2
  <2>1. \/ run[m].phase = "committing" /\ run'[m].phase = "replaced"
        \/ /\ run'[m].phase = "removed"
           /\ \A r, s \in Paths : files'[Dest(m)][r] # Absent /\ files'[Dest(m)][s] # Absent
                                  /\ r \in {i.to, i.old} /\ s \in {i.to, i.old} => r = s
    <3>1. CASE Replace(m)
      <4>1. None \notin Paths
        BY TransferAssumption DEF TransferAssumption
      <4> QED BY <3>1, <4>1, ReplaceParts
    <3>2. CASE Remove(m)
      BY <3>2, RemoveKeeps, RemoveParts
    <3> QED BY <1>5, <3>1, <3>2
  <2>2. \A n \in Machines \ {m} : run[n] = None /\ run'[n] = None
    BY <1>0, <2>0 DEF Alone
  <2>3. CASE i.side = "local"
    <3>1. Present(Mirror)' = Present(Mirror)
      BY <2>0, <2>3, SideParts DEF Present, Dest
    <3>2. \A n \in Machines : ~MirrorFlight(n) /\ ~MirrorFlight(n)'
      BY <2>0, <2>2, <2>3 DEF MirrorFlight, Flying
    <3> QED BY <1>0, <3>1, <3>2 DEF MirrorFlights, MirrorOne
  <2>4. CASE i.side = "mirror"
    <3>1. Dest(m) = Mirror /\ MirrorFlight(m)
      BY <2>0, <2>4 DEF Dest, MirrorFlight, Flying, Unfinished
    <3>2. Present(Mirror) \subseteq {i.to, i.old}
      BY <1>0, <3>1 DEF MirrorFlights
    <3>3. Present(Mirror)' \subseteq {i.to, i.old}
      BY <2>0, <3>1, <3>2 DEF Present
    <3>4. MirrorFlights'
      BY <2>0, <2>2, <3>3 DEF MirrorFlights, MirrorFlight, Flying
    <3>5. MirrorOne'
      <4>1. CASE run'[m].phase = "replaced"
        BY <2>0, <2>4, <4>1 DEF MirrorOne, MirrorFlight, Flying, Unfinished
      <4>2. CASE run'[m].phase # "replaced"
        BY <2>1, <3>1, <3>3, <4>2 DEF MirrorOne, Present
      <4> QED BY <4>1, <4>2
    <3> QED BY <3>4, <3>5
  <2> QED BY <2>0, <2>3, <2>4
<1>6. ASSUME NEW m \in Machines, Ends(m) PROVE MirrorFlights' /\ MirrorOne'
  <2>1. /\ UNCHANGED <<files, codex>> /\ run'[m] = None /\ \A n \in Machines \ {m} : run'[n] = run[n]
        /\ run[m].phase # "replaced"
    BY <1>0, <1>6, EndsParts DEF codexState, Regular, MayCommit
  <2> QED BY <1>1, <2>1 DEF Flying, MirrorFlight, Present
<1>7. ASSUME NEW m \in Machines, Rewriting(m) PROVE MirrorFlights' /\ MirrorOne'
  <2>1. UNCHANGED <<codex, run>> /\ files'[Mirror] = files[Mirror]
    BY <1>7, SideParts DEF Rewriting, CodexRewrites, Rewrites
  <2> QED BY <1>1, <2>1 DEF Flying, MirrorFlight, Present
<1>8. ASSUME NEW p \in Paths, Client(p) PROVE MirrorFlights' /\ MirrorOne'
  <2>1. UNCHANGED <<codex, run>>
    BY <1>8, ClientTouches DEF codexState
  <2>2. Present(Mirror)' = Present(Mirror)
    <3>1. /\ files[Mirror][p] # Absent /\ files'[Mirror][p] # Absent
          /\ \A q \in Paths \ {p} : files'[Mirror][q] = files[Mirror][q]
      BY <1>8, ClientTouches DEF Present
    <3> QED BY <3>1 DEF Present
  <2> QED BY <1>1, <2>1, <2>2 DEF Flying, MirrorFlight
<1>9. CASE UNCHANGED vars
  BY <1>1, <1>9 DEF vars, codexState, Flying, MirrorFlight, Present
<1> QED BY <1>2, <1>3, <1>4, <1>5, <1>6, <1>7, <1>8, <1>9, NextKinds DEF Advances

\* At the start.
LEMMA InitOne == Init => InvOne
<1> SUFFICES ASSUME Init PROVE MirrorFlights /\ MirrorOne
  BY DEF InvOne
<1>1. PICK s \in Starts : files = s.files
  BY DEF Init
<1>2. OnceAndWhole(files[Mirror])
  BY <1>1, SideParts, TransferAssumption DEF TransferAssumption
<1> QED BY <1>2 DEF Init, MirrorFlights, MirrorFlight, Flying, MirrorOne, Present, OnceAndWhole

\* Where nothing overlaps and nothing is cut off, an apply into the mirror
\* meets only what it replaces.
THEOREM OneCorrect == Spec => []InvOne
<1>1. Base /\ InvAlone /\ InvRecorded /\ InvOne /\ [Next]_vars => InvOne'
  BY OneStep
<1> QED BY InitOne, BaseCorrect, AloneCorrect, RecordedCorrect, <1>1, PTL DEF Spec

\* At most one of them.
LEMMA NoMoreThanOne == ASSUME NEW S, \A p, q \in S : p = q PROVE Cardinality(S) <= 1
<1>1. CASE S = {}
  BY <1>1, FS_EmptySet
<1>2. CASE S # {}
  <2>1. PICK p \in S : S = {p}
    BY <1>2
  <2>2. Cardinality({p}) = 1
    BY FS_Singleton, Zenon
  <2> QED BY <2>1, <2>2
<1> QED BY <1>1, <1>2

\* One chat is one file on a side, for any machines, settings and starts.
THEOREM ChatIsOneFile == Spec => []OneFilePerChat
<1>1. Base /\ InvAlone /\ InvRecorded /\ InvOne => OneFilePerChat
  <2> SUFFICES ASSUME Base, InvAlone, InvRecorded, InvOne,
                      ~(overlap \/ interrupted \/ used["headless"] > 0), NEW s \in Sides,
                      ~ \E m \in Machines : Phase(m) = "replaced"
               PROVE  Cardinality(Present(s)) <= 1
    BY DEF OneFilePerChat
  <2>1. Regular
    BY EventParts DEF Regular, Base, TypeOK
  <2>2. LocalOne /\ MirrorOne
    BY <2>1, RegularParts
  <2>3. \A p, q \in Present(s) : p = q
    BY <2>2 DEF LocalOne, MirrorOne, LocalFlight, MirrorFlight, Flying, Phase, Sides
  <2> QED BY <2>3, NoMoreThanOne
<1> QED BY BaseCorrect, AloneCorrect, RecordedCorrect, OneCorrect, <1>1, PTL

-----------------------------------------------------------------------------
(***************************************************************************)
(* What Codex has projected.                                               *)
(***************************************************************************)
\* A write into .codex beside a projected chat goes on from it.
LEMMA ProjectedStep ==
  ASSUME Base, InvAlone, Next, NEW m \in Machines, NEW p \in Paths,
         projected[m], Displaced(m, p), ~codex[m], ~overlap
  PROVE  \E q \in Paths : files'[m][q] # Absent /\ Prefix(files[m][p], files'[m][q])
<1>0. m \in Sides /\ m # Mirror /\ Alone /\ Flights /\ files'[m] # files[m]
  BY SideParts DEF InvAlone, Displaced
<1>1. PICK n \in Machines : Replace(n) \/ Remove(n)
  <2>1. ASSUME NEW n \in Machines, Quiet(n) PROVE FALSE
    BY <1>0, <2>1, QuietParts
  <2>2. ASSUME NEW n \in Machines, Advances(n) PROVE FALSE
    BY <1>0, <2>2 DEF Advances, Rebuild, Prepare, Commit, Verify
  <2>3. ASSUME NEW n \in Machines, Ends(n) PROVE FALSE
    BY <1>0, <2>3, EndsParts
  <2>4. ASSUME NEW n \in Machines, Rewriting(n) PROVE FALSE
    BY <1>0, <2>4 DEF Rewriting, CodexRewrites, Rewrites
  <2>5. ASSUME NEW q \in Paths, Client(q) PROVE FALSE
    BY <1>0, <2>5, ClientTouches
  <2> QED BY <2>1, <2>2, <2>3, <2>4, <2>5, NextKinds
<1> DEFINE i == run[m].item
<1>2. n = m /\ Dest(m) = m
  <2>1. \A s \in Sides \ {Dest(n)} : files'[s] = files[s]
    BY <1>1, ReplaceParts, RemoveKeeps, RemoveParts
  <2> QED BY <1>0, <2>1 DEF Dest
<1>3. /\ run[m] # None /\ ItemFormed(i) /\ i.side = "local"
      /\ run[m].phase \in {"committing", "replaced"}
  BY <1>0, <1>1, <1>2, ReplaceParts, RemoveKeeps, RemoveParts DEF Dest, ItemFormed
<1>4. SafeFlight(m)
  BY <1>0, <1>3 DEF Flights, Flying, Unfinished
<1>5. CASE Replace(m)
  <2>1. run[m].phase = "committing" /\ files'[m][i.to] = run[m].staged /\ p = i.to /\ i.to \in Paths
    BY <1>2, <1>3, <1>5, ReplaceParts DEF Displaced, ItemFormed
  <2>2. p \in Doomed(m)
    BY <1>2, <2>1 DEF Doomed, Present, Displaced
  <2>3. run[m].staged # Absent /\ Prefix(files[m][p], run[m].staged)
    BY <1>2, <1>3, <1>4, <2>1, <2>2 DEF SafeFlight, Replacement
  <2> QED BY <2>1, <2>3
<1>6. CASE Remove(m)
  <2>1. /\ run[m].phase = "replaced" /\ p = i.old /\ i.to \in Paths /\ i.to # i.old
        /\ files'[m][i.to] = files[m][i.to]
    BY <1>2, <1>3, <1>6, RemoveKeeps, RemoveParts DEF Displaced, ItemFormed
  <2>2. p \in Doomed(m)
    BY <1>2, <2>1 DEF Doomed, Present, Displaced
  <2>3. files[m][i.to] # Absent /\ Prefix(files[m][p], files[m][i.to])
    BY <1>2, <1>3, <1>4, <2>1, <2>2 DEF SafeFlight, Replacement
  <2> QED BY <2>1, <2>3
<1> QED BY <1>1, <1>2, <1>5, <1>6

\* What Codex has projected is never given other content by a sync.
THEOREM ProjectedIsHeld == Spec => ProjectionHolds
<1>1. Base /\ InvAlone /\ [Next]_vars =>
        [\A m \in Machines, p \in Paths :
           projected[m] /\ Displaced(m, p) /\ ~codex[m] /\ ~overlap =>
              \E q \in Paths : /\ files'[m][q] # Absent
                               /\ Prefix(files[m][p], files'[m][q])]_vars
  BY ProjectedStep
<1> QED BY BaseCorrect, AloneCorrect, <1>1, PTL DEF Spec, ProjectionHolds

-----------------------------------------------------------------------------
(***************************************************************************)
(* Who moved a chat.  What a plan knows of a move by ancestry: the side it *)
(* gives way to stands where this machine agreed, the other one does not.  *)
(***************************************************************************)
MovesKnown(m, i) ==
    /\ i.action = "write" =>
       /\ i.from.place = i.to.place
       /\ i.side = "mirror" /\ i.old # None => i.old.place # i.to.place
       /\ i.by = "ancestry" /\ i.old # None /\ i.old.place # i.to.place =>
             IF i.side = "mirror" THEN entry[m] = i.old.place ELSE entry[m] # i.to.place
    /\ i.action = "noop" => Copies(Mirror) # {} /\ \E p \in Copies(m) : p.place = i.place

\* Nothing moves without a write.
LEMMA LeftMoves == \A m, lp, rp : MovesKnown(m, Left(m, lp, rp))
  BY DEF MovesKnown, Left, Item

\* A move into the mirror.
LEMMA ToMirrorMoves ==
  ASSUME NEW m \in Machines, NEW st, NEW by, NEW lp \in Paths, NEW rp,
         by = "ancestry" /\ rp # None /\ rp.place # lp.place => entry[m] = rp.place
  PROVE  MovesKnown(m, ToMirror(m, st, by, lp, rp))
<1> DEFINE moving == rp # None /\ rp.place # lp.place
           to == At(lp.place, KeptBox(rp, st.box))
           old == IF moving THEN rp ELSE None
           i == Item(m, "write", "mirror", by, lp, rp, to, old)
<1>1. /\ i.action = "write" /\ i.side = "mirror" /\ i.by = by /\ i.from = lp /\ i.to = to
      /\ i.old = old /\ to.place = lp.place
  BY DEF Item, At
<1>2. MovesKnown(m, i)
  <2> HIDE DEF i
  <2> QED BY <1>1 DEF MovesKnown
<1>3. ToMirror(m, st, by, lp, rp) \in {i, Left(m, lp, rp)}
  BY DEF ToMirror
<1> QED BY <1>2, <1>3, LeftMoves

\* A move in .codex.
LEMMA ToLocalMoves ==
  ASSUME NEW m \in Machines, NEW st, NEW by, NEW lp, NEW rp \in Paths,
         by = "ancestry" /\ lp # None /\ lp.place # rp.place => entry[m] # rp.place
  PROVE  MovesKnown(m, ToLocal(m, st, by, lp, rp))
<1> DEFINE to == At(rp.place, "jsonl")
           old == IF lp = None \/ lp = to THEN None ELSE lp
           i == Item(m, "write", "local", by, lp, rp, to, old)
<1>1. /\ i.action = "write" /\ i.side = "local" /\ i.by = by /\ i.from = rp /\ i.to = to
      /\ i.old = old /\ to.place = rp.place
  BY DEF Item, At
<1>2. MovesKnown(m, i)
  <2> HIDE DEF i
  <2> QED BY <1>1 DEF MovesKnown
<1>3. ToLocal(m, st, by, lp, rp) \in {i, Left(m, lp, rp)}
  BY DEF ToLocal
<1> QED BY <1>2, <1>3, LeftMoves

\* A decision of a rule or a person moves what it likes.
LEMMA ResolvedMoves ==
  ASSUME NEW m \in Machines, NEW st, NEW lp \in Paths, NEW rp \in Paths
  PROVE  MovesKnown(m, Resolved(m, st, lp, rp))
<1> DEFINE c == Choice(m, st.rule, files[m][lp], files[Mirror][rp])
           i == Item(m, "conflict", "none", "none", lp, rp, None, None)
<1>1. c.by # "ancestry"
  BY DEF Choice
<1>2. MovesKnown(m, i)
  BY DEF MovesKnown, Item
<1>3. Resolved(m, st, lp, rp) \in {ToMirror(m, st, c.by, lp, rp), ToLocal(m, st, c.by, lp, rp), i}
  BY DEF Resolved
<1> HIDE DEF c, i
<1>4. MovesKnown(m, ToMirror(m, st, c.by, lp, rp)) /\ MovesKnown(m, ToLocal(m, st, c.by, lp, rp))
  BY <1>1, ToMirrorMoves, ToLocalMoves
<1> QED BY <1>2, <1>3, <1>4

\* An archive move goes by what this machine agreed.
LEMMA ArchiveMoveMoves ==
  ASSUME NEW m \in Machines, NEW st, NEW lp \in Paths, NEW rp \in Paths
  PROVE  MovesKnown(m, ArchiveMove(m, st, lp, rp))
<1>1. MovesKnown(m, Resolved(m, st, lp, rp))
  BY ResolvedMoves
<1>2. rp.place # None
  BY PathParts, TransferAssumption DEF TransferAssumption
<1>3. CASE FollowsLocal(m, rp)
  <2>1. MovesKnown(m, ToMirror(m, st, "ancestry", lp, rp))
    BY <1>3, ToMirrorMoves DEF FollowsLocal
  <2> QED BY <1>1, <1>3, <2>1 DEF ArchiveMove
<1>4. CASE ~FollowsLocal(m, rp)
  <2>1. MovesKnown(m, ToLocal(m, st, "ancestry", lp, rp))
    BY <1>2, <1>4, ToLocalMoves DEF FollowsLocal
  <2> QED BY <1>1, <1>4, <2>1 DEF ArchiveMove
<1> QED BY <1>3, <1>4

\* Two sides that both hold the chat.
LEMMA ComparedMoves ==
  ASSUME NEW m \in Machines, NEW st, NEW lp \in Paths, NEW rp \in Paths, None \notin Paths,
         lp \in Copies(m), rp \in Copies(Mirror)
  PROVE  MovesKnown(m, Compared(m, st, lp, rp))
<1> DEFINE same == lp.place = rp.place
           relation == Relation(files[m][lp], files[Mirror][rp], same, HasBase)
           i == Item(m, "noop", "none", "none", lp, rp, None, None)
<1>1. MovesKnown(m, Resolved(m, st, lp, rp)) /\ MovesKnown(m, ArchiveMove(m, st, lp, rp))
  BY ResolvedMoves, ArchiveMoveMoves
<1>2. MovesKnown(m, i)
  BY DEF MovesKnown, Item
<1>3. same => MovesKnown(m, ToLocal(m, st, "ancestry", lp, rp))
              /\ MovesKnown(m, ToMirror(m, st, "ancestry", lp, rp))
  BY ToLocalMoves, ToMirrorMoves
<1>4. relation \in {"FAST_FORWARD_LOCAL", "FAST_FORWARD_REMOTE"} => same
  BY DEF Relation
<1>5. relation \in {"DIVERGED", "MISSING_BASE", "ARCHIVE_TRANSITION", "IDENTICAL",
                    "FAST_FORWARD_LOCAL", "FAST_FORWARD_REMOTE"}
  BY DEF Relation
<1> HIDE DEF i
<1>6. Compared(m, st, lp, rp) =
        CASE relation = "IDENTICAL" -> i
          [] relation \in {"DIVERGED", "MISSING_BASE"} -> Resolved(m, st, lp, rp)
          [] relation = "ARCHIVE_TRANSITION" -> ArchiveMove(m, st, lp, rp)
          [] relation = "FAST_FORWARD_LOCAL" -> ToLocal(m, st, "ancestry", lp, rp)
          [] OTHER -> ToMirror(m, st, "ancestry", lp, rp)
  BY DEF Compared, i
<1> HIDE DEF relation, same
<1> QED BY <1>1, <1>2, <1>3, <1>4, <1>5, <1>6

\* The item of a plan.
LEMMA DecideMoves ==
  ASSUME TypeOK, NEW m \in Machines
  PROVE  MovesKnown(m, Decide(m, setting[m])) /\ Decide(m, setting[m]) \in PlanItem
<1>1. ASSUME NEW st PROVE MovesKnown(m, Classify(m, st))
  <2> DEFINE lp == OneOrNone(Settled(m))
             rp == OneOrNone(Copies(Mirror))
  <2>1. Settled(m) \subseteq Copies(m) /\ (Settled(m) = {} => Copies(m) = {})
    BY DEF Settled, Named
  <2>2. /\ lp \in Copies(m) \/ lp = None
        /\ rp \in Copies(Mirror) \/ rp = None
    BY <2>1, OneOf
  <2>3. /\ lp \in Copies(m) => lp \in Paths
        /\ rp \in Copies(Mirror) => rp \in Paths
        /\ None \notin Paths
    BY CopyParts, SideParts, TransferAssumption DEF TransferAssumption
  <2>4. CASE Unusable(m) \/ (lp = None /\ rp = None)
    BY <2>4, LeftMoves DEF Classify, OneOrNone
  <2> DEFINE l == IF Settled(m) = {} THEN None ELSE The(Settled(m))
             r == IF Copies(Mirror) = {} THEN None ELSE The(Copies(Mirror))
  <2>0. l = lp /\ r = rp
    BY DEF OneOrNone
  <2>5. CASE ~Unusable(m) /\ ~(lp = None /\ rp = None)
    <3>1. /\ lp = None /\ rp # None => Classify(m, st) = ToLocal(m, st, "ancestry", lp, rp)
          /\ lp # None /\ rp = None => Classify(m, st) = ToMirror(m, st, "ancestry", lp, rp)
          /\ lp # None /\ rp # None => Classify(m, st) = Compared(m, st, lp, rp)
      BY <2>5 DEF Classify, OneOrNone
    <3> HIDE DEF lp, rp
    <3>2. CASE lp = None
      <4>1. MovesKnown(m, ToLocal(m, st, "ancestry", lp, rp))
        BY <2>2, <2>3, <2>5, <3>2, ToLocalMoves
      <4> QED BY <2>5, <3>1, <3>2, <4>1
    <3>3. CASE lp # None /\ rp = None
      <4>1. MovesKnown(m, ToMirror(m, st, "ancestry", lp, rp))
        BY <2>2, <2>3, <3>3, ToMirrorMoves
      <4> QED BY <3>1, <3>3, <4>1
    <3>4. CASE lp # None /\ rp # None
      <4>1. MovesKnown(m, Compared(m, st, lp, rp))
        BY <2>2, <2>3, <3>4, ComparedMoves
      <4> QED BY <3>1, <3>4, <4>1
    <3> QED BY <3>2, <3>3, <3>4
  <2> QED BY <2>4, <2>5
<1>2. ASSUME NEW i, MovesKnown(m, i), i \in PlanItem
      PROVE  MovesKnown(m, [i EXCEPT !.action = "left", !.side = "none"])
  <2>1. [i EXCEPT !.action = "left", !.side = "none"].action = "left"
    BY <1>2 DEF PlanItem
  <2> QED BY <2>1 DEF MovesKnown
<1>3. Decide(m, setting[m]) \in PlanItem
  BY DecideSound DEF Sound
<1> DEFINE st == setting[m]
           ruled == [st EXCEPT !.rule = RuleFor(st)]
           first == Classify(m, ruled)
           second == Scoped(st, first)
<1>4. MovesKnown(m, first)
  BY <1>1
<1>5. first \in PlanItem /\ second \in PlanItem
  <2>1. st \in Setting
    BY TransferAssumption DEF TypeOK, TransferAssumption
  <2>2. IsSetting(ruled)
    BY <2>1 DEF IsSetting, Setting
  <2>3. Sound(m, Classify(m, ruled))
    BY <2>2, ClassifySound
  <2> HIDE DEF ruled, st
  <2>4. Sound(m, Scoped(st, Classify(m, ruled)))
    BY <2>3, HeldBackSound DEF Scoped
  <2> QED BY <2>3, <2>4 DEF Sound
<1> HIDE DEF first
<1>6. MovesKnown(m, second)
  BY <1>2, <1>4, <1>5 DEF Scoped
<1> HIDE DEF second
<1>7. MovesKnown(m, Directed(st, second))
  BY <1>2, <1>5, <1>6 DEF Directed
<1>8. Decide(m, setting[m]) = Directed(st, second)
  BY DEF Decide, second, first
<1> QED BY <1>3, <1>7, <1>8

-----------------------------------------------------------------------------
(***************************************************************************)
(* The moves and decisions are numbered as they happen, and two machines   *)
(* know of the same one only through the mirror.                           *)
(***************************************************************************)
Numbered == \E k \in Nat : /\ \A s \in Sides : seen[s] \subseteq 1 .. k
                           /\ \A x \in 1 .. k : \E s \in Sides : x \in seen[s]
Shared == \A m, n \in Machines :
    m # n => \A x \in seen[m] : x \in seen[n] => x \in seen[Mirror]
RunsKnown == \A m \in Machines : run[m] # None => MovesKnown(m, run[m].item)
Tracked == /\ seen \in [Sides -> SUBSET Nat] /\ Numbered /\ Shared
           /\ RunsKnown

\* One machine and the mirror learn of each other, or of one new move.
Learns(m) ==
    /\ seen' \in [Sides -> SUBSET Nat]
    /\ \A s \in Sides \ {m, Mirror} : seen'[s] = seen[s]
    /\ seen[Mirror] \subseteq seen'[Mirror] /\ seen[m] \subseteq seen'[m]
    /\ \A x \in seen'[m] \union seen'[Mirror] :
          x \in seen[m] \/ x \in seen[Mirror] \/ x = NextMove

\* The next move has a number nobody has seen.
LEMMA NextMoveNew ==
  ASSUME NEW k \in Nat, \A s \in Sides : seen[s] \subseteq 1 .. k,
         \A x \in 1 .. k : \E s \in Sides : x \in seen[s]
  PROVE  NextMove = k + 1 /\ \A s \in Sides : NextMove \notin seen[s]
<1> DEFINE all == UNION {seen[s] : s \in Sides}
<1>1. all = 1 .. k
  <2>1. ASSUME NEW x \in 1 .. k PROVE x \in all
    BY <2>1
  <2>2. ASSUME NEW x \in all PROVE x \in 1 .. k
    BY <2>2
  <2> QED BY <2>1, <2>2
<1>2. 1 \in Int /\ k \in Int
  OBVIOUS
<1>3. Cardinality(1 .. k) = IF 1 > k THEN 0 ELSE k - 1 + 1
  BY <1>2, FS_Interval
<1>4. Cardinality(1 .. k) = k
  BY <1>3
<1>5. NextMove = 1 + Cardinality(all)
  BY Zenon DEF NextMove
<1> HIDE DEF all
<1>6. NextMove = k + 1
  BY <1>1, <1>4, <1>5
<1> QED BY <1>6

\* So it goes on.
LEMMA LearnsTracked ==
  ASSUME seen \in [Sides -> SUBSET Nat], Numbered, Shared, NEW m \in Machines, Learns(m)
  PROVE  /\ seen' \in [Sides -> SUBSET Nat] /\ Numbered' /\ Shared'
         /\ \A n \in Machines \ {m} :
               /\ ~(seen[n] \subseteq seen[Mirror]) => ~(seen'[n] \subseteq seen'[Mirror])
               /\ ~(seen[Mirror] \subseteq seen[n]) => ~(seen'[Mirror] \subseteq seen'[n])
<1>1. PICK k \in Nat : /\ \A s \in Sides : seen[s] \subseteq 1 .. k
                       /\ \A x \in 1 .. k : \E s \in Sides : x \in seen[s]
  BY DEF Numbered
<1>2. NextMove = k + 1 /\ \A s \in Sides : NextMove \notin seen[s]
  BY <1>1, NextMoveNew
<1> DEFINE next == NextMove
<1>3. /\ m \in Sides /\ Mirror \in Sides /\ m # Mirror /\ \A n \in Machines : n \in Sides /\ n # Mirror
      /\ \A s \in Sides \ {m, Mirror} : seen'[s] = seen[s]
      /\ seen[Mirror] \subseteq seen'[Mirror] /\ seen[m] \subseteq seen'[m]
      /\ \A x \in seen'[m] \union seen'[Mirror] : x \in seen[m] \/ x \in seen[Mirror] \/ x = next
      /\ next = k + 1 /\ \A s \in Sides : next \notin seen[s]
  BY <1>2, SideParts DEF Learns
<1> HIDE DEF next
<1>4. /\ \A s \in Sides : seen[s] \subseteq seen'[s]
      /\ \A s \in Sides : \A x \in seen'[s] : x = next \/ \E t \in Sides : x \in seen[t]
  BY <1>3
<1>5. Numbered'
  <2>1. CASE \E s \in Sides : next \in seen'[s]
    <3>1. k + 1 \in Nat
      OBVIOUS
    <3>2. \A s \in Sides : seen'[s] \subseteq 1 .. k + 1
      BY <1>1, <1>3, <1>4
    <3>3. \A x \in 1 .. k + 1 : \E s \in Sides : x \in seen'[s]
      <4> SUFFICES ASSUME NEW x \in 1 .. k + 1 PROVE \E s \in Sides : x \in seen'[s]
        OBVIOUS
      <4>1. x = next \/ x \in 1 .. k
        BY <1>3
      <4> QED BY <1>1, <1>4, <2>1, <4>1
    <3> QED BY <3>1, <3>2, <3>3 DEF Numbered
  <2>2. CASE ~ \E s \in Sides : next \in seen'[s]
    BY <1>1, <1>4, <2>2 DEF Numbered
  <2> QED BY <2>1, <2>2
<1>6. Shared'
  <2> SUFFICES ASSUME NEW n \in Machines, NEW o \in Machines, n # o, NEW x \in seen'[n], x \in seen'[o]
               PROVE  x \in seen'[Mirror]
    BY DEF Shared
  <2>1. CASE n # m /\ o # m
    BY <1>3, <2>1 DEF Shared
  <2>2. CASE n = m
    <3>1. x \in seen[o]
      BY <1>3, <2>2
    <3>2. x \in seen[m] \/ x \in seen[Mirror]
      BY <1>3, <2>2, <3>1
    <3> QED BY <1>3, <2>2, <3>1, <3>2 DEF Shared
  <2>3. CASE o = m
    <3>1. x \in seen[n]
      BY <1>3, <2>3
    <3>2. x \in seen[m] \/ x \in seen[Mirror]
      BY <1>3, <2>3, <3>1
    <3> QED BY <1>3, <2>3, <3>1, <3>2 DEF Shared
  <2> QED BY <2>1, <2>2, <2>3
<1>7. ASSUME NEW n \in Machines \ {m}
      PROVE  /\ ~(seen[n] \subseteq seen[Mirror]) => ~(seen'[n] \subseteq seen'[Mirror])
             /\ ~(seen[Mirror] \subseteq seen[n]) => ~(seen'[Mirror] \subseteq seen'[n])
  <2>1. ASSUME NEW x \in seen[n], x \notin seen[Mirror] PROVE x \notin seen'[Mirror]
    BY <1>3, <2>1 DEF Shared
  <2>2. seen'[n] = seen[n]
    BY <1>3
  <2> QED BY <1>3, <2>1, <2>2
<1> QED BY <1>5, <1>6, <1>7 DEF Learns

\* A machine learns nothing.
LEMMA LearnsNothing == ASSUME seen \in [Sides -> SUBSET Nat], seen' = seen, NEW m \in Machines PROVE Learns(m)
  BY DEF Learns

\* Archiving or bringing back is a new move of this machine.
LEMMA ArchiveLearns ==
  ASSUME seen \in [Sides -> SUBSET Nat], Numbered, NEW m \in Machines, Archive(m)
  PROVE  /\ Learns(m) /\ seen'[Mirror] = seen[Mirror]
         /\ ~(seen'[m] \subseteq seen'[Mirror])
         /\ ~(seen[Mirror] \subseteq seen[m]) => ~(seen'[Mirror] \subseteq seen'[m])
<1>1. PICK k \in Nat : /\ \A s \in Sides : seen[s] \subseteq 1 .. k
                       /\ \A x \in 1 .. k : \E s \in Sides : x \in seen[s]
  BY DEF Numbered
<1>2. NextMove = k + 1 /\ \A s \in Sides : NextMove \notin seen[s]
  BY <1>1, NextMoveNew
<1>3. m \in Sides /\ Mirror \in Sides /\ m # Mirror
  BY SideParts
<1>4. /\ seen' \in [Sides -> SUBSET Nat] /\ seen'[m] = seen[m] \union {NextMove}
      /\ \A s \in Sides \ {m} : seen'[s] = seen[s]
  <2>1. NextMove \in Nat
    BY <1>2
  <2>2. seen' = [seen EXCEPT ![m] = seen[m] \union {NextMove}]
    BY DEF Archive
  <2> HIDE DEF NextMove
  <2> QED BY <1>3, <2>1, <2>2
<1> QED BY <1>2, <1>3, <1>4 DEF Learns

\* What both sides hold is recorded: each knows what the other knew.
LEMMA RecordLearns ==
  ASSUME seen \in [Sides -> SUBSET Nat], NEW m \in Machines, RecordOnly(m)
  PROVE  Learns(m)
<1>1. seen' = [s \in Sides |-> IF s \in {m, Mirror} THEN seen[m] \union seen[Mirror] ELSE seen[s]]
  BY DEF RecordOnly
<1>2. m \in Sides /\ Mirror \in Sides
  BY SideParts
<1> QED BY <1>1, <1>2 DEF Learns

\* A replaced file brings what its source knew; a decision is new to both.
LEMMA ReplaceLearns ==
  ASSUME seen \in [Sides -> SUBSET Nat], Numbered, NEW m \in Machines, Replace(m)
  PROVE  /\ Learns(m)
         /\ run[m].item.by # "ancestry" /\ run[m].item.old # None => NextMove \in seen'[Mirror]
         /\ run[m].item.side = "mirror" => seen[m] \subseteq seen'[Mirror]
<1> DEFINE ruled == IF run[m].item.by = "ancestry" \/ run[m].item.old = None THEN {} ELSE {NextMove}
<1>1. seen' = [s \in Sides |->
                 CASE s = Dest(m) -> seen[s] \union seen[Origin(m)] \union ruled
                   [] s = Origin(m) -> seen[s] \union ruled
                   [] OTHER -> seen[s]]
  BY DEF Replace
<1>2. m \in Sides /\ Mirror \in Sides /\ m # Mirror
  BY SideParts
<1>3. NextMove \in Nat
  <2>1. PICK k \in Nat : /\ \A s \in Sides : seen[s] \subseteq 1 .. k
                         /\ \A x \in 1 .. k : \E s \in Sides : x \in seen[s]
    BY DEF Numbered
  <2> QED BY <2>1, NextMoveNew
<1>4. ruled \subseteq Nat /\ ruled \subseteq {NextMove}
      /\ (run[m].item.by # "ancestry" /\ run[m].item.old # None => ruled = {NextMove})
  BY <1>3
<1> HIDE DEF ruled
<1>5. CASE run[m].item.side = "mirror"
  <2>1. Dest(m) = Mirror /\ Origin(m) = m
    BY <1>5 DEF Dest, Origin
  <2>2. /\ seen'[Mirror] = seen[Mirror] \union seen[m] \union ruled
        /\ seen'[m] = seen[m] \union ruled
        /\ \A s \in Sides \ {m, Mirror} : seen'[s] = seen[s]
        /\ seen' \in [Sides -> SUBSET Nat]
    BY <1>1, <1>2, <1>4, <2>1
  <2> QED BY <1>4, <2>2 DEF Learns
<1>6. CASE run[m].item.side # "mirror"
  <2>1. Dest(m) = m /\ Origin(m) = Mirror
    BY <1>6 DEF Dest, Origin
  <2>2. /\ seen'[m] = seen[m] \union seen[Mirror] \union ruled
        /\ seen'[Mirror] = seen[Mirror] \union ruled
        /\ \A s \in Sides \ {m, Mirror} : seen'[s] = seen[s]
        /\ seen' \in [Sides -> SUBSET Nat]
    BY <1>1, <1>2, <1>4, <2>1
  <2> QED BY <1>4, <1>6, <2>2 DEF Learns
<1> QED BY <1>5, <1>6

-----------------------------------------------------------------------------
(***************************************************************************)
(* Where the chat stands, and who moved it since a machine agreed: a side  *)
(* that stands elsewhere than a machine agreed has seen a move the other   *)
(* side has not.                                                           *)
(***************************************************************************)
\* The folder this machine's record says, or will say once its apply ends.
Agreement(m) ==
    IF run[m] = None \/ run[m].phase \in {"rebuilt", "prepared", "committing"}
    THEN entry[m] ELSE run[m].item.place
\* The files of a side, without one that an apply is about to remove.
Standing(s) ==
    {p \in Present(s) : \A n \in Machines :
        run[n] # None /\ run[n].phase = "replaced" /\ Dest(n) = s => p # run[n].item.old}
MovedFrom(s, place) == place # None /\ \E p \in Standing(s) : p.place # place

Based == (\E m \in Machines : Agreement(m) # None) => Standing(Mirror) # {}
LocalMoves == \A m \in Machines : MovedFrom(m, Agreement(m)) => ~(seen[m] \subseteq seen[Mirror])
MirrorMoves == \A m \in Machines : MovedFrom(Mirror, Agreement(m)) => ~(seen[Mirror] \subseteq seen[m])
FromMirror == \A m \in Machines : LocalFlight(m) => Present(Mirror) = {run[m].item.from}
InvMoves == Tracked /\ (Regular => Based /\ LocalMoves /\ MirrorMoves /\ FromMirror)

\* What an apply started from stays known.
LEMMA RunsKnownOn ==
  ASSUME Base, RunsKnown,
         \A n \in Machines : run'[n] # None =>
            run[n] # None /\ run'[n].item = run[n].item /\ entry'[n] = entry[n]
  PROVE  RunsKnown'
<1> SUFFICES ASSUME NEW n \in Machines, run'[n] # None PROVE MovesKnown(n, run[n].item)'
  BY DEF RunsKnown
<1>1. run[n] # None /\ run'[n].item = run[n].item /\ entry'[n] = entry[n]
  OBVIOUS
<1>2. run[n].item.action = "write"
  BY <1>1 DEF Base, RunFormed, ItemFormed
<1>3. MovesKnown(n, run[n].item)
  BY <1>1 DEF RunsKnown
<1> DEFINE i == run[n].item
           j == run'[n].item
<1>4. j = i /\ i.action = "write" /\ MovesKnown(n, i)
  BY <1>1, <1>2, <1>3
<1> HIDE DEF i
<1>5. MovesKnown(n, i)' => MovesKnown(n, run[n].item)'
  BY DEF i
<1> QED BY <1>1, <1>4, <1>5 DEF MovesKnown, i

\* A step that only adds moves, and leaves where the chat stands and was agreed.
LEMMA PlacesStay ==
  ASSUME seen \in [Sides -> SUBSET Nat], Numbered, Shared, Based, LocalMoves, MirrorMoves,
         NEW m \in Machines, Learns(m),
         \A n \in Machines : Agreement(n)' = Agreement(n),
         Standing(Mirror) # {} => Standing(Mirror)' # {},
         \A s \in Sides : \A p \in Standing(s)' :
            \/ \E q \in Standing(s) : q.place = p.place
            \/ s = m /\ ~(seen'[m] \subseteq seen'[Mirror]),
         ~(seen[m] \subseteq seen[Mirror]) => ~(seen'[m] \subseteq seen'[Mirror]),
         ~(seen[Mirror] \subseteq seen[m]) => ~(seen'[Mirror] \subseteq seen'[m])
  PROVE  Based' /\ LocalMoves' /\ MirrorMoves'
<1>1. \A n \in Machines :
         /\ ~(seen[n] \subseteq seen[Mirror]) => ~(seen'[n] \subseteq seen'[Mirror])
         /\ ~(seen[Mirror] \subseteq seen[n]) => ~(seen'[Mirror] \subseteq seen'[n])
  BY LearnsTracked
<1>2. Based'
  BY DEF Based
<1>3. LocalMoves'
  <2> SUFFICES ASSUME NEW n \in Machines, MovedFrom(n, Agreement(n))'
               PROVE  ~(seen'[n] \subseteq seen'[Mirror])
    BY DEF LocalMoves
  <2>1. Agreement(n) # None /\ \E p \in Standing(n)' : p.place # Agreement(n)
    BY DEF MovedFrom
  <2>2. PICK p \in Standing(n)' : p.place # Agreement(n)
    BY <2>1
  <2>3. CASE \E q \in Standing(n) : q.place = p.place
    <3>1. MovedFrom(n, Agreement(n))
      BY <2>1, <2>2, <2>3 DEF MovedFrom
    <3> QED BY <1>1, <3>1 DEF LocalMoves
  <2> QED BY <2>2, <2>3, SideParts
<1>4. MirrorMoves'
  <2> SUFFICES ASSUME NEW n \in Machines, MovedFrom(Mirror, Agreement(n))'
               PROVE  ~(seen'[Mirror] \subseteq seen'[n])
    BY DEF MirrorMoves
  <2>1. Agreement(n) # None /\ \E p \in Standing(Mirror)' : p.place # Agreement(n)
    BY DEF MovedFrom
  <2>2. PICK p \in Standing(Mirror)' : p.place # Agreement(n)
    BY <2>1
  <2>3. \E q \in Standing(Mirror) : q.place = p.place
    BY <2>2, SideParts
  <2>4. MovedFrom(Mirror, Agreement(n))
    BY <2>1, <2>2, <2>3 DEF MovedFrom
  <2> QED BY <1>1, <2>4 DEF MirrorMoves
<1> QED BY <1>2, <1>3, <1>4

\* The same where nothing is learnt.
LEMMA PlacesSame ==
  ASSUME Based, LocalMoves, MirrorMoves, seen' = seen,
         \A n \in Machines : Agreement(n)' = Agreement(n),
         \A s \in Sides : Standing(s)' = Standing(s)
  PROVE  Based' /\ LocalMoves' /\ MirrorMoves'
<1>1. Based'
  BY SideParts DEF Based
<1>2. LocalMoves' /\ MirrorMoves'
  BY SideParts DEF LocalMoves, MirrorMoves, MovedFrom
<1> QED BY <1>1, <1>2

\* Where no apply removes, all files stand.
LEMMA AllStanding ==
  ASSUME NEW s \in Sides, \A n \in Machines : run[n] # None => run[n].phase # "replaced" \/ Dest(n) # s
  PROVE  Standing(s) = Present(s)
  BY DEF Standing

-----------------------------------------------------------------------------
\* What the steps start from.
MovesBefore == /\ Base /\ seen \in [Sides -> SUBSET Nat] /\ Numbered /\ Shared /\ RunsKnown
               /\ (Regular => /\ Alone /\ Steady /\ Staging /\ LocalFlights /\ LocalOne
                              /\ MirrorFlights /\ MirrorOne
                              /\ Copies(Mirror) = Present(Mirror)
                              /\ \A m \in Machines : Copies(m) = Present(m)
                              /\ Based /\ LocalMoves /\ MirrorMoves /\ FromMirror)
               /\ (Regular' => Regular)

\* Learning from nobody else keeps the numbers.
LEMMA LearntTracked ==
  ASSUME MovesBefore, NEW m \in Machines, Learns(m), RunsKnown'
  PROVE  Tracked'
  BY LearnsTracked DEF MovesBefore, Tracked

\* So does learning nothing.
LEMMA SeenTracked ==
  ASSUME MovesBefore, seen' = seen, RunsKnown'
  PROVE  Tracked'
  BY DEF MovesBefore, Tracked, Numbered, Shared

\* Where applies, files and the record stay, so do the places.
LEMMA PlacesHeld ==
  ASSUME UNCHANGED <<files, run, entry>>
  PROVE  /\ \A n \in Machines : Agreement(n)' = Agreement(n)
         /\ \A s \in Sides : Standing(s)' = Standing(s)
<1>1. \A n \in Machines : Agreement(n)' = Agreement(n)
  BY DEF Agreement
<1>2. \A s \in Sides : Standing(s)' = Standing(s)
  BY DEF Standing, Present, Dest
<1> QED BY <1>1, <1>2

\* Steps that leave files and applies alone, and record nothing.
LEMMA QuietMoves ==
  ASSUME MovesBefore, NEW m \in Machines, Quiet(m), ~RecordOnly(m) PROVE InvMoves'
<1> USE DEF MovesBefore
<1>1. UNCHANGED <<files, run, entry, seen>>
  <2>1. CASE Plans(m)
    BY <2>1 DEF Plans, Scan, Resolve, ResolveMigration, ghosts
  <2>2. CASE Resume(m) \/ FollowArchive(m)
    BY <2>2 DEF Resume, FollowArchive, ghosts
  <2>3. CASE OpenCodex(m) \/ CloseCodex(m) \/ Project(m) \/ List(m)
    BY <2>3 DEF OpenCodex, CloseCodex, Project, List, ghosts
  <2> QED BY <2>1, <2>2, <2>3 DEF Quiet
<1>2. \A n \in Machines : run[n] # None /\ ~codex'[n] => ~codex[n]
  BY QuietParts
<1>3. Tracked'
  <2>1. RunsKnown'
    BY <1>1, RunsKnownOn
  <2> QED BY <1>1, <2>1, SeenTracked
<1>4. ASSUME Regular' PROVE Based' /\ LocalMoves' /\ MirrorMoves' /\ FromMirror'
  <2>1. Regular /\ Based /\ LocalMoves /\ MirrorMoves /\ FromMirror
    BY <1>4
  <2>2. Based' /\ LocalMoves' /\ MirrorMoves'
    BY <1>1, <2>1, PlacesHeld, PlacesSame
  <2>3. FromMirror'
    BY <1>1, <1>2, <2>1 DEF FromMirror, LocalFlight, Flying, Present
  <2> QED BY <2>2, <2>3
<1> QED BY <1>3, <1>4 DEF InvMoves

\* What both sides hold is recorded: this machine has agreed to where it stands.
LEMMA RecordOnlyMoves ==
  ASSUME MovesBefore, NEW m \in Machines, RecordOnly(m) PROVE InvMoves'
<1> USE DEF MovesBefore
<1>1. /\ run[m] = None /\ plan[m] = Decide(m, setting[m]) /\ plan[m].action = "noop"
      /\ UNCHANGED <<files, run>> /\ entry' = [entry EXCEPT ![m] = plan[m].place]
      /\ overlap' = (overlap \/ \E n \in Machines \ {m} : run[n] # None)
  BY DEF RecordOnly, Fresh
<1>2. Learns(m)
  BY RecordLearns
<1>3. entry' \in [Machines -> Places \union {None}] /\ entry'[m] = plan[m].place
      /\ \A n \in Machines \ {m} : entry'[n] = entry[n]
  <2>1. TypeOK'
    BY QuietType DEF Quiet
  <2> QED BY <1>1, <2>1 DEF TypeOK, Base
<1>4. Tracked'
  <2>1. RunsKnown'
    BY <1>1, <1>3, RunsKnownOn
  <2> QED BY <1>2, <2>1, LearntTracked
<1>5. ASSUME Regular' PROVE Based' /\ LocalMoves' /\ MirrorMoves' /\ FromMirror'
  <2>1. /\ Regular /\ Based /\ LocalMoves /\ MirrorMoves /\ LocalOne
        /\ Copies(Mirror) = Present(Mirror) /\ Copies(m) = Present(m)
    BY <1>5
  <2>2. \A n \in Machines : run[n] = None /\ run'[n] = None
    BY <1>1, <1>5 DEF Regular
  <2>3. \A s \in Sides : Standing(s) = Present(s) /\ Standing(s)' = Present(s)
    BY <1>1, <2>2 DEF Standing, Present
  <2> DEFINE place == plan[m].place
  <2>4. Sound(m, plan[m]) /\ MovesKnown(m, plan[m])
    BY <1>1, DecideSound, DecideMoves DEF Base
  <2>5. /\ Present(Mirror) # {} /\ \A p \in Present(Mirror) : p.place = place
        /\ \E p \in Present(m) : p.place = place
    BY <1>1, <2>1, <2>4 DEF Sound, MovesKnown
  <2>6. \A p \in Present(m) : p.place = place
    BY <2>1, <2>2, <2>5 DEF LocalOne, LocalFlight, Flying
  <2>7. Agreement(m)' = place /\ \A n \in Machines \ {m} : Agreement(n)' = entry[n] /\ Agreement(n) = entry[n]
    BY <1>3, <2>2 DEF Agreement
  <2>8. \A n \in Machines \ {m} :
           /\ ~(seen[n] \subseteq seen[Mirror]) => ~(seen'[n] \subseteq seen'[Mirror])
           /\ ~(seen[Mirror] \subseteq seen[n]) => ~(seen'[Mirror] \subseteq seen'[n])
    BY <1>2, LearnsTracked
  <2>9. Based'
    BY <2>3, <2>5, SideParts DEF Based
  <2>10. ~MovedFrom(m, Agreement(m))' /\ ~MovedFrom(Mirror, Agreement(m))'
    BY <2>3, <2>5, <2>6, <2>7, SideParts DEF MovedFrom
  <2>11. \A n \in Machines \ {m} :
            /\ MovedFrom(n, Agreement(n))' => MovedFrom(n, Agreement(n))
            /\ MovedFrom(Mirror, Agreement(n))' => MovedFrom(Mirror, Agreement(n))
    BY <2>3, <2>7, SideParts DEF MovedFrom
  <2>12. LocalMoves' /\ MirrorMoves'
    BY <2>1, <2>8, <2>10, <2>11 DEF LocalMoves, MirrorMoves
  <2>13. FromMirror'
    BY <2>2 DEF FromMirror, LocalFlight, Flying
  <2> QED BY <2>9, <2>12, <2>13
<1> QED BY <1>4, <1>5 DEF InvMoves

\* The cloud client moves nothing.
LEMMA ClientMoves ==
  ASSUME MovesBefore, NEW p \in Paths, Client(p) PROVE InvMoves'
<1> USE DEF MovesBefore
<1>1. /\ p \in Present(Mirror) /\ files'[Mirror][p] # Absent
      /\ \A q \in Paths \ {p} : files'[Mirror][q] = files[Mirror][q]
      /\ \A s \in Machines : files'[s] = files[s]
      /\ UNCHANGED <<codex, entry, run, seen>>
  BY ClientTouches DEF codexState, ghosts
<1>2. \A s \in Sides : Present(s)' = Present(s)
  BY <1>1 DEF Present, Sides
<1>3. Tracked'
  <2>1. RunsKnown'
    BY <1>1, RunsKnownOn
  <2> QED BY <1>1, <2>1, SeenTracked
<1>4. ASSUME Regular' PROVE Based' /\ LocalMoves' /\ MirrorMoves' /\ FromMirror'
  <2>1. Regular /\ Based /\ LocalMoves /\ MirrorMoves /\ FromMirror
    BY <1>4
  <2>2. \A n \in Machines : Agreement(n)' = Agreement(n)
    BY <1>1 DEF Agreement
  <2>3. \A s \in Sides : Standing(s)' = Standing(s)
    BY <1>1, <1>2 DEF Standing, Dest
  <2>4. Based' /\ LocalMoves' /\ MirrorMoves'
    BY <1>1, <2>1, <2>2, <2>3, PlacesSame
  <2>5. FromMirror'
    BY <1>1, <1>2, <2>1, SideParts DEF FromMirror, LocalFlight, Flying
  <2> QED BY <2>4, <2>5
<1> QED BY <1>3, <1>4 DEF InvMoves

-----------------------------------------------------------------------------
\* An apply goes on without writing a file.
LEMMA AdvancesMoves ==
  ASSUME MovesBefore, NEW m \in Machines, Advances(m) PROVE InvMoves'
<1> USE DEF MovesBefore
<1>1. /\ UNCHANGED <<files, entry, seen, codex>> /\ run'[m] # None
      /\ \A n \in Machines \ {m} : run'[n] = run[n]
      /\ \/ /\ run[m] = None /\ run'[m].phase = "rebuilt" /\ run'[m].item = plan[m] /\ Rebuild(m)
         \/ /\ run[m] # None /\ run'[m].item = run[m].item
            /\ \/ run[m].phase \in {"rebuilt", "prepared"} /\ run'[m].phase \in {"prepared", "committing"}
               \/ run[m].phase = "removed" /\ run'[m].phase = "committed"
  <2>1. CASE Rebuild(m)
    <3>1. /\ run[m] = None /\ run'[m] # None
          /\ run'[m] = [phase |-> "rebuilt", item |-> plan[m], staged |-> Absent]
          /\ \A n \in Machines \ {m} : run'[n] = run[n]
      BY <2>1, RebuildParts
    <3>2. UNCHANGED <<files, entry, seen, codex>>
      BY <2>1 DEF Rebuild, codexState
    <3>3. run'[m].phase = "rebuilt" /\ run'[m].item = plan[m]
      BY <3>1
    <3> QED BY <2>1, <3>1, <3>2, <3>3
  <2>2. CASE Prepare(m)
    BY <2>2, PrepareParts DEF codexState, ghosts
  <2>3. CASE Commit(m)
    <3>1. run[m] # None /\ run[m].phase = "prepared" /\ To(m, "committing")
          /\ UNCHANGED <<files, entry, seen, codex>>
      BY <2>3 DEF Commit, Phase, codexState, ghosts
    <3> QED BY <3>1, PhaseParts DEF Phases
  <2>4. CASE Verify(m)
    <3>1. run[m] # None /\ run[m].phase = "removed" /\ To(m, "committed")
          /\ UNCHANGED <<files, entry, seen, codex>>
      BY <2>4 DEF Verify, Phase, codexState, ghosts
    <3> QED BY <3>1, PhaseParts DEF Phases
  <2> QED BY <2>1, <2>2, <2>3, <2>4 DEF Advances
<1>2. RunsKnown'
  <2> SUFFICES ASSUME NEW n \in Machines, run'[n] # None PROVE MovesKnown(n, run[n].item)'
    BY DEF RunsKnown
  <2>1. CASE n = m /\ run[m] = None
    <3>1. Rebuild(m) /\ run'[m].item = plan[m]
      BY <1>1, <2>1
    <3>2. plan[m] = Decide(m, setting[m]) /\ plan[m].action = "write"
      BY <3>1 DEF Rebuild, Fresh
    <3>3. MovesKnown(m, plan[m])
      BY <3>2, DecideMoves DEF Base
    <3> DEFINE i == plan[m]
    <3>4. run'[n].item = i /\ i.action = "write" /\ MovesKnown(n, i) /\ entry'[n] = entry[n]
      BY <1>1, <2>1, <3>1, <3>2, <3>3
    <3> HIDE DEF i
    <3> QED BY <3>4 DEF MovesKnown
  <2>2. CASE ~(n = m /\ run[m] = None)
    <3>1. run[n] # None /\ run'[n].item = run[n].item /\ entry'[n] = entry[n]
      BY <1>1, <2>2
    <3> DEFINE i == run[n].item
    <3>2. run'[n].item = i /\ i.action = "write" /\ MovesKnown(n, i) /\ entry'[n] = entry[n]
      BY <3>1 DEF RunsKnown, Base, RunFormed, ItemFormed
    <3> HIDE DEF i
    <3> QED BY <3>2 DEF MovesKnown
  <2> QED BY <2>1, <2>2
<1>3. Tracked'
  BY <1>1, <1>2, SeenTracked
<1>4. ASSUME Regular' PROVE Based' /\ LocalMoves' /\ MirrorMoves' /\ FromMirror'
  <2>1. Regular /\ Based /\ LocalMoves /\ MirrorMoves /\ FromMirror /\ MirrorOne
        /\ Copies(Mirror) = Present(Mirror)
    BY <1>4
  <2>2. \A n \in Machines : Agreement(n)' = Agreement(n)
    BY <1>1 DEF Agreement
  <2>3. \A n \in Machines : \/ run'[n] = run[n]
                            \/ /\ run[n] # None => run[n].phase # "replaced"
                               /\ run'[n].phase # "replaced"
    BY <1>1
  <2>4. \A s \in Sides : Standing(s)' = Standing(s)
    BY <1>1, <2>3 DEF Standing, Present, Dest
  <2>5. Based' /\ LocalMoves' /\ MirrorMoves'
    BY <1>1, <2>1, <2>2, <2>4, PlacesSame
  <2>6. FromMirror'
    <3> SUFFICES ASSUME NEW n \in Machines, LocalFlight(n)' PROVE Present(Mirror) = {run'[n].item.from}
      BY <1>1 DEF FromMirror, Present
    <3>1. CASE n # m \/ run[m] # None
      <4>1. LocalFlight(n) /\ run'[n].item = run[n].item
        BY <1>1, <3>1 DEF LocalFlight, Flying, Unfinished
      <4> QED BY <2>1, <4>1 DEF FromMirror
    <3>2. CASE n = m /\ run[m] = None
      <4>1. Rebuild(m) /\ run'[m].item = plan[m] /\ plan[m].side = "local"
        BY <1>1, <3>2 DEF LocalFlight
      <4>2. WellFormed(m, plan[m])
        BY <4>1, RebuildParts
      <4>3. plan[m].from \in Present(Mirror)
        BY <2>1, <4>1, <4>2 DEF WellFormed, OriginOf
      <4>4. \A o \in Machines : run[o] = None
        BY <1>4, <3>2, <4>1 DEF Rebuild, Regular
      <4>5. \A p, q \in Present(Mirror) : p = q
        BY <2>1, <4>4 DEF MirrorOne, MirrorFlight, Flying
      <4> QED BY <3>2, <4>1, <4>3, <4>5
    <3> QED BY <3>1, <3>2
  <2> QED BY <2>5, <2>6
<1> QED BY <1>3, <1>4 DEF InvMoves

\* An apply ends recorded, or before it could write.
LEMMA EndsMoves ==
  ASSUME MovesBefore, NEW m \in Machines, Ends(m) PROVE InvMoves'
<1> USE DEF MovesBefore
<1>1. /\ run[m] # None /\ run'[m] = None
      /\ \A n \in Machines \ {m} : run'[n] = run[n]
      /\ UNCHANGED <<files, seen, codex, overlap>>
      /\ \/ /\ run[m].phase = "committed" /\ interrupted' = interrupted
            /\ entry' = [entry EXCEPT ![m] = run[m].item.place]
         \/ /\ entry' = entry
            /\ interrupted' = (interrupted \/ run[m].phase \in MayCommit \union {"committed"})
  BY EndsParts DEF codexState
<1>2. entry \in [Machines -> Places \union {None}] /\ run[m].phase \in Phases
  BY <1>1, RunParts DEF Base, TypeOK
<1>3. \A n \in Machines \ {m} : entry'[n] = entry[n]
  BY <1>1, <1>2
<1>4. Tracked'
  <2>1. RunsKnown'
    BY <1>1, <1>3, RunsKnownOn
  <2> QED BY <1>1, <2>1, SeenTracked
<1>5. ASSUME Regular' PROVE Based' /\ LocalMoves' /\ MirrorMoves' /\ FromMirror'
  <2>1. Regular /\ Based /\ LocalMoves /\ MirrorMoves /\ FromMirror
    BY <1>5
  <2>2. \/ run[m].phase = "committed" /\ entry'[m] = run[m].item.place
        \/ run[m].phase \in {"rebuilt", "prepared"} /\ entry'[m] = entry[m]
    BY <1>1, <1>2, <1>5 DEF Regular, MayCommit, Phases
  <2>3. Agreement(m)' = Agreement(m)
    BY <1>1, <2>2 DEF Agreement
  <2>4. \A n \in Machines \ {m} : Agreement(n)' = Agreement(n)
    BY <1>1, <1>3 DEF Agreement
  <2>5. \A s \in Sides : Standing(s)' = Standing(s)
    BY <1>1, <2>2 DEF Standing, Present, Dest
  <2>6. Based' /\ LocalMoves' /\ MirrorMoves'
    BY <1>1, <2>1, <2>3, <2>4, <2>5, PlacesSame
  <2>7. FromMirror'
    BY <1>1, <2>1 DEF FromMirror, LocalFlight, Flying, Present
  <2> QED BY <2>6, <2>7
<1> QED BY <1>4, <1>5 DEF InvMoves

\* The old file goes: it stood no more.
LEMMA RemoveMoves ==
  ASSUME MovesBefore, NEW m \in Machines, Remove(m) PROVE InvMoves'
<1> USE DEF MovesBefore
<1>1. run[m].item.old # None
  BY RemoveKeeps
<1>2. /\ run[m] # None /\ run[m].phase = "replaced" /\ run[m].item.old \in Paths
      /\ files' \in [Sides -> [Paths -> Stored]]
      /\ files'[Dest(m)][run[m].item.old] = Absent
      /\ \A q \in Paths \ {run[m].item.old} : files'[Dest(m)][q] = files[Dest(m)][q]
      /\ \A t \in Sides \ {Dest(m)} : files'[t] = files[t]
      /\ run'[m] # None /\ run'[m].phase = "removed" /\ run'[m].item = run[m].item
      /\ \A n \in Machines \ {m} : run'[n] = run[n]
      /\ UNCHANGED <<entry, seen, codex>>
  BY <1>1, RemoveParts DEF codexState, ghosts
<1>3. Tracked'
  <2>1. RunsKnown'
    BY <1>2, RunsKnownOn
  <2> QED BY <1>2, <2>1, SeenTracked
<1>4. ASSUME Regular' PROVE Based' /\ LocalMoves' /\ MirrorMoves' /\ FromMirror'
  <2>1. Regular /\ Alone /\ Based /\ LocalMoves /\ MirrorMoves /\ FromMirror
    BY <1>4
  <2>2. \A n \in Machines \ {m} : run[n] = None /\ run'[n] = None
    BY <1>2, <2>1 DEF Alone
  <2>3. \A n \in Machines : Agreement(n)' = Agreement(n)
    BY <1>2 DEF Agreement
  <2>4. \A s \in Sides : Standing(s)' = Standing(s)
    <3> SUFFICES ASSUME NEW s \in Sides PROVE Standing(s)' = Standing(s)
      OBVIOUS
    <3>1. Standing(s)' = Present(s)'
      BY <1>2, <2>2 DEF Standing
    <3>2. Standing(s) = {p \in Present(s) : Dest(m) = s => p # run[m].item.old}
      BY <1>2, <2>2 DEF Standing
    <3>3. CASE s = Dest(m)
      <4>1. Present(s)' = Present(s) \ {run[m].item.old}
        BY <1>2, <3>3 DEF Present
      <4> QED BY <3>1, <3>2, <3>3, <4>1
    <3>4. CASE s # Dest(m)
      <4>1. Present(s)' = Present(s)
        BY <1>2, <3>4 DEF Present
      <4> QED BY <3>1, <3>2, <3>4, <4>1
    <3> QED BY <3>3, <3>4
  <2>5. Based' /\ LocalMoves' /\ MirrorMoves'
    BY <1>2, <2>1, <2>3, <2>4, PlacesSame
  <2>6. FromMirror'
    BY <1>2, <2>2 DEF FromMirror, LocalFlight, Flying, Unfinished
  <2> QED BY <2>5, <2>6
<1> QED BY <1>3, <1>4 DEF InvMoves

-----------------------------------------------------------------------------
\* Codex puts its file in its own folder, or makes a move nobody has seen.
LEMMA RewritingMoves ==
  ASSUME MovesBefore, NEW m \in Machines, Rewriting(m) PROVE InvMoves'
<1> USE DEF MovesBefore
<1>1. /\ codex[m] /\ UNCHANGED <<codex, entry, run>>
      /\ \A s \in Sides \ {m} : files'[s] = files[s]
      /\ TypeOK /\ m \in Sides /\ Mirror \in Sides /\ m # Mirror
  BY SideParts DEF Rewriting, CodexRewrites, Rewrites, Base
<1>2. Archive(m) => /\ Learns(m) /\ ~(seen'[m] \subseteq seen'[Mirror])
                    /\ ~(seen[Mirror] \subseteq seen[m]) => ~(seen'[Mirror] \subseteq seen'[m])
  BY ArchiveLearns
<1>3. ~Archive(m) =>
         /\ seen' = seen
         /\ \A p \in Present(m)' : \E q \in Present(m) : q.place = p.place
  <2> SUFFICES ASSUME ~Archive(m)
               PROVE  /\ seen' = seen
                      /\ \A p \in Present(m)' : \E q \in Present(m) : q.place = p.place
    OBVIOUS
  <2>1. ASSUME NEW p \in Opened(m), NEW q \in Paths, q.place = p.place, NEW h,
               \/ files' = [files EXCEPT ![m] = [@ EXCEPT ![p] = Absent, ![q] = h]]
               \/ files' = [files EXCEPT ![m][p] = h]
        PROVE  \A r \in Present(m)' : \E o \in Present(m) : o.place = r.place
    <3>1. p \in Present(m) /\ p \in Paths
      BY <1>1, OpenedParts
    <3>2. files[m] \in [Paths -> Stored]
      BY <1>1 DEF TypeOK
    <3>3. \A r \in Paths \ {p, q} : files'[m][r] = files[m][r]
      BY <1>1, <2>1, <3>1, <3>2 DEF TypeOK
    <3> QED BY <2>1, <3>1, <3>3 DEF Present
  <2>2. CASE Work(m)
    <3>1. PICK p \in Opened(m) :
             \E h : files' = [files EXCEPT ![m] = [@ EXCEPT ![p] = Absent, ![At(p.place, "jsonl")] = h]]
      BY <2>2 DEF Work
    <3>2. p \in Paths /\ At(p.place, "jsonl") \in Paths /\ At(p.place, "jsonl").place = p.place
      BY <1>1, OpenedParts, PathParts DEF Boxes
    <3>3. PICK h : files' = [files EXCEPT ![m] = [@ EXCEPT ![p] = Absent, ![At(p.place, "jsonl")] = h]]
      BY <3>1
    <3>4. \A r \in Present(m)' : \E o \in Present(m) : o.place = r.place
      BY <2>1, <3>2, <3>3
    <3>5. seen' = seen
      BY <2>2 DEF Work
    <3> QED BY <3>4, <3>5
  <2>3. CASE Compress(m)
    <3>1. PICK p \in Opened(m) :
             \E h : files' = [files EXCEPT ![m] = [@ EXCEPT ![p] = Absent, ![At(p.place, "packed")] = h]]
      BY <2>3 DEF Compress
    <3>2. p \in Paths /\ At(p.place, "packed") \in Paths /\ At(p.place, "packed").place = p.place
      BY <1>1, OpenedParts, PathParts DEF Boxes
    <3>3. PICK h : files' = [files EXCEPT ![m] = [@ EXCEPT ![p] = Absent, ![At(p.place, "packed")] = h]]
      BY <3>1
    <3>4. \A r \in Present(m)' : \E o \in Present(m) : o.place = r.place
      BY <2>1, <3>2, <3>3
    <3>5. seen' = seen
      BY <2>3 DEF Compress, ghosts
    <3> QED BY <3>4, <3>5
  <2>4. CASE Upgrade(m)
    <3>1. PICK p \in Opened(m) : files' = [files EXCEPT ![m][p].format = 1]
      BY <2>4 DEF Upgrade
    <3>2. files' = [files EXCEPT ![m][p] = [files[m][p] EXCEPT !.format = 1]]
      BY <3>1
    <3>3. p \in Paths
      BY <1>1, OpenedParts
    <3> QED BY <2>1, <2>4, <3>2, <3>3 DEF Upgrade, ghosts
  <2> QED BY <2>2, <2>3, <2>4 DEF Rewriting, CodexEdits
<1>4. Learns(m) /\ (~(seen[m] \subseteq seen[Mirror]) => ~(seen'[m] \subseteq seen'[Mirror]))
      /\ (~(seen[Mirror] \subseteq seen[m]) => ~(seen'[Mirror] \subseteq seen'[m]))
  BY <1>2, <1>3, LearnsNothing
<1>5. Tracked'
  <2>1. RunsKnown'
    BY <1>1, RunsKnownOn
  <2> QED BY <1>4, <2>1, LearntTracked
<1>6. ASSUME Regular' PROVE Based' /\ LocalMoves' /\ MirrorMoves' /\ FromMirror'
  <2>1. Regular /\ Steady /\ Based /\ LocalMoves /\ MirrorMoves /\ FromMirror
    BY <1>6
  <2>2. \A n \in Machines : Agreement(n)' = Agreement(n)
    BY <1>1 DEF Agreement
  <2>3. \A s \in Sides \ {m} : Standing(s)' = Standing(s)
    BY <1>1 DEF Standing, Present, Dest
  <2>4. Standing(m) = Present(m) /\ Standing(m)' = Present(m)'
    <3>1. \A n \in Machines : run[n] # None /\ run[n].phase = "replaced" => Dest(n) # m
      BY <1>1, <2>1 DEF Steady, Dest
    <3> QED BY <1>1, <3>1 DEF Standing, Dest
  <2>5. \A s \in Sides : \A p \in Standing(s)' :
            \/ \E q \in Standing(s) : q.place = p.place
            \/ s = m /\ ~(seen'[m] \subseteq seen'[Mirror])
    BY <1>2, <1>3, <2>3, <2>4
  <2>6. Based' /\ LocalMoves' /\ MirrorMoves'
    BY <1>1, <1>4, <2>1, <2>2, <2>3, <2>5, PlacesStay
  <2>7. FromMirror'
    BY <1>1, <2>1 DEF FromMirror, LocalFlight, Flying, Present
  <2> QED BY <2>6, <2>7
<1> QED BY <1>5, <1>6 DEF InvMoves

\* The staged file is put in place: this machine has agreed to its folder, and
\* the others have seen no move that the mirror has not.
LEMMA ReplaceMoves ==
  ASSUME MovesBefore, NEW m \in Machines, Replace(m) PROVE InvMoves'
<1> USE DEF MovesBefore
<1> DEFINE i == run[m].item
<1>1. /\ run[m] # None /\ run[m].phase = "committing" /\ ~codex[m]
      /\ ItemFormed(i) /\ run[m].staged \in History
      /\ files'[Dest(m)][i.to] = run[m].staged
      /\ \A q \in Paths \ {i.to} : files'[Dest(m)][q] = files[Dest(m)][q]
      /\ \A t \in Sides \ {Dest(m)} : files'[t] = files[t]
      /\ run'[m] # None /\ run'[m].phase = IF i.old = None THEN "removed" ELSE "replaced"
      /\ run'[m].item = i
      /\ \A n \in Machines \ {m} : run'[n] = run[n]
      /\ UNCHANGED <<entry, codex>>
  BY ReplaceParts DEF codexState
<1>2. Learns(m) /\ (i.by # "ancestry" /\ i.old # None => NextMove \in seen'[Mirror])
      /\ (i.side = "mirror" => seen[m] \subseteq seen'[Mirror])
  BY ReplaceLearns
<1>3. Tracked'
  <2>1. RunsKnown'
    BY <1>1, RunsKnownOn
  <2> QED BY <1>2, <2>1, LearntTracked
<1>4. /\ i.action = "write" /\ i.side \in {"mirror", "local"} /\ i.from \in Paths /\ i.to \in Paths
      /\ i.old # i.to /\ i.from.place = i.to.place /\ i.place = i.to.place
      /\ i.side = "mirror" /\ i.old # None => i.old.place # i.to.place
      /\ i.by = "ancestry" /\ i.old # None /\ i.old.place # i.to.place /\ i.side = "mirror" =>
            entry[m] = i.old.place
  <2>1. ItemFormed(i) /\ MovesKnown(m, i)
    BY <1>1 DEF RunsKnown
  <2> HIDE DEF i
  <2> QED BY <2>1 DEF ItemFormed, MovesKnown
<1>5. m \in Sides /\ Mirror \in Sides /\ m # Mirror /\ run[m].staged # Absent
  BY <1>1, SideParts, TransferAssumption DEF TransferAssumption
<1>6. Flying(m)
  BY <1>1 DEF Flying, Unfinished
<1>7. ASSUME Regular' PROVE Based' /\ LocalMoves' /\ MirrorMoves' /\ FromMirror'
  <2>1. /\ Regular /\ Alone /\ Staging /\ LocalFlights /\ LocalOne /\ MirrorFlights
        /\ Based /\ LocalMoves /\ MirrorMoves /\ FromMirror
    BY <1>7
  <2>2. \A n \in Machines \ {m} : run[n] = None /\ run'[n] = None
    BY <1>1, <2>1 DEF Alone
  <2>3. \A s \in Sides : Standing(s) = Present(s)
    BY <1>1, <2>2 DEF Standing
  <2>4. Agreement(m) = entry[m] /\ Agreement(m)' = i.to.place
        /\ \A n \in Machines \ {m} : Agreement(n) = entry[n] /\ Agreement(n)' = entry[n]
    BY <1>1, <1>4, <2>2 DEF Agreement
  <2>5. Dest(m)' = Dest(m)
    BY <1>1 DEF Dest
  <2>6. Dest(m) \in Sides /\ Present(Dest(m)) \subseteq {i.to, i.old}
    BY <1>4, <1>5, <1>6, <2>1 DEF Dest, MirrorFlights, MirrorFlight, LocalFlights, LocalFlight
  <2>7. Standing(Dest(m))' = {i.to}
    <3>1. Present(Dest(m))' \subseteq {i.to, i.old} /\ i.to \in Present(Dest(m))'
      BY <1>1, <1>4, <1>5, <2>5, <2>6 DEF Present
    <3>2. \A p \in Present(Dest(m))' : p \in Standing(Dest(m))' <=> p # i.old \/ i.old = None
      BY <1>1, <2>2, <2>5 DEF Standing
    <3>3. None \notin Present(Dest(m))' /\ Standing(Dest(m))' \subseteq Present(Dest(m))'
      BY TransferAssumption DEF TransferAssumption, Present, Standing
    <3> QED BY <1>4, <3>1, <3>2, <3>3
  <2>8. \A s \in Sides \ {Dest(m)} : Standing(s)' = Standing(s)
    <3> SUFFICES ASSUME NEW s \in Sides \ {Dest(m)} PROVE Standing(s)' = Standing(s)
      OBVIOUS
    <3>1. Present(s)' = Present(s)
      BY <1>1 DEF Present
    <3>2. Standing(s)' = Present(s)'
      BY <1>1, <2>2, <2>5 DEF Standing
    <3> QED BY <2>3, <3>1, <3>2
  <2>9. \A n \in Machines \ {m} :
           /\ ~(seen[n] \subseteq seen[Mirror]) => ~(seen'[n] \subseteq seen'[Mirror])
           /\ ~(seen[Mirror] \subseteq seen[n]) => ~(seen'[Mirror] \subseteq seen'[n])
           /\ seen'[n] = seen[n] /\ n # Mirror /\ n \in Sides
    BY <1>2, LearnsTracked, SideParts DEF Learns
  <2> HIDE DEF i
  <2>10. CASE i.side = "mirror"
    <3>1. Dest(m) = Mirror /\ MirrorFlight(m) /\ ~LocalFlight(m)
      BY <1>6, <2>10 DEF Dest, MirrorFlight, LocalFlight, i
    <3>2. Present(m) = {i.from}
      <4>1. files[m][i.from] # Absent
        BY <2>1, <3>1 DEF Staging, i
      <4>2. \A p, q \in Present(m) : p = q
        BY <2>1, <3>1 DEF LocalOne
      <4> QED BY <1>4, <4>1, <4>2 DEF Present
    <3>3. Standing(Mirror)' = {i.to} /\ Standing(m)' = {i.from}
      BY <1>5, <2>3, <2>5, <2>7, <2>8, <3>1, <3>2
    <3>4. Based'
      BY <3>3 DEF Based
    <3>5. LocalMoves'
      <4> SUFFICES ASSUME NEW n \in Machines, MovedFrom(n, Agreement(n))'
                   PROVE  ~(seen'[n] \subseteq seen'[Mirror])
        BY DEF LocalMoves
      <4>1. n # m
        BY <1>4, <2>4, <3>3 DEF MovedFrom
      <4>2. MovedFrom(n, Agreement(n))
        BY <2>4, <2>8, <2>9, <3>1, <4>1 DEF MovedFrom
      <4> QED BY <2>1, <2>9, <4>1, <4>2 DEF LocalMoves
    <3>6. MirrorMoves'
      <4> SUFFICES ASSUME NEW n \in Machines, MovedFrom(Mirror, Agreement(n))'
                   PROVE  ~(seen'[Mirror] \subseteq seen'[n])
        BY DEF MirrorMoves
      <4>1. n # m
        BY <2>4, <3>3 DEF MovedFrom
      <4>2. entry[n] # None /\ i.to.place # entry[n]
        BY <2>4, <3>3, <4>1 DEF MovedFrom
      <4>3. CASE i.old = None
        <5>1. Standing(Mirror) = {i.to}
          <6>1. Standing(Mirror) # {}
            BY <2>1, <2>4, <4>1, <4>2 DEF Based
          <6>2. Present(Mirror) \subseteq {i.to, None} /\ None \notin Present(Mirror)
            BY <2>6, <3>1, <4>3, TransferAssumption DEF TransferAssumption, Present
          <6> QED BY <1>5, <2>3, <6>1, <6>2
        <5>2. MovedFrom(Mirror, Agreement(n))
          BY <2>4, <4>1, <4>2, <5>1 DEF MovedFrom
        <5> QED BY <2>1, <2>9, <4>1, <5>2 DEF MirrorMoves
      <4>4. CASE i.old # None /\ i.by # "ancestry"
        <5>1. PICK k \in Nat : /\ \A s \in Sides : seen[s] \subseteq 1 .. k
                               /\ \A x \in 1 .. k : \E s \in Sides : x \in seen[s]
          BY DEF Numbered
        <5>2. NextMove \notin seen[n]
          BY <2>9, <4>1, <5>1, NextMoveNew
        <5>3. NextMove \in seen'[Mirror]
          BY <1>2, <4>4
        <5> QED BY <2>9, <4>1, <5>2, <5>3
      <4>5. CASE i.old # None /\ i.by = "ancestry"
        <5>1. entry[m] = i.old.place /\ i.old.place # i.to.place /\ i.from.place = i.to.place
          BY <1>4, <2>10, <4>5
        <5>2. entry[m] # None
          <6>1. i.old \in Paths
            BY <1>1, <4>5, RunParts DEF Base, i, PlanItem, PathOrNone
          <6> QED BY <5>1, <6>1, PathParts, TransferAssumption DEF TransferAssumption
        <5>3. MovedFrom(m, Agreement(m))
          BY <1>5, <2>3, <2>4, <3>2, <5>1, <5>2 DEF MovedFrom
        <5>4. PICK x \in seen[m] : x \notin seen[Mirror]
          BY <2>1, <5>3 DEF LocalMoves
        <5>5. x \notin seen[n]
          BY <4>1, <5>4 DEF Shared
        <5>6. x \in seen'[Mirror]
          BY <1>2, <2>10, <5>4
        <5> QED BY <2>9, <4>1, <5>5, <5>6
      <4> QED BY <4>3, <4>4, <4>5
    <3>7. FromMirror'
      BY <1>1, <2>2, <2>10 DEF FromMirror, LocalFlight, Flying, i
    <3> QED BY <3>4, <3>5, <3>6, <3>7
  <2>11. CASE i.side = "local"
    <3>1. Dest(m) = m /\ LocalFlight(m)
      BY <1>6, <2>11 DEF Dest, LocalFlight, i
    <3>2. Present(Mirror) = {i.from}
      BY <2>1, <3>1 DEF FromMirror, i
    <3>3. Standing(m)' = {i.to} /\ Standing(Mirror)' = {i.from}
      BY <1>5, <2>3, <2>5, <2>7, <2>8, <3>1, <3>2
    <3>4. Based'
      BY <3>3 DEF Based
    <3>5. /\ ~MovedFrom(m, Agreement(m))' /\ ~MovedFrom(Mirror, Agreement(m))'
      BY <1>4, <2>4, <3>3 DEF MovedFrom
    <3>6. \A n \in Machines \ {m} :
             /\ MovedFrom(n, Agreement(n))' => MovedFrom(n, Agreement(n))
             /\ MovedFrom(Mirror, Agreement(n))' => MovedFrom(Mirror, Agreement(n))
      BY <1>5, <2>4, <2>8, <2>9, <3>1 DEF MovedFrom
    <3>7. LocalMoves' /\ MirrorMoves'
      BY <2>1, <2>9, <3>5, <3>6 DEF LocalMoves, MirrorMoves
    <3>8. FromMirror'
      <4>1. Present(Mirror)' = Present(Mirror)
        BY <1>1, <1>5, <3>1 DEF Present
      <4>2. run'[m].item.from = i.from
        BY <1>1
      <4> QED BY <2>2, <3>2, <4>1, <4>2 DEF FromMirror, LocalFlight, Flying
    <3> QED BY <3>4, <3>7, <3>8
  <2> QED BY <1>4, <2>10, <2>11
<1> QED BY <1>3, <1>7 DEF InvMoves

-----------------------------------------------------------------------------
\* What is known before a step.
LEMMA MovesParts ==
  ASSUME Base, InvAlone, InvRecorded, InvOne, InvMoves, [Next]_vars
  PROVE  MovesBefore
<1>1. Regular' => Regular
  BY RegularBefore
<1>2. Regular => /\ Alone /\ Steady /\ Staging /\ LocalFlights /\ LocalOne
                 /\ MirrorFlights /\ MirrorOne /\ Copies(Mirror) = Present(Mirror)
                 /\ \A m \in Machines : Copies(m) = Present(m)
  BY RegularParts
<1> QED BY <1>1, <1>2 DEF MovesBefore, InvMoves, Tracked

\* At the start the chat is where it was agreed, and nobody has moved it.
LEMMA InitMoves == Init => InvMoves
<1> SUFFICES ASSUME Init PROVE InvMoves
  OBVIOUS
<1>1. /\ seen = [s \in Sides |-> {}] /\ \A n \in Machines : run[n] = None
  BY DEF Init
<1>2. Tracked
  <2>1. seen \in [Sides -> SUBSET Nat] /\ \A s \in Sides : seen[s] = {}
    BY <1>1
  <2>2. Numbered
    <3>1. 0 \in Nat /\ 1 .. 0 = {}
      OBVIOUS
    <3> QED BY <2>1, <3>1 DEF Numbered
  <2>3. Shared /\ RunsKnown
    BY <1>1, <2>1, SideParts DEF Shared, RunsKnown
  <2> QED BY <2>1, <2>2, <2>3 DEF Tracked
<1>3. PICK start \in Starts : files = start.files /\ entry = start.entry
  BY DEF Init
<1>4. \A n \in Machines : AsAgreed(start, n)
  BY <1>3, TransferAssumption DEF TransferAssumption
<1>5. \A s \in Sides : Standing(s) = Present(s)
  BY <1>1 DEF Standing
<1>6. \A n \in Machines : Agreement(n) = entry[n]
  BY <1>1 DEF Agreement
<1>7. Based
  BY <1>3, <1>4, <1>5, <1>6, SideParts DEF Based, AsAgreed, Present
<1>8. \A n \in Machines : ~MovedFrom(n, Agreement(n)) /\ ~MovedFrom(Mirror, Agreement(n))
  BY <1>3, <1>4, <1>5, <1>6, SideParts DEF MovedFrom, AsAgreed, Present
<1>9. FromMirror
  BY <1>1 DEF FromMirror, LocalFlight, Flying
<1> QED BY <1>2, <1>7, <1>8, <1>9 DEF InvMoves, LocalMoves, MirrorMoves

\* Every step keeps who moved what.
LEMMA MovesStep ==
  ASSUME Base, InvAlone, InvRecorded, InvOne, InvMoves, [Next]_vars
  PROVE  InvMoves'
<1>1. MovesBefore
  BY MovesParts
<1>2. ASSUME NEW m \in Machines, Quiet(m) PROVE InvMoves'
  BY <1>1, <1>2, QuietMoves, RecordOnlyMoves
<1>3. CASE \E m \in Machines : \/ Quiet(m) \/ Advances(m) \/ Replace(m) \/ Remove(m)
                               \/ Ends(m) \/ Rewriting(m)
  BY <1>1, <1>2, <1>3, AdvancesMoves, ReplaceMoves, RemoveMoves, EndsMoves, RewritingMoves
<1>4. CASE \E p \in Paths : Client(p)
  BY <1>1, <1>4, ClientMoves
<1>5. CASE UNCHANGED vars
  <2>1. UNCHANGED <<files, run, entry, seen, codex, overlap, interrupted, used>>
    BY <1>5 DEF vars, codexState, ghosts
  <2>2. /\ \A n \in Machines : Agreement(n)' = Agreement(n)
        /\ \A s \in Sides : Standing(s)' = Standing(s)
    BY <2>1, PlacesHeld
  <2>3. Tracked'
    <3>1. RunsKnown'
      BY <1>1, <2>1, RunsKnownOn DEF MovesBefore
    <3> QED BY <1>1, <2>1, <3>1, SeenTracked
  <2>4. ASSUME Regular' PROVE Based' /\ LocalMoves' /\ MirrorMoves' /\ FromMirror'
    <3>1. Based /\ LocalMoves /\ MirrorMoves /\ FromMirror
      BY <1>1, <2>4 DEF MovesBefore
    <3>2. Based' /\ LocalMoves' /\ MirrorMoves'
      BY <2>1, <2>2, <3>1, PlacesSame
    <3>3. FromMirror'
      BY <2>1, <3>1 DEF FromMirror, LocalFlight, Flying, Present
    <3> QED BY <3>2, <3>3
  <2> QED BY <2>3, <2>4 DEF InvMoves
<1> QED BY <1>3, <1>4, <1>5, NextKinds

\* Who moved the chat since a machine agreed is known in every behaviour.
THEOREM MovesCorrect == Spec => []InvMoves
<1>1. Base /\ InvAlone /\ InvRecorded /\ InvOne /\ InvMoves /\ [Next]_vars => InvMoves'
  BY MovesStep
<1> QED BY InitMoves, BaseCorrect, AloneCorrect, RecordedCorrect, OneCorrect, <1>1, PTL DEF Spec

\* The side that gives way has not seen the move it gives way to.
LEMMA MoverStays ==
  ASSUME Base, InvAlone, InvRecorded, InvOne, InvMoves, NEW m \in Machines,
         MovesState(m), ~overlap, ~interrupted, used["headless"] = 0
  PROVE  ~Undoes(m)
<1> DEFINE i == run[m].item
<1>1. /\ run[m] # None /\ run[m].phase = "committing" /\ i.by = "ancestry" /\ i.old # None
      /\ i.old.place # i.to.place /\ entry[m] # None
  BY DEF MovesState, Phase
<1>2. Regular /\ Alone /\ Steady /\ Staging /\ LocalOne
  BY RegularParts DEF Regular
<1>3. LocalMoves /\ MirrorMoves /\ FromMirror /\ RunsKnown
  BY <1>2 DEF InvMoves, Tracked
<1>4. Flying(m)
  BY <1>1, <1>2 DEF Flying, Steady, Unfinished
<1>5. \A s \in Sides : Standing(s) = Present(s)
  BY <1>1, <1>2 DEF Standing, Alone
<1>6. Agreement(m) = entry[m]
  BY <1>1 DEF Agreement
<1>7. /\ i.side \in {"mirror", "local"} /\ i.from \in Paths /\ i.from.place = i.to.place
      /\ IF i.side = "mirror" THEN entry[m] = i.old.place ELSE entry[m] # i.to.place
  <2>1. ItemFormed(i) /\ MovesKnown(m, i) /\ i.by = "ancestry" /\ i.old # None
        /\ i.old.place # i.to.place
    BY <1>1, <1>3 DEF RunsKnown, Base, RunFormed
  <2> HIDE DEF i
  <2> QED BY <2>1 DEF ItemFormed, MovesKnown
<1>8. CASE i.side = "mirror"
  <2>1. MirrorFlight(m) /\ ~LocalFlight(m) /\ Dest(m) = Mirror
    BY <1>4, <1>8 DEF MirrorFlight, LocalFlight, Dest
  <2>2. i.from \in Present(m)
    BY <1>2, <1>7, <2>1 DEF Staging, Present
  <2>3. MovedFrom(m, Agreement(m))
    BY <1>1, <1>5, <1>6, <1>7, <1>8, <2>2, SideParts DEF MovedFrom
  <2> QED BY <1>3, <2>1, <2>3 DEF LocalMoves, Undoes
<1>9. CASE i.side = "local"
  <2>1. LocalFlight(m) /\ Dest(m) # Mirror
    BY <1>4, <1>9, SideParts DEF LocalFlight, Dest
  <2>2. i.from \in Present(Mirror)
    BY <1>3, <2>1 DEF FromMirror
  <2>3. MovedFrom(Mirror, Agreement(m))
    BY <1>1, <1>5, <1>6, <1>7, <1>9, <2>2, SideParts DEF MovedFrom
  <2> QED BY <1>3, <2>1, <2>3 DEF MirrorMoves, Undoes
<1> QED BY <1>7, <1>8, <1>9

\* An archive move of a person is never undone by a sync that knows no later
\* one, for any machines, settings, starts and events (D-023).
THEOREM MoverIsFollowed == Spec => MoverWins
<1>1. Base /\ InvAlone /\ InvRecorded /\ InvOne /\ InvMoves /\ [Next]_vars =>
        [\A m \in Machines :
           MovesState(m) /\ ~overlap /\ ~interrupted /\ used["headless"] = 0 =>
              ~Undoes(m)]_vars
  BY MoverStays
<1> QED BY BaseCorrect, AloneCorrect, RecordedCorrect, OneCorrect, MovesCorrect, <1>1, PTL
        DEF Spec, MoverWins
=============================================================================
