------------------------- MODULE MCSessionTransfer -------------------------
(***************************************************************************)
(* Instances of SessionTransfer for TLC.                                   *)
(***************************************************************************)
EXTENDS SessionTransfer, TLC

CONSTANTS m1, m2

With(rule, direction, newChats, box, inSet) ==
    [rule |-> rule, direction |-> direction, newChats |-> newChats,
     box |-> box, inSet |-> inSet]
Newest == With("newer", "bidirectional", "same_path", "jsonl", TRUE)
Asking == With("ask", "bidirectional", "same_path", "packed", TRUE)

Sending == With("ask", "to_cloud", "same_path", "jsonl", TRUE)
Fetching == With("ask", "to_local", "keep_in_cloud", "jsonl", FALSE)

\* Bound: a machine that decides by time beside one that leaves it to a person,
\* and one that only sends beside one that only fetches, a chat outside its set.
TwoSettings == {(m1 :> Newest) @@ (m2 :> Asking), (m1 :> Sending) @@ (m2 :> Fetching)}

First == [recs |-> {1}, format |-> 0, read |-> "whole"]
OnlyAt(p, h) == [q \in Paths |-> IF q = p THEN h ELSE Absent]
Nowhere == [q \in Paths |-> Absent]
InSessions(recs) == OnlyAt(At("sessions", "jsonl"), [First EXCEPT !.recs = recs])
Rows == [m \in Machines |-> "sessions"]
Nothing == [m \in Machines |-> None]

\* A chat that began on one machine; one both machines hold and agreed on; one
\* both went on with, where one machine has sent its part.
New == [files |-> (m1 :> InSessions({1})) @@ (m2 :> Nowhere) @@ (Mirror :> Nowhere),
        row |-> [Rows EXCEPT ![m2] = "unlisted"], entry |-> Nothing]
Agreed == [files |-> [s \in Sides |-> InSessions({1})],
           row |-> Rows, entry |-> Rows]
Parted == [files |-> (m1 :> InSessions({1, 2})) @@ (m2 :> InSessions({1, 3}))
                        @@ (Mirror :> InSessions({1, 2})),
           row |-> Rows, entry |-> Rows]
ThreeStarts == {New, Agreed, Parted}

Most == [e \in Events |-> IF e = "move" THEN 2 ELSE 1]

\* Bound: the moves and the decisions that count as one.
FewMoves == Cardinality(UNION {seen[s] : s \in Sides}) <= 2
============================================================================
