-------------------------- MODULE MCCodexCatalogue --------------------------
(***************************************************************************)
(* A chat Codex lists, with a copy leftOpen in the archive, and one whose file *)
(* is there and not listed; and a rebuild that was ended part-way, with a  *)
(* named chat that was brought back from the archive elsewhere.            *)
(***************************************************************************)
EXTENDS CodexCatalogue, TLC

CONSTANTS n1, n2
Rebuilt(status) == [status |-> status, mark |-> Absent, success |-> 0, updated |-> 0]
Board(c, n) == [p \in Peers |-> [d \in Chats |-> IF p \notin Talking /\ d = c THEN n ELSE Absent]]
MCStarts ==
    {[files |-> (1 :> {"dated", "archive"} @@ 2 :> {"dated"}), rows |-> (1 :> Row("dated", Title) @@ 2 :> Absent),
      backfill |-> Rebuilt("complete"), boards |-> Board(2, n2)],
     [files |-> (1 :> {"aside"} @@ 2 :> {}), rows |-> (1 :> Row("archive", n1) @@ 2 :> Absent),
      backfill |-> Rebuilt("running"), boards |-> Board(1, Absent)]}
=============================================================================
