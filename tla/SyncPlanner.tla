----------------------------- MODULE SyncPlanner -----------------------------
(***************************************************************************)
(* What planner.build_sync_plan decides for one path, from the file on     *)
(* either side and the entry of the last sync, and what manifest keeps of  *)
(* a file.  Pure operators; BaselineSync runs them.                        *)
(*                                                                         *)
(* A version is a record: "id" names its content (None: no file), "mtime"  *)
(* is its modification time, "gone" the contents a removal took (history,   *)
(* no decision reads it).                                                  *)
(***************************************************************************)
EXTENDS Integers

CONSTANTS
    None,
    SizeOf,          \* content -> size in bytes
    Tolerance,       \* sync.time_tolerance_seconds
    Compare,         \* sync.compare: "mtime" or "mtime_hash_fallback"
    EqualTimes,      \* sync.equal_mtime_action
    DeletePolicy     \* sync.delete_policy: "never" or "propagate"

ConflictPolicies ==
    {"manual_abort", "prefer_local", "prefer_cloud", "prefer_newer_mtime"}
Decisions ==
    {"nothing", "to_local", "to_cloud", "del_local", "del_cloud", "conflict"}
Deletions == {"del_local", "del_cloud"}

ASSUME PlannerAssumption ==
    /\ Tolerance \in Nat
    /\ Compare \in {"mtime", "mtime_hash_fallback"}
    /\ EqualTimes \in {"skip", "prefer_local", "prefer_cloud", "manual_abort"}
    /\ DeletePolicy \in {"never", "propagate"}

Missing(v) == v.id = None
Fingerprint(v) ==
    IF Missing(v) THEN None ELSE [mtime |-> v.mtime, size |-> SizeOf[v.id]]

Close(s, t) == s - t <= Tolerance /\ t - s <= Tolerance

\* _has_side_changed: against what the baseline recorded of this side.
Changed(v, was) ==
    was = None \/ SizeOf[v.id] # was.size \/ ~Close(v.mtime, was.mtime)

SameFile(l, c) ==
    /\ SizeOf[l.id] = SizeOf[c.id]
    /\ Close(l.mtime, c.mtime)
    /\ Compare = "mtime_hash_fallback" => l.id = c.id

From(side) == IF side = "local" THEN "to_cloud" ELSE "to_local"
DeleteFrom(side) == IF side = "local" THEN "del_local" ELSE "del_cloud"
Newer(l, c) == IF l.mtime > c.mtime THEN "to_cloud" ELSE "to_local"

\* The last sync saw the file on both sides.
Held(prev) == prev # None /\ prev.local # None /\ prev.cloud # None

\* One side only has the file: version v, on "side".
DeletionProven(v, side, prev) ==
    DeletePolicy = "propagate" /\ Held(prev) /\ ~Changed(v, prev[side])
DeletionDisputed(prev) == DeletePolicy = "propagate" /\ Held(prev)

OneSide(v, side, prev) ==
    IF DeletionProven(v, side, prev) THEN DeleteFrom(side)
    ELSE IF DeletionDisputed(prev) THEN "conflict"
    ELSE From(side)

\* _resolve_conflict: both sides changed since the last sync.
Resolve(l, c, policy) ==
    CASE policy = "prefer_cloud" -> "to_local"
      [] policy = "prefer_local" -> "to_cloud"
      [] policy = "prefer_newer_mtime" -> Newer(l, c)
      [] policy = "manual_abort" -> "conflict"

\* _resolve_equal_mtime.
ResolveEqual ==
    CASE EqualTimes = "skip" -> "nothing"
      [] EqualTimes = "prefer_local" -> "to_cloud"
      [] EqualTimes = "prefer_cloud" -> "to_local"
      [] EqualTimes = "manual_abort" -> "conflict"

ByTime(l, c) == IF Close(l.mtime, c.mtime) THEN ResolveEqual ELSE Newer(l, c)

BothChanged(l, c, prev) ==
    prev # None /\ Changed(l, prev.local) /\ Changed(c, prev.cloud)

AgreedMeansSame(l, c, prev, policy) ==
    IF SameFile(l, c) THEN "nothing"
    ELSE IF prev = None THEN ByTime(l, c)
    ELSE IF BothChanged(l, c, prev) THEN Resolve(l, c, policy)
    ELSE IF Changed(l, prev.local) THEN "to_cloud"
    ELSE IF Changed(c, prev.cloud) THEN "to_local"
    ELSE "nothing"
BothSides(l, c, prev, policy) ==
    IF SameFile(l, c) THEN "nothing"
    ELSE IF BothChanged(l, c, prev) THEN Resolve(l, c, policy)
    ELSE IF prev # None /\ Changed(l, prev.local) THEN "to_cloud"
    ELSE IF prev # None /\ Changed(c, prev.cloud) THEN "to_local"
    ELSE ByTime(l, c)

\* The loop body of build_sync_plan.
Decide(l, c, prev, policy) ==
    IF Missing(l) /\ Missing(c) THEN "nothing"
    ELSE IF Missing(c) THEN OneSide(l, "local", prev)
    ELSE IF Missing(l) THEN OneSide(c, "cloud", prev)
    ELSE BothSides(l, c, prev, policy)
=============================================================================
