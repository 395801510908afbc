----------------------------- MODULE MCHandoff -----------------------------
(***************************************************************************)
(* Instances of Handoff for TLC.                                           *)
(***************************************************************************)
EXTENDS Handoff, TLC

CONSTANTS m1, m2, config, chat

\* One machine lets a rule decide, the other leaves conflicts to its person.
TwoPolicies == (m1 :> "manual_abort") @@ (m2 :> "prefer_cloud")

\* Bound: two failures, or one breach of the protocol; after two failures a behaviour
\* ends one step after its second write, after a breach one step after its second
\* handoff.
MishapBound ==
    \/ used["breach"] = 0 /\ (used["failure"] = MaxMishaps => used["write"] < MaxWrites)
    \/ used["breach"] = 1 /\ used["failure"] = 0 /\ used["handoff"] < MaxHandoffs

\* Bound: a person starts a run only where there is something to load or to hand off,
\* and accepts what is not delivered only where something is not (the watcher starts
\* its runs anyhow: at sign-in, and when Codex closes).
Useful ==
    \A m \in Machines : LET pending == Pending(m, board[m]) IN
        At(m, "watch") /\ prog'[m].pc = "begin" =>
            \/ prog'[m].last # prog[m].last
            \/ /\ m \notin codex /\ (pending # {} \/ local[m] # cloud[m])
               /\ prog'[m].accept => \E r \in pending : ~Delivered(m, r.rec)
===========================================================================
