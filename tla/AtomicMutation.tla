--------------------------- MODULE AtomicMutation ---------------------------
(***************************************************************************)
(* What the mutation envelope promises of every operation, whatever lock,  *)
(* journal, backup and gate it is made of: its actions take effect once    *)
(* each, in their order, while it is open; it ends with all of them, with  *)
(* none of them, or because a person ended it.                             *)
(***************************************************************************)
EXTENDS Naturals

CONSTANTS
    Ops,        \* operations
    Actions,    \* what a plan may be made of
    RankOf      \* action -> its place in the order of a plan

VARIABLES
    stage,    \* operation -> "none", "open", "complete" or "failed"
    want,     \* operation -> the actions of its plan
    effect,   \* operation -> those that took effect
    ended     \* the operations a person ended

atomicVars == <<stage, want, effect, ended>>

AtomicInit ==
    /\ stage = [o \in Ops |-> "none"]
    /\ want = [o \in Ops |-> {}]
    /\ effect = [o \in Ops |-> {}]
    /\ ended = {}

Becomes(o, to) == stage' = [stage EXCEPT ![o] = to]

Open(o) ==
    /\ stage[o] = "none" /\ Becomes(o, "open")
    /\ want'[o] \subseteq Actions /\ want' = [want EXCEPT ![o] = want'[o]]
    /\ UNCHANGED <<effect, ended>>

\* Before a deletion every copy has landed, before a copy out every copy in.
TakeEffect(o, a) ==
    /\ stage[o] = "open"
    /\ \A b \in want[o] : RankOf[b] < RankOf[a] => b \in effect[o]
    /\ effect' = [effect EXCEPT ![o] = @ \union {a}]
    /\ UNCHANGED <<stage, want, ended>>

Complete(o) ==
    /\ stage[o] = "open" /\ effect[o] = want[o] /\ Becomes(o, "complete")
    /\ UNCHANGED <<want, effect, ended>>

\* Nobody is asked about an operation that changed nothing.
Abandon(o) ==
    /\ stage[o] = "open" /\ effect[o] = {} /\ Becomes(o, "failed")
    /\ UNCHANGED <<want, effect, ended>>

EndByPerson(o) ==
    /\ stage[o] \in {"open", "failed"} /\ Becomes(o, "failed")
    /\ ended' = ended \union {o}
    /\ UNCHANGED <<want, effect>>

AtomicNext ==
    \E o \in Ops :
        \/ Open(o) \/ Complete(o) \/ Abandon(o) \/ EndByPerson(o)
        \/ \E a \in want[o] \ effect[o] : TakeEffect(o, a)

AtomicSpec == AtomicInit /\ [][AtomicNext]_atomicVars
=============================================================================
