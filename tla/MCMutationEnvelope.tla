------------------------ MODULE MCMutationEnvelope ------------------------
(***************************************************************************)
(* Instances of MutationEnvelope for TLC.                                  *)
(***************************************************************************)
EXTENDS MutationEnvelope, TLC

CONSTANTS m1, m2, p1, p2, f1, f2, oldText, newText

Copy(f, side) == [file |-> f, side |-> side, to |-> newText]
Delete(f, side) == [file |-> f, side |-> side, to |-> Absent]

\* Two processes of one machine, for instance the window and the login task.
SameMachine == [p \in {p1, p2} |-> m1]
ProcSymmetry == Permutations({p1, p2})
\* One process on each of two machines.
TwoMachines == (p1 :> m1) @@ (p2 :> m2)

\* One copy in each direction; a copy and a deletion.
MixedPlans == {{Copy(f1, "local"), Copy(f2, "cloud")},
               {Copy(f1, "cloud"), Delete(f2, "local")}}
BothSides == {{Copy(f1, "local"), Copy(f2, "cloud")}}

\* Every destination holds the old text; or f1 is missing on the local side.
AllOld == [r \in Roots |-> [f \in Files |-> oldText]]
OldTrees == {AllOld}
FirstMissing == {[AllOld EXCEPT ![m1][f1] = Absent]}

\* Bound: two mishaps in a behaviour, a refusal and a foreign write not together.
FewMishaps ==
    /\ used["crash"] + used["refusal"] + used["edit"] + used["start"] <= 2
    /\ used["refusal"] + used["edit"] <= 1
===========================================================================
