-------------------------- MODULE MCBaselineSync --------------------------
(***************************************************************************)
(* Instances of BaselineSync for TLC.                                      *)
(***************************************************************************)
EXTENDS BaselineSync, TLC

CONSTANTS m1, m2, f1, f2, skills, rules

OneRoot == [f \in {f1} |-> skills]
TwoInOneRoot == [f \in {f1, f2} |-> skills]
SameSizes == [i \in Ids |-> 1]
MachineSymmetry == Permutations({m1, m2})

\* Bound: four events besides the runs themselves when at most one of them is
\* something else than a write, three when two are.
Mishaps == used["remove"] + used["restamp"] + used["empty"] + used["fail"]
FewEvents == /\ used["write"] + Mishaps <= 4 /\ Mishaps <= 2
             /\ Mishaps = 2 => used["write"] <= 1
===========================================================================
