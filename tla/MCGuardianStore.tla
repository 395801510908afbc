-------------------------- MODULE MCGuardianStore --------------------------
(***************************************************************************)
(* Instances of GuardianStore for TLC.                                     *)
(***************************************************************************)
EXTENDS GuardianStore, TLC

CONSTANTS p1, p2, big, mid, small

\* Going from four or three projects to one is a suspicious drop, from four to
\* three it is not.
Sizes == (big :> 4) @@ (mid :> 3) @@ (small :> 1)
===========================================================================
