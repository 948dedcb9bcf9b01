-------------------------- MODULE MCMissedVaaRound --------------------------
(* Constant values for model checking MissedVaaRound.                      *)
EXTENDS MissedVaaRound, TLC
CONSTANTS f1, f2, f3
ThreeFilters == <<f1, f2, f3>>
\* Three leaps of one emitter, one of another, none of a third.
Leaps == f1 :> {1, 2, 3} @@ f2 :> {1} @@ f3 :> {}
=============================================================================
