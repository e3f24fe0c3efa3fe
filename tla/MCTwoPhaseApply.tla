--------------------------- MODULE MCTwoPhaseApply ---------------------------
(***************************************************************************)
(* TwoPhaseApply on small instances: ids are model values, interchangeable *)
(* within their set.                                                       *)
(***************************************************************************)
EXTENDS TwoPhaseApply, TLC

Symmetry == Permutations(Request) \cup Permutations(Key)
              \cup Permutations(Approval) \cup Permutations(Target)
=============================================================================
