-------------------------- MODULE MCEvaluatorRegistry --------------------------
(***************************************************************************)
(* EvaluatorRegistry for TLC.  Nothing tells one staker from another, so   *)
(* states that differ by a permutation of the stakers are checked once.    *)
(***************************************************************************)
EXTENDS EvaluatorRegistry

StakerSymmetry == Permutations(Stakers)

=============================================================================
