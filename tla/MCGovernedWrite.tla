-------------------------- MODULE MCGovernedWrite --------------------------
(***************************************************************************)
(* Instances of GovernedWrite for TLC.                                     *)
(***************************************************************************)
EXTENDS GovernedWrite, TLC

Symmetry == Permutations(Runs)
=============================================================================
