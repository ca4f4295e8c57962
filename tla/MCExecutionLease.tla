-------------------------- MODULE MCExecutionLease --------------------------
(***************************************************************************)
(* Instances of ExecutionLease for TLC.                                    *)
(***************************************************************************)
EXTENDS ExecutionLease, TLC

Symmetry == Permutations(Runs)
=============================================================================
