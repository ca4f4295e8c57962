--------------------------- MODULE MCEffectDispute ---------------------------
(***************************************************************************)
(* Instances of EffectDispute for TLC.                                     *)
(***************************************************************************)
EXTENDS EffectDispute, TLC

Symmetry == Permutations(Targets) \union Permutations(Calls) \union Permutations(People)
=============================================================================
