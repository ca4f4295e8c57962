---------------------------- MODULE MCWriteClaim ----------------------------
(***************************************************************************)
(* Instances of WriteClaim for TLC.                                        *)
(***************************************************************************)
EXTENDS WriteClaim, TLC

Symmetry == Permutations(Attempts) \union Permutations(Admins)
              \union Permutations(Conversations)
=============================================================================
