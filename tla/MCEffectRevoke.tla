---------------------------- MODULE MCEffectRevoke ----------------------------
(***************************************************************************)
(* Instances of EffectRevoke for TLC: effects 1, 2 and 3 are one group.    *)
(***************************************************************************)
EXTENDS EffectRevoke, TLC

MCGroup == [e \in Effects |-> IF e \in {1, 2, 3} THEN {1, 2, 3} \intersect Effects ELSE {e}]

MCBatches == {{1, 2, 3}, {4, 5, 6}}

Symmetry == Permutations(Requests)

Untouched(S) ==
    /\ \A e \in S : status[e] = "null" /\ (e \in Local => target[e] = "live")
    /\ \A r \in Requests : job[r].unit \intersect S = {}

\* Bound: the group, and the effects on their own, in behaviours of their own.
Apart == Untouched({4, 5, 6}) \/ Untouched({1, 2, 3})
=============================================================================
