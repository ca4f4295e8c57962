---------------------------- MODULE MCFlowRuntime ----------------------------
(***************************************************************************)
(* An instance of FlowRuntime for TLC.  At first a condition sends long    *)
(* requests to an assessment by the model and a manager, short ones to a   *)
(* colleague.  A new release has everything end with the manager; another  *)
(* drops the colleague.                                                    *)
(***************************************************************************)
EXTENDS FlowRuntime, TLC

First == [human |-> {"manager", "colleague"}, ai |-> {"assess"}, condition |-> {"length"},
          first |-> "length",
          then |-> [n \in {"length"} |-> "assess"], else |-> [n \in {"length"} |-> "colleague"],
          follows |-> [n \in {"assess", "manager", "colleague"} |->
                          IF n = "assess" THEN "manager" ELSE "end"],
          holds |-> {<<"length", "long">>}]

Stricter == [First EXCEPT !.follows["colleague"] = "manager"]

Shorter == [human |-> {"manager"}, ai |-> {}, condition |-> {}, first |-> "manager",
            then |-> <<>>, else |-> <<>>, follows |-> [n \in {"manager"} |-> "end"],
            holds |-> {}]

MCDefinitions == {First, Stricter, Shorter}

Symmetry == Permutations(Calls)
=============================================================================
