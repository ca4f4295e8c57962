-------------------------- MODULE DecisionContract --------------------------
(***************************************************************************)
(* What the confirmation machinery promises to the rest of the runtime: a  *)
(* token is asked at most once, gets at most one verdict, keeps it, and    *)
(* lets at most one party run the write, after an approval.                *)
(***************************************************************************)
CONSTANTS
    Tokens,
    Parties    \* whoever may run the write

VARIABLES
    verdict,   \* token -> "absent", "pending" or a terminal verdict
    runners    \* token -> the parties that ran the write

Init ==
    /\ verdict = [t \in Tokens |-> "absent"]
    /\ runners = [t \in Tokens |-> {}]

Ask(t) ==
    /\ verdict[t] = "absent"
    /\ verdict' = [verdict EXCEPT ![t] = "pending"]
    /\ UNCHANGED runners

Decide(t, v) ==
    /\ verdict[t] = "pending"
    /\ verdict' = [verdict EXCEPT ![t] = v]
    /\ UNCHANGED runners

Run(t, who) ==
    /\ verdict[t] = "approved" /\ runners[t] = {}
    /\ runners' = [runners EXCEPT ![t] = {who}]
    /\ UNCHANGED verdict

Next == \E t \in Tokens :
    \/ Ask(t)
    \/ \E v \in {"approved", "declined", "timeout"} : Decide(t, v)
    \/ \E who \in Parties : Run(t, who)

Spec == Init /\ [][Next]_<<verdict, runners>>
=============================================================================
