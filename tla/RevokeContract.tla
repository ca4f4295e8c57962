--------------------------- MODULE RevokeContract ---------------------------
(***************************************************************************)
(* What the revocation of effects promises to those who read revoke_status *)
(* and look at the targets: a target changes only while its row says that  *)
(* the outcome is unknown, "revoked" is said of changed targets only, and  *)
(* nothing becomes "not revoked" again.                                    *)
(***************************************************************************)
CONSTANTS Effects

VARIABLES
    reading,   \* effect -> what its row says
    fact,      \* effect -> "live", "changed" by a revocation, or "restored"
    doubted    \* effects about which an answer was lost on its way

Init ==
    /\ reading = [e \in Effects |-> "null"]
    /\ fact = [e \in Effects |-> "live"]
    /\ doubted = {}

Open(e) == reading[e] = "compensating" \/ e \in doubted

Intend(e) ==
    /\ reading[e] # "compensating"
    /\ reading' = [reading EXCEPT ![e] = "compensating"]
    /\ UNCHANGED <<fact, doubted>>

Change(S) ==
    /\ \A e \in S : Open(e)
    /\ fact' = [e \in Effects |-> IF e \in S THEN "changed" ELSE fact[e]]
    /\ UNCHANGED <<reading, doubted>>

Conclude(e, v) ==
    /\ Open(e)
    /\ v = "revoked" => fact[e] # "live"
    /\ reading' = [reading EXCEPT ![e] = v]
    /\ UNCHANGED <<fact, doubted>>

Restore(e) ==
    /\ fact[e] = "changed"
    /\ fact' = [fact EXCEPT ![e] = "restored"]
    /\ UNCHANGED <<reading, doubted>>

\* After a lost answer only this is left: a row never reads "null" again.
Doubt(S) ==
    /\ doubted' = doubted \union S
    /\ \A e \in Effects :
         \/ e \in S /\ reading'[e] # "null"
         \/ e \notin S /\ reading'[e] = reading[e] /\ fact'[e] = fact[e]

Next ==
    \/ \E e \in Effects :
         \/ Intend(e) \/ Restore(e)
         \/ \E v \in {"compensating", "revoked", "revoke_failed"} : Conclude(e, v)
    \/ \E S \in SUBSET Effects : Change(S) \/ Doubt(S)

Spec == Init /\ [][Next]_<<reading, fact, doubted>>
=============================================================================
