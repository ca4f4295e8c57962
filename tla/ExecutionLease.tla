--------------------------- MODULE ExecutionLease ---------------------------
(***************************************************************************)
(* The execution axis of an approved confirmation: the lease that          *)
(* R4ApprovalService.executeApprovedTool takes on the row before it runs   *)
(* the tool, the outcome it records afterwards, and the administrators'    *)
(* retry of an approval that did not come to an end.  A dialogue that was  *)
(* answered in its own window runs the tool without taking the lease.      *)
(* What the tool does is left open here; GovernedWrite composes this       *)
(* module with WriteClaim.                                                 *)
(***************************************************************************)
CONSTANTS
    Tokens,      \* confirmation tokens
    Runs,        \* executions: by the dialogue, by a decision or by a retry
    Unbounded,   \* tokens whose tool may run longer than EXECUTION_LEASE_MS
    Nobody       \* the lease was never taken

ASSUME LeaseAssumption == Nobody \notin Runs

VARIABLES
    \* columns of ai_confirmation_requests
    approved,    \* tokens with status = 'approved'
    lease,       \* execution_claimed_at: "null", "fresh" or "expired"
    executed,    \* tokens with an executed_at
    error,       \* tokens with an execution_error
    \* an execution
    tok, step, ok,
    holder       \* token -> the run that took its lease last

rows == <<approved, lease, executed, error>>
vars == <<rows, tok, step, ok, holder>>

Steps == {"idle", "clear", "take", "work", "settle", "dialogue", "over"}

TypeOK ==
    /\ approved \in SUBSET Tokens
    /\ lease \in [Tokens -> {"null", "fresh", "expired"}]
    /\ executed \in SUBSET Tokens
    /\ error \in SUBSET Tokens
    /\ tok \in [Runs -> Tokens]
    /\ step \in [Runs -> Steps]
    /\ ok \in SUBSET Runs
    /\ holder \in [Tokens -> Runs \union {Nobody}]

Init ==
    /\ approved = {} /\ executed = {} /\ error = {} /\ ok = {}
    /\ lease = [t \in Tokens |-> "null"]
    /\ tok \in [Runs -> Tokens]
    /\ step = [r \in Runs |-> "idle"]
    /\ holder = [t \in Tokens |-> Nobody]

-----------------------------------------------------------------------------
\* deriveExecutionState: what the lists show of a row.
ExecutionState(t) ==
    CASE t \notin approved     -> "none"
      [] t \in executed        -> "succeeded"
      [] lease[t] = "null"     -> "not_started"
      [] lease[t] = "fresh"    -> "running"
      [] lease[t] = "expired"  -> "failed"

\* isExecutionClaimable.
Claimable(t) == ExecutionState(t) \in {"not_started", "failed"}

Goto(r, next) == step' = [step EXCEPT ![r] = next]

\* The decision axis approves a token once, and one party goes on with it.
Approve(r, next) ==
    /\ step[r] = "idle" /\ tok[r] \notin approved
    /\ approved' = approved \union {tok[r]}
    /\ Goto(r, next)
    /\ UNCHANGED <<lease, executed, error, tok, ok, holder>>

\* The decision reached the row and nobody went on: the dialogue had timed out.
ApproveUnheard(t) ==
    /\ t \notin approved
    /\ approved' = approved \union {t}
    /\ UNCHANGED <<lease, executed, error, tok, step, ok, holder>>

\* retryExecution reads the row; its refusals change nothing.
RetryReads(r) ==
    /\ step[r] = "idle" /\ Claimable(tok[r])
    /\ Goto(r, "clear")
    /\ UNCHANGED <<rows, tok, ok, holder>>

\* _claimExecution of a retry, first update: whatever lease is there now goes.
ClearRow(r) ==
    lease' = IF tok[r] \in approved \ executed
             THEN [lease EXCEPT ![tok[r]] = "null"] ELSE lease

Clear(r) ==
    /\ step[r] = "clear"
    /\ ClearRow(r)
    /\ Goto(r, "take")
    /\ UNCHANGED <<approved, executed, error, tok, ok, holder>>

\* _claimExecution, the conditional update that arbitrates.
Free(t) == t \in approved \ executed /\ lease[t] = "null"

Take(r) ==
    /\ step[r] = "take" /\ Free(tok[r])
    /\ lease' = [lease EXCEPT ![tok[r]] = "fresh"]
    /\ holder' = [holder EXCEPT ![tok[r]] = r]
    /\ Goto(r, "work")
    /\ UNCHANGED <<approved, executed, error, tok, ok>>

TakeRefused(r) ==
    /\ step[r] = "take" /\ ~Free(tok[r])
    /\ Goto(r, "over")
    /\ UNCHANGED <<rows, tok, ok, holder>>

\* executeWrite came to an end; an exception counts as a failed result.  The
\* dialogue leaves the execution columns alone.
Answer(r, success) ==
    /\ step[r] \in {"work", "dialogue"}
    /\ ok' = IF success THEN ok \union {r} ELSE ok
    /\ Goto(r, IF step[r] = "work" THEN "settle" ELSE "over")
    /\ UNCHANGED <<rows, tok, holder>>

\* mutant: the outcome is stamped whatever it was.
OutcomeAlwaysStamped(r) ==
    /\ executed' = executed \union {tok[r]}
    /\ error' = error \ {tok[r]}

\* _settleExecution: by token, whoever holds the lease now.
Outcome(r) ==
    IF r \in ok
    THEN executed' = executed \union {tok[r]} /\ error' = error \ {tok[r]}
    ELSE executed' = executed /\ error' = error \union {tok[r]}

Settle(r) ==
    /\ step[r] = "settle"
    /\ Outcome(r)
    /\ Goto(r, "over")
    /\ UNCHANGED <<approved, lease, tok, ok, holder>>

\* A statement throws, before or after the database applied it, and the request
\* with it.
ClearFails(r, applied) ==
    /\ step[r] = "clear"
    /\ IF applied THEN ClearRow(r) ELSE lease' = lease
    /\ Goto(r, "over")
    /\ UNCHANGED <<approved, executed, error, tok, ok, holder>>

TakeFails(r, applied) ==
    /\ step[r] = "take"
    /\ applied => Free(tok[r])
    /\ lease' = IF applied THEN [lease EXCEPT ![tok[r]] = "fresh"] ELSE lease
    /\ holder' = IF applied THEN [holder EXCEPT ![tok[r]] = r] ELSE holder
    /\ Goto(r, "over")
    /\ UNCHANGED <<approved, executed, error, tok, ok>>

SettleFails(r, applied) ==
    /\ step[r] = "settle"
    /\ IF applied THEN Outcome(r) ELSE UNCHANGED <<executed, error>>
    /\ Goto(r, "over")
    /\ UNCHANGED <<approved, lease, tok, ok, holder>>

\* mutant: the age of a lease is looked at only where an error was recorded.
ExpireWithError(t) ==
    /\ lease[t] = "fresh" /\ t \in error
    /\ lease' = [lease EXCEPT ![t] = "expired"]
    /\ UNCHANGED <<approved, executed, error, tok, step, ok, holder>>

\* EXECUTION_LEASE_MS passes.  A tool that cannot be stopped is waited for 60 s.
Expire(t) ==
    /\ lease[t] = "fresh"
    /\ t \in Unbounded \/ ~\E r \in Runs : holder[t] = r /\ step[r] = "work"
    /\ lease' = [lease EXCEPT ![t] = "expired"]
    /\ UNCHANGED <<approved, executed, error, tok, step, ok, holder>>

\* The process dies with every execution in it.
Crash ==
    /\ step' = [r \in Runs |-> IF step[r] = "idle" THEN "idle" ELSE "over"]
    /\ UNCHANGED <<rows, tok, ok, holder>>

Deciding ==
    \/ \E r \in Runs, next \in {"take", "dialogue"} : Approve(r, next)
    \/ \E t \in Tokens : ApproveUnheard(t) \/ Expire(t)

Executing(r) == Clear(r) \/ Take(r) \/ TakeRefused(r) \/ Settle(r)

Failing(r) == \E applied \in BOOLEAN :
    ClearFails(r, applied) \/ TakeFails(r, applied) \/ SettleFails(r, applied)

Next ==
    \/ Deciding
    \/ \E r \in Runs : RetryReads(r) \/ Executing(r) \/ Failing(r)
    \/ \E r \in Runs, success \in BOOLEAN : Answer(r, success)
    \/ Crash

Spec == Init /\ [][Next]_vars

\* The event loop runs every execution on, time passes, and a tool that is
\* waited for 60 s at most gives an answer of some kind.
Fairness ==
    /\ \A r \in Runs : /\ WF_vars(Executing(r))
                       /\ WF_vars(tok[r] \notin Unbounded
                                    /\ \E success \in BOOLEAN : Answer(r, success))
    /\ \A t \in Tokens : WF_vars(Expire(t))

FairSpec == Spec /\ Fairness

-----------------------------------------------------------------------------
(* Properties.                                                             *)

\* A row says 'succeeded' only if an execution of this token did succeed,
\* whoever settled last and whatever lease it lost in between.
SuccessIsReal == \A t \in executed : \E r \in ok : tok[r] = t

\* An execution that was interrupted does not read 'running' for ever: the row
\* comes to an outcome or is free to be retried.
NothingStaysRunning ==
    \A t \in Tokens :
        (ExecutionState(t) = "running") ~> (ExecutionState(t) # "running")

-----------------------------------------------------------------------------
(* What comments say and the code does not keep.                           *)

\* r4-approval.service.ts:283-287: exactly one caller gets a hit on the lease
\* and only that one runs the tool; a retry cannot race a live execution.
OneWinner ==
    \A q, r \in Runs : step[q] = "work" /\ step[r] = "work" /\ tok[q] = tok[r] => q = r

\* execution-state.ts: the single source of whether the approved write ran.
NotStartedNeverRan ==
    \A t \in Tokens : ExecutionState(t) = "not_started" => ~\E r \in ok : tok[r] = t
=============================================================================
