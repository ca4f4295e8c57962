---------------------------- MODULE GovernedWrite ----------------------------
(***************************************************************************)
(* An approved write from its approval to its target: the executions of    *)
(* ExecutionLease, which this module extends, are calls of executeWrite in *)
(* WriteClaim.  The lease is on the row of the confirmation and the claim  *)
(* on the write itself: the first decides who starts, the second keeps a   *)
(* write from happening twice where the first lets two executions start.   *)
(***************************************************************************)
EXTENDS ExecutionLease, Naturals, FiniteSets

CONSTANTS
    Conversations, Local, Proxy, Mcp, Stoppable, Admins, MaxFaults

ASSUME GovernedAssumption ==
    /\ Local \intersect (Proxy \union Mcp) = {}
    /\ Proxy \intersect Mcp = {} /\ Stoppable \subseteq Local
    /\ MaxFaults \in Nat

VARIABLES
    status, decision, stale, attempts, ledger, landed,
    key, pc, seen, work, act, on, faults

Write == INSTANCE WriteClaim WITH Attempts <- Runs

writeVars == <<status, decision, stale, attempts, ledger, landed,
               key, pc, seen, work, act, on, faults>>
governedVars == <<vars, writeVars>>

\* The row of a token holds the conversation and the arguments: its executions
\* have one key; two approvals may be for the same call.  No window bounds a tool
\* that can be stopped.
GovernedInit ==
    /\ Init /\ Write!Init
    /\ \A q, r \in Runs : tok[q] = tok[r] => key[q] = key[r]
    /\ \A r \in Runs : Write!Is(r, Stoppable) <=> tok[r] \in Unbounded

-----------------------------------------------------------------------------
\* An approval, a retry and the statements on the lease.
OnLease ==
    /\ \/ Deciding
       \/ \E r \in Runs : \/ RetryReads(r)
                          \/ Executing(r)
                          \/ Failing(r)
    /\ UNCHANGED writeVars

\* executeWrite goes on, or comes back with success or without.
Returns(r, success) ==
    IF pc'[r] = "over" THEN Answer(r, success) ELSE UNCHANGED vars

Entered(r) == step[r] \in {"work", "dialogue"}

\* executeApprovedTool passes no signal: only the window cuts its wait short.
Signalled(r) == step[r] = "dialogue"

\* A row of the ledger is replayed as a success.
Enter(r) ==
    /\ Write!Begin(r)
    /\ Returns(r, TRUE)

\* The gate turns the call away before it claims anything.
Rejected(r) ==
    /\ pc[r] = "idle"
    /\ Answer(r, FALSE)
    /\ UNCHANGED writeVars

Claim(r) ==
    /\ \/ Write!Insert(r) \/ Write!InsertConflicts(r)
       \/ Write!Reread(r) \/ Write!Reclaim(r) \/ Write!ReclaimRefused(r)
    /\ ~Signalled(r) /\ status' # status => pc'[r] = "await"
    /\ Returns(r, FALSE)

\* mutant: a settled claim is taken for a success.
FinishAsSuccess(r) ==
    /\ Write!Settle(r)
    /\ Returns(r, TRUE)

\* Settling returns what the tool returned.
Finish(r) ==
    /\ Write!Settle(r)
    /\ Returns(r, work[r] = "done")

GiveUp(r) ==
    /\ \/ Write!Cancel(r) /\ (Write!Is(r, Stoppable) => Signalled(r))
       \/ Write!StopUnconfirmed(r) \/ Write!McpGivesUp(r)
       \/ Write!Anchor(r) \/ Write!Release(r) \/ Write!Failing(r)
    /\ Returns(r, FALSE)

Execute(r) ==
    /\ Entered(r)
    /\ Enter(r) \/ Rejected(r) \/ Claim(r) \/ Finish(r) \/ GiveUp(r)

\* The tool behind the wait, and the administrators of stuck claims.
Behind ==
    /\ (\E r \in Runs : Write!Working(r)) \/ Write!Administering
    /\ UNCHANGED vars

GovernedCrash == Crash /\ Write!Crash

GovernedNext ==
    \/ OnLease
    \/ \E r \in Runs : Execute(r)
    \/ Behind
    \/ GovernedCrash

GovernedSpec == GovernedInit /\ [][GovernedNext]_governedVars

-----------------------------------------------------------------------------
(* Properties.                                                             *)

\* The row of an approval says 'succeeded' only if its write has reached its
\* target, through every replay, refusal, retry and crash in between.
ExecutedWasWritten ==
    \A r \in Runs : tok[r] \in executed => landed[key[r]] # {}

\* The inductive invariant behind it: what the work, the ledger, an answer and the
\* row of the approval each say of the write is backed by what landed.
Written(k) == landed[k] # {}

Shapes ==
    /\ tok \in [Runs -> Tokens] /\ ok \subseteq Runs
    /\ key \in [Runs -> Write!Keys] /\ work \in [Runs -> Write!Works]
    /\ landed \in [Write!Keys -> SUBSET Runs]

OneKeyPerToken == \A q, r \in Runs : tok[q] = tok[r] => key[q] = key[r]

WorkIsReal == \A r \in Runs : work[r] \in {"landed", "done"} => Written(key[r])

AnswersAreReal == \A r \in ok : Written(key[r])

OutcomesAreReal == \A t \in executed : \E r \in ok : tok[r] = t

IInv ==
    /\ Shapes /\ OneKeyPerToken
    /\ WorkIsReal /\ Write!ReplaysAreReal
    /\ AnswersAreReal /\ OutcomesAreReal

\* Retries that race one another write once all the same: an MCP write always,
\* and a local one as long as no statement and no process fails on the way.
RetriedOnce ==
    \A q, r \in Runs :
        /\ key[q] = key[r] /\ q \in landed[key[q]] /\ r \in landed[key[r]]
        /\ Write!Is(q, Mcp) \/ (faults = 0 /\ ~Write!Is(q, Write!MayReopen))
        => q = r

\* r4-approval.service.ts:459-460: re-running is safe, because the write
\* pipeline is idempotent and no second side effect is produced.
RerunIsSafe ==
    \A t \in Tokens :
        Cardinality({r \in Runs : tok[r] = t /\ r \in landed[key[r]]}) <= 1
=============================================================================
