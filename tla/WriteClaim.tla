----------------------------- MODULE WriteClaim -----------------------------
(***************************************************************************)
(* Execution-level idempotency of an AI write: ToolExecutionService.       *)
(* executeWrite around the claim row of ai_write_claims, the side-effect   *)
(* ledger, the operation lease shared by all conversations, cancellation,  *)
(* and the administrators who close or reconcile a claim that got stuck.   *)
(* The tool runs in the background of the call that waits for it: a wait   *)
(* that is cut short does not stop the work.                               *)
(***************************************************************************)
EXTENDS Naturals, FiniteSets

CONSTANTS
    Conversations,
    Local, Proxy, Mcp,  \* operations (user, tool, arguments) by kind of tool
    Stoppable,          \* the local ones whose tool is abortable = 'yes'
    Attempts,           \* calls of executeWrite
    Admins,             \* requests of administrators on stuck claims
    MaxFaults           \* bound on crashes and failed statements

Operations == Local \union Proxy \union Mcp

\* The idempotency key hashes user, conversation, tool and arguments; the
\* operation key leaves the conversation out.
Keys == Conversations \X Operations

OpOf(k) == k[2]

ASSUME ClaimAssumption ==
    /\ Local \intersect Proxy = {} /\ Local \intersect Mcp = {}
    /\ Proxy \intersect Mcp = {} /\ Stoppable \subseteq Local
    /\ MaxFaults \in Nat

VARIABLES
    \* the table ai_write_claims, by idempotency key
    status, decision, stale, attempts,
    ledger,      \* keys with a row in ai_tool_side_effects
    landed,      \* key -> the attempts whose write reached its target
    \* a call of executeWrite
    key, pc, seen,
    work,        \* what runs behind the wait of a call
    \* a request of an administrator
    act, on,
    faults

claims == <<status, decision, stale, attempts>>
admins == <<act, on>>
vars == <<claims, ledger, landed, key, pc, seen, work, admins, faults>>

Statuses == {"none", "claimed", "settled", "released"}

\* "running" may write, "sent" is a request that outlived its process,
\* "landed" has written and goes on to register; "done" returns a success and
\* "refused" the value {success: false}; "failed" is an MCP call not executed.
Works == {"none", "running", "sent", "landed", "done", "refused", "failed", "threw"}

TypeOK ==
    /\ status \in [Keys -> Statuses]
    /\ decision \in [Keys -> {"open", "awaiting", "closed"}]
    /\ stale \in [Keys -> BOOLEAN]
    /\ attempts \in [Keys -> Nat]
    /\ ledger \in SUBSET Keys
    /\ landed \in [Keys -> SUBSET Attempts]
    /\ key \in [Attempts -> Keys]
    /\ pc \in [Attempts -> {"idle", "insert", "reread", "reclaim", "await",
                            "stopping", "settle", "release", "over"}]
    /\ seen \in [Attempts -> Nat]
    /\ work \in [Attempts -> Works]
    /\ act \in [Admins -> {"idle", "close", "ask", "executed", "not_executed"}]
    /\ on \in [Admins -> Keys]
    /\ faults \in 0..MaxFaults

Init ==
    /\ status = [k \in Keys |-> "none"]
    /\ decision = [k \in Keys |-> "open"]
    /\ stale = [k \in Keys |-> FALSE]
    /\ attempts = [k \in Keys |-> 0]
    /\ ledger = {}
    /\ landed = [k \in Keys |-> {}]
    /\ key \in [Attempts -> Keys]
    /\ pc = [a \in Attempts |-> "idle"]
    /\ seen = [a \in Attempts |-> 0]
    /\ work = [a \in Attempts |-> "none"]
    /\ act = [x \in Admins |-> "idle"]
    /\ on \in [Admins -> Keys]
    /\ faults = 0

-----------------------------------------------------------------------------
Is(a, kind) == OpOf(key[a]) \in kind

Goto(a, next) == pc' = [pc EXCEPT ![a] = next]

Behind(a, next) == work' = [work EXCEPT ![a] = next]

Fault == faults < MaxFaults /\ faults' = faults + 1

\* mutant: only the idempotency key is unique, not the operation.
LeaseTakenByKey(k) == status[k] = "claimed"

\* The partial unique index: one claimed row per operation.
LeaseTaken(k) == \E j \in Keys : OpOf(j) = OpOf(k) /\ status[j] = "claimed"

\* findExisting: a ledger row under this key is replayed, nothing runs.
Begin(a) ==
    /\ pc[a] = "idle"
    /\ Goto(a, IF key[a] \in ledger THEN "over" ELSE "insert")
    /\ UNCHANGED <<claims, ledger, landed, key, seen, work, admins, faults>>

\* The claim is won: the work starts, unless the caller's signal had fired.
StartWork(a) ==
    \/ Goto(a, "await") /\ Behind(a, "running")
    \/ /\ Goto(a, IF Is(a, Stoppable) THEN "stopping" ELSE "over")
       /\ work' = work

\* claimWrite, first statement: the insert.
Insert(a) ==
    LET k == key[a] IN
    /\ pc[a] = "insert" /\ status[k] = "none" /\ ~LeaseTaken(k)
    /\ status' = [status EXCEPT ![k] = "claimed"]
    /\ attempts' = [attempts EXCEPT ![k] = 1]
    /\ StartWork(a)
    /\ UNCHANGED <<decision, stale, ledger, landed, key, seen, admins, faults>>

InsertConflicts(a) ==
    LET k == key[a] IN
    /\ pc[a] = "insert" /\ (status[k] # "none" \/ LeaseTaken(k))
    /\ Goto(a, "reread")
    /\ UNCHANGED <<claims, ledger, landed, key, seen, work, admins, faults>>

\* The insert fails, before or after the database applied it; the row that is
\* read back then looks like somebody else's.
InsertFails(a, applied) ==
    LET k == key[a] IN
    /\ pc[a] = "insert" /\ Fault
    /\ applied => status[k] = "none" /\ ~LeaseTaken(k)
    /\ status' = IF applied THEN [status EXCEPT ![k] = "claimed"] ELSE status
    /\ attempts' = IF applied THEN [attempts EXCEPT ![k] = 1] ELSE attempts
    /\ Goto(a, "reread")
    /\ UNCHANGED <<decision, stale, ledger, landed, key, seen, work, admins>>

\* Only a released row may be taken again; everything else is a refusal.
Reread(a) ==
    /\ pc[a] = "reread"
    /\ Goto(a, IF status[key[a]] = "released" THEN "reclaim" ELSE "over")
    /\ seen' = [seen EXCEPT ![a] = attempts[key[a]]]
    /\ UNCHANGED <<claims, ledger, landed, key, work, admins, faults>>

\* The conditional update back to claimed; the decision state is left alone.
Reclaim(a) ==
    LET k == key[a] IN
    /\ pc[a] = "reclaim" /\ status[k] = "released" /\ ~LeaseTaken(k)
    /\ status' = [status EXCEPT ![k] = "claimed"]
    /\ stale' = [stale EXCEPT ![k] = FALSE]
    /\ attempts' = [attempts EXCEPT ![k] = seen[a] + 1]
    /\ StartWork(a)
    /\ UNCHANGED <<decision, ledger, landed, key, seen, admins, faults>>

\* The update fails: whatever is read back, the call is refused.
ReclaimFails(a, applied) ==
    LET k == key[a] IN
    /\ pc[a] = "reclaim" /\ Fault
    /\ applied => status[k] = "released" /\ ~LeaseTaken(k)
    /\ status' = IF applied THEN [status EXCEPT ![k] = "claimed"] ELSE status
    /\ stale' = IF applied THEN [stale EXCEPT ![k] = FALSE] ELSE stale
    /\ attempts' = IF applied THEN [attempts EXCEPT ![k] = seen[a] + 1] ELSE attempts
    /\ Goto(a, "over")
    /\ UNCHANGED <<decision, ledger, landed, key, seen, work, admins>>

ReclaimRefused(a) ==
    LET k == key[a] IN
    /\ pc[a] = "reclaim" /\ (status[k] # "released" \/ LeaseTaken(k))
    /\ Goto(a, "over")
    /\ UNCHANGED <<claims, ledger, landed, key, seen, work, admins, faults>>

-----------------------------------------------------------------------------
(* The work: the tool, and for local and proxy tools the registration.     *)

Background(a, next) ==
    /\ Behind(a, next)
    /\ UNCHANGED <<claims, key, pc, seen, admins>>

\* The write reaches the database or the target system.
Land(a) ==
    /\ work[a] \in {"running", "sent"}
    /\ landed' = [landed EXCEPT ![key[a]] = @ \union {a}]
    /\ Background(a, IF work[a] = "sent" THEN "none" ELSE "landed")
    /\ UNCHANGED <<ledger, faults>>

\* A local tool answers {success: false} or throws, having written nothing.
ToolRefuses(a, threw) ==
    /\ work[a] = "running" /\ Is(a, Local)
    /\ Background(a, IF threw THEN "threw" ELSE "refused")
    /\ UNCHANGED <<ledger, landed, faults>>

\* ProxyTool.execute turns a timeout, a dead connection and a bad status into
\* the value {success: false}, whether or not the request landed.
ProxyFails(a) ==
    /\ work[a] \in {"running", "landed"} /\ Is(a, Proxy)
    /\ Background(a, "refused")
    /\ UNCHANGED <<ledger, landed, faults>>

\* The answer of an MCP server; callTool reports the rest as not executed.
McpAnswers(a) ==
    /\ work[a] = "landed" /\ Is(a, Mcp)
    /\ Background(a, "done")
    /\ UNCHANGED <<ledger, landed, faults>>

\* mutant: a call that was not executed counts as answered.
McpFailsAsAnswer(a) ==
    /\ work[a] \in {"running", "landed"} /\ Is(a, Mcp)
    /\ Background(a, "done")
    /\ UNCHANGED <<ledger, landed, faults>>

McpFails(a) ==
    /\ work[a] \in {"running", "landed"} /\ Is(a, Mcp)
    /\ Background(a, "failed")
    /\ UNCHANGED <<ledger, landed, faults>>

\* _executeLocalWrite records the effect; some local tools have none.
Register(a, recorded) ==
    /\ work[a] = "landed" /\ Is(a, Local \union Proxy)
    /\ recorded \/ Is(a, Local)
    /\ ledger' = IF recorded THEN ledger \union {key[a]} ELSE ledger
    /\ Background(a, "done")
    /\ UNCHANGED <<landed, faults>>

\* The snapshot or the ledger row fails: record rethrows.
RegisterFails(a) ==
    /\ work[a] = "landed" /\ Is(a, Local \union Proxy) /\ Fault
    /\ Background(a, "threw")
    /\ UNCHANGED <<ledger, landed>>

-----------------------------------------------------------------------------
(* The wait of the call, runWithCancellation, and what it does to its row. *)

\* mutant: no window for a tool that cannot be stopped.
CancelStoppable(a) ==
    /\ pc[a] = "await" /\ work[a] \in {"running", "landed"} /\ Is(a, Stoppable)
    /\ Goto(a, "stopping")
    /\ UNCHANGED <<claims, ledger, landed, key, seen, work, admins, faults>>

\* mutant: a wait cut short releases the claim of the work that goes on.
CancelReleases(a) ==
    /\ pc[a] = "await" /\ work[a] \in {"running", "landed"}
    /\ Goto(a, IF Is(a, Stoppable) THEN "stopping"
               ELSE IF Is(a, Local) THEN "release" ELSE "over")
    /\ UNCHANGED <<claims, ledger, landed, key, seen, work, admins, faults>>

\* The caller aborts, or the 60 s window of a tool that cannot be stopped ends.
Cancel(a) ==
    /\ pc[a] = "await" /\ work[a] \in {"running", "landed"}
    /\ Goto(a, IF Is(a, Stoppable) THEN "stopping" ELSE "over")
    /\ UNCHANGED <<claims, ledger, landed, key, seen, work, admins, faults>>

\* A stoppable tool did not return in the confirmation window: abandoned.
StopUnconfirmed(a) ==
    /\ pc[a] = "stopping" /\ work[a] \in {"running", "landed"}
    /\ Goto(a, "over")
    /\ UNCHANGED <<claims, ledger, landed, key, seen, work, admins, faults>>

\* An MCP call: the anchor row, then the settlement.
Anchor(a) ==
    /\ pc[a] = "await" /\ work[a] = "done" /\ Is(a, Mcp)
    /\ ledger' = ledger \union {key[a]}
    /\ Goto(a, "settle")
    /\ UNCHANGED <<claims, landed, key, seen, work, admins, faults>>

\* mutant: a failed external call releases its claim like a local one.
McpReleases(a) ==
    /\ pc[a] = "await" /\ Is(a, Mcp)
    /\ \/ work[a] = "failed" /\ faults' = faults
       \/ work[a] = "done" /\ Fault
    /\ Goto(a, "release")
    /\ UNCHANGED <<claims, ledger, landed, key, seen, work, admins>>

McpGivesUp(a) ==
    /\ pc[a] = "await" /\ Is(a, Mcp)
    /\ \/ work[a] = "failed" /\ faults' = faults
       \/ work[a] = "done" /\ Fault
    /\ Goto(a, "over")
    /\ UNCHANGED <<claims, ledger, landed, key, seen, work, admins>>

Settling(a) ==
    \/ pc[a] = "settle"
    \/ /\ pc[a] = "await" /\ work[a] \in {"done", "refused"}
       /\ Is(a, Local \union Proxy)

\* settleClaim: by key, for whoever holds the row now.
SettleRow(k) ==
    status' = IF status[k] = "claimed" THEN [status EXCEPT ![k] = "settled"] ELSE status

Settle(a) ==
    /\ Settling(a)
    /\ SettleRow(key[a])
    /\ Goto(a, "over")
    /\ UNCHANGED <<decision, stale, attempts, ledger, landed, key, seen, work,
                   admins, faults>>

\* The statement fails: the catch releases the claim, but not of an MCP call.
SettleFails(a, applied) ==
    /\ Settling(a) /\ Fault
    /\ IF applied THEN SettleRow(key[a]) ELSE status' = status
    /\ Goto(a, IF Is(a, Mcp) THEN "over" ELSE "release")
    /\ UNCHANGED <<decision, stale, attempts, ledger, landed, key, seen, work, admins>>

\* The work threw, or a stoppable tool returned after it was told to stop, or
\* was told so before it began.
Releasing(a) ==
    \/ pc[a] = "release"
    \/ pc[a] = "await" /\ work[a] = "threw"
    \/ pc[a] = "stopping" /\ work[a] \in {"none", "done", "refused", "threw"}

ReleaseRow(k) ==
    status' = IF status[k] = "claimed" THEN [status EXCEPT ![k] = "released"] ELSE status

Release(a) ==
    /\ Releasing(a)
    /\ ReleaseRow(key[a])
    /\ Goto(a, "over")
    /\ UNCHANGED <<decision, stale, attempts, ledger, landed, key, seen, work,
                   admins, faults>>

\* The release of a stopped call stands inside the try whose catch releases
\* once more; the release in the catch is the last word.
ReleaseFails(a, applied) ==
    /\ Releasing(a) /\ Fault
    /\ IF applied THEN ReleaseRow(key[a]) ELSE status' = status
    /\ Goto(a, IF pc[a] = "stopping" THEN "release" ELSE "over")
    /\ UNCHANGED <<decision, stale, attempts, ledger, landed, key, seen, work, admins>>

-----------------------------------------------------------------------------
(* Claims that got stuck.                                                  *)

\* A claim outlives REVOKE_STALE_MINUTES.  The wait for a tool that cannot be
\* stopped is bounded by 60 s, far below the threshold.
Age(k) ==
    /\ status[k] = "claimed" /\ ~stale[k]
    /\ \A a \in Attempts :
          key[a] = k /\ pc[a] \in {"await", "settle", "release"} => Is(a, Stoppable)
    /\ stale' = [stale EXCEPT ![k] = TRUE]
    /\ UNCHANGED <<status, decision, attempts, ledger, landed, key, pc, seen,
                   work, admins, faults>>

\* mutant: the sweep looks for the state that it sets itself.
OverdueAwaiting(k) == status[k] = "claimed" /\ decision[k] = "awaiting" /\ stale[k]

Overdue(k) == status[k] = "claimed" /\ decision[k] = "open" /\ stale[k]

\* sweepOverdue: one statement over all overdue rows.
SweepOverdue ==
    /\ \E k \in Keys : Overdue(k)
    /\ decision' = [k \in Keys |-> IF Overdue(k) THEN "awaiting" ELSE decision[k]]
    /\ UNCHANGED <<status, stale, attempts, ledger, landed, key, pc, seen, work,
                   admins, faults>>

\* Both endpoints read the row first and refuse with the same guards.
AdminReads(x, k, todo) ==
    /\ act[x] = "idle"
    /\ status[k] = "claimed" /\ decision[k] # "closed" /\ stale[k]
    /\ act' = [act EXCEPT ![x] = todo]
    /\ on' = [on EXCEPT ![x] = k]
    /\ UNCHANGED <<claims, ledger, landed, key, pc, seen, work, faults>>

AdminStep(x, next) ==
    /\ act' = [act EXCEPT ![x] = next]
    /\ UNCHANGED <<stale, attempts, ledger, landed, key, pc, seen, work, on, faults>>

\* mutant: the close writes into the claim's own status column.
CloseWritesStatus(x) ==
    LET k == on[x] IN
    /\ act[x] = "close"
    /\ status' = IF status[k] = "claimed" /\ decision[k] # "closed"
                 THEN [status EXCEPT ![k] = "closed"] ELSE status
    /\ AdminStep(x, "idle")
    /\ UNCHANGED decision

\* WriteClaimDecisionService.release: the conclusion stays unknown.
CloseUnknown(x) ==
    LET k == on[x] IN
    /\ act[x] = "close"
    /\ decision' = IF status[k] = "claimed" /\ decision[k] # "closed"
                   THEN [decision EXCEPT ![k] = "closed"] ELSE decision
    /\ AdminStep(x, "idle")
    /\ UNCHANGED status

\* The status probe: only a proxy target can answer, by this key, and it says
\* what has reached it so far.
AskTarget(x, answer) ==
    /\ act[x] = "ask"
    /\ answer # "idle" => OpOf(on[x]) \in Proxy
    /\ answer = "executed" => landed[on[x]] # {}
    /\ answer = "not_executed" => landed[on[x]] = {}
    /\ AdminStep(x, answer)
    /\ UNCHANGED <<status, decision>>

\* WriteClaimStore.reconcileClaim: conditional on claimed and nothing else.
Reconcile(x) ==
    LET k == on[x] IN
    /\ act[x] \in {"executed", "not_executed"}
    /\ IF act[x] = "executed" THEN SettleRow(k) ELSE ReleaseRow(k)
    /\ AdminStep(x, "idle")
    /\ UNCHANGED decision

\* The process dies; a request on its way to a target may still arrive.
Crash ==
    /\ Fault
    /\ pc' = [a \in Attempts |-> IF pc[a] = "idle" THEN "idle" ELSE "over"]
    /\ work' = [a \in Attempts |->
                  IF work[a] = "sent" \/ (work[a] = "running" /\ ~Is(a, Local))
                  THEN "sent" ELSE "none"]
    /\ act' = [x \in Admins |-> "idle"]
    /\ UNCHANGED <<claims, ledger, landed, key, seen, on>>

-----------------------------------------------------------------------------
Claiming(a) ==
    \/ Begin(a) \/ Insert(a) \/ InsertConflicts(a)
    \/ Reread(a) \/ Reclaim(a) \/ ReclaimRefused(a)

Working(a) ==
    \/ Land(a) \/ ProxyFails(a) \/ McpAnswers(a) \/ McpFails(a)
    \/ RegisterFails(a)
    \/ \E threw \in BOOLEAN : ToolRefuses(a, threw)
    \/ \E recorded \in BOOLEAN : Register(a, recorded)

Waiting(a) ==
    \/ Cancel(a) \/ StopUnconfirmed(a) \/ Anchor(a) \/ McpGivesUp(a)
    \/ Settle(a) \/ Release(a)

\* A statement fails, before or after the database applied it.
Failing(a) == \E applied \in BOOLEAN :
    \/ InsertFails(a, applied) \/ ReclaimFails(a, applied)
    \/ SettleFails(a, applied) \/ ReleaseFails(a, applied)

Administering ==
    \/ \E k \in Keys : Age(k)
    \/ SweepOverdue
    \/ \E x \in Admins :
          \/ \E k \in Keys, todo \in {"close", "ask"} : AdminReads(x, k, todo)
          \/ CloseUnknown(x)
          \/ \E answer \in {"idle", "executed", "not_executed"} : AskTarget(x, answer)
          \/ Reconcile(x)

Next ==
    \/ \E a \in Attempts : Claiming(a) \/ Working(a) \/ Waiting(a) \/ Failing(a)
    \/ Administering
    \/ Crash

Spec == Init /\ [][Next]_vars

\* The event loop runs every handler on, the 60 s timer fires, rows grow old
\* and the hourly sweep comes round.  No tool is obliged to return.
Fairness ==
    /\ \A a \in Attempts : /\ WF_vars(Insert(a) \/ InsertConflicts(a))
                           /\ WF_vars(Reread(a))
                           /\ WF_vars(Reclaim(a) \/ ReclaimRefused(a))
                           /\ WF_vars(Cancel(a) \/ Settle(a) \/ Release(a)
                                         \/ Anchor(a) \/ McpGivesUp(a))
    /\ \A k \in Keys : WF_vars(Age(k))
    /\ WF_vars(SweepOverdue)

FairSpec == Spec /\ Fairness

-----------------------------------------------------------------------------
(* Properties.                                                             *)

\* Work that may still write, whether or not its call still waits for it.
InFlight(a) == work[a] \in {"running", "landed", "sent"}

\* Operations whose claim may be reopened under its holder: a proxy claim by its
\* target's answer, a stoppable one by a release that is tried twice.
MayReopen == Proxy \union Stoppable

\* Two conversations that ask for the same operation never have it running at
\* once, abandoned work and work that a crash left behind included.
OneFlight ==
    \A a, b \in Attempts :
        /\ InFlight(a) /\ InFlight(b)
        /\ OpOf(key[a]) = OpOf(key[b]) /\ ~Is(a, MayReopen)
        => a = b

\* An external MCP write reaches its target at most once per key, whatever
\* crashes, times out, is cancelled, swept or released by a person.
AtMostOnceExternal ==
    \A k \in Keys : OpOf(k) \in Mcp => \A a, b \in landed[k] : a = b

\* A replayed success is never an invention: a ledger row has its write.
ReplaysAreReal == \A k \in ledger : landed[k] # {}

\* The inductive invariant behind the three: the attempt that won a claim is the
\* only one to hold it until it lets go, and only proxy claims are ever moved by
\* somebody else.
Holding(a) == InFlight(a) \/ pc[a] \in {"await", "stopping", "settle", "release"}

OneClaimPerOperation ==
    \A j, k \in Keys :
        status[j] = "claimed" /\ status[k] = "claimed" /\ OpOf(j) = OpOf(k) => j = k

OneHolder ==
    \A a, b \in Attempts :
        Holding(a) /\ Holding(b) /\ key[a] = key[b] /\ ~Is(a, MayReopen) => a = b

HoldersFitTheirRow ==
    \A a \in Attempts : Holding(a) /\ ~Is(a, MayReopen) =>
        /\ status[key[a]] \in {"claimed", "settled"}
        /\ status[key[a]] = "settled" => pc[a] = "release" /\ ~InFlight(a)

StepsFitTheirWork ==
    \A a \in Attempts :
        /\ pc[a] \in {"idle", "insert", "reread", "reclaim"} => work[a] = "none"
        /\ pc[a] \in {"settle", "release"} => ~InFlight(a)
        /\ pc[a] = "settle" => Is(a, Mcp)
        /\ pc[a] = "release" \/ work[a] = "threw" => ~Is(a, Mcp)
        /\ pc[a] = "stopping" => Is(a, Stoppable)
        /\ work[a] = "landed" => a \in landed[key[a]]
        /\ work[a] = "done" /\ Is(a, Mcp) => a \in landed[key[a]]
        /\ work[a] \in {"running", "sent"} /\ Is(a, Mcp) => landed[key[a]] = {}

ExternalClaimsStay ==
    \A k \in Keys : OpOf(k) \in Mcp =>
        /\ status[k] # "released"
        /\ status[k] = "none" => landed[k] = {}

AdminsFitTheirRow ==
    \A x \in Admins :
        act[x] \in {"executed", "not_executed"} => OpOf(on[x]) \in Proxy

IInv ==
    /\ TypeOK
    /\ OneClaimPerOperation /\ OneHolder /\ HoldersFitTheirRow
    /\ StepsFitTheirWork /\ ExternalClaimsStay /\ AdminsFitTheirRow
    /\ AtMostOnceExternal /\ ReplaysAreReal

\* A call on a tool that nobody can stop returns all the same: a hung tool
\* does not hold the turn.
CallsReturn ==
    \A a \in Attempts : ~Is(a, Stoppable) => (pc[a] = "insert" ~> pc[a] = "over")

Orphaned(k) ==
    /\ status[k] = "claimed" /\ decision[k] = "open"
    /\ \A a \in Attempts : key[a] = k => pc[a] \in {"idle", "over"}

\* A claim that nobody waits on any more does not stay out of sight.
OrphansSurface == \A k \in Keys : Orphaned(k) ~> ~Orphaned(k)

-----------------------------------------------------------------------------
(* What comments and docs say and the code does not keep.                  *)

\* governance-shared/entities/ai-write-claim.entity.ts:66-71: a proxy or MCP
\* write without success keeps its claim; it is neither released nor settled.
SettledProxyLanded ==
    \A k \in Keys : OpOf(k) \in Proxy /\ status[k] = "settled" => landed[k] # {}

\* ai-write-claim.entity.ts, WRITE_CLAIM_STATUS.RELEASED: the attempt failed and
\* is confirmed not to have been stored.
ReleasedNotLanded ==
    \A k \in Keys : OpOf(k) \in Local /\ status[k] = "released" => landed[k] = {}

\* ai-write-claim.entity.ts:50-54 and 104-106: whoever inserts the row owns this
\* execution, and one claim per operation is in flight; for a tool that stops.
StoppableRunsAlone ==
    \A a, b \in Attempts :
        /\ InFlight(a) /\ InFlight(b)
        /\ OpOf(key[a]) = OpOf(key[b]) /\ Is(a, Stoppable)
        => a = b

\* docs/revoke-contract.spec.md section 6: a later query must not overwrite the
\* decision of the person who closed a claim as unknown.
ClosedIsFinal ==
    [][\A x \in Admins : Reconcile(x) /\ status[on[x]] = "claimed"
          => decision[on[x]] # "closed"]_vars

\* ai-tool-effects.service.ts, reconcileClaim: a claim that is not stale may be
\* running, and reconciling it would race the live call.
FreshClaimsAreSpared ==
    [][\A x \in Admins : Reconcile(x) /\ status[on[x]] = "claimed"
          => stale[on[x]]]_vars

\* ai-write-claim.entity.ts, attempts: one more on every hold of the row, so it
\* is never below the number of writes that the row has let through.
EveryWriteIsCounted ==
    \A k \in Keys : Cardinality(landed[k]) <= attempts[k]
=============================================================================
