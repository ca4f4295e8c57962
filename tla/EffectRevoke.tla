---------------------------- MODULE EffectRevoke ----------------------------
(***************************************************************************)
(* Revocation of the effects of AI writes: EffectRevoke of                 *)
(* governance-shared/services/effect-revoke.ts. A row is claimed by        *)
(* writing the intent, then the target is changed, then the outcome is     *)
(* recorded. The local members of a compensation group are changed in one  *)
(* transaction, its external members one by one afterwards.                *)
(***************************************************************************)
EXTENDS Naturals, FiniteSets

CONSTANTS
    Local, External, Fixed, \* ids of effects by class; Fixed cannot be revoked
    Group,       \* effect -> the effects of its compensation group
    Batches,     \* sets of effects a conversation or a run left behind
    Requests,    \* calls of revoke, revokeConversation and revokeRun
    People,      \* who may take a stuck compensation on
    Nobody

Effects == Local \union External \union Fixed

ASSUME EffectAssumption ==
    /\ Effects \subseteq Nat /\ IsFiniteSet(Effects)
    /\ Local \intersect External = {} /\ Local \intersect Fixed = {}
    /\ External \intersect Fixed = {}
    /\ Group \in [Effects -> SUBSET Effects]
    /\ \A e \in Effects : e \in Group[e] /\ \A f \in Group[e] : Group[f] = Group[e]
    /\ Batches \subseteq SUBSET Effects
    /\ Nobody \notin People

VARIABLES
    \* the revoke columns of ai_tool_side_effects
    status, age, acknowledged, taker,
    target,     \* local effect -> its business row
    landed,     \* effect -> the requests whose compensation reached its target
    blind,      \* effects about which an answer was lost on its way
    calm,       \* no two requests were ever under way together
    \* a request
    pc, job, mine, to, told

rows == <<status, age, acknowledged, taker>>
facts == <<target, landed, blind>>
vars == <<rows, facts, calm, pc, job, mine, to, told>>

Statuses == {"null", "compensating", "revoked", "revoke_failed"}

\* todo: effects of a batch still to come; unit: the effects in work; copy: the
\* rows as they were read; locals, externals: the members to compensate.
Jobs == [todo : SUBSET Effects, unit : SUBSET Effects,
         copy : [Effects -> Statuses],
         locals : SUBSET Local, externals : SUBSET External]

TypeOK ==
    /\ status \in [Effects -> Statuses]
    /\ age \in [Effects -> {"none", "fresh", "stale"}]
    /\ acknowledged \in [Effects -> BOOLEAN]
    /\ taker \in [Effects -> People \union {Nobody}]
    /\ target \in [Local -> {"live", "deleted", "restored"}]
    /\ landed \in [Effects -> SUBSET Requests]
    /\ blind \in SUBSET Effects
    /\ calm \in BOOLEAN
    /\ pc \in [Requests -> {"idle", "check", "list", "sort", "claim", "reread",
                            "fact", "write", "rewrite", "send", "wait", "over"}]
    /\ job \in [Requests -> Jobs]
    /\ mine \in [Requests -> SUBSET Effects]
    /\ to \in [Requests -> Statuses]
    /\ told \in [Requests -> SUBSET Effects]

NoJob == [todo |-> {}, unit |-> {}, copy |-> [e \in Effects |-> "null"],
          locals |-> {}, externals |-> {}]

Init ==
    /\ status = [e \in Effects |-> "null"]
    /\ age = [e \in Effects |-> "none"]
    /\ acknowledged = [e \in Effects |-> FALSE]
    /\ taker = [e \in Effects |-> Nobody]
    /\ target = [e \in Local |-> "live"]
    /\ landed = [e \in Effects |-> {}]
    /\ blind = {}
    /\ calm = TRUE
    /\ pc = [r \in Requests |-> "idle"]
    /\ job = [r \in Requests |-> NoJob]
    /\ mine = [r \in Requests |-> {}]
    /\ to = [r \in Requests |-> "null"]
    /\ told = [r \in Requests |-> {}]

-----------------------------------------------------------------------------
\* listGroup and find() return the rows in the order of their ids.
First(S) == CHOOSE e \in S : \A f \in S : e <= f

Goto(r, next) == pc' = [pc EXCEPT ![r] = next]

Plan(r, j) == job' = [job EXCEPT ![r] = j]

Tell(r, S) == told' = [told EXCEPT ![r] = @ \union S]

Hold(r, S) == mine' = [mine EXCEPT ![r] = S]

Running(r) == pc[r] \notin {"idle", "over"}

Held(e) == \E r \in Requests : e \in mine[r]

\* The loop of revokeBatch goes on with the next row, or with its whole group.
Continue(r) ==
    LET rest == job[r].todo
        unit == Group[First(rest)]
    IN  IF rest = {}
        THEN Goto(r, "over") /\ Plan(r, NoJob)
        ELSE /\ Goto(r, IF Cardinality(unit) = 1 THEN "check" ELSE "list")
             /\ Plan(r, [NoJob EXCEPT !.todo = rest \ unit, !.unit = unit,
                  !.copy = [e \in Effects |-> IF e \in rest THEN job[r].copy[e] ELSE "null"]])

\* What remains of the unit: locals first, then externals, then the next unit.
Work(r, j) ==
    IF j.locals = {} /\ j.externals = {}
    THEN Continue(r)
    ELSE /\ Goto(r, IF j.locals # {} THEN "claim" ELSE "send")
         /\ Plan(r, j)

Compensate(r, S) ==
    Work(r, [job[r] EXCEPT !.locals = S \intersect Local,
                           !.externals = S \intersect External])

\* skipReason: from the row as it was read and the target as it is now; a
\* revoked row whose target came back from the recycle bin is revoked again.
Skipped(r, e) ==
    \/ job[r].copy[e] = "compensating"
    \/ job[r].copy[e] = "revoked" /\ ~(e \in Local /\ target[e] # "deleted")

\* Mutant: a row in flight is answered like a revoked one.
AlreadyRevokedOrSkipped(r, S) == {e \in S : Skipped(r, e)}

AlreadyRevoked(r, S) == {e \in S : Skipped(r, e) /\ job[r].copy[e] = "revoked"}

-----------------------------------------------------------------------------
Enter(r, next, unit, todo, S) ==
    /\ pc[r] = "idle" /\ Goto(r, next)
    /\ Plan(r, [NoJob EXCEPT !.unit = unit, !.todo = todo,
                  !.copy = [e \in Effects |-> IF e \in S THEN status[e] ELSE "null"]])
    /\ calm' = (calm /\ \A s \in Requests : ~Running(s))
    /\ UNCHANGED <<rows, facts, mine, to, told>>

\* revoke and revokeOwned read the one row they are about.
Revoke(r, e) == Enter(r, "check", {e}, {}, {e})

\* revokeConversation and revokeRun read all rows at once, before the first.
RevokeBatch(r, S) ==
    LET unit == Group[First(S)] IN
    /\ S # {}
    /\ Enter(r, IF Cardinality(unit) = 1 THEN "check" ELSE "list", unit, S \ unit, S)

\* concludeSingle, and the single row of a batch.
Check(r) == \E e \in job[r].unit :
    /\ pc[r] = "check"
    /\ \/ Skipped(r, e) /\ Continue(r)
       \/ /\ ~Skipped(r, e) /\ Cardinality(Group[e]) = 1 /\ Compensate(r, {e})
       \/ /\ ~Skipped(r, e) /\ Cardinality(Group[e]) > 1
          /\ Goto(r, "list") /\ Plan(r, [job[r] EXCEPT !.unit = Group[e]])
    /\ Tell(r, AlreadyRevoked(r, {e}))
    /\ UNCHANGED <<rows, facts, calm, mine, to>>

\* doRevoke, revokeBatch: the rows of the group, read anew.
ListGroup(r) ==
    /\ pc[r] = "list" /\ Goto(r, "sort")
    /\ Plan(r, [job[r] EXCEPT !.copy =
                  [e \in Effects |-> IF e \in job[r].unit THEN status[e] ELSE job[r].copy[e]]])
    /\ UNCHANGED <<rows, facts, calm, mine, to, told>>

\* compensateGroup: members to skip, locals and externals.
SortMembers(r) ==
    /\ pc[r] = "sort"
    /\ Compensate(r, {e \in job[r].unit : ~Skipped(r, e)})
    /\ Tell(r, AlreadyRevoked(r, job[r].unit))
    /\ UNCHANGED <<rows, facts, calm, mine, to>>

-----------------------------------------------------------------------------
\* The intent: the row is in flight from now on.
WriteIntent(e) ==
    /\ status' = [status EXCEPT ![e] = "compensating"]
    /\ age' = [age EXCEPT ![e] = "fresh"]
    /\ acknowledged' = [acknowledged EXCEPT ![e] = FALSE]
    /\ UNCHANGED taker

\* Mutants: read, then write under no condition.
LocalIntentBare(e) == WriteIntent(e)

ExternalIntentBare(e) == WriteIntent(e)

\* The conditional updates of claimLocalIntent and of the external path.
LocalIntent(e) == status[e] # "compensating" /\ WriteIntent(e)

ExternalIntent(e) == status[e] \in {"null", "revoke_failed"} /\ WriteIntent(e)

\* Mutant: the external members are dispatched after the rollback as well.
UndoAndGoOn(r) ==
    /\ IF mine[r] = {}
       THEN Continue(r) /\ UNCHANGED to
       ELSE /\ Goto(r, "write") /\ UNCHANGED job
            /\ to' = [to EXCEPT ![r] = "revoke_failed"]

\* Mutant: a rollback puts the row back to where it was.
UndoToNull(r) ==
    /\ IF mine[r] = {}
       THEN Continue(r) /\ UNCHANGED to
       ELSE /\ Goto(r, "write") /\ Plan(r, [job[r] EXCEPT !.externals = {}])
            /\ to' = [to EXCEPT ![r] = "null"]

\* patchRevoke gives back the rows it holds, unless there are none.
Undo(r) ==
    /\ IF mine[r] = {}
       THEN Continue(r) /\ UNCHANGED to
       ELSE /\ Goto(r, "write") /\ Plan(r, [job[r] EXCEPT !.externals = {}])
            /\ to' = [to EXCEPT ![r] = "revoke_failed"]

NextLocal(r) == First(job[r].locals \ mine[r])

\* claimLocalIntent for one member after the other.
Claim(r) ==
    LET e == NextLocal(r) IN
    /\ pc[r] = "claim" /\ LocalIntent(e)
    /\ Hold(r, mine[r] \union {e})
    /\ Goto(r, IF mine'[r] = job[r].locals THEN "fact" ELSE "claim")
    /\ UNCHANGED <<facts, calm, job, to, told>>

\* No row hit: a single revocation reads why, a group is given up.
ClaimRefused(r) ==
    LET e == NextLocal(r) IN
    /\ pc[r] = "claim" /\ status[e] = "compensating"
    /\ IF Cardinality(job[r].unit) = 1
       THEN Goto(r, "reread") /\ UNCHANGED <<job, to>>
       ELSE Undo(r)
    /\ UNCHANGED <<rows, facts, calm, mine, told>>

\* The statement threw, before or after it was applied.
ClaimFails(r) ==
    /\ pc[r] = "claim"
    /\ LocalIntent(NextLocal(r)) \/ UNCHANGED rows
    /\ Undo(r)
    /\ UNCHANGED <<facts, calm, mine, told>>

\* doRevokeSingle: the refused request reports how the row stands by now.
Reread(r) == \E e \in job[r].locals :
    /\ pc[r] = "reread" /\ Continue(r)
    /\ Tell(r, {f \in {e} : status[f] = "revoked"})
    /\ UNCHANGED <<rows, facts, calm, mine, to>>

DeleteTargets(S) ==
    target' = [e \in Local |-> IF e \in S THEN "deleted" ELSE target[e]]

\* The soft-deletes, in one transaction for a group.
Delete(r) ==
    /\ pc[r] = "fact" /\ Goto(r, "write")
    /\ DeleteTargets(mine[r])
    /\ to' = [to EXCEPT ![r] = "revoked"]
    /\ UNCHANGED <<rows, landed, blind, calm, job, mine, told>>

DeleteFails(r) ==
    /\ pc[r] = "fact" /\ Undo(r)
    /\ \/ UNCHANGED facts
       \/ DeleteTargets(mine[r]) /\ blind' = blind \union mine[r] /\ UNCHANGED landed
    /\ UNCHANGED <<rows, calm, mine, told>>

-----------------------------------------------------------------------------
\* Mutant: a word outside the vocabulary of revoke_status.
PatchFailed(e, v) ==
    /\ status' = [status EXCEPT ![e] = IF v = "revoke_failed" THEN "failed" ELSE v]
    /\ acknowledged' = [acknowledged EXCEPT ![e] = @ \/ e \in External]
    /\ UNCHANGED <<age, taker>>

\* patchRevoke writes by id, under no condition.
Patch(e, v) ==
    /\ status' = [status EXCEPT ![e] = v]
    /\ acknowledged' = [acknowledged EXCEPT ![e] = @ \/ e \in External]
    /\ UNCHANGED <<age, taker>>

\* The row is done with, recorded or not; what is left of the unit goes on.
Done(r, e) ==
    /\ Hold(r, mine[r] \ {e})
    /\ IF mine'[r] # {}
       THEN Goto(r, "write") /\ UNCHANGED <<job, to>>
       ELSE /\ Work(r, [job[r] EXCEPT !.locals = {}, !.externals = @ \ {e}])
            /\ to' = [to EXCEPT ![r] = "null"]

Write(r) ==
    LET e == First(mine[r]) IN
    /\ pc[r] \in {"write", "rewrite"} /\ Patch(e, to[r]) /\ Done(r, e)
    /\ Tell(r, {f \in {e} : to[r] = "revoked"})
    /\ UNCHANGED <<facts, calm>>

\* A failed write is tried once more and then left.
WriteFails(r) ==
    LET e == First(mine[r]) IN
    /\ pc[r] \in {"write", "rewrite"}
    /\ \/ UNCHANGED <<rows, facts>>
       \/ Patch(e, to[r]) /\ blind' = blind \union {e} /\ UNCHANGED <<target, landed>>
    /\ IF pc[r] = "write"
       THEN Goto(r, "rewrite") /\ UNCHANGED <<job, mine, to>>
       ELSE Done(r, e)
    /\ UNCHANGED <<calm, told>>

-----------------------------------------------------------------------------
\* doRevokeSingle, external path: intent, request, answer.
Send(r) ==
    LET e == First(job[r].externals) IN
    /\ pc[r] = "send" /\ ExternalIntent(e)
    /\ Hold(r, {e}) /\ Goto(r, "wait")
    /\ UNCHANGED <<facts, calm, job, to, told>>

SendRefused(r) ==
    LET e == First(job[r].externals) IN
    /\ pc[r] = "send" /\ status[e] \notin {"null", "revoke_failed"}
    /\ Work(r, [job[r] EXCEPT !.locals = {}, !.externals = @ \ {e}])
    /\ UNCHANGED <<rows, facts, calm, mine, to, told>>

\* The statement threw: nobody catches it before the loop of revokeBatch.
SendFails(r) ==
    /\ pc[r] = "send"
    /\ ExternalIntent(First(job[r].externals)) \/ UNCHANGED rows
    /\ Continue(r)
    /\ UNCHANGED <<facts, calm, mine, to, told>>

Land(r) == landed' = [e \in Effects |->
              IF e \in mine[r] THEN landed[e] \union {r} ELSE landed[e]]

Answered(r, v) ==
    /\ pc[r] = "wait" /\ Goto(r, "write")
    /\ to' = [to EXCEPT ![r] = v]
    /\ UNCHANGED <<rows, target, calm, job, mine, told>>

Accepted(r) == Answered(r, "compensating") /\ Land(r) /\ UNCHANGED blind

Rejected(r) == Answered(r, "revoke_failed") /\ UNCHANGED <<landed, blind>>

\* A request that was carried out and whose answer did not come in time.
Unheard(r) ==
    /\ Answered(r, "revoke_failed") /\ Land(r)
    /\ blind' = blind \union mine[r]

-----------------------------------------------------------------------------
\* The process of a request ends; a request on its way may still arrive.
Crash(r) ==
    /\ Running(r)
    /\ Goto(r, "over") /\ Plan(r, NoJob) /\ Hold(r, {})
    /\ to' = [to EXCEPT ![r] = "null"]
    /\ \/ landed' = landed
       \/ pc[r] = "wait" /\ Land(r)
    /\ UNCHANGED <<rows, target, blind, calm, told>>

\* AdminService.restoreTrashItem.
Restore(e) ==
    /\ target[e] = "deleted"
    /\ target' = [target EXCEPT ![e] = "restored"]
    /\ UNCHANGED <<rows, landed, blind, calm, pc, job, mine, to, told>>

\* REVOKE_STALE_MINUTES since the intent, far more than a request takes.
GrowOld(e) ==
    /\ status[e] = "compensating" /\ age[e] = "fresh" /\ ~Held(e)
    /\ age' = [age EXCEPT ![e] = "stale"]
    /\ UNCHANGED <<status, acknowledged, taker, facts, calm, pc, job, mine, to, told>>

\* claim: a person takes a stuck compensation on, nothing else changes.
Take(e, p) ==
    /\ status[e] = "compensating" /\ age[e] = "stale" /\ taker[e] = Nobody
    /\ taker' = [taker EXCEPT ![e] = p]
    /\ UNCHANGED <<status, age, acknowledged, facts, calm, pc, job, mine, to, told>>

-----------------------------------------------------------------------------
Handle(r) ==
    \/ Check(r) \/ ListGroup(r) \/ SortMembers(r)
    \/ Claim(r) \/ ClaimRefused(r) \/ ClaimFails(r) \/ Reread(r)
    \/ Delete(r) \/ DeleteFails(r) \/ Write(r) \/ WriteFails(r)
    \/ Send(r) \/ SendRefused(r) \/ SendFails(r)
    \/ Accepted(r) \/ Rejected(r) \/ Unheard(r)

Next ==
    \/ \E r \in Requests :
         \/ \E e \in Effects : Revoke(r, e)
         \/ \E S \in Batches : RevokeBatch(r, S)
         \/ Handle(r) \/ Crash(r)
    \/ \E e \in Local : Restore(e)
    \/ \E e \in Effects : GrowOld(e) \/ \E p \in People : Take(e, p)

Spec == Init /\ [][Next]_vars

-----------------------------------------------------------------------------
\* Two owners of a row would compensate twice, and the later outcome would hide
\* the earlier.
OneOwner == \A r, s \in Requests : r # s => mine[r] \intersect mine[s] \subseteq blind

\* A target system that no answer was lost from is asked to compensate an
\* effect once, however many requests, crashes and retries there are.
CompensatedOnce == \A e \in External \ blind : \A r, s \in landed[e] : r = s

\* A group is half compensated when an external member was compensated while a
\* local one is as it was.
HalfCompensated(x, l) == landed[x] # {} /\ target[l] = "live"

\* compensateGroup: when the local members roll back, no external member is
\* dispatched, to avoid a half-compensated group. It does not hold, not even of
\* requests that come one after the other: one claims a local member and ends, or
\* its statement throws though it was applied; the next one skips that member,
\* deletes the others and dispatches the external ones.
GroupsStayWhole ==
    \A x \in External : \A l \in Local \intersect Group[x] : ~HalfCompensated(x, l)

\* A row that reads "in flight" with its moment, and on which nobody works: the
\* list of stale intents will have it, and its replies say it is not revoked.
LeftInFlight(l) ==
    status[l] = "compensating" /\ age[l] # "none" /\ ~Held(l)

\* As long as requests come one after the other, a rollback never leaves a half
\* group: the local member of one is a row left in flight by a request that ended
\* or by a statement that threw, which a person gets to see, and never one that
\* reads untouched, failed or revoked.
HalvesAreLeftInFlight ==
    calm => \A x \in External : \A l \in Local \intersect Group[x] :
                HalfCompensated(x, l) => LeftInFlight(l)

\* "revoked", on the row or in an answer, is said of changed targets only.
RevokedIsReal ==
    \A e \in Effects : (status[e] = "revoked" \/ \E r \in Requests : e \in told[r])
                       => e \in Local /\ target[e] # "live"

\* "Waiting for the target system" (an acknowledged intent) is never read of a
\* request that did not arrive: an earlier acknowledgement does not speak for a
\* later request.
AcknowledgedIsReal ==
    \A e \in External \ blind :
        status[e] = "compensating" /\ acknowledged[e] => landed[e] # {}

\* What the rows and the answers say was done to a target was done, whatever
\* statements, transactions and answers failed and whichever requests overlap.
RepliesAreReal == RevokedIsReal /\ AcknowledgedIsReal

\* A person takes on only what nobody works on and what stays unresolved.
TakenIsStuck ==
    \A e \in Effects : taker[e] # Nobody => status[e] = "compensating" /\ ~Held(e)

\* An outcome that stays unknown can grow old and reach the list of stale
\* intents: every intent carries its moment.
IntentsAreDated == \A e \in Effects : status[e] = "compensating" => age[e] # "none"

\* The conditional intent lets one request at a time work on a row, a person
\* never works on a row that a request works on, and what nobody works on any
\* more is found.
WorkersAreApart == OneOwner /\ TakenIsStuck /\ IntentsAreDated

\* What the readers of the rows may rely on: RevokeContract.
Fact == [e \in Effects |->
    IF e \in Local THEN IF target[e] = "deleted" THEN "changed" ELSE target[e]
    ELSE IF landed[e] = {} THEN "live" ELSE "changed"]

Contract == INSTANCE RevokeContract
    WITH reading <- status, fact <- Fact, doubted <- blind

\* Every step of every request, with its failures, is a step of the contract.
ImplementsContract == Contract!Spec

\* The comment of claimLocalIntent: a row whose target is soft-deleted is not
\* claimed again, so the deletion stays readable in its status. It does not hold:
\* a request that read the row before another one revoked it claims it once more,
\* and a failing statement then writes revoke_failed over a deleted target.
DeletedIsKnown ==
    \A e \in Local \ blind : target[e] = "deleted" => status[e] \in {"compensating", "revoked"}
=============================================================================
