# KeelBase in TLA+

KeelBase is a NestJS backend with several front ends whose core is a runtime for
AI tools that act on business data. A tool call of a language model passes a gate,
waits for a person where its risk asks for one, takes a claim that makes it run
at most once, runs, and leaves a row in a ledger from which it can be revoked.
These modules model that core: who may let a write run, how often it runs, how
its effects are registered, chained and revoked, and what the rows say of it
afterwards, under concurrent calls, timeouts, failing statements and restarts.
One module models the second state machine of the backend, the workflow runtime.

Paths below are relative to `Server-NestJS/src/` unless they start with `docs/`.

## 1. Inventory

| Part | State it keeps | Operations | Talks to | What is hard |
|---|---|---|---|---|
| Decision axis: `ai/confirmation/`, `ai/approvals/`, the expiry job of `maintenance-tasks/` | rows of `ai_confirmation_requests`; `ConfirmationStore.pending`, a Map of promises and timers | `create`, `createRun`, `createR4ApprovalRequest`, `resolve`, `decideOutOfBand`, `decideApproval`, `expireStale` | the dialogue (promise), the write pipeline (call), the conversation (late note), the audit log | four parties settle one row; timer against update; restart loses the Map and keeps the rows; sweep against decision |
| Execution lease: `ai/approvals/r4-approval.service.ts` | `execution_claimed_at`, `executed_at`, `execution_error` of the same row | `executeApprovedTool`, `_claimExecution`, `_settleExecution`, `retryExecution` | the write pipeline | two retries; a retry beside a live run; outcome written by a loser |
| Write claim: `ai/tools/tool-execution.service.ts`, `governance-shared/services/write-claim*.ts` | rows of `ai_write_claims` with two unique indexes (key, and operation while claimed); the work behind a wait | `executeWrite`, `claimWrite`, `settleClaim`, `releaseClaim`, `sweepOverdue`, `release`, `reconcileClaim` | local tools, proxied business systems, MCP servers, the ledger | work goes on after its wait ended; external writes may land unseen; statements fail half way; crash between claim and settlement; late answers |
| Registration and disputes: `governance-shared/services/effect-registration.ts`, `effect-dispute.store.ts` | rows of `ai_tool_side_effects`, `revoke_dispute` of the root row | `record`, `recordGroup`, `markIfDeclarationDiffers`, `markIfWriteDiffers`, `acknowledgeDispute` | write pipeline, revocation | two executions under one key wrote different rows; evidence written over evidence; a confirmation of what is no longer the question |
| Chains: `effect-chain.ts`, `common/audit-chain`, `audit.service.ts`, `operation-audit` | chained rows of three tables; a lock row, a promise queue | `withChainWrite`, `insertOne`, `log`, `verifyChain`, the patrol | everything that writes an audit row | a fork under concurrent writers, half of a group, a key rotation, an alarm that is not sent |
| Revocation: `governance-shared/services/effect-revoke.ts` | `revoke_status`, `revoke_requested_at`, `revoke_acknowledged_at`, `revoke_claimed_by` of an effect | `revoke`, `revokeOwned`, `revokeConversation`, `revokeRun`, `claim`; restore from the recycle bin | targets, local and external | intent before fact; group in one transaction, external members after; two revocations; lost answers; stale intents |
| Projection and comparability: `effect-projection.ts`, `effect-comparability.store.ts`; audit reports | views of rows | read | query side | little: nothing depends on them |
| Policy and gates: `governance-policy.service.ts`, `ai/tools/tool-gate.service.ts`, the tool loop of `ai/ai.service.ts`, the cache of `users/users.service.ts` | the policy row; `trustedScopes` of a turn; the role of a user and its cached copy | `setPolicy`, `assertToolAllowed`, `requiresConfirmation`, `requiresApproval`, `assertWithinDeclaredScope`, `assertApprovalRequirementHolds`, `decisionBasis` | every call, the decision axis, the write pipeline | a check under one policy and an execution, minutes or days later, under another; a trusted scope looked up after its bound has moved; a role read from a cache |
| External governance: `governance-core`, `governance`, `ai/governance-bridge`, `ai/trust-sandbox` | reports of other runtimes | decide, report | gate of calls made elsewhere | the same checks, without the runtime's own wait |
| Chat and agents: `ai/ai.service.ts`, `ai/agents`, `ai/providers` | conversation, plan of a run | chat, stream, tool loop | all of the above | abort of a stream while a tool runs |
| Circuit breaker: `circuit-breaker/` | state and counters per name | `fire`, `isOpen`, `recordSuccess`, `recordFailure` | providers | calls that began before the state changed |
| Workflow: `flows/`; approvals: `approval/` | instances and tasks; requests | start, advance, `resolveTask`, `rollback`; review, decide | events, notifications | read, check and save without a condition; crash between task and instance |
| Points: `points/` | ledger of entries, one check-in per day | `checkIn` | settings | streak from a stale read |
| Authentication: `auth/` | sessions, refresh tokens, lock-outs, delegation tokens | login, refresh, revoke | all requests | rotation of one token twice |
| Delivery: `webhooks`, `queue`, `realtime`, `notifications`, `push`, `mail`, `sms` | outgoing messages | send, retry | external | duplicates and loss |
| Business entities, files, search, settings, administration, front ends, scripts | one table each, or none | create, read, update, delete | write pipeline as targets | little beyond the unique indexes |

`PROJECT.json` lists every part with the reason where it is not modelled, and under
"hazards" each place where an order of events, a failure or a boundary could go
wrong in a way a test would hardly reach.

What makes each part correct:

- Decision axis: a token gets one verdict and keeps it, at most one party runs the
  write after an approval of the right person, nobody is told otherwise, every
  question ends.
- Execution lease: one execution at a time, a recorded outcome is one that happened,
  an interrupted one does not look alive for ever.
- Write claim: one operation is worked on by one call, an external write lands at most
  once, a replay is of a real write, a claim that nobody holds surfaces to a person.
- Registration: a write that no row holds is marked, and what is missing is never taken for
  acknowledged but by a person who read just that.
- Chains: one chain without forks, groups as a whole, a verdict that fails exactly when
  something was tampered with, a broken chain that is announced.
- Revocation: compensated at most once, "revoked" only after the fact, a group as a
  whole, or its half in sight of a person, a stale intent is found again.
- Workflow: no path around an approval, also when the definition changes meanwhile, a rejection that stands, an instance that goes on.
- Policy and gates: what runs was allowed by a policy and a role in force since its
  execution began, the basis noted on its claim is such a one, and what runs without a
  question is covered by an earlier answer.
- Approvals, breaker, points, sessions, delivery: no lost update; one probe; one check-in
  a day; one rotation per token; at-least-once without loss.

## 2. Modules and the code they stand for

| Module | Stands for | Uses |
|---|---|---|
| `Confirmation` | `ConfirmationStore`, `MyConfirmationService.decide`, `decideApproval`, the dialogue's wait, `expireStaleConfirmations` | implements `DecisionContract` |
| `DecisionContract` | what the rest of the runtime relies on: ask once, one final verdict, one run after approval | |
| `WriteClaim` | `executeWrite`, `WriteClaimStore`, `WriteClaimDecisionService`, `reconcileClaim`, the tool behind its wait | |
| `ExecutionLease` | `executeApprovedTool`, `_claimExecution`, `_settleExecution`, `retryExecution`, `deriveExecutionState` | |
| `GovernedWrite` | the call from `executeApprovedTool` or the dialogue into `executeWrite` | extends `ExecutionLease`, an instance of `WriteClaim` |
| `EffectRevoke` | `EffectRevoke`, `_patchRevoke`, `LocalEntityRevoker.revoke`, `ProxyToolRevokerService.revoke`, `restoreTrashItem`, `revokeAge` | implements `RevokeContract` |
| `RevokeContract` | what readers of `revoke_status` rely on: a target changes only while its row reads "unknown", "revoked" is said of changed targets only | |
| `AuditChain` | `EffectChainWriter`, `AuditChainService`, `AuditService.log`, `OperationAuditService.log`, the two `verifyChain`, `patrolAuditChainIntegrity` | |
| `EffectDispute` | `EffectRegistration.record`, `recordGroup`, `EffectDisputeStore` | |
| `FlowRuntime` | `FlowRuntimeService.start`, `executeNode`, `advance`, `resolveTask`, `rollback`; `runHumanTask`, `runAiTask`, `evalCondition` | |
| `ToolGate` | `ToolGateService`, `GovernancePolicyService`, the tool loop of `AiService`, the checks of `executeWrite`, `UsersService.findOne` and `updateRole` | |
| `MC*` | instances for TLC | |
| `*_proofs` | theorems for every value of the constants; those of `ExecutionLease` are in `GovernedWrite_proofs` | extend their module; `GovernedWrite_proofs` uses an instance of `WriteClaim_proofs` |

One convention holds throughout: **a database statement is one step, and the code
between two awaits belongs to one of its neighbours.** A statement that throws may have
been applied before it failed (`applied`), because a lost connection looks the same.
A restart keeps the tables and loses everything else.

### Confirmation

`rows` is the table, `dialogue[t]` the entry of `ConfirmationStore.pending` with its
timer, `calls` the decision requests in flight between their statements, `sweep` the
hourly job with the list it has read, `granted[t]` who entered the write pipeline,
`notes[t]` what was written back to the conversation late, `recorded[t]` the expiry
rows in the audit log. `Ask`, the `resolve`, out-of-band and approval handlers, the
60 s `StreamTimer`, the four steps of the sweep and a restart are actions.

Abstractions: persisting a question and arming its timer are one step (nobody knows the
token before); the cut-off of the offline window is evaluated by the update statement;
`WindowCloses` happens to pending rows only, as it changes nothing else; a request is
used once; trust of a tool for the rest of a turn is in `ToolGate`.

### WriteClaim

`status`, `decision`, `stale`, `attempts` are the columns of a row of
`ai_write_claims`, `stale` standing for a claim older than `REVOKE_STALE_MINUTES`.
`ledger` has the keys with a row in `ai_tool_side_effects`. `pc[a]` is where a call of
`executeWrite` stands and `work[a]` what runs behind its wait: cancelling the wait
does not stop the work, and a crash leaves a request on its way (`"sent"`) that may land
later. `landed[k]` is the truth at the target, which no code reads except a status
probe. A key is a pair of conversation and operation, because the idempotency key
hashes both and the operation lease leaves the conversation out.

Abstractions: the gates at the execution point are in `ToolGate`, and a rejected call never
begins; winning the claim and starting the work are one step, and so are resuming after
the work and the statement that follows (no await in between); a claim grows stale only
when no unstoppable tool is waited for (60 s against 60 minutes by default); a target's
status probe tells the truth of the moment it is asked, and only proxy targets have one;
groups, snapshots, audit rows, dispute marks and assemblies without a ledger are left
out. `Stoppable` models the contract of `abortable = 'yes'`; no tool of the repository
declares it yet.

### ExecutionLease

`lease[t]` is `execution_claimed_at` as `deriveExecutionState` sees it: null, fresh, or
older than five minutes. `executed` and `error` are the outcome columns. A run is one
execution: `step[r]` goes from the read of a retry over the clearing of the old lease,
the conditional update, the work and the settlement; `"dialogue"` is an execution by the
conversation, which leaves these columns alone. `holder` is a history variable: who took
the lease last.

Abstractions: one run goes on with an approval (that is `AtMostOneRun` of
`Confirmation`); a refused retry is no step; failures and crashes are not bounded, since
runs are used once; a lease does not grow old while its holder waits for a tool that is
cut off after 60 s. `Unbounded` tools are those a wait cannot be cut off from.

### GovernedWrite

A run of the lease in its `"work"` or `"dialogue"` step is a call of `executeWrite`;
every step of that call that returns is an `Answer` of the lease. Runs of one token have
one key, because arguments and conversation come from the row; two tokens may be two
approvals of one call. `executeApprovedTool` gives no signal, so a stoppable tool is
told to stop by the dialogue only. A crash is a crash of both sides.

### EffectRevoke

`status`, `age`, `acknowledged` and `taker` are the four revoke columns, `age` standing
for `revoke_requested_at` against `REVOKE_STALE_MINUTES`. `target` is the business row of
a local effect, `landed[e]` the requests whose compensation reached its target, `blind`
the effects about which an answer of the database or of a target was lost. A request
(`revoke`, `revokeConversation`, `revokeRun`) is a process: `job[r]` has the effects still
to come, the unit in work, the rows as they were read and the members to compensate;
`mine[r]` are the rows it wrote the intent on, `to[r]` what it is going to write on them,
`told[r]` what it reports as revoked. The local members of a group are claimed one by one,
deleted in one transaction and recorded one by one; a refusal or a failure gives the
claimed rows back; external members follow one by one: intent, request, answer.

Abstractions: the target system decides at the moment of the answer whether a request
landed; the single path is a group of one; deletions by users, drift, comparability,
downstream references, cross-group claims, the owner filter and the audit row are left out
(they choose words, not steps), and so are assemblies without a data source or an external
revoker. A local revoker never answers "not revoked" without throwing when it can handle
the type. `revoke_claimed_by` is never cleared by the code, and not here.

### AuditChain

One table with one of three schemes; `table` has the rows in the order of their ids,
`"open"` until their transaction commits. A hash is the sequence of what was hashed into
it, so two hashes are equal when their whole past is. `lock` is the row of
`audit_chain_lock`, `queue` the promise chain of a process; `key` is the current
`AUDIT_HMAC_KEY`, a restart may advance it and keeps the one before. `seen` and `telling`
are the patrol of a process. `Alter`, `Lose` and `InsertPlain` change the table past the
service: they are what a verification is for.

Abstractions: the content of a row is its writer; the two audit tables share one lock row
and the effects have their own, so each table is checked by itself; sqlite is one process
(`effect-chain.ts:57` promises no more); the 60 s cache of a verdict and the external
anchor are left out. `ChainAssumption` keeps unhashed rows where the three verifications
agree on them: see section 4.

### EffectDispute

The rows under one idempotency key: `held` targets, the `root` row, `grouped` when they
were registered as a composite. `dispute` is `revoke_dispute` of the root. A call is an
execution of the tool that has written `declared`; it registers, is refused by the unique
key, compares, and leaves evidence from what it read (`seen`). A person reads the evidence
(`reading`) and writes it back with an acknowledgement.

Two executions reach the registration under one key when a claim was released while its
tool still ran, and through the `effects` reports that `external-governance.controller.ts`
takes. `Open` is the verdict that a revocation reads (`hasOpenDispute` in `notesFor` and
`withDisputeNote`). Left out: evidence that cannot be parsed, undeclared writes, possible
duplicates, the reporter.

### FlowRuntime

`inst` is the row of the instance, `copy[c]` what a call holds of it and saves as a whole,
`tasks` the rows of `flow_tasks`. A call goes from await to await; `guarded` says that the
step runs inside the `try` of an `executeNode`, whose catch marks the instance as failed.
`def` is the row of the definition, which `Publish` overwrites at any time (an
administrator's save, or the defaults at every start of the server); `ver[c]` is the
definition a call has read: `Start` and `Consult` read it once, `Find` again before every
node that `advance` goes on to (`to[c]`).
`reached`, `approved` and `rejected` are what the audit says, `published` is all that the
definition has been.

Abstractions: one instance; contents of the definition that are well-formed
(`DefinitionAssumption`: ids are unique, successors exist; conditions can be parsed; the
defaults are stored without that validation, and pass it); a refusal by role is a choice
of `Consult`; the choice of the assignee and notifications are left out; a save
writes the whole copy (TypeORM writes the columns that differ from the row it reads
first); a statement that throws was not applied.

### ToolGate

`policy` is the row of `ai_governance_policy` as far as one tool is concerned: switch,
roles, mode, bound of one numeric argument. `Publish` replaces it at any time. `role` is
the row of the caller, `cached` the entry `user:<id>` of the cache that `findOne` asks
first, `had` every role the row has had: any request of the user may have read the row
earlier and puts what it read into the cache now (`Store`), after `updateRole` has deleted
the entry (`Evict`, which is also the end of its five minutes). A call goes from check to
check, and each reads the row anew, as the code does: `CheckEnabled`, `CheckRoles`,
`CheckUser`; then, in the dialogue, whether to confirm (`AskMode`), whether a scope of this
turn covers it (`Lookup`), whether an approver is asked (`AskWhom`), the question with the
bound it shows (`Show`); and, when somebody has approved, everything once more (`Enter`),
the bound (`CheckScope`), the approval (`Recheck`), and the two reads of the decision basis.
Calls of one turn follow one another, as the loop awaits them; one that was submitted to an
approver, or whose wait has lapsed, is executed outside of it, days later perhaps.
A call that needs no confirmation is `executeRead`: no bound, no second look, no claim.

`policies` and `roles` of a call collect what was in force since its gates were entered;
`fresh` says that the cache held nothing else meanwhile, `calm` that no publication fell
between two reads of the bound. They are history variables, and `agreed` is one: no code
reads them.

Abstractions: one tool and one caller (another administrator exists, so `updateRole` never
refuses); a cache that fails reads as empty (`CacheService.get`); one numeric argument for
the bounded fields, of which the code compares each in the same way; a statement that throws fails the call, and a
policy that cannot be read for the basis stays unknown. Left out: feature flags,
administrator tools and verified mail (one more check of the same kind each),
destinations and writable fields, the system account `'0'`, the history of policies that
`setPolicy` writes in a second statement, and the confirmation of several writes of a run
at once.

## 3. Runs

| Run | Bounds | Shows |
|---|---|---|
| `confirmation` | 1 token, 3 calls, 1 fault, fair | `AtMostOneRun`, `RunsAreAuthorized`, `ConversationAgrees`, `ExpiryRecordedOnce`, that every step is one of `DecisionContract`, and `QuestionsEnd` |
| `write_claim` | 2 conversations, 1 operation of each of four kinds, 2 calls, 1 administrator, 1 fault | `OneFlight`, `AtMostOnceExternal`, `ReplaysAreReal` |
| `write_claim_live` | 1 conversation, 2 calls, 1 fault | `CallsReturn`, `OrphansSurface` |
| `execution_lease` | 2 tokens, one unbounded, 3 runs, any number of failures | `SuccessIsReal`, `NothingStaysRunning` |
| `governed` | 2 tokens, one unbounded, 2 runs, one operation of each of four kinds, 1 fault | `ExecutedWasWritten`, `RetriedOnce` |
| `effect_revoke` | a group of 2 local effects and 1 external, or 3 single effects, one of each class; 2 requests, 1 person, any number of failures | `WorkersAreApart`, `CompensatedOnce`, `HalvesAreLeftInFlight`, `RepliesAreReal`, and that every step is one of `RevokeContract` |
| `audit_chain` | 3 chains, 2 databases, 2 writers, 2 processes, 1 restart, 1 key change, 1 damaged row, fair | `VerdictIsRight`, `GroupsAreWhole`, `AppendOnly`, `WritersFinish`, `BreaksAreSent` |
| `flow_runtime` | 3 contents of the definition of up to 4 nodes, 3 calls, 1 fault | `NoStepSkippedWhileKept`, `RunningIsMovingUnlessFaulty`, `RejectionStandsWhenCalm` |
| `effect_dispute` | 3 targets, 4 calls, 1 person, 1 fault | `NothingIsSilent`, `OpenUntilConfirmed`, `ConfirmationStands` |
| `tool_gate` | a tool of risk R3, 5 policies, 2 roles, 2 values, 2 calls, 2 changes | `RunsWereAllowed`, `TrustCoversWhenCalm` |

Why the bounds are enough: tokens, keys and operations do not share state except through
the operation lease (hence two conversations on one operation) and the sweep's list, in
which rows are handled one after the other. A race needs two parties, and a third that
starts after both; `confirmation` has the dialogue, three requests and the sweep,
`execution_lease` three executions, and `governed` two on one token or on two, either of
which may be a retry. Administrators of stuck claims are left to `write_claim`. One fault
at any statement shows every place where the code does not know what happened. A group
needs two local members for a claim that fails half way and one external member for a
half compensation; two requests meet on every row, and each fails and crashes at every
step. Two writers meet on a chain, a third would wait like the second; a group of two
rows next to a single row has a middle and an end. In `flow_runtime` the first
definition has every kind of node and two paths; the second adds an approval to one of
them, the third drops a human task that may be pending; three calls are a start and two
decisions, or a decision and a rollback. `rejection_overruled` has a fourth. In
`effect_dispute` the fourth call finds evidence that the third left over that of the
second. In `tool_gate` a first call makes a scope and a second one meets it; two changes
are a bound that moves twice, or a policy and a role; the five policies are two bounds, one
of them with a role, a kill switch, a raise to an approval and none, and a bound lies
between the two values. Two configurations cut the state space by a constraint: `Apart`
keeps the group and the single effects of `effect_revoke` in behaviours of their own, since
they share nothing, and `CacheForOne` has the cache in play for the first call only, since
no call reads what another has read. Both are left out of the theorems. Every safety
property, action property and refinement is also proved without bounds (section 5). Calls, runs, requests and writers are used once, so the system
really comes to rest and the deadlock check is off.

**Fairness.** Weak fairness of every handler step that the event loop will resume, of
the 60 s timer and the closing of the window, of the hourly sweep, and of the ageing of
a lease or a claim. A tool is obliged to nothing: `CallsReturn` rests on the window that
cuts the wait off, and excludes stoppable tools, for which the code has no window.
`ExecutionLease` alone assumes that a tool which is waited for 60 s gives some answer;
the window of `executeWrite` gives it, which `CallsReturn` of `write_claim_live` shows.
Persons are never obliged to decide. `EffectRevoke`, `FlowRuntime`, `EffectDispute` and
`ToolGate` state no fairness: a revocation that dies is found by its age, which
`WorkersAreApart` says every intent in flight has. In `AuditChain` statements are answered or fail, waiters for the lock row
get it in turn (strong fairness of `Acquire`, which postgres grants in order of arrival
and the promise queue by construction), and the hourly patrol of a process that runs fires.

## 4. Where comments and code differ

Each of these runs has one property, taken from a comment, and a counterexample.

| Run | What the text says | What happens |
|---|---|---|
| `rerun_writes_twice` | re-running is safe, no second side effect (`ai/approvals/r4-approval.service.ts:459`) | a committed local write whose registration failed is released, and the retry writes again |
| `rejection_overruled` | a rejection fails the instance (`flows/flow-runtime.service.ts:208`) | an approval that read the task as pending before the rejection was saved goes on, and its saves come last: the audit has the rejection, the instance completes |

The modules state more comments and documents that the code does not keep. No run is
kept for them; a configuration that names one as its property finds the counterexample
within a few steps of the instances above.

- `EveryExpiryIsRecorded` (`docs/audit-authz-snapshot.spec.md:171`): a restart between the
  flip of a row to timeout and its audit row loses the record for good.
- `OneWinner` (`r4-approval.service.ts:283`, `:408`): a retry clears the lease that a live
  execution has just taken, and both run. `RetriedOnce` says that the claim behind the
  lease then keeps the write from happening twice, for an MCP write always and for a local
  one as long as no statement fails. A proxy write has no such promise, because a timed-out
  one is settled or reopened on a target's answer; neither has a stoppable tool.
- `NotStartedNeverRan` (`ai/confirmation/execution-state.ts:4`): the dialogue's own
  execution is never recorded on the row.
- `SettledProxyLanded` (`governance-shared/entities/ai-write-claim.entity.ts:69`): a proxy's
  failure is an ordinary value, and its claim is settled.
- `FreshClaimsAreSpared`, `ClosedIsFinal` (`ai-tool-effects.service.ts:336`): a late
  answer of a target moves a claim that was taken again, or closed, while it was asked.
- `ReleasedNotLanded` (the cause of `rerun_writes_twice`), `EveryWriteIsCounted` (the count
  is a stale read plus one) and `StoppableRunsAlone` (a release that was applied and failed
  is repeated on somebody else's claim; no tool is stoppable yet).
- `GroupsStayWhole` (`effect-revoke.ts:651-654`: a rollback of the local members keeps the
  external ones from being dispatched, so that no group is half compensated): a group can
  be half compensated in two ways. Two requests that overlap: one loses its local members
  and the other dispatches the external one. And two requests one after the other: the
  first claims a local member and ends before the deletion, or the statement of its intent
  throws though it was applied; the second skips that member as "in flight" (`:670-681`),
  deletes the others and dispatches the external one (`:743-760`), and no later request
  takes the first member again. TLC finds it in 13 states with `calm` true.
  `HalvesAreLeftInFlight` says what does hold of requests one after the other: the member
  of a half group reads "compensating", with its moment and in nobody's hands, so that the
  list of stale intents has it; a rollback leaves none.
- `DeletedIsKnown` (comment of `claimLocalIntent`): the intent is also written over
  "revoked" by a request that read the row earlier; if its deletion then throws, the row
  reads "revoke_failed" over a deleted target.
- `CompensatedOnce` excepts rows in `blind`. A compensation whose answer came too late
  reads "revoke_failed" and invites a second request; and a `patchRevoke` whose answer was
  lost is repeated by id, over what another writer has put there since.
- `BreaksAreAnnounced` (`docs/hs11-audit-chain.spec.md:132`): the patrol keeps the verdict
  before it looks up and writes to the administrators; when that throws, no later patrol
  sees a transition.
- `ChainAssumption`: an unhashed row in the middle of the AI chain breaks it, because the
  query for the last hash does not skip it while the verification does (against the
  comment at `audit-evidence.service.ts:294`); a legacy row breaks the operation chain at
  its first row (against `docs/hs11-audit-chain.spec.md:94`).
- `NoStepSkipped` without `Kept` (`flow-runtime.service.ts:173`: "推进到下一节点；next 为空 →
  completed"): the definition is read again at a decision, and the node of the task is
  looked up in it. If it is gone, or a condition by now, its `next` is empty and its roles
  are not checked: the approval completes the instance, whatever approvals were to follow.
  The calls may come one after the other.
- `RunningIsMoving` (`flow-runtime.service.ts:165`): a crash, or a failing statement of
  `resolveTask`, leaves an instance running with no open task. Without a fault it does
  not happen (`RunningIsMovingUnlessFaulty`).
- `TrustCoversWhenCalm` without `calm` (`ai/ai.service.ts:1319` against the comment at
  `:509` and `docs/authorization-architecture-en.md:173`, that values within the bound share
  an answer): the key of a scope is made of the bound declared when the answer arrives, not
  of the one the person was shown, and is looked up before the bound is checked. If the bound
  is raised in between, a later call runs without a question on a value nobody agreed to.
- `RolesAreLive` (`ai/tools/tool-gate.service.ts:123`: the role is read from the database at
  every call, with no TTL; also `docs/authorization-architecture.md:105`): `findOne` answers
  from a cache of five minutes, and a request that read the row before `updateRole` saved it
  may put the old role back after `updateRole` deleted the entry. `RunsWereAllowed` therefore
  holds the role to what was in force only while the cache had nothing older (`fresh`).
- `LossesStandAlone` (`effect-dispute.store.ts:86-88`: a missing set that changed is a new
  fact, written unacknowledged, and the verdict comes back) and `OnlyPeopleClose` (comment of
  `acknowledgeDispute`: resolved by a person's act, not because a later comparison agrees):
  the column holds one evidence. A later call that missed something else replaces what is
  open under no condition (`:99-105`), and closes it if it missed nothing, having declared
  only some of the rows that are held; and an acknowledgement writes back what was read
  earlier over the new fact that a call has left since (`:209-221`), which is then neither
  open nor acknowledged. `OpenUntilConfirmed` names this exception (`Replaced`), and says
  what holds besides: no missing set reads as acknowledged but one that a person has read.
- `ConfirmationStands` speaks of `recordGroup` only: `markIfWriteDiffers` opens the same
  set again, since it reads no earlier evidence. `NothingIsSilent` supposes that no mark
  fails: `patchRevoke` only logs such a failure.

## 5. Proofs

Checked by TLAPS for any sets of tokens, users, conversations, operations, calls and
administrators and any bound on faults, from the named assumptions of the modules: the
kinds of operations are disjoint, the operator is no approver, "nobody" is nobody, the
words that stand for a row without a writer are no writers, and bounds are natural
numbers. Every safety invariant, action property and refinement that a run checks is a
theorem. The strengthenings were checked by TLC on the instances of section 3 before
they were proved.

- `Confirmation_proofs`: `TypeCorrect`; `Inductive`; `RunsAreSafe`, `RunsFollowApproval`,
  `ConversationsAreTrue`, `ExpiriesAreTrue`; `Refinement` to `DecisionContract`.
  "At most one run" is not inductive: it looks at who ran, and a race is lost earlier.
  The strengthening counts *tickets*, a call that has won its update and not gone on
  yet, or a dialogue woken with "approve": a token has at most one, and none after it
  was used. An update can only make a ticket from a pending row, and a pending row has none.
- `WriteClaim_proofs`: `TypeCorrect`; `Inductive`; `OneAtATime`, `ExternalWritesOnce`,
  `ReplaysAreTrue`. The invariant says that a claim has one holder, which is a call that waits or work
  that may still write, and that its row stays claimed while it has one, except for proxy
  and stoppable operations, whose claims the code may reopen under their holder. One
  claimed row per operation then gives one holder per operation. `WritesOnce`: a key is
  written under once, by an MCP write always, by a local one while nothing fails. For the
  latter `CalmInv` says that a row under which something landed is claimed or settled, and
  that whoever holds it is who wrote. A call gives its row back only when its tool threw,
  which then is not the call that wrote; and a wait that is cut short leaves the row
  claimed, although its work may end well a moment later.
- `GovernedWrite_proofs`, the lease: `TypeCorrect`; `SuccessesAreTrue`, inductive with the
  types: a settlement stamps the row of its own token, and success is never taken back.
- `GovernedWrite_proofs`, the composition: `LeaseImplemented` and `ClaimImplemented`, by one
  case per disjunct of `GovernedNext`: each step of the whole is a step of the part or a
  stutter.
  `SuccessesWereWritten`: an answer of success comes from a ledger row or from work that
  is done, both of which have landed; nothing that landed is taken back; runs of a token
  have one key; so an executed row has its write. That is the chain `WorkIsReal`,
  `ReplaysAreReal`, `AnswersAreReal`, `OutcomesAreReal` of `IInv`.
  `ExecutionsTakeTurns` and `RetriesWriteOnce`: what is proved of the write claim holds along
  `ClaimImplemented`, so that executions which the lease lets start side by side neither
  work on one operation at once nor write it twice. The lemmas are those of
  `WriteClaim_proofs`, instantiated with the executions as its calls; the `Same` lemmas say
  that this instance and the one of `GovernedWrite` are the same.
- `EffectRevoke_proofs`: `TypeCorrect`; `OneWorkerPerRow`, `OneCompensation`,
  `RepliesAreTrue`; and `RevocationImplementsContract`. "One owner" needs that a row in
  somebody's hands reads "compensating" unless an answer about it was lost (`HeldInFlight`): the conditional
  intent then refuses everybody else. `StatusReal` and `LandedInFlight` tie the status to
  the target; `StaleIsStuck` says that only rows nobody holds are old; `At(r)` says what a
  request holds at each of its steps. That the first of a set of ids is a member of it is
  proved from the well-foundedness of the natural numbers. For the contract, each action
  maps to `Intend`, `Change`, `Conclude`, `Restore`, `Doubt` or a stutter. `HalvesAreSeen` has
  an induction of its own (`CalmInv`): while requests come one after the other, what the one
  under way has read of its group still is so, hence its claim of the local members is
  complete; and whenever an external member was dispatched, each local one is changed, or
  reads "compensating" in nobody's hands (`Stuck`), which no request takes or gives back.
  The second case does happen (section 4); the theorem is that there is no third.
- `FlowRuntime_proofs`: `TypeCorrect`; `NobodyIsSkipped`, for any well-formed definitions,
  published in any order while calls are under way, as long as none lacks a human task of
  another (`Kept`: the node of a pending task is then found, and its `next` is its own).
  The invariant follows what a call knows: where it stands (`At`), that tasks belong to
  nodes that were reached, that the copy of a call about to enter a node is led to by a
  reached one (`Entered`), and the same of the end (`Ended`). `NobodyStrands` and
  `RejectionIsFinal` rest on a second induction (`CInv`): as long as nothing failed, a running
  instance has a pending task or a call that carries it on (`Carried`), which a call that only
  looks at a task never does; and while calls do not overlap there is one of the two, and
  neither once the instance is completed or a rejection is recorded (`OneByOne`).
- `AuditChain_proofs`: `TypeCorrect`; `VerdictsAreRight`, `GroupsStayWhole`, `OnlyAppended`,
  for any writers, processes, keys and damage and a chain of any length. Whoever is in its
  job has its turn (`Turns`), so the open rows are its own (`Jobs`) and the last of the chain
  (`OpenLast`); what a writer has read, and what a row has hashed in, is then the rows before
  it that are there and perhaps some that were lost since (`PastRead`, `PastKept`). A hash
  is a sequence, which is longer than that of every row it has hashed in, so two hashes on
  the chain are equal only if their rows are; and the first row with a lost predecessor has
  lost the one it links to. That gives both directions of `VerdictIsRight` without an
  induction over the table: the first bad row is found from the well-foundedness of the
  natural numbers.
- `EffectDispute_proofs`: `TypeCorrect`; `LossesAreMarked`, `AcknowledgedAsRead`,
  `ConfirmedOnce`. The invariant says that whatever evidence is read, held or written was
  left by a settled call that disagrees, as what it missed, and is acknowledged only if
  somebody acknowledged that set (`AllFounded`), that there is none before a
  registration, and that while updates did not overlap at most one is under way.
- `ToolGate_proofs`: `TypeCorrect`; `GatesAreKept`, for any policies published in any order,
  any risk level and any number of changes. A gate passed is gone when the policy changes, so
  the invariant `At` keeps a witness: at each step of a call, `policies` and `roles` contain
  what let it through every gate so far, and what is in force now, which `Publish` and
  `SetRole` may only add to; while a call is `fresh` the cache has nothing else. `TrustIsCovered`
  rests on a second induction (`TInv`): every key of a scope was made for an answer, with the
  bound that was shown unless a publication fell in between.

Only model-checked: the six liveness properties (`QuestionsEnd`, `CallsReturn`,
`OrphansSurface`, `NothingStaysRunning`, `WritersFinish`, `BreaksAreSent`), since fairness and
ENABLED are beyond the prover. No module that is proved about declares a recursive
operator, and nothing here is proved by induction over data.

## 6. Not modelled, and the plan

`PROJECT.json` gives the reason for each part. In order of weight, next would be:

1. The safety half of the liveness properties: that a step which ends a wait is always
   possible where one waits, as an invariant without ENABLED.
2. `EffectDispute` and `EffectRevoke` composed: a revocation while evidence is left.
3. The approval requests of `approval/` and the circuit breaker, each a small module.
4. `ToolGate` with the confirmation of several writes of a run at once, and composed with
   `Confirmation`, whose abstract waits it has now.

Authentication and sessions are left out because what can go wrong there is a matter of
security, which is not the subject here. Points and check-in are sums under a unique row.
Webhooks, mail, push and the queue hand over to a broker or a channel whose outcome
nothing reads. The governance sidecar is a second assembly of the services modelled here.
The business entities are one table each, with little beyond their unique indexes; they
appear as the targets of local writes. The remaining parts are input and output without
state of their own: language model providers, retrieval, search, evaluation, front ends,
scripts and deployment. They are most of the lines of the repository: the two
administration consoles, the mobile clients, the generators and the evaluation suites.
