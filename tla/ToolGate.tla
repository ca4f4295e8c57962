------------------------------ MODULE ToolGate ------------------------------
(***************************************************************************)
(* The gates of a tool call under a policy that may change at any time:    *)
(* ToolGateService, GovernancePolicyService, the tool loop of AiService    *)
(* and the checks at the start of ToolExecutionService.executeWrite. Every *)
(* check reads the policy row anew, and persons take their time between    *)
(* the first check of a call and its execution.                            *)
(***************************************************************************)
EXTENDS Naturals

CONSTANTS
    Risk,          \* declared risk level of the tool
    Policies,      \* what the policy row may say about the tool
    Roles,         \* roles of the caller
    Values,        \* values of the argument of the tool
    Calls,         \* calls of the tool in one turn of a conversation, in order
    MaxChanges     \* bound: publications of a policy and changes of the role

\* The override of a tool: mode and requires may be undeclared ("none"), no role
\* and no bound is no restriction.
Overrides == [enabled : BOOLEAN, roles : SUBSET Roles, bound : SUBSET Nat,
              mode : {"none", "auto", "confirm", "approval"},
              requires : {"none", "yes", "no"}]

NoOverride == [enabled |-> TRUE, roles |-> {}, bound |-> {}, mode |-> "none", requires |-> "none"]

ASSUME GateAssumption ==
    /\ Risk \in {"R0", "R1", "R2", "R3", "R4", "R5"}
    /\ Policies \subseteq Overrides /\ NoOverride \in Policies
    /\ \A v \in Policies : \A b, d \in v.bound : b = d
    /\ Values \subseteq Nat /\ Values # {} /\ Calls \subseteq Nat
    /\ MaxChanges \in Nat

VARIABLES
    policy,      \* the row of ai_governance_policy, or nothing
    role,        \* role of the caller, in the table of users
    had,         \* every role that row has had: a request that read it may be under way
    cached,      \* the role in the cache of users, if there is an entry
    trusted,     \* trustedScopes of the turn
    agreed,      \* what a person answered "don't ask again" to
    changes,     \* how often the policy or the role has changed
    call         \* the calls

who == <<role, had, cached>>
facts == <<policy, who, changes, trusted, agreed>>
vars == <<facts, call>>

Keys == [values : SUBSET Values, bound : SUBSET Nat]

Agreements == [value : Values, bound : SUBSET Nat, calm : BOOLEAN]

\* path: how the call came to its execution; allowed: allowedRoles as they were
\* read; shown: the bound in the question a person looks at; role, revision: the
\* decision basis; policies, roles: what was in force since the gate was entered;
\* calm: no publication fell between two reads of the bound; fresh: the cache had no
\* role but one of those since the gate was entered.
CallRecords ==
    [pc : {"idle", "enabled", "roles", "user", "confirm", "read", "lookup",
           "approval", "show", "wait", "trust", "submitted", "offline",
           "scope", "recheck", "role", "revision", "ran", "over"},
     arg : Values, path : {"none", "auto", "asked", "trusted", "second", "offline"},
     allowed : SUBSET Roles, shown : SUBSET Nat,
     role : SUBSET Roles, revision : SUBSET Policies,
     policies : SUBSET Policies, roles : SUBSET Roles,
     calm : BOOLEAN, fresh : BOOLEAN]

TypeOK ==
    /\ policy \in Policies /\ role \in Roles
    /\ had \in SUBSET Roles /\ cached \in SUBSET Roles
    /\ changes \in 0 .. MaxChanges
    /\ trusted \in SUBSET Keys /\ agreed \in SUBSET Agreements
    /\ call \in [Calls -> CallRecords]

NoCall == [pc |-> "idle", arg |-> CHOOSE x \in Values : TRUE, path |-> "none",
           allowed |-> {}, shown |-> {}, role |-> {}, revision |-> {},
           policies |-> {}, roles |-> {}, calm |-> TRUE, fresh |-> TRUE]

Init ==
    /\ policy \in Policies /\ role \in Roles
    /\ had = {role} /\ cached = {}
    /\ changes = 0
    /\ trusted = {} /\ agreed = {}
    /\ call = [c \in Calls |-> NoCall]

-----------------------------------------------------------------------------
(* What the policy says.                                                   *)

\* getToolPolicy with the default of the registry.
NeedsConfirmation(v) ==
    \/ v.mode \in {"confirm", "approval"}
    \/ v.mode = "none" /\ v.requires = "yes"
    \/ v.mode = "none" /\ v.requires = "none" /\ Risk \in {"R3", "R4"}

\* effectiveGateMode is approval.
NeedsApproval(v) ==
    /\ Risk # "R5"
    /\ \/ v.mode = "approval"
       \/ v.mode = "none" /\ v.requires # "no" /\ Risk = "R4"

RoleAllowed(S, r) == S = {} \/ r \in S

InBound(v, x) == \A b \in v.bound : x <= b

\* Mutant: trust by the name of the tool.
KeyOfTool(v, x) == [values |-> {}, bound |-> {}]

\* _trustScopeKey: a declared bound stands for the values below it.
Key(v, x) == [values |-> IF v.bound = {} THEN {x} ELSE {}, bound |-> v.bound]

-----------------------------------------------------------------------------
Becomes(c, r) == call' = [call EXCEPT ![c] = r]

Goto(c, next) == Becomes(c, [call[c] EXCEPT !.pc = next])

Active(r) == r.pc \notin {"idle", "submitted", "offline", "ran", "over"}

\* The loop over the tool calls of a turn waits for the one before; what was
\* approved later is executed outside of it.
InDialogue(r) == Active(r) /\ r.path \notin {"second", "offline"}

Executing(r) == r.path \in {"asked", "trusted", "second", "offline"}

\* Mutant: what was approved is executed.
EnterUnchecked(r, way) ==
    [r EXCEPT !.pc = "role", !.path = way, !.policies = {policy}, !.roles = {role},
              !.shown = {}, !.calm = TRUE, !.fresh = cached \subseteq {role}]

\* executeWrite begins: everything is asked again.
Enter(r, way) ==
    [r EXCEPT !.pc = "enabled", !.path = way, !.policies = {policy}, !.roles = {role},
              !.shown = {}, !.calm = TRUE, !.fresh = cached \subseteq {role}]

Begin(c, x) ==
    /\ call[c].pc = "idle"
    /\ \A d \in Calls : d < c => call[d].pc # "idle" /\ ~InDialogue(call[d])
    /\ Becomes(c, [NoCall EXCEPT !.pc = "enabled", !.arg = x,
                     !.policies = {policy}, !.roles = {role},
                     !.fresh = cached \subseteq {role}])
    /\ UNCHANGED facts

\* findOne answers from the cache or, when it has no entry or fails, from the row.
Answers == {role} \union cached

Refuse(c) == Becomes(c, [NoCall EXCEPT !.pc = "over"]) /\ UNCHANGED facts

\* assertToolAllowed: two reads of the policy and one of the user.
CheckEnabled(c) ==
    /\ call[c].pc = "enabled" /\ policy.enabled /\ Risk # "R5"
    /\ Goto(c, "roles")
    /\ UNCHANGED facts

AfterGate(r) == IF Executing(r) THEN "scope" ELSE "confirm"

CheckRoles(c) ==
    /\ call[c].pc = "roles"
    /\ Becomes(c, [call[c] EXCEPT !.allowed = policy.roles,
                     !.pc = IF policy.roles = {} THEN AfterGate(call[c]) ELSE "user"])
    /\ UNCHANGED facts

CheckUser(c) ==
    /\ call[c].pc = "user" /\ Answers \cap call[c].allowed # {}
    /\ Becomes(c, [call[c] EXCEPT !.allowed = {}, !.pc = AfterGate(call[c])])
    /\ UNCHANGED facts

NotAllowed(c) ==
    /\ \/ call[c].pc = "enabled" /\ (~policy.enabled \/ Risk = "R5")
       \/ call[c].pc = "user" /\ ~(Answers \subseteq call[c].allowed)
    /\ Refuse(c)

-----------------------------------------------------------------------------
(* The tool loop.                                                          *)

AskMode(c) ==
    /\ call[c].pc = "confirm"
    /\ Becomes(c, IF NeedsConfirmation(policy)
                  THEN [call[c] EXCEPT !.pc = "lookup", !.policies = {}, !.roles = {},
                                !.fresh = TRUE]
                  ELSE [call[c] EXCEPT !.pc = "read", !.path = "auto"])
    /\ UNCHANGED facts

\* executeRead asks nothing more.
RunRead(c) ==
    /\ call[c].pc = "read" /\ Goto(c, "ran")
    /\ UNCHANGED facts

\* What a scope of this turn covers is executed at once.
Lookup(c) ==
    /\ call[c].pc = "lookup"
    /\ Becomes(c, IF Key(policy, call[c].arg) \in trusted
                  THEN Enter(call[c], "trusted")
                  ELSE [call[c] EXCEPT !.pc = "approval"])
    /\ UNCHANGED facts

\* An approver is asked, or the person in the dialogue.
AskWhom(c) ==
    /\ call[c].pc = "approval"
    /\ Goto(c, IF NeedsApproval(policy) THEN "submitted" ELSE "show")
    /\ UNCHANGED facts

\* The question says what is declared, bounds included.
Show(c) ==
    /\ call[c].pc = "show"
    /\ Becomes(c, [call[c] EXCEPT !.pc = "wait", !.shown = policy.bound])
    /\ UNCHANGED facts

Approve(c) ==
    /\ call[c].pc = "wait"
    /\ Becomes(c, Enter(call[c], "asked"))
    /\ UNCHANGED facts

ApproveForTurn(c) ==
    /\ call[c].pc = "wait" /\ Goto(c, "trust")
    /\ UNCHANGED facts

\* The key of the scope is made of the bound as it is by now.
AddTrust(c) ==
    /\ call[c].pc = "trust"
    /\ Becomes(c, Enter(call[c], "asked"))
    /\ trusted' = trusted \union {Key(policy, call[c].arg)}
    /\ agreed' = agreed \union
          {[value |-> call[c].arg, bound |-> call[c].shown, calm |-> call[c].calm]}
    /\ UNCHANGED <<policy, who, changes>>

Decline(c) == call[c].pc \in {"wait", "submitted", "offline"} /\ Refuse(c)

\* Mutant: the outcome of the wait becomes the state of the call.
LapseAsOutcome(c) ==
    /\ call[c].pc \in {"show", "wait"}
    /\ Becomes(c, [call[c] EXCEPT !.pc = "timeout", !.shown = {}, !.calm = TRUE])
    /\ UNCHANGED facts

\* The dialogue gives up, after its window or because the question could not be
\* explained; the row of the question stays open.
Lapse(c) ==
    /\ call[c].pc \in {"show", "wait"}
    /\ Becomes(c, [call[c] EXCEPT !.pc = "offline", !.shown = {}, !.calm = TRUE])
    /\ UNCHANGED facts

ApproveOffline(c) ==
    /\ call[c].pc = "offline"
    /\ Becomes(c, Enter(call[c], "offline"))
    /\ UNCHANGED facts

\* decideApproval, by a second person.
ApproveAsSecond(c) ==
    /\ call[c].pc = "submitted"
    /\ Becomes(c, Enter(call[c], "second"))
    /\ UNCHANGED facts

-----------------------------------------------------------------------------
(* executeWrite, after assertToolAllowed.                                  *)

\* assertWithinDeclaredScope.
CheckScope(c) ==
    /\ call[c].pc = "scope" /\ InBound(policy, call[c].arg)
    /\ Goto(c, "recheck")
    /\ UNCHANGED facts

\* assertApprovalRequirementHolds: the row names an approver.
Recheck(c) ==
    /\ call[c].pc = "recheck"
    /\ NeedsApproval(policy) => call[c].path = "second"
    /\ Goto(c, "role")
    /\ UNCHANGED facts

NotCovered(c) ==
    /\ \/ call[c].pc = "scope" /\ ~InBound(policy, call[c].arg)
       \/ call[c].pc = "recheck" /\ NeedsApproval(policy) /\ call[c].path # "second"
    /\ Refuse(c)

\* decisionBasis: what cannot be read stays unknown.
ReadRole(c) == \E S \in {{}} \union {{x} : x \in Answers} :
    /\ call[c].pc = "role"
    /\ Becomes(c, [call[c] EXCEPT !.pc = "revision", !.role = S])
    /\ UNCHANGED facts

ReadRevision(c) == \E S \in {{}, {policy}} :
    /\ call[c].pc = "revision"
    /\ Becomes(c, [call[c] EXCEPT !.pc = "ran", !.revision = S])
    /\ UNCHANGED facts

\* A statement throws: the call has failed.
Fail(c) ==
    /\ Active(call[c]) /\ call[c].pc \notin {"wait", "role", "revision"}
    /\ Refuse(c)

-----------------------------------------------------------------------------
\* Between two of these reads the bound should stay what it is.
BoundInUse(r) ==
    \/ r.pc \in {"wait", "trust"}
    \/ r.path = "trusted" /\ r.pc \in {"enabled", "roles", "user", "scope"}

\* A call in its gates sees every change.
InGates(r) == Active(r) /\ r.policies # {}

\* setPolicy, valid from the moment of its statement.
Publish(v) ==
    /\ changes < MaxChanges /\ changes' = changes + 1
    /\ policy' = v
    /\ call' = [c \in Calls |-> [call[c] EXCEPT
                  !.policies = IF InGates(call[c]) THEN @ \union {v} ELSE @,
                  !.calm = @ /\ ~BoundInUse(call[c])]]
    /\ UNCHANGED <<who, trusted, agreed>>

\* The caller is given another role; the entry of the cache is deleted afterwards,
\* if the cache answers.
SetRole(x) ==
    /\ changes < MaxChanges /\ changes' = changes + 1
    /\ role' = x /\ had' = had \union {x}
    /\ call' = [c \in Calls |-> [call[c] EXCEPT
                  !.roles = IF InGates(call[c]) THEN @ \union {x} ELSE @]]
    /\ UNCHANGED <<policy, cached, trusted, agreed>>

\* findOne, in any request of the user, puts what it has read into the cache.
Store(x) ==
    /\ cached' = {x}
    /\ call' = [c \in Calls |-> [call[c] EXCEPT
                  !.fresh = @ /\ (InGates(call[c]) => x \in call[c].roles)]]
    /\ UNCHANGED <<policy, role, had, changes, trusted, agreed>>

\* The entry is deleted, or has lived its time.
Evict ==
    /\ cached' = {}
    /\ UNCHANGED <<policy, role, had, changes, trusted, agreed, call>>

Step(c) ==
    \/ \E x \in Values : Begin(c, x)
    \/ CheckEnabled(c) \/ CheckRoles(c) \/ CheckUser(c) \/ NotAllowed(c)
    \/ AskMode(c) \/ RunRead(c) \/ Lookup(c) \/ AskWhom(c) \/ Show(c)
    \/ Approve(c) \/ ApproveForTurn(c) \/ AddTrust(c) \/ Decline(c) \/ Lapse(c)
    \/ ApproveOffline(c) \/ ApproveAsSecond(c)
    \/ CheckScope(c) \/ Recheck(c) \/ NotCovered(c) \/ ReadRole(c) \/ ReadRevision(c)
    \/ Fail(c)

Next ==
    \/ \E c \in Calls : Step(c)
    \/ \E v \in Policies \ {policy} : Publish(v)
    \/ \E x \in Roles \ {role} : SetRole(x)
    \/ \E x \in had \ cached : Store(x)
    \/ cached # {} /\ Evict

Spec == Init /\ [][Next]_vars

-----------------------------------------------------------------------------
\* Each gate let the call pass under a policy and a role that were in force at
\* some time since its execution began; the role, as long as the cache had no
\* older one.
GatesHeld(r) ==
    /\ \E v \in r.policies : v.enabled
    /\ r.fresh => \E v \in r.policies, x \in r.roles : RoleAllowed(v.roles, x)
    /\ r.path = "auto" => \E v \in r.policies : ~NeedsConfirmation(v)
    /\ Executing(r) =>
         /\ \E v \in r.policies : InBound(v, r.arg)
         /\ r.path # "second" => \E v \in r.policies : ~NeedsApproval(v)

\* The role and the revision on the claim row were in force then, too.
BasisHeld(r) == (r.fresh => r.role \subseteq r.roles) /\ r.revision \subseteq r.policies

\* However long persons took, and whatever was published meanwhile: a tool that
\* was disabled, out of bounds, closed to the role or raised to an approval all
\* through the execution of a call does not run; and its claim row says why it
\* did. A call without confirmation is asked once, when it begins.
RunsWereAllowed ==
    \A c \in Calls : call[c].pc = "ran" =>
        call[c].path # "none" /\ GatesHeld(call[c]) /\ BasisHeld(call[c])

\* What the comment in assertToolAllowed says of the role. It does not hold: the
\* cache may answer with a role that was taken away before the call began.
RolesAreLive ==
    \A c \in Calls : call[c].pc = "ran" =>
        \E v \in call[c].policies, x \in call[c].roles : RoleAllowed(v.roles, x)

\* The person agreed to this value, or was shown a bound that it keeps.
Covers(a, x) == x = a.value \/ (a.bound # {} /\ \A b \in a.bound : x <= b)

\* A call that runs without a question is covered by an earlier answer, unless a
\* publication falls between a question and the note of its answer, or between
\* the lookup of a scope and the check of the bound.
TrustCoversWhenCalm ==
    \A c \in Calls : call[c].pc = "ran" /\ call[c].path = "trusted" /\ call[c].calm =>
        \E a \in agreed : Covers(a, call[c].arg) \/ ~a.calm

=============================================================================
