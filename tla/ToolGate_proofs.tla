--------------------------- MODULE ToolGate_proofs ---------------------------
(***************************************************************************)
(* The gates of a tool call hold for every value of the constants: any     *)
(* policies published in any order, any roles, values and calls.           *)
(***************************************************************************)
EXTENDS ToolGate, TLAPS

\* The steps at which a call looks at what is in force by then.
Looking(r) == r.pc \in {"enabled", "roles", "user", "confirm", "read",
                        "scope", "recheck", "role", "revision"}

Admitted == {"confirm", "read", "scope", "recheck", "role", "revision", "ran"}

\* What a call has passed, in a state in which v and x are in force and the cache
\* has C.
Seen(r, v, x, C) ==
    Looking(r) => v \in r.policies /\ x \in r.roles /\ (r.fresh => C \subseteq r.roles)

Placed(r) ==
    /\ r.pc \in {"enabled", "roles", "user"} => r.path # "auto"
    /\ r.pc \in {"scope", "recheck", "role", "revision"} => Executing(r)
    /\ r.pc = "read" => r.path = "auto"
    /\ r.pc = "ran" => r.path # "none"

Entered(r) ==
    /\ r.pc \in {"roles", "user"} \union Admitted => \E v \in r.policies : v.enabled
    /\ r.pc = "user" => \E v \in r.policies : v.roles = r.allowed
    /\ r.pc \in Admitted /\ r.fresh =>
         \E v \in r.policies, x \in r.roles : RoleAllowed(v.roles, x)

Unasked(r) ==
    r.pc \in {"read", "ran"} /\ r.path = "auto" => \E v \in r.policies : ~NeedsConfirmation(v)

Covered(r) ==
    /\ r.pc \in {"recheck", "role", "revision", "ran"} /\ Executing(r) =>
         \E v \in r.policies : InBound(v, r.arg)
    /\ r.pc \in {"role", "revision", "ran"} /\ Executing(r) /\ r.path # "second" =>
         \E v \in r.policies : ~NeedsApproval(v)

Noted(r) ==
    /\ r.pc \notin {"revision", "ran"} => r.role = {}
    /\ r.pc # "ran" => r.revision = {}
    /\ BasisHeld(r)

At(r, v, x, C) == Seen(r, v, x, C) /\ Placed(r) /\ Entered(r) /\ Unasked(r) /\ Covered(r) /\ Noted(r)

IInv == TypeOK /\ \A c \in Calls : At(call[c], policy, role, cached)

USE GateAssumption

-----------------------------------------------------------------------------
\* A step of one call.
LEMMA CallStep ==
    ASSUME IInv, NEW c \in Calls, NEW r \in CallRecords, Becomes(c, r),
           UNCHANGED <<policy, who, changes>>, At(r, policy, role, cached),
           trusted' \in SUBSET Keys, agreed' \in SUBSET Agreements
    PROVE  IInv'
<1>1. TypeOK'
  BY DEF IInv, TypeOK, Becomes, who
<1>2. \A d \in Calls : At(call'[d], policy, role, cached)
  BY DEF IInv, TypeOK, Becomes
<1> QED
  BY <1>1, <1>2 DEF IInv, who

LEMMA Plain ==
    ASSUME IInv, NEW c \in Calls, NEW r \in CallRecords, Becomes(c, r), UNCHANGED facts,
           At(r, policy, role, cached)
    PROVE  IInv'
<1>1. trusted' \in SUBSET Keys /\ agreed' \in SUBSET Agreements
  BY DEF IInv, TypeOK, facts
<1> QED
  BY <1>1, CallStep DEF facts

\* What is in force changes; the calls that look at it see that.
LEMMA Growth ==
    ASSUME NEW r, NEW s, NEW v, NEW x, NEW C, NEW w, NEW y, NEW D, At(r, v, x, C),
           s.pc = r.pc, s.path = r.path, s.arg = r.arg, s.allowed = r.allowed,
           s.role = r.role, s.revision = r.revision,
           r.policies \subseteq s.policies, r.roles \subseteq s.roles,
           s.fresh => r.fresh,
           Seen(s, w, y, D)
    PROVE  At(s, w, y, D)
<1>1. Placed(s)
  BY DEF At, Placed, Executing
<1>2. Entered(s)
  BY DEF At, Entered
<1>3. Unasked(s) /\ Covered(s)
  BY DEF At, Unasked, Covered, Executing
<1>4. Noted(s)
  BY DEF At, Noted, BasisHeld
<1> QED
  BY <1>1, <1>2, <1>3, <1>4 DEF At

-----------------------------------------------------------------------------
LEMMA NoCallType == NoCall \in CallRecords
<1>1. (CHOOSE x \in Values : TRUE) \in Values
  OBVIOUS
<1> QED
  BY <1>1 DEF NoCall, CallRecords

\* A call that is over, or about to be.
LEMMA RefuseStep ==
    ASSUME IInv, NEW c \in Calls, Refuse(c)
    PROVE  IInv'
<1> DEFINE r == [NoCall EXCEPT !.pc = "over"]
<1>1. r \in CallRecords
  BY NoCallType DEF CallRecords
<1>2. At(r, policy, role, cached)
  BY DEF At, NoCall, Seen, Looking, Placed, Entered, Admitted, Unasked, Covered, Noted, BasisHeld
<1> QED
  BY <1>1, <1>2, Plain DEF Refuse

LEMMA BeginStep ==
    ASSUME IInv, NEW c \in Calls, NEW x \in Values, Begin(c, x)
    PROVE  IInv'
<1> DEFINE r == [NoCall EXCEPT !.pc = "enabled", !.arg = x,
                   !.policies = {policy}, !.roles = {role},
                   !.fresh = cached \subseteq {role}]
<1>1. r \in CallRecords
  BY NoCallType DEF CallRecords, IInv, TypeOK
<1>2. At(r, policy, role, cached)
  BY DEF At, NoCall, Seen, Looking, Placed, Entered, Admitted, Unasked, Covered, Noted,
         BasisHeld, Executing
<1> QED
  BY <1>1, <1>2, Plain DEF Begin

\* An execution begins.
LEMMA Entering ==
    ASSUME IInv, NEW c \in Calls, NEW way \in {"asked", "trusted", "second", "offline"},
           call[c].pc \notin {"revision", "ran"}
    PROVE  Enter(call[c], way) \in CallRecords /\ At(Enter(call[c], way), policy, role, cached)
<1> DEFINE r == Enter(call[c], way)
<1>1. call[c] \in CallRecords /\ call[c].role = {} /\ call[c].revision = {}
  BY DEF IInv, TypeOK, At, Noted
<1>2. r \in CallRecords
  BY <1>1 DEF Enter, CallRecords, IInv, TypeOK
<1>3. /\ r.pc = "enabled" /\ r.path = way /\ r.policies = {policy} /\ r.roles = {role}
      /\ r.role = {} /\ r.revision = {} /\ r.fresh = (cached \subseteq {role})
  BY <1>1 DEF Enter, CallRecords
<1>4. At(r, policy, role, cached)
  BY <1>3 DEF At, Seen, Looking, Placed, Entered, Admitted, Unasked, Covered, Noted,
         BasisHeld, Executing
<1> QED
  BY <1>2, <1>4

\* The steps outside of the gates know nothing.
LEMMA Waiting ==
    ASSUME NEW r, NEW v, NEW x, NEW C,
           r.pc \in {"lookup", "approval", "show", "wait", "trust", "submitted", "offline"},
           r.role = {}, r.revision = {}
    PROVE  At(r, v, x, C)
  BY DEF At, Seen, Looking, Placed, Entered, Admitted, Unasked, Covered, Noted, BasisHeld

LEMMA Unnoted ==
    ASSUME IInv, NEW c \in Calls, call[c].pc \notin {"revision", "ran"}
    PROVE  call[c].role = {} /\ call[c].revision = {}
  BY DEF IInv, At, Noted

-----------------------------------------------------------------------------
LEMMA CheckEnabledStep ==
    ASSUME IInv, NEW c \in Calls, CheckEnabled(c)
    PROVE  IInv'
<1> DEFINE q == call[c]
           r == [q EXCEPT !.pc = "roles"]
<1>1. q \in CallRecords /\ q.pc = "enabled" /\ policy.enabled /\ At(q, policy, role, cached)
  BY DEF IInv, TypeOK, CheckEnabled
<1>2. r \in CallRecords
  BY <1>1 DEF CallRecords
<1>3. At(r, policy, role, cached)
  BY <1>1 DEF CallRecords, At, Seen, Looking, Placed, Entered, Admitted, Unasked, Covered,
              Noted, BasisHeld, Executing
<1> QED
  BY <1>2, <1>3, Plain DEF CheckEnabled, Goto

LEMMA CheckRolesStep ==
    ASSUME IInv, NEW c \in Calls, CheckRoles(c)
    PROVE  IInv'
<1> DEFINE q == call[c]
           r == [q EXCEPT !.allowed = policy.roles,
                   !.pc = IF policy.roles = {} THEN AfterGate(q) ELSE "user"]
<1>1. /\ q \in CallRecords /\ q.pc = "roles" /\ At(q, policy, role, cached)
      /\ policy \in q.policies /\ role \in q.roles
  BY DEF IInv, TypeOK, CheckRoles, At, Seen, Looking
<1>2. policy.roles \in SUBSET Roles
  BY DEF IInv, TypeOK, Overrides
<1>3. AfterGate(q) \in {"scope", "confirm"} /\ (AfterGate(q) = "scope" => Executing(q))
  BY DEF AfterGate
<1>4. r \in CallRecords
  BY <1>1, <1>2, <1>3 DEF CallRecords
<1>5. /\ r.pc = IF policy.roles = {} THEN AfterGate(q) ELSE "user"
      /\ r.allowed = policy.roles /\ r.path = q.path /\ r.policies = q.policies
      /\ r.roles = q.roles /\ r.role = q.role /\ r.revision = q.revision
      /\ r.fresh = q.fresh
  BY <1>1 DEF CallRecords
<1>6. Seen(r, policy, role, cached) /\ Placed(r) /\ Noted(r)
  BY <1>1, <1>3, <1>5 DEF At, Seen, Looking, Placed, Noted, BasisHeld, Executing
<1>7. Entered(r)
  BY <1>1, <1>3, <1>5 DEF At, Entered, Admitted, RoleAllowed
<1>8. Unasked(r) /\ Covered(r)
  BY <1>3, <1>5 DEF Unasked, Covered
<1> QED
  BY <1>4, <1>6, <1>7, <1>8, Plain DEF CheckRoles, At

LEMMA CheckUserStep ==
    ASSUME IInv, NEW c \in Calls, CheckUser(c)
    PROVE  IInv'
<1> DEFINE q == call[c]
           r == [q EXCEPT !.allowed = {}, !.pc = AfterGate(q)]
<1>1. /\ q \in CallRecords /\ q.pc = "user" /\ At(q, policy, role, cached)
      /\ policy \in q.policies /\ role \in q.roles /\ (q.fresh => cached \subseteq q.roles)
  BY DEF IInv, TypeOK, CheckUser, At, Seen, Looking
<1>2. AfterGate(q) \in {"scope", "confirm"} /\ (AfterGate(q) = "scope" => Executing(q))
  BY DEF AfterGate
<1>3. r \in CallRecords
  BY <1>1, <1>2 DEF CallRecords
<1>4. /\ r.pc = AfterGate(q) /\ r.path = q.path /\ r.policies = q.policies
      /\ r.roles = q.roles /\ r.role = q.role /\ r.revision = q.revision
      /\ r.fresh = q.fresh
  BY <1>1 DEF CallRecords
<1>5. Seen(r, policy, role, cached) /\ Placed(r) /\ Noted(r)
  BY <1>1, <1>2, <1>4 DEF At, Seen, Looking, Placed, Noted, BasisHeld, Executing
<1>6. Entered(r)
  <2>1. PICK x \in Answers : x \in q.allowed
    BY DEF CheckUser
  <2>2. q.fresh => x \in q.roles
    BY <1>1 DEF Answers
  <2>3. PICK v \in q.policies : v.roles = q.allowed
    BY <1>1 DEF At, Entered
  <2>4. RoleAllowed(v.roles, x)
    BY <2>1, <2>3 DEF RoleAllowed
  <2> QED
    BY <1>1, <1>2, <1>4, <2>2, <2>3, <2>4 DEF At, Entered, Admitted
<1>7. Unasked(r) /\ Covered(r)
  BY <1>2, <1>4 DEF Unasked, Covered
<1> QED
  BY <1>3, <1>5, <1>6, <1>7, Plain DEF CheckUser, At

-----------------------------------------------------------------------------
LEMMA AskModeStep ==
    ASSUME IInv, NEW c \in Calls, AskMode(c)
    PROVE  IInv'
<1> DEFINE q == call[c]
           r == [q EXCEPT !.pc = "lookup", !.policies = {}, !.roles = {},
                            !.fresh = TRUE]
           s == [q EXCEPT !.pc = "read", !.path = "auto"]
<1>1. /\ q \in CallRecords /\ q.pc = "confirm" /\ At(q, policy, role, cached)
      /\ q.role = {} /\ q.revision = {}
  BY Unnoted DEF IInv, TypeOK, AskMode
<1>2. CASE NeedsConfirmation(policy)
  <2>1. r \in CallRecords
    BY <1>1 DEF CallRecords
  <2>2. r.pc = "lookup" /\ r.role = {} /\ r.revision = {}
    BY <1>1 DEF CallRecords
  <2>3. At(r, policy, role, cached)
    <3> HIDE DEF r
    <3> QED
      BY <2>2, Waiting
  <2> QED
    BY <1>2, <2>1, <2>3, Plain DEF AskMode
<1>3. CASE ~NeedsConfirmation(policy)
  <2>1. s \in CallRecords
    BY <1>1 DEF CallRecords
  <2>2. /\ s.pc = "read" /\ s.path = "auto" /\ s.policies = q.policies
        /\ s.roles = q.roles /\ s.role = {} /\ s.revision = {}
        /\ s.fresh = q.fresh
    BY <1>1 DEF CallRecords
  <2>3. At(s, policy, role, cached)
    BY <1>1, <1>3, <2>2 DEF At, Seen, Looking, Placed, Entered, Admitted, Unasked,
                            Covered, Noted, BasisHeld, Executing
  <2> QED
    BY <1>3, <2>1, <2>3, Plain DEF AskMode
<1> QED
  BY <1>2, <1>3

LEMMA RunReadStep ==
    ASSUME IInv, NEW c \in Calls, RunRead(c)
    PROVE  IInv'
<1> DEFINE q == call[c]
           r == [q EXCEPT !.pc = "ran"]
<1>1. q \in CallRecords /\ q.pc = "read" /\ At(q, policy, role, cached)
  BY DEF IInv, TypeOK, RunRead
<1>2. r \in CallRecords
  BY <1>1 DEF CallRecords
<1>3. /\ r.pc = "ran" /\ r.path = q.path /\ r.policies = q.policies /\ r.arg = q.arg
      /\ r.roles = q.roles /\ r.role = q.role /\ r.revision = q.revision
      /\ r.fresh = q.fresh
  BY <1>1 DEF CallRecords
<1>4. At(r, policy, role, cached)
  BY <1>1, <1>3 DEF At, Seen, Looking, Placed, Entered, Admitted, Unasked, Covered, Noted,
                    BasisHeld, Executing
<1> QED
  BY <1>2, <1>4, Plain DEF RunRead, Goto

\* The steps of the dialogue.
LEMMA DialogueStep ==
    ASSUME IInv, NEW c \in Calls,
           Lookup(c) \/ AskWhom(c) \/ Show(c) \/ Approve(c) \/ ApproveForTurn(c) \/ Lapse(c)
             \/ ApproveOffline(c) \/ ApproveAsSecond(c)
    PROVE  IInv'
<1> DEFINE q == call[c]
<1>1. q \in CallRecords
  BY DEF IInv, TypeOK
<1>2. ASSUME q.pc \in {"lookup", "approval", "show", "wait", "trust", "submitted", "offline"},
             UNCHANGED facts,
             \/ \E way \in {"asked", "trusted", "second", "offline"} : Becomes(c, Enter(q, way))
             \/ \E to \in {"approval", "show", "submitted", "trust"} : Goto(c, to)
             \/ Becomes(c, [q EXCEPT !.pc = "wait", !.shown = policy.bound])
             \/ Becomes(c, [q EXCEPT !.pc = "offline", !.shown = {}, !.calm = TRUE])
      PROVE  IInv'
  <2>1. q.role = {} /\ q.revision = {}
    BY <1>2, Unnoted
  <2>2. ASSUME NEW way \in {"asked", "trusted", "second", "offline"},
               Becomes(c, Enter(q, way))
        PROVE  IInv'
    <3>1. Enter(q, way) \in CallRecords /\ At(Enter(q, way), policy, role, cached)
      BY <1>2, Entering
    <3> QED
      BY <1>2, <2>2, <3>1, Plain
  <2>3. ASSUME NEW to \in {"approval", "show", "submitted", "trust"}, Goto(c, to)
        PROVE  IInv'
    <3> DEFINE r == [q EXCEPT !.pc = to]
    <3>1. r \in CallRecords /\ r.pc = to /\ r.role = {} /\ r.revision = {}
      BY <1>1, <2>1 DEF CallRecords
    <3>2. At(r, policy, role, cached)
      <4> HIDE DEF r
      <4> QED
        BY <3>1, Waiting
    <3> QED
      BY <1>2, <2>3, <3>1, <3>2, Plain DEF Goto
  <2>4. ASSUME Becomes(c, [q EXCEPT !.pc = "wait", !.shown = policy.bound])
        PROVE  IInv'
    <3> DEFINE r == [q EXCEPT !.pc = "wait", !.shown = policy.bound]
    <3>1. policy.bound \in SUBSET Nat
      BY DEF IInv, TypeOK, Overrides
    <3>2. r \in CallRecords /\ r.pc = "wait" /\ r.role = {} /\ r.revision = {}
      BY <1>1, <2>1, <3>1 DEF CallRecords
    <3>3. At(r, policy, role, cached)
      <4> HIDE DEF r
      <4> QED
        BY <3>2, Waiting
    <3> QED
      BY <1>2, <2>4, <3>2, <3>3, Plain
  <2>5. ASSUME Becomes(c, [q EXCEPT !.pc = "offline", !.shown = {}, !.calm = TRUE])
        PROVE  IInv'
    <3> DEFINE r == [q EXCEPT !.pc = "offline", !.shown = {}, !.calm = TRUE]
    <3>1. r \in CallRecords /\ r.pc = "offline" /\ r.role = {} /\ r.revision = {}
      BY <1>1, <2>1 DEF CallRecords
    <3>2. At(r, policy, role, cached)
      <4> HIDE DEF r
      <4> QED
        BY <3>1, Waiting
    <3> QED
      BY <1>2, <2>5, <3>1, <3>2, Plain
  <2> QED
    BY <1>2, <2>2, <2>3, <2>4, <2>5
<1>3. CASE Lookup(c)
  BY <1>2, <1>3 DEF Lookup, Goto
<1>4. CASE AskWhom(c)
  BY <1>2, <1>4 DEF AskWhom
<1>5. CASE Show(c)
  BY <1>2, <1>5 DEF Show
<1>6. CASE Approve(c)
  BY <1>2, <1>6 DEF Approve
<1>7. CASE ApproveForTurn(c)
  BY <1>2, <1>7 DEF ApproveForTurn
<1>8. CASE Lapse(c)
  BY <1>2, <1>8 DEF Lapse
<1>9. CASE ApproveOffline(c)
  BY <1>2, <1>9 DEF ApproveOffline
<1>10. CASE ApproveAsSecond(c)
  BY <1>2, <1>10 DEF ApproveAsSecond
<1> QED
  BY <1>3, <1>4, <1>5, <1>6, <1>7, <1>8, <1>9, <1>10

LEMMA AddTrustStep ==
    ASSUME IInv, NEW c \in Calls, AddTrust(c)
    PROVE  IInv'
<1> DEFINE q == call[c]
<1>1. q \in CallRecords /\ q.pc = "trust"
  BY DEF IInv, TypeOK, AddTrust
<1>2. Enter(q, "asked") \in CallRecords /\ At(Enter(q, "asked"), policy, role, cached)
  BY <1>1, Entering
<1>3. trusted' \in SUBSET Keys
  <2>1. policy.bound \in SUBSET Nat /\ q.arg \in Values
    BY <1>1 DEF IInv, TypeOK, Overrides, CallRecords
  <2>2. Key(policy, q.arg) \in Keys
    BY <2>1 DEF Key, Keys
  <2> QED
    BY <2>2 DEF AddTrust, IInv, TypeOK
<1>4. agreed' \in SUBSET Agreements
  <2>1. [value |-> q.arg, bound |-> q.shown, calm |-> q.calm] \in Agreements
    BY <1>1 DEF Agreements, CallRecords
  <2> QED
    BY <2>1 DEF AddTrust, IInv, TypeOK
<1> QED
  BY <1>2, <1>3, <1>4, CallStep DEF AddTrust

-----------------------------------------------------------------------------
LEMMA CheckScopeStep ==
    ASSUME IInv, NEW c \in Calls, CheckScope(c)
    PROVE  IInv'
<1> DEFINE q == call[c]
           r == [q EXCEPT !.pc = "recheck"]
<1>1. /\ q \in CallRecords /\ q.pc = "scope" /\ At(q, policy, role, cached)
      /\ policy \in q.policies /\ InBound(policy, q.arg)
  BY DEF IInv, TypeOK, CheckScope, At, Seen, Looking
<1>2. r \in CallRecords
  BY <1>1 DEF CallRecords
<1>3. /\ r.pc = "recheck" /\ r.path = q.path /\ r.policies = q.policies /\ r.arg = q.arg
      /\ r.roles = q.roles /\ r.role = q.role /\ r.revision = q.revision
      /\ r.fresh = q.fresh
  BY <1>1 DEF CallRecords
<1>4. Seen(r, policy, role, cached) /\ Placed(r) /\ Noted(r)
  BY <1>1, <1>3 DEF At, Seen, Looking, Placed, Noted, BasisHeld, Executing
<1>5. Entered(r)
  BY <1>1, <1>3 DEF At, Entered, Admitted
<1>6. Unasked(r) /\ Covered(r)
  BY <1>1, <1>3 DEF Unasked, Covered
<1> QED
  BY <1>2, <1>4, <1>5, <1>6, Plain DEF CheckScope, Goto, At

LEMMA RecheckStep ==
    ASSUME IInv, NEW c \in Calls, Recheck(c)
    PROVE  IInv'
<1> DEFINE q == call[c]
           r == [q EXCEPT !.pc = "role"]
<1>1. /\ q \in CallRecords /\ q.pc = "recheck" /\ At(q, policy, role, cached)
      /\ policy \in q.policies /\ (NeedsApproval(policy) => q.path = "second")
  BY DEF IInv, TypeOK, Recheck, At, Seen, Looking
<1>2. r \in CallRecords
  BY <1>1 DEF CallRecords
<1>3. /\ r.pc = "role" /\ r.path = q.path /\ r.policies = q.policies /\ r.arg = q.arg
      /\ r.roles = q.roles /\ r.role = q.role /\ r.revision = q.revision
      /\ r.fresh = q.fresh
  BY <1>1 DEF CallRecords
<1>4. Seen(r, policy, role, cached) /\ Placed(r) /\ Noted(r)
  BY <1>1, <1>3 DEF At, Seen, Looking, Placed, Noted, BasisHeld, Executing
<1>5. Entered(r)
  BY <1>1, <1>3 DEF At, Entered, Admitted
<1>6. Unasked(r) /\ Covered(r)
  BY <1>1, <1>3 DEF At, Unasked, Covered, Executing
<1> QED
  BY <1>2, <1>4, <1>5, <1>6, Plain DEF Recheck, Goto, At

LEMMA ReadRoleStep ==
    ASSUME IInv, NEW c \in Calls, ReadRole(c)
    PROVE  IInv'
<1> DEFINE q == call[c]
<1>1. PICK S \in {{}} \union {{x} : x \in Answers} : Becomes(c, [q EXCEPT !.pc = "revision", !.role = S])
  BY DEF ReadRole
<1> DEFINE r == [q EXCEPT !.pc = "revision", !.role = S]
<1>2. /\ q \in CallRecords /\ q.pc = "role" /\ At(q, policy, role, cached)
      /\ (q.fresh => Answers \subseteq q.roles) /\ Answers \subseteq Roles
  BY DEF IInv, TypeOK, ReadRole, At, Seen, Looking, Answers
<1>3. r \in CallRecords
  BY <1>2 DEF CallRecords
<1>4. /\ r.pc = "revision" /\ r.path = q.path /\ r.policies = q.policies /\ r.arg = q.arg
      /\ r.roles = q.roles /\ r.role = S /\ r.revision = q.revision
      /\ r.fresh = q.fresh
  BY <1>2 DEF CallRecords
<1>5. Seen(r, policy, role, cached) /\ Placed(r) /\ Noted(r)
  BY <1>2, <1>4 DEF At, Seen, Looking, Placed, Noted, BasisHeld, Executing
<1>6. Entered(r)
  BY <1>2, <1>4 DEF At, Entered, Admitted
<1>7. Unasked(r) /\ Covered(r)
  BY <1>2, <1>4 DEF At, Unasked, Covered, Executing
<1> QED
  BY <1>1, <1>3, <1>5, <1>6, <1>7, Plain DEF ReadRole, At

LEMMA ReadRevisionStep ==
    ASSUME IInv, NEW c \in Calls, ReadRevision(c)
    PROVE  IInv'
<1> DEFINE q == call[c]
<1>1. PICK S \in {{}, {policy}} : Becomes(c, [q EXCEPT !.pc = "ran", !.revision = S])
  BY DEF ReadRevision
<1> DEFINE r == [q EXCEPT !.pc = "ran", !.revision = S]
<1>2. /\ q \in CallRecords /\ q.pc = "revision" /\ At(q, policy, role, cached)
      /\ policy \in q.policies /\ policy \in Policies
  BY DEF IInv, TypeOK, ReadRevision, At, Seen, Looking
<1>3. r \in CallRecords
  BY <1>2 DEF CallRecords
<1>4. /\ r.pc = "ran" /\ r.path = q.path /\ r.policies = q.policies /\ r.arg = q.arg
      /\ r.roles = q.roles /\ r.role = q.role /\ r.revision = S
      /\ r.fresh = q.fresh
  BY <1>2 DEF CallRecords
<1>5. Seen(r, policy, role, cached) /\ Placed(r) /\ Noted(r)
  BY <1>2, <1>4 DEF At, Seen, Looking, Placed, Noted, BasisHeld, Executing
<1>6. Entered(r)
  BY <1>2, <1>4 DEF At, Entered, Admitted
<1>7. Unasked(r) /\ Covered(r)
  BY <1>2, <1>4 DEF At, Placed, Unasked, Covered, Executing
<1> QED
  BY <1>1, <1>3, <1>5, <1>6, <1>7, Plain DEF ReadRevision, At

-----------------------------------------------------------------------------
\* A call that looks is in its gates, so it notes what is published.
LEMMA LookingInGates ==
    ASSUME NEW r, NEW v, NEW x, NEW C, Looking(r), Seen(r, v, x, C)
    PROVE  InGates(r)
  BY DEF Looking, Seen, InGates, Active

LEMMA PublishStep ==
    ASSUME IInv, NEW v \in Policies, Publish(v)
    PROVE  IInv'
<1>1. ASSUME NEW c \in Calls
      PROVE  call'[c] \in CallRecords /\ At(call'[c], v, role, cached)
  <2> DEFINE q == call[c]
             s == [q EXCEPT !.policies = IF InGates(q) THEN @ \union {v} ELSE @,
                            !.calm = @ /\ ~BoundInUse(q)]
  <2>1. q \in CallRecords /\ At(q, policy, role, cached)
    BY DEF IInv, TypeOK
  <2>2. call'[c] = s
    BY DEF Publish
  <2>3. (q.calm /\ ~BoundInUse(q)) \in BOOLEAN
    BY <2>1 DEF CallRecords, BoundInUse
  <2>4. s \in CallRecords
    BY <2>1, <2>3 DEF CallRecords
  <2>5. /\ s.pc = q.pc /\ s.path = q.path /\ s.arg = q.arg /\ s.allowed = q.allowed
        /\ s.role = q.role /\ s.revision = q.revision /\ s.roles = q.roles
        /\ s.fresh = q.fresh
        /\ s.policies = IF InGates(q) THEN q.policies \union {v} ELSE q.policies
    BY <2>1 DEF CallRecords
  <2>6. Seen(s, v, role, cached)
    BY <2>1, <2>5, LookingInGates DEF At, Seen, Looking
  <2>7. /\ s.fresh => q.fresh
        /\ q.policies \subseteq s.policies /\ q.roles \subseteq s.roles
    BY <2>5
  <2>8. At(s, v, role, cached)
    <3> HIDE DEF q, s
    <3> QED
      BY <2>1, <2>7, <2>5, <2>6, Growth
  <2> QED
    BY <2>2, <2>4, <2>8
<1>2. call' \in [Calls -> CallRecords]
  BY <1>1 DEF Publish
<1>3. /\ policy' = v /\ changes < MaxChanges /\ changes' = changes + 1
      /\ role' = role /\ cached' = cached /\ had' = had /\ trusted' = trusted /\ agreed' = agreed
  BY Zenon DEF Publish, who
<1>4. TypeOK'
  BY <1>2, <1>3 DEF IInv, TypeOK
<1> QED
  BY <1>1, <1>3, <1>4 DEF IInv

LEMMA SetRoleStep ==
    ASSUME IInv, NEW x \in Roles, SetRole(x)
    PROVE  IInv'
<1>1. ASSUME NEW c \in Calls
      PROVE  call'[c] \in CallRecords /\ At(call'[c], policy, x, cached)
  <2> DEFINE q == call[c]
             s == [q EXCEPT !.roles = IF InGates(q) THEN @ \union {x} ELSE @]
  <2>1. q \in CallRecords /\ At(q, policy, role, cached)
    BY DEF IInv, TypeOK
  <2>2. call'[c] = s
    BY DEF SetRole
  <2>3. s \in CallRecords
    BY <2>1 DEF CallRecords
  <2>4. /\ s.pc = q.pc /\ s.path = q.path /\ s.arg = q.arg /\ s.allowed = q.allowed
        /\ s.role = q.role /\ s.revision = q.revision /\ s.policies = q.policies
        /\ s.fresh = q.fresh
        /\ s.roles = IF InGates(q) THEN q.roles \union {x} ELSE q.roles
    BY <2>1 DEF CallRecords
  <2>5. Seen(s, policy, x, cached)
    BY <2>1, <2>4, LookingInGates DEF At, Seen, Looking
  <2>6. /\ s.fresh => q.fresh
        /\ q.policies \subseteq s.policies /\ q.roles \subseteq s.roles
    BY <2>4
  <2>7. At(s, policy, x, cached)
    <3> HIDE DEF q, s
    <3> QED
      BY <2>1, <2>6, <2>4, <2>5, Growth
  <2> QED
    BY <2>2, <2>3, <2>7
<1>2. call' \in [Calls -> CallRecords]
  BY <1>1 DEF SetRole
<1>3. TypeOK'
  BY <1>2 DEF SetRole, IInv, TypeOK
<1> QED
  BY <1>1, <1>3 DEF IInv, SetRole

\* What is stored in the cache is a role in force, or the call notes that it is not.
LEMMA StoreStep ==
    ASSUME IInv, NEW x \in Roles, Store(x)
    PROVE  IInv'
<1>1. ASSUME NEW c \in Calls
      PROVE  call'[c] \in CallRecords /\ At(call'[c], policy, role, {x})
  <2> DEFINE q == call[c]
             s == [q EXCEPT !.fresh = @ /\ (InGates(q) => x \in q.roles)]
  <2>1. q \in CallRecords /\ At(q, policy, role, cached)
    BY DEF IInv, TypeOK
  <2>2. call'[c] = s
    BY DEF Store
  <2>3. (q.fresh /\ (InGates(q) => x \in q.roles)) \in BOOLEAN
    BY <2>1 DEF CallRecords
  <2>4. s \in CallRecords
    BY <2>1, <2>3 DEF CallRecords
  <2>5. /\ s.pc = q.pc /\ s.path = q.path /\ s.arg = q.arg /\ s.allowed = q.allowed
        /\ s.role = q.role /\ s.revision = q.revision /\ s.policies = q.policies
        /\ s.roles = q.roles /\ s.fresh = (q.fresh /\ (InGates(q) => x \in q.roles))
    BY <2>1 DEF CallRecords
  <2>6. Seen(s, policy, role, {x})
    <3>1. ASSUME Looking(q) PROVE Seen(s, policy, role, {x})
      <4>1. policy \in q.policies /\ role \in q.roles /\ InGates(q)
        BY <2>1, <3>1, LookingInGates DEF At, Seen
      <4> HIDE DEF q, s
      <4>2. s.fresh => x \in s.roles
        BY <2>5, <4>1, Zenon
      <4> QED
        BY <2>5, <4>1, <4>2 DEF Seen
    <3>2. Looking(s) => Looking(q)
      <4> HIDE DEF q, s
      <4> QED
        BY <2>5 DEF Looking
    <3> QED
      BY <3>1, <3>2 DEF Seen
  <2>7. /\ s.fresh => q.fresh
        /\ q.policies \subseteq s.policies /\ q.roles \subseteq s.roles
    BY <2>5
  <2>8. At(s, policy, role, {x})
    <3> HIDE DEF q, s
    <3> QED
      BY <2>1, <2>7, <2>5, <2>6, Growth
  <2> QED
    BY <2>2, <2>4, <2>8
<1>2. call' \in [Calls -> CallRecords]
  BY <1>1 DEF Store
<1>3. TypeOK'
  BY <1>2 DEF Store, IInv, TypeOK
<1> QED
  BY <1>1, <1>3 DEF IInv, Store

LEMMA EvictStep ==
    ASSUME IInv, Evict
    PROVE  IInv'
<1>1. ASSUME NEW c \in Calls
      PROVE  At(call[c], policy, role, {})
  BY Growth DEF IInv, At, Seen
<1>2. TypeOK'
  BY DEF Evict, IInv, TypeOK
<1> QED
  BY <1>1, <1>2 DEF IInv, Evict

-----------------------------------------------------------------------------
LEMMA Initially == Init => IInv
<1> SUFFICES ASSUME Init PROVE IInv
  OBVIOUS
<1>1. TypeOK
  BY NoCallType DEF Init, TypeOK
<1>2. At(NoCall, policy, role, cached)
  BY DEF NoCall, At, Seen, Looking, Placed, Entered, Admitted, Unasked, Covered, Noted, BasisHeld
<1> QED
  BY <1>1, <1>2 DEF Init, IInv

LEMMA OneStep ==
    ASSUME IInv, NEW c \in Calls, Step(c)
    PROVE  IInv'
<1>1. CASE \E x \in Values : Begin(c, x)
  BY <1>1, BeginStep
<1>2. CASE CheckEnabled(c) \/ CheckRoles(c) \/ CheckUser(c)
  BY <1>2, CheckEnabledStep, CheckRolesStep, CheckUserStep
<1>3. CASE NotAllowed(c) \/ Decline(c) \/ NotCovered(c) \/ Fail(c)
  BY <1>3, RefuseStep DEF NotAllowed, Decline, NotCovered, Fail
<1>4. CASE AskMode(c) \/ RunRead(c)
  BY <1>4, AskModeStep, RunReadStep
<1>5. CASE Lookup(c) \/ AskWhom(c) \/ Show(c) \/ Approve(c) \/ ApproveForTurn(c) \/ Lapse(c)
             \/ ApproveOffline(c) \/ ApproveAsSecond(c)
  BY <1>5, DialogueStep
<1>6. CASE AddTrust(c)
  BY <1>6, AddTrustStep
<1>7. CASE CheckScope(c) \/ Recheck(c)
  BY <1>7, CheckScopeStep, RecheckStep
<1>8. CASE ReadRole(c) \/ ReadRevision(c)
  BY <1>8, ReadRoleStep, ReadRevisionStep
<1> QED
  BY <1>1, <1>2, <1>3, <1>4, <1>5, <1>6, <1>7, <1>8 DEF Step

\* The strengthening holds in every reachable state.
LEMMA Inductive == Spec => []IInv
<1>1. Init => IInv
  BY Initially
<1>2. IInv /\ [Next]_vars => IInv'
  <2> SUFFICES ASSUME IInv, [Next]_vars PROVE IInv'
    OBVIOUS
  <2>1. CASE \E c \in Calls : Step(c)
    BY <2>1, OneStep
  <2>2. CASE \E v \in Policies \ {policy} : Publish(v)
    BY <2>2, PublishStep
  <2>3. CASE \E x \in Roles \ {role} : SetRole(x)
    BY <2>3, SetRoleStep
  <2>4. CASE \E x \in had \ cached : Store(x)
    BY <2>4, StoreStep DEF IInv, TypeOK
  <2>5. CASE Evict
    BY <2>5, EvictStep
  <2>6. CASE UNCHANGED vars
    BY <2>6 DEF vars, facts, who, IInv, TypeOK
  <2> QED
    BY <2>1, <2>2, <2>3, <2>4, <2>5, <2>6 DEF Next
<1> QED
  BY <1>1, <1>2, PTL DEF Spec

\* The policy, the trusted scopes and the calls have their types.
THEOREM TypeCorrect == Spec => []TypeOK
<1>1. IInv => TypeOK
  BY DEF IInv
<1> QED
  BY <1>1, Inductive, PTL

\* Whatever is published, and whenever: a call that ran was let through each gate by
\* a policy that was in force after its execution began, and by a role that was, as long
\* as the cache had no older one; the basis on its claim row was in force then, too.
THEOREM GatesAreKept == Spec => []RunsWereAllowed
<1>1. IInv => RunsWereAllowed
  BY DEF IInv, RunsWereAllowed, At, Placed, Entered, Admitted, Unasked, Covered, Noted, GatesHeld
<1> QED
  BY <1>1, Inductive, PTL

-----------------------------------------------------------------------------
(* What a person agreed to.                                                *)

Agreed(x, a) == \E g \in a : Covers(g, x) \/ ~g.calm

\* The key that an answer to a question g stands for, if nothing was published.
KeyOf(g) == [values |-> IF g.bound = {} THEN {g.value} ELSE {}, bound |-> g.bound]

Founded(t, a) == \A k \in t : \E g \in a : ~g.calm \/ k = KeyOf(g)

Kept(r, v, t, a) ==
    r.calm =>
      /\ r.pc \in {"wait", "trust"} => r.shown = v.bound
      /\ r.path = "trusted" /\ r.pc \in {"enabled", "roles", "user", "scope"} =>
           Key(v, r.arg) \in t
      /\ r.path = "trusted" /\ r.pc \in {"recheck", "role", "revision", "ran"} =>
           Agreed(r.arg, a)

TInv == Founded(trusted, agreed) /\ \A c \in Calls : Kept(call[c], policy, trusted, agreed)

LEMMA Uncommitted ==
    ASSUME NEW r, NEW v, NEW t, NEW a, r.path # "trusted", r.pc \notin {"wait", "trust"}
    PROVE  Kept(r, v, t, a)
  BY DEF Kept

LEMMA KeptStep ==
    ASSUME IInv, TInv, NEW c \in Calls, NEW r, Becomes(c, r), UNCHANGED facts,
           Kept(r, policy, trusted, agreed)
    PROVE  TInv'
<1>1. \A d \in Calls : Kept(call'[d], policy, trusted, agreed)
  BY DEF TInv, IInv, TypeOK, Becomes
<1> QED
  BY <1>1 DEF TInv, facts

\* Only the step changes, within what the same promise is about.
LEMMA KeptMove ==
    ASSUME IInv, TInv, NEW c \in Calls, NEW r, Becomes(c, r), UNCHANGED facts,
           r.path = call[c].path, r.arg = call[c].arg, r.calm = call[c].calm,
           r.shown = call[c].shown,
           \/ r.pc \notin {"wait", "trust"} /\ call[c].path # "trusted"
           \/ call[c].pc \in {"wait", "trust"} /\ r.pc \in {"wait", "trust"}
           \/ /\ call[c].pc \in {"enabled", "roles", "user"}
              /\ r.pc \in {"roles", "user", "scope"}
           \/ /\ call[c].pc \in {"recheck", "role", "revision"}
              /\ r.pc \in {"role", "revision", "ran"}
           \/ r.pc \in {"confirm", "lookup", "approval", "show", "submitted"}
    PROVE  TInv'
<1>1. Kept(call[c], policy, trusted, agreed)
  BY DEF TInv
<1>2. Kept(r, policy, trusted, agreed)
  BY <1>1 DEF Kept
<1> QED
  BY <1>2, KeptStep

LEMMA RefuseKept ==
    ASSUME IInv, TInv, NEW c \in Calls, Refuse(c)
    PROVE  TInv'
<1>1. Kept([NoCall EXCEPT !.pc = "over"], policy, trusted, agreed)
  BY DEF Kept, NoCall
<1> QED
  BY <1>1, KeptStep DEF Refuse

LEMMA BeginKept ==
    ASSUME IInv, TInv, NEW c \in Calls, NEW x \in Values, Begin(c, x)
    PROVE  TInv'
<1> DEFINE r == [NoCall EXCEPT !.pc = "enabled", !.arg = x,
                   !.policies = {policy}, !.roles = {role},
                   !.fresh = cached \subseteq {role}]
<1>1. Kept(r, policy, trusted, agreed)
  BY DEF Kept, NoCall
<1> QED
  BY <1>1, KeptStep DEF Begin

LEMMA EnterKept ==
    ASSUME IInv, TInv, NEW c \in Calls, NEW way \in {"asked", "trusted", "second", "offline"},
           Becomes(c, Enter(call[c], way)), UNCHANGED facts,
           way = "trusted" => Key(policy, call[c].arg) \in trusted
    PROVE  TInv'
<1> DEFINE r == Enter(call[c], way)
<1>1. r.pc = "enabled" /\ r.path = way /\ r.arg = call[c].arg
  BY DEF Enter, IInv, TypeOK, CallRecords
<1>2. Kept(r, policy, trusted, agreed)
  BY <1>1 DEF Kept
<1> QED
  BY <1>2, KeptStep

LEMMA GateKept ==
    ASSUME IInv, TInv, NEW c \in Calls, CheckEnabled(c) \/ CheckRoles(c) \/ CheckUser(c)
    PROVE  TInv'
<1> DEFINE q == call[c]
<1>1. q \in CallRecords
  BY DEF IInv, TypeOK
<1>2. AfterGate(q) \in {"scope", "confirm"}
  BY DEF AfterGate
<1>3. CASE CheckEnabled(c)
  <2> DEFINE r == [q EXCEPT !.pc = "roles"]
  <2>1. /\ r.pc = "roles" /\ r.path = q.path /\ r.arg = q.arg /\ r.calm = q.calm
        /\ r.shown = q.shown
    BY <1>1 DEF CallRecords
  <2>2. q.pc = "enabled" /\ Becomes(c, r) /\ UNCHANGED facts
    BY <1>3 DEF CheckEnabled, Goto
  <2> HIDE DEF r
  <2> QED
    BY <2>1, <2>2, KeptMove
<1>4. CASE CheckRoles(c)
  <2> DEFINE r == [q EXCEPT !.allowed = policy.roles,
                     !.pc = IF policy.roles = {} THEN AfterGate(q) ELSE "user"]
  <2>1. /\ r.pc \in {"user", "scope", "confirm"} /\ r.path = q.path /\ r.arg = q.arg
        /\ r.calm = q.calm /\ r.shown = q.shown
    BY <1>1, <1>2 DEF CallRecords
  <2>2. q.pc = "roles" /\ Becomes(c, r) /\ UNCHANGED facts
    BY <1>4 DEF CheckRoles
  <2> HIDE DEF r
  <2> QED
    BY <2>1, <2>2, KeptMove
<1>5. CASE CheckUser(c)
  <2> DEFINE r == [q EXCEPT !.allowed = {}, !.pc = AfterGate(q)]
  <2>1. /\ r.pc \in {"scope", "confirm"} /\ r.path = q.path /\ r.arg = q.arg
        /\ r.calm = q.calm /\ r.shown = q.shown
    BY <1>1, <1>2 DEF CallRecords
  <2>2. q.pc = "user" /\ Becomes(c, r) /\ UNCHANGED facts
    BY <1>5 DEF CheckUser
  <2> HIDE DEF r
  <2> QED
    BY <2>1, <2>2, KeptMove
<1> QED
  BY <1>3, <1>4, <1>5

LEMMA DialogueKept ==
    ASSUME IInv, TInv, NEW c \in Calls,
           AskMode(c) \/ RunRead(c) \/ AskWhom(c) \/ Show(c) \/ ApproveForTurn(c) \/ Lapse(c)
    PROVE  TInv'
<1> DEFINE q == call[c]
<1>1. q \in CallRecords
  BY DEF IInv, TypeOK
<1>2. CASE AskMode(c)
  <2> DEFINE r == [q EXCEPT !.pc = "lookup", !.policies = {}, !.roles = {},
                            !.fresh = TRUE]
             s == [q EXCEPT !.pc = "read", !.path = "auto"]
  <2>1. r.pc = "lookup" /\ s.pc = "read" /\ s.path = "auto"
    BY <1>1 DEF CallRecords
  <2>2. (Becomes(c, r) \/ Becomes(c, s)) /\ UNCHANGED facts
    BY <1>2 DEF AskMode
  <2>3. Kept(r, policy, trusted, agreed) /\ Kept(s, policy, trusted, agreed)
    BY <2>1 DEF Kept
  <2> HIDE DEF r, s
  <2> QED
    BY <2>2, <2>3, KeptStep
<1>3. CASE RunRead(c)
  <2> DEFINE r == [q EXCEPT !.pc = "ran"]
  <2>1. q.path = "auto"
    BY <1>3 DEF RunRead, IInv, At, Placed
  <2>2. r.pc = "ran" /\ r.path = "auto"
    BY <1>1, <2>1 DEF CallRecords
  <2>3. Becomes(c, r) /\ UNCHANGED facts
    BY <1>3 DEF RunRead, Goto
  <2>4. Kept(r, policy, trusted, agreed)
    BY <2>2 DEF Kept
  <2> QED
    BY <2>3, <2>4, KeptStep
<1>4. CASE AskWhom(c)
  <2>1. PICK to \in {"submitted", "show"} : Goto(c, to)
    BY <1>4 DEF AskWhom
  <2> DEFINE r == [q EXCEPT !.pc = to]
  <2>2. r.pc = to
    BY <1>1 DEF CallRecords
  <2>3. Kept(r, policy, trusted, agreed)
    BY <2>2 DEF Kept
  <2>4. Becomes(c, r) /\ UNCHANGED facts
    BY <1>4, <2>1 DEF AskWhom, Goto
  <2> QED
    BY <2>3, <2>4, KeptStep
<1>5. CASE Show(c)
  <2> DEFINE r == [q EXCEPT !.pc = "wait", !.shown = policy.bound]
  <2>1. r.pc = "wait" /\ r.shown = policy.bound
    BY <1>1 DEF CallRecords
  <2>2. Kept(r, policy, trusted, agreed)
    BY <2>1 DEF Kept
  <2>3. Becomes(c, r) /\ UNCHANGED facts
    BY <1>5 DEF Show
  <2> QED
    BY <2>2, <2>3, KeptStep
<1>6. CASE ApproveForTurn(c)
  <2> DEFINE r == [q EXCEPT !.pc = "trust"]
  <2>1. /\ r.pc = "trust" /\ r.path = q.path /\ r.arg = q.arg /\ r.calm = q.calm
        /\ r.shown = q.shown
    BY <1>1 DEF CallRecords
  <2>2. q.pc = "wait" /\ Becomes(c, r) /\ UNCHANGED facts
    BY <1>6 DEF ApproveForTurn, Goto
  <2> HIDE DEF r
  <2> QED
    BY <2>1, <2>2, KeptMove
<1>7. CASE Lapse(c)
  <2> DEFINE r == [q EXCEPT !.pc = "offline", !.shown = {}, !.calm = TRUE]
  <2>1. r.pc = "offline"
    BY <1>1 DEF CallRecords
  <2>2. Kept(r, policy, trusted, agreed)
    BY <2>1 DEF Kept
  <2>3. Becomes(c, r) /\ UNCHANGED facts
    BY <1>7 DEF Lapse
  <2> QED
    BY <2>2, <2>3, KeptStep
<1> QED
  BY <1>2, <1>3, <1>4, <1>5, <1>6, <1>7

LEMMA ApproveKept ==
    ASSUME IInv, TInv, NEW c \in Calls,
           Lookup(c) \/ Approve(c) \/ ApproveOffline(c) \/ ApproveAsSecond(c)
    PROVE  TInv'
<1> DEFINE r == [call[c] EXCEPT !.pc = "approval"]
<1>1. CASE Lookup(c) /\ Key(policy, call[c].arg) \notin trusted
  <2>1. r.pc = "approval"
    BY DEF IInv, TypeOK, CallRecords
  <2>2. Kept(r, policy, trusted, agreed)
    BY <2>1 DEF Kept
  <2>3. Becomes(c, r) /\ UNCHANGED facts
    BY <1>1 DEF Lookup
  <2> QED
    BY <2>2, <2>3, KeptStep
<1>2. CASE Lookup(c) /\ Key(policy, call[c].arg) \in trusted
  BY <1>2, EnterKept DEF Lookup
<1>3. CASE Approve(c)
  BY <1>3, EnterKept DEF Approve
<1>4. CASE ApproveOffline(c)
  BY <1>4, EnterKept DEF ApproveOffline
<1>5. CASE ApproveAsSecond(c)
  BY <1>5, EnterKept DEF ApproveAsSecond
<1> QED
  BY <1>1, <1>2, <1>3, <1>4, <1>5

\* The key is the one of the question, unless a policy was published since.
LEMMA AddTrustKept ==
    ASSUME IInv, TInv, NEW c \in Calls, AddTrust(c)
    PROVE  TInv'
<1> DEFINE q == call[c]
           g == [value |-> q.arg, bound |-> q.shown, calm |-> q.calm]
<1>1. /\ q \in CallRecords /\ q.pc = "trust" /\ policy' = policy
      /\ trusted' = trusted \union {Key(policy, q.arg)} /\ agreed' = agreed \union {g}
      /\ Becomes(c, Enter(q, "asked"))
  BY DEF IInv, TypeOK, AddTrust
<1>2. q.calm => q.shown = policy.bound
  BY <1>1 DEF TInv, Kept
<1>3. g.calm => Key(policy, q.arg) = KeyOf(g)
  BY <1>2 DEF Key, KeyOf
<1>4. Founded(trusted', agreed')
  <2> HIDE DEF g
  <2>1. \A k \in trusted : \E h \in agreed' : ~h.calm \/ k = KeyOf(h)
    BY <1>1 DEF TInv, Founded
  <2>2. \E h \in agreed' : ~h.calm \/ Key(policy, q.arg) = KeyOf(h)
    BY <1>1, <1>3
  <2> QED
    BY <1>1, <2>1, <2>2 DEF Founded
<1>5. ASSUME NEW d \in Calls
      PROVE  Kept(call'[d], policy, trusted', agreed')
  <2>1. CASE d # c
    <3>1. call'[d] = call[d]
      BY <1>1, <2>1 DEF Becomes, IInv, TypeOK
    <3>2. Kept(call[d], policy, trusted, agreed)
      BY DEF TInv
    <3>3. \A x : Agreed(x, agreed) => Agreed(x, agreed')
      BY <1>1 DEF Agreed
    <3> QED
      BY <1>1, <3>1, <3>2, <3>3 DEF Kept
  <2>2. CASE d = c
    <3>1. call'[c] = Enter(q, "asked")
      BY <1>1 DEF Becomes, IInv, TypeOK
    <3>2. call'[c].pc = "enabled" /\ call'[c].path = "asked"
      BY <1>1, <3>1 DEF Enter, CallRecords
    <3> QED
      BY <2>2, <3>2 DEF Kept
  <2> QED
    BY <2>1, <2>2
<1> QED
  BY <1>1, <1>4, <1>5 DEF TInv

\* What the key of a trusted scope covers, the person agreed to.
LEMMA ScopeKept ==
    ASSUME IInv, TInv, NEW c \in Calls, CheckScope(c)
    PROVE  TInv'
<1> DEFINE q == call[c]
           r == [q EXCEPT !.pc = "recheck"]
<1>1. q \in CallRecords /\ q.pc = "scope" /\ InBound(policy, q.arg)
  BY DEF IInv, TypeOK, CheckScope
<1>2. r.pc = "recheck" /\ r.path = q.path /\ r.arg = q.arg /\ r.calm = q.calm
  BY <1>1 DEF CallRecords
<1>3. ASSUME q.path = "trusted", q.calm
      PROVE  Agreed(q.arg, agreed)
  <2>1. Key(policy, q.arg) \in trusted
    BY <1>1, <1>3 DEF TInv, Kept
  <2>2. PICK g \in agreed : ~g.calm \/ Key(policy, q.arg) = KeyOf(g)
    BY <2>1 DEF TInv, Founded
  <2>3. CASE Key(policy, q.arg) = KeyOf(g)
    <3>1. /\ policy.bound = g.bound
          /\ (IF policy.bound = {} THEN {q.arg} ELSE {}) = (IF g.bound = {} THEN {g.value} ELSE {})
      BY <2>3 DEF Key, KeyOf
    <3>2. Covers(g, q.arg)
      BY <1>1, <3>1 DEF Covers, InBound
    <3> QED
      BY <3>2 DEF Agreed
  <2> QED
    BY <2>2, <2>3 DEF Agreed
<1>4. Kept(r, policy, trusted, agreed)
  BY <1>2, <1>3 DEF Kept
<1>5. Becomes(c, r) /\ UNCHANGED facts
  BY DEF CheckScope, Goto
<1> QED
  BY <1>4, <1>5, KeptStep

LEMMA RunKept ==
    ASSUME IInv, TInv, NEW c \in Calls, Recheck(c) \/ ReadRole(c) \/ ReadRevision(c)
    PROVE  TInv'
<1> DEFINE q == call[c]
<1>1. q \in CallRecords
  BY DEF IInv, TypeOK
<1>2. CASE Recheck(c)
  <2> DEFINE r == [q EXCEPT !.pc = "role"]
  <2>1. /\ r.pc = "role" /\ r.path = q.path /\ r.arg = q.arg /\ r.calm = q.calm
        /\ r.shown = q.shown
    BY <1>1 DEF CallRecords
  <2>2. q.pc = "recheck" /\ Becomes(c, r) /\ UNCHANGED facts
    BY <1>2 DEF Recheck, Goto
  <2> HIDE DEF r
  <2> QED
    BY <2>1, <2>2, KeptMove
<1>3. CASE ReadRole(c)
  <2>1. PICK S \in {{}} \union {{x} : x \in Answers} : Becomes(c, [q EXCEPT !.pc = "revision", !.role = S])
    BY <1>3 DEF ReadRole
  <2> DEFINE r == [q EXCEPT !.pc = "revision", !.role = S]
  <2>2. /\ r.pc = "revision" /\ r.path = q.path /\ r.arg = q.arg /\ r.calm = q.calm
        /\ r.shown = q.shown
    BY <1>1 DEF CallRecords
  <2>3. q.pc = "role" /\ Becomes(c, r) /\ UNCHANGED facts
    BY <1>3, <2>1 DEF ReadRole
  <2> HIDE DEF r
  <2> QED
    BY <2>2, <2>3, KeptMove
<1>4. CASE ReadRevision(c)
  <2>1. PICK S \in {{}, {policy}} : Becomes(c, [q EXCEPT !.pc = "ran", !.revision = S])
    BY <1>4 DEF ReadRevision
  <2> DEFINE r == [q EXCEPT !.pc = "ran", !.revision = S]
  <2>2. /\ r.pc = "ran" /\ r.path = q.path /\ r.arg = q.arg /\ r.calm = q.calm
        /\ r.shown = q.shown
    BY <1>1 DEF CallRecords
  <2>3. q.pc = "revision" /\ Becomes(c, r) /\ UNCHANGED facts
    BY <1>4, <2>1 DEF ReadRevision
  <2> HIDE DEF r
  <2> QED
    BY <2>2, <2>3, KeptMove
<1> QED
  BY <1>2, <1>3, <1>4

\* A publication ends the calm of whoever relies on the bound.
LEMMA ChangeKept ==
    ASSUME IInv, TInv,
           \/ \E v \in Policies : Publish(v)
           \/ \E x \in Roles : SetRole(x)
           \/ \E x \in Roles : Store(x)
           \/ Evict
    PROVE  TInv'
<1>1. CASE \E v \in Policies : Publish(v)
  <2>1. PICK v \in Policies : Publish(v)
    BY <1>1
  <2>2. policy' = v /\ trusted' = trusted /\ agreed' = agreed
    BY <2>1, Zenon DEF Publish
  <2>3. ASSUME NEW c \in Calls
        PROVE  Kept(call'[c], v, trusted, agreed)
    <3> DEFINE q == call[c]
               s == [q EXCEPT !.policies = IF InGates(q) THEN @ \union {v} ELSE @,
                              !.calm = @ /\ ~BoundInUse(q)]
    <3>1. q \in CallRecords /\ Kept(q, policy, trusted, agreed)
      BY DEF IInv, TypeOK, TInv
    <3>2. call'[c] = s
      BY <2>1 DEF Publish
    <3>3. /\ s.pc = q.pc /\ s.path = q.path /\ s.arg = q.arg
          /\ s.calm = (q.calm /\ ~BoundInUse(q))
      BY <3>1 DEF CallRecords
    <3>4. Kept(s, v, trusted, agreed)
      <4> HIDE DEF q, s
      <4> QED
        BY <3>1, <3>3 DEF Kept, BoundInUse
    <3> QED
      BY <3>2, <3>4
  <2> QED
    BY <2>2, <2>3 DEF TInv
<1>2. CASE \E x \in Roles : SetRole(x)
  <2>1. PICK x \in Roles : SetRole(x)
    BY <1>2
  <2>2. ASSUME NEW c \in Calls
        PROVE  Kept(call'[c], policy, trusted, agreed)
    <3> DEFINE q == call[c]
               s == [q EXCEPT !.roles = IF InGates(q) THEN @ \union {x} ELSE @]
    <3>1. q \in CallRecords /\ Kept(q, policy, trusted, agreed)
      BY DEF IInv, TypeOK, TInv
    <3>2. call'[c] = s
      BY <2>1 DEF SetRole
    <3>3. /\ s.pc = q.pc /\ s.path = q.path /\ s.arg = q.arg /\ s.calm = q.calm
          /\ s.shown = q.shown
      BY <3>1 DEF CallRecords
    <3>4. Kept(s, policy, trusted, agreed)
      <4> HIDE DEF q, s
      <4> QED
        BY <3>1, <3>3 DEF Kept
    <3> QED
      BY <3>2, <3>4
  <2>3. policy' = policy /\ trusted' = trusted /\ agreed' = agreed
    BY <2>1 DEF SetRole
  <2> QED
    BY <2>2, <2>3 DEF TInv
<1>3. CASE \E x \in Roles : Store(x)
  <2>1. PICK x \in Roles : Store(x)
    BY <1>3
  <2>2. ASSUME NEW c \in Calls
        PROVE  Kept(call'[c], policy, trusted, agreed)
    <3> DEFINE q == call[c]
               s == [q EXCEPT !.fresh = @ /\ (InGates(q) => x \in q.roles)]
    <3>1. q \in CallRecords /\ Kept(q, policy, trusted, agreed)
      BY DEF IInv, TypeOK, TInv
    <3>2. call'[c] = s
      BY <2>1 DEF Store
    <3>3. /\ s.pc = q.pc /\ s.path = q.path /\ s.arg = q.arg /\ s.calm = q.calm
          /\ s.shown = q.shown
      BY <3>1 DEF CallRecords
    <3>4. Kept(s, policy, trusted, agreed)
      <4> HIDE DEF q, s
      <4> QED
        BY <3>1, <3>3 DEF Kept
    <3> QED
      BY <3>2, <3>4
  <2>3. policy' = policy /\ trusted' = trusted /\ agreed' = agreed
    BY <2>1 DEF Store
  <2> QED
    BY <2>2, <2>3 DEF TInv
<1>4. CASE Evict
  BY <1>4 DEF Evict, TInv
<1> QED
  BY <1>1, <1>2, <1>3, <1>4

LEMMA TrustIsFounded == Spec => []TInv
<1>1. Init => TInv
  BY DEF Init, NoCall, TInv, Founded, Kept
<1>2. IInv /\ TInv /\ [Next]_vars => TInv'
  <2> SUFFICES ASSUME IInv, TInv, [Next]_vars PROVE TInv'
    OBVIOUS
  <2>1. ASSUME NEW c \in Calls, Step(c)
        PROVE  TInv'
    <3>1. CASE \E x \in Values : Begin(c, x)
      BY <3>1, BeginKept
    <3>2. CASE CheckEnabled(c) \/ CheckRoles(c) \/ CheckUser(c)
      BY <3>2, GateKept
    <3>3. CASE NotAllowed(c) \/ Decline(c) \/ NotCovered(c) \/ Fail(c)
      BY <3>3, RefuseKept DEF NotAllowed, Decline, NotCovered, Fail
    <3>4. CASE AskMode(c) \/ RunRead(c) \/ AskWhom(c) \/ Show(c) \/ ApproveForTurn(c) \/ Lapse(c)
      BY <3>4, DialogueKept
    <3>5. CASE Lookup(c) \/ Approve(c) \/ ApproveOffline(c) \/ ApproveAsSecond(c)
      BY <3>5, ApproveKept
    <3>6. CASE AddTrust(c)
      BY <3>6, AddTrustKept
    <3>7. CASE CheckScope(c)
      BY <3>7, ScopeKept
    <3>8. CASE Recheck(c) \/ ReadRole(c) \/ ReadRevision(c)
      BY <3>8, RunKept
    <3> QED
      BY <2>1, <3>1, <3>2, <3>3, <3>4, <3>5, <3>6, <3>7, <3>8 DEF Step
  <2>2. CASE UNCHANGED vars
    BY <2>2 DEF vars, facts, TInv
  <2> QED
    BY <2>1, <2>2, ChangeKept DEF Next, IInv, TypeOK
<1> QED
  BY <1>1, <1>2, Inductive, PTL DEF Spec

\* A call that runs without a question is covered by an earlier answer, unless a
\* policy was published between a question and the note of its answer, or between
\* the lookup of a scope and the check of the bound.
THEOREM TrustIsCovered == Spec => []TrustCoversWhenCalm
<1>1. TInv => TrustCoversWhenCalm
  BY DEF TInv, Kept, Agreed, TrustCoversWhenCalm
<1> QED
  BY <1>1, TrustIsFounded, PTL

=============================================================================
