------------------------- MODULE WriteClaim_proofs -------------------------
(***************************************************************************)
(* Proofs about the write claim, for any set of conversations, operations, *)
(* calls and administrators and any number of faults: its type, the        *)
(* inductive invariant, and the three safety properties that follow; and   *)
(* that a write happens once per key wherever nobody reopens its claim.    *)
(***************************************************************************)
EXTENDS WriteClaim, TLAPS

(***************************************************************************)
(* What the elementary updates do.                                         *)
(***************************************************************************)
LEMMA KeyOf ==
    ASSUME TypeOK, NEW a \in Attempts
    PROVE  key[a] \in Keys /\ OpOf(key[a]) \in Operations
  BY DEF TypeOK, Keys, OpOf

LEMMA Moves ==
    ASSUME TypeOK, NEW a \in Attempts, NEW p, Goto(a, p)
    PROVE  pc'[a] = p /\ \A b \in Attempts : b # a => pc'[b] = pc[b]
  BY DEF TypeOK, Goto

LEMMA WorkMoves ==
    ASSUME TypeOK, NEW a \in Attempts, NEW w, Behind(a, w)
    PROVE  work'[a] = w /\ \A b \in Attempts : b # a => work'[b] = work[b]
  BY DEF TypeOK, Behind

LEMMA TypeStep ==
    ASSUME TypeOK, [Next]_vars
    PROVE  TypeOK'
<1> USE DEF Statuses, Works
<1>1. ASSUME NEW a \in Attempts, Claiming(a)
      PROVE  TypeOK'
  <2>1. key[a] \in Keys
    BY DEF TypeOK
  <2>2. CASE Begin(a)
    BY <2>2 DEF Begin, Goto, TypeOK, claims, admins
  <2>3. CASE Insert(a)
    BY <2>1, <2>3 DEF Insert, StartWork, Goto, Behind, TypeOK, admins
  <2>4. CASE InsertConflicts(a)
    BY <2>4 DEF InsertConflicts, Goto, TypeOK, claims, admins
  <2>5. CASE Reread(a)
    BY <2>1, <2>5 DEF Reread, Goto, TypeOK, claims, admins
  <2>6. CASE Reclaim(a)
    BY <2>1, <2>6 DEF Reclaim, StartWork, Goto, Behind, TypeOK, admins
  <2>7. CASE ReclaimRefused(a)
    BY <2>7 DEF ReclaimRefused, Goto, TypeOK, claims, admins
  <2> QED
    BY <1>1, <2>2, <2>3, <2>4, <2>5, <2>6, <2>7 DEF Claiming
<1>2. ASSUME NEW a \in Attempts, Working(a)
      PROVE  TypeOK'
  <2>1. key[a] \in Keys
    BY DEF TypeOK
  <2>2. CASE Land(a)
    BY <2>1, <2>2 DEF Land, Background, Behind, TypeOK, claims, admins
  <2>3. CASE ProxyFails(a) \/ McpAnswers(a) \/ McpFails(a)
    BY <2>3 DEF ProxyFails, McpAnswers, McpFails, Background, Behind, TypeOK,
                claims, admins
  <2>4. CASE RegisterFails(a)
    BY <2>4, ClaimAssumption
       DEF RegisterFails, Fault, Background, Behind, TypeOK, claims, admins
  <2>5. ASSUME NEW threw \in BOOLEAN, ToolRefuses(a, threw)
        PROVE  TypeOK'
    BY <2>5 DEF ToolRefuses, Background, Behind, TypeOK, claims, admins
  <2>6. ASSUME NEW recorded \in BOOLEAN, Register(a, recorded)
        PROVE  TypeOK'
    BY <2>1, <2>6 DEF Register, Background, Behind, TypeOK, claims, admins
  <2> QED
    BY <1>2, <2>2, <2>3, <2>4, <2>5, <2>6 DEF Working
<1>3. ASSUME NEW a \in Attempts, Waiting(a)
      PROVE  TypeOK'
  <2>1. key[a] \in Keys
    BY DEF TypeOK
  <2>2. CASE Cancel(a)
    BY <2>2 DEF Cancel, Goto, TypeOK, claims, admins
  <2>3. CASE StopUnconfirmed(a)
    BY <2>3 DEF StopUnconfirmed, Goto, TypeOK, claims, admins
  <2>4. CASE Anchor(a)
    BY <2>1, <2>4 DEF Anchor, Goto, TypeOK, claims, admins
  <2>5. CASE McpGivesUp(a)
    BY <2>5, ClaimAssumption DEF McpGivesUp, Fault, Goto, TypeOK, claims, admins
  <2>6. CASE Settle(a)
    BY <2>1, <2>6 DEF Settle, SettleRow, Goto, TypeOK, admins
  <2>7. CASE Release(a)
    BY <2>1, <2>7 DEF Release, ReleaseRow, Goto, TypeOK, admins
  <2> QED
    BY <1>3, <2>2, <2>3, <2>4, <2>5, <2>6, <2>7 DEF Waiting
<1>7. ASSUME NEW a \in Attempts, Failing(a)
      PROVE  TypeOK'
  <2>1. key[a] \in Keys
    BY DEF TypeOK
  <2>2. ASSUME NEW applied \in BOOLEAN, InsertFails(a, applied)
        PROVE  TypeOK'
    BY <2>1, <2>2, ClaimAssumption DEF InsertFails, Fault, Goto, TypeOK, admins
  <2>3. ASSUME NEW applied \in BOOLEAN, ReclaimFails(a, applied)
        PROVE  TypeOK'
    BY <2>1, <2>3, ClaimAssumption DEF ReclaimFails, Fault, Goto, TypeOK, admins
  <2>4. ASSUME NEW applied \in BOOLEAN, SettleFails(a, applied)
        PROVE  TypeOK'
    BY <2>1, <2>4, ClaimAssumption
       DEF SettleFails, SettleRow, Fault, Goto, TypeOK, admins
  <2>5. ASSUME NEW applied \in BOOLEAN, ReleaseFails(a, applied)
        PROVE  TypeOK'
    BY <2>1, <2>5, ClaimAssumption
       DEF ReleaseFails, ReleaseRow, Fault, Goto, TypeOK, admins
  <2> QED
    BY <1>7, <2>2, <2>3, <2>4, <2>5 DEF Failing
<1>4. CASE Administering
  <2>1. ASSUME NEW k \in Keys, Age(k)
        PROVE  TypeOK'
    BY <2>1 DEF Age, TypeOK, admins
  <2>2. CASE SweepOverdue
    BY <2>2 DEF SweepOverdue, TypeOK, admins
  <2>3. ASSUME NEW x \in Admins, NEW k \in Keys, NEW todo \in {"close", "ask"},
               AdminReads(x, k, todo)
        PROVE  TypeOK'
    BY <2>3 DEF AdminReads, TypeOK, claims
  <2>4. ASSUME NEW x \in Admins, CloseUnknown(x)
        PROVE  TypeOK'
    BY <2>4 DEF CloseUnknown, AdminStep, TypeOK
  <2>5. ASSUME NEW x \in Admins, NEW answer \in {"idle", "executed", "not_executed"},
               AskTarget(x, answer)
        PROVE  TypeOK'
    BY <2>5 DEF AskTarget, AdminStep, TypeOK
  <2>6. ASSUME NEW x \in Admins, Reconcile(x)
        PROVE  TypeOK'
    BY <2>6 DEF Reconcile, AdminStep, SettleRow, ReleaseRow, TypeOK
  <2> QED
    BY <1>4, <2>1, <2>2, <2>3, <2>4, <2>5, <2>6 DEF Administering
<1>5. CASE Crash
  BY <1>5, ClaimAssumption DEF Crash, Fault, TypeOK, claims
<1>6. CASE UNCHANGED vars
  BY <1>6 DEF vars, claims, admins, TypeOK
<1> QED
  BY <1>1, <1>2, <1>3, <1>4, <1>5, <1>6, <1>7 DEF Next

\* Every variable keeps its shape in every reachable state.
THEOREM TypeCorrect == Spec => []TypeOK
<1>1. Init => TypeOK
  BY ClaimAssumption DEF Init, TypeOK, Statuses, Works
<1>2. TypeOK /\ [Next]_vars => TypeOK'
  BY TypeStep
<1> QED
  BY <1>1, <1>2, PTL DEF Spec

(***************************************************************************)
(* The inductive invariant.  Most steps move one call or its work and leave *)
(* the rows alone; the steps that take a row or give it up are the ones    *)
(* where the operation lease and the rule of one holder matter.            *)
(***************************************************************************)

\* A step of one call that touches no claim row and no target.
LEMMA QuietStep ==
    ASSUME IInv, TypeOK', NEW a \in Attempts,
           UNCHANGED <<status, landed, key, act, on>>,
           \A b \in Attempts : b # a => pc'[b] = pc[b] /\ work'[b] = work[b],
           Holding(a)' => Holding(a),
           HoldersFitTheirRow!(a)', StepsFitTheirWork!(a)',
           \A k \in ledger' : landed[k] # {}
    PROVE  IInv'
<1> USE DEF IInv
<1>1. OneClaimPerOperation' /\ ExternalClaimsStay' /\ AtMostOnceExternal'
  BY DEF OneClaimPerOperation, ExternalClaimsStay, AtMostOnceExternal
<1>2. \A b \in Attempts : Holding(b)' => Holding(b)
  BY DEF Holding, InFlight
<1>3. OneHolder'
  BY <1>2 DEF OneHolder, Is
<1>4. HoldersFitTheirRow'
  BY DEF HoldersFitTheirRow, Holding, InFlight, Is
<1>5. StepsFitTheirWork'
  BY DEF StepsFitTheirWork, InFlight, Is
<1>6. AdminsFitTheirRow' /\ ReplaysAreReal'
  BY DEF AdminsFitTheirRow, ReplaysAreReal
<1> QED
  BY <1>1, <1>3, <1>4, <1>5, <1>6

\* A step that takes a free row under the lease.
LEMMA TakingStep ==
    ASSUME IInv, TypeOK', NEW a \in Attempts,
           status[key[a]] \in {"none", "released"}, ~LeaseTaken(key[a]),
           status' = [status EXCEPT ![key[a]] = "claimed"],
           UNCHANGED <<landed, ledger, key, act, on>>,
           \A b \in Attempts : b # a => pc'[b] = pc[b] /\ work'[b] = work[b],
           pc[a] \in {"insert", "reclaim"},
           \/ pc'[a] = "await" /\ work'[a] = "running"
           \/ pc'[a] \in {"over", "reread"} /\ work'[a] = work[a]
           \/ pc'[a] = "stopping" /\ work'[a] = work[a] /\ Is(a, Stoppable)
    PROVE  IInv'
<1> DEFINE k == key[a]
<1> USE DEF IInv
<1>1. k \in Keys /\ OpOf(k) \in Operations
  BY KeyOf
<1>2. status'[k] = "claimed" /\ \A j \in Keys : j # k => status'[j] = status[j]
  BY <1>1 DEF TypeOK
<1>3. \A b \in Attempts : key[b] \in Keys /\ key'[b] = key[b]
  BY DEF TypeOK
<1>4. work[a] = "none" /\ ~Holding(a)
  BY DEF StepsFitTheirWork, Holding, InFlight
<1>5. \A b \in Attempts : b # a => (Holding(b)' <=> Holding(b))
  BY DEF Holding, InFlight
<1>6. \A b \in Attempts : Holding(b) /\ ~Is(b, MayReopen) => key[b] # k
  BY DEF HoldersFitTheirRow
<1>7. OneClaimPerOperation'
  <2> SUFFICES ASSUME NEW i \in Keys, NEW j \in Keys,
                      status'[i] = "claimed", status'[j] = "claimed",
                      OpOf(i) = OpOf(j)
               PROVE  i = j
    BY DEF OneClaimPerOperation
  <2> QED
    BY <1>2 DEF OneClaimPerOperation, LeaseTaken
<1>8. OneHolder'
  BY <1>3, <1>5, <1>6 DEF OneHolder, Is
<1>9. HoldersFitTheirRow'
  <2> SUFFICES ASSUME NEW b \in Attempts, Holding(b)', ~Is(b, MayReopen)'
               PROVE  /\ status'[key[b]] \in {"claimed", "settled"}
                      /\ status'[key[b]] = "settled" => pc'[b] = "release" /\ ~InFlight(b)'
    BY <1>3 DEF HoldersFitTheirRow
  <2>1. CASE b = a
    BY <1>2, <2>1
  <2>2. CASE b # a
    BY <1>2, <1>3, <1>5, <1>6, <2>2 DEF HoldersFitTheirRow, Is, InFlight
  <2> QED
    BY <2>1, <2>2
<1>10. StepsFitTheirWork'
  <2> SUFFICES ASSUME NEW b \in Attempts
               PROVE  StepsFitTheirWork!(b)'
    BY DEF StepsFitTheirWork
  <2>1. CASE b # a
    BY <1>3, <2>1 DEF StepsFitTheirWork, InFlight, Is
  <2>2. CASE b = a
    <3>1. Is(a, Mcp) => landed[k] = {}
      BY <1>1 DEF ExternalClaimsStay, Is
    <3>2. Is(a, Stoppable) => ~Is(a, Mcp)
      BY ClaimAssumption DEF Is
    <3> QED
      BY <1>3, <1>4, <2>2, <3>1, <3>2 DEF Is, InFlight
  <2> QED
    BY <2>1, <2>2
<1>11. ExternalClaimsStay'
  BY <1>2 DEF ExternalClaimsStay
<1>12. AdminsFitTheirRow' /\ AtMostOnceExternal' /\ ReplaysAreReal'
  BY DEF AdminsFitTheirRow, AtMostOnceExternal, ReplaysAreReal
<1> QED
  BY <1>7, <1>8, <1>9, <1>10, <1>11, <1>12

\* A step of the holder that gives its row up, or finds it given up.
LEMMA LeavingStep ==
    ASSUME IInv, TypeOK', NEW a \in Attempts,
           Holding(a), ~InFlight(a),
           NEW s \in {"claimed", "settled", "released"},
           s = "released" => ~Is(a, Mcp),
           status' = [status EXCEPT ![key[a]] = IF @ = "claimed" THEN s ELSE @],
           UNCHANGED <<landed, ledger, key, act, on, work>>,
           \A b \in Attempts : b # a => pc'[b] = pc[b],
           \/ pc'[a] = "over"
           \/ /\ pc'[a] = "release" /\ ~Is(a, Mcp)
              /\ s = "released" => Is(a, MayReopen)
    PROVE  IInv'
<1> DEFINE k == key[a]
<1> USE DEF IInv
<1>1. k \in Keys /\ OpOf(k) \in Operations
  BY KeyOf
<1>2. /\ status[k] = "claimed" => status'[k] = s
      /\ status[k] # "claimed" => status'[k] = status[k]
      /\ \A j \in Keys : j # k => status'[j] = status[j]
  BY <1>1 DEF TypeOK
<1>3. \A b \in Attempts : key[b] \in Keys /\ key'[b] = key[b]
  BY DEF TypeOK
<1>4. \A b \in Attempts : Holding(b)' => Holding(b)
  BY DEF Holding, InFlight
<1>5. ~InFlight(a)' /\ \A b \in Attempts : InFlight(b)' <=> InFlight(b)
  BY DEF InFlight
<1>6. OneClaimPerOperation'
  <2>1. \A j \in Keys : status'[j] = "claimed" => status[j] = "claimed"
    BY <1>1, <1>2
  <2> QED
    BY <2>1 DEF OneClaimPerOperation
<1>7. OneHolder'
  BY <1>3, <1>4 DEF OneHolder, Is
<1>8. HoldersFitTheirRow'
  <2> SUFFICES ASSUME NEW b \in Attempts, Holding(b)', ~Is(b, MayReopen)'
               PROVE  /\ status'[key[b]] \in {"claimed", "settled"}
                      /\ status'[key[b]] = "settled" => pc'[b] = "release" /\ ~InFlight(b)'
    BY <1>3 DEF HoldersFitTheirRow
  <2>1. Holding(b) /\ ~Is(b, MayReopen)
    BY <1>3, <1>4 DEF Is
  <2>2. CASE b = a
    <3>1. pc'[a] # "over"
      BY <1>5, <2>2 DEF Holding
    <3> QED
      BY <1>2, <1>5, <2>1, <2>2, <3>1 DEF HoldersFitTheirRow
  <2>3. CASE b # a
    <3>1. key[b] # k
      BY <2>1, <2>3, <1>3 DEF OneHolder, Is
    <3> QED
      BY <1>2, <1>3, <1>5, <2>1, <2>3, <3>1 DEF HoldersFitTheirRow
  <2> QED
    BY <2>2, <2>3
<1>9. StepsFitTheirWork'
  <2> SUFFICES ASSUME NEW b \in Attempts
               PROVE  StepsFitTheirWork!(b)'
    BY DEF StepsFitTheirWork
  <2>1. CASE b # a
    BY <1>3, <2>1 DEF StepsFitTheirWork, InFlight, Is
  <2>2. CASE b = a
    BY <1>3, <1>5, <2>2 DEF StepsFitTheirWork, InFlight, Is
  <2> QED
    BY <2>1, <2>2
<1>10. ExternalClaimsStay'
  BY <1>1, <1>2 DEF ExternalClaimsStay, Is
<1>11. AdminsFitTheirRow' /\ AtMostOnceExternal' /\ ReplaysAreReal'
  BY DEF AdminsFitTheirRow, AtMostOnceExternal, ReplaysAreReal
<1> QED
  BY <1>6, <1>7, <1>8, <1>9, <1>10, <1>11

(***************************************************************************)
(* Every step keeps the invariant: claiming, working, waiting, and the     *)
(* administrators and the crash.                                           *)
(***************************************************************************)
LEMMA ClaimingKeeps ==
    ASSUME IInv, TypeOK', NEW a \in Attempts, Claiming(a)
    PROVE  IInv'
<1>1. TypeOK /\ StepsFitTheirWork!(a)
  BY DEF IInv, StepsFitTheirWork
<1>2. ~Holding(a) \/ pc[a] \notin {"idle", "insert", "reread", "reclaim"}
  BY <1>1 DEF Holding, InFlight
<1>3. \A k \in ledger : landed[k] # {}
  BY DEF IInv, ReplaysAreReal
<1>4. CASE Begin(a) \/ InsertConflicts(a) \/ Reread(a) \/ ReclaimRefused(a)
  <2>1. /\ UNCHANGED <<status, landed, key, act, on, work, ledger>>
        /\ \E p \in {"over", "insert", "reread", "reclaim"} : Goto(a, p)
        /\ pc[a] \in {"idle", "insert", "reread", "reclaim"}
    BY <1>4 DEF Begin, InsertConflicts, Reread, ReclaimRefused, claims, admins, Goto
  <2>2. PICK p \in {"over", "insert", "reread", "reclaim"} : Goto(a, p)
    BY <2>1
  <2>3. pc'[a] = p /\ \A b \in Attempts : b # a => pc'[b] = pc[b]
    BY <1>1, <2>2, Moves
  <2>4. ~Holding(a)'
    BY <1>2, <2>1, <2>3 DEF Holding, InFlight
  <2>5. StepsFitTheirWork!(a)'
    BY <1>1, <2>1, <2>3 DEF InFlight, Is
  <2> QED
    BY <1>3, <2>1, <2>3, <2>4, <2>5, QuietStep
<1>5. CASE Insert(a)
  <2>1. /\ UNCHANGED <<landed, ledger, key, act, on>>
        /\ status' = [status EXCEPT ![key[a]] = "claimed"]
        /\ pc[a] = "insert" /\ status[key[a]] = "none" /\ ~LeaseTaken(key[a])
        /\ StartWork(a)
    BY <1>5 DEF Insert, admins
  <2>2. /\ \A b \in Attempts : b # a => pc'[b] = pc[b] /\ work'[b] = work[b]
        /\ \/ pc'[a] = "await" /\ work'[a] = "running"
           \/ pc'[a] = "over" /\ work'[a] = work[a]
           \/ pc'[a] = "stopping" /\ work'[a] = work[a] /\ Is(a, Stoppable)
    BY <1>1, <2>1 DEF StartWork, Goto, Behind, TypeOK
  <2> QED
    BY <2>1, <2>2, TakingStep
<1>6. CASE Reclaim(a)
  <2>1. /\ UNCHANGED <<landed, ledger, key, act, on>>
        /\ status' = [status EXCEPT ![key[a]] = "claimed"]
        /\ pc[a] = "reclaim" /\ status[key[a]] = "released" /\ ~LeaseTaken(key[a])
        /\ StartWork(a)
    BY <1>6 DEF Reclaim, admins
  <2>2. /\ \A b \in Attempts : b # a => pc'[b] = pc[b] /\ work'[b] = work[b]
        /\ \/ pc'[a] = "await" /\ work'[a] = "running"
           \/ pc'[a] = "over" /\ work'[a] = work[a]
           \/ pc'[a] = "stopping" /\ work'[a] = work[a] /\ Is(a, Stoppable)
    BY <1>1, <2>1 DEF StartWork, Goto, Behind, TypeOK
  <2> QED
    BY <2>1, <2>2, TakingStep
<1> QED
  BY <1>4, <1>5, <1>6 DEF Claiming

LEMMA WorkingKeeps ==
    ASSUME IInv, TypeOK', NEW a \in Attempts, Working(a)
    PROVE  IInv'
<1>1. /\ TypeOK /\ StepsFitTheirWork!(a) /\ HoldersFitTheirRow!(a)
      /\ key[a] \in Keys /\ OpOf(key[a]) \in Operations
  BY KeyOf DEF IInv, StepsFitTheirWork, HoldersFitTheirRow
<1>2. \A k \in ledger : landed[k] # {}
  BY DEF IInv, ReplaysAreReal
<1>3. CASE Land(a)
  <2> DEFINE k == key[a]
             w == IF work[a] = "sent" THEN "none" ELSE "landed"
  <2>1. /\ UNCHANGED <<status, ledger, key, pc, act, on>>
        /\ landed' = [landed EXCEPT ![k] = @ \union {a}]
        /\ work[a] \in {"running", "sent"} /\ Behind(a, w)
    BY <1>3 DEF Land, Background, claims, admins
  <2>2. work'[a] = w /\ \A b \in Attempts : b # a => work'[b] = work[b]
    BY <1>1, <2>1, WorkMoves
  <2>3. /\ landed'[k] = landed[k] \union {a}
        /\ \A j \in Keys : j # k => landed'[j] = landed[j]
    BY <1>1, <2>1 DEF TypeOK
  <2>4. InFlight(a) /\ Holding(a)
    BY <2>1 DEF InFlight, Holding
  <2>5. \A b \in Attempts : Holding(b)' => Holding(b)
    BY <2>1, <2>2, <2>4 DEF Holding, InFlight
  <2>6. \A b \in Attempts : key[b] \in Keys
    BY <1>1 DEF TypeOK
  <2>7. OneHolder'
    BY <2>1, <2>5 DEF IInv, OneHolder, Is
  <2>8. HoldersFitTheirRow'
    BY <2>1, <2>2, <2>4, <2>5 DEF IInv, HoldersFitTheirRow, InFlight, Is
  <2>9. StepsFitTheirWork'
    <3> SUFFICES ASSUME NEW b \in Attempts
                 PROVE  StepsFitTheirWork!(b)'
      BY DEF StepsFitTheirWork
    <3>1. CASE b = a
      BY <1>1, <2>1, <2>2, <2>3, <3>1 DEF InFlight, Is
    <3>2. CASE b # a
      <4>1. work[b] \in {"running", "sent"} /\ Is(b, Mcp) => key[b] # k
        <5> SUFFICES ASSUME work[b] \in {"running", "sent"}, Is(b, Mcp)
                     PROVE  key[b] # k
          OBVIOUS
        <5>1. Holding(b) /\ ~Is(b, MayReopen)
          BY ClaimAssumption DEF Holding, InFlight, Is, MayReopen
        <5> QED
          BY <2>4, <3>2, <5>1 DEF IInv, OneHolder, Is
      <4>2. StepsFitTheirWork!(b)
        BY DEF IInv, StepsFitTheirWork
      <4> QED
        BY <2>1, <2>2, <2>3, <2>6, <3>2, <4>1, <4>2 DEF InFlight, Is
    <3> QED
      BY <3>1, <3>2
  <2>10. OpOf(k) \in Mcp => landed[k] = {} /\ status[k] = "claimed"
    <3> SUFFICES ASSUME OpOf(k) \in Mcp
                 PROVE  landed[k] = {} /\ status[k] = "claimed"
      OBVIOUS
    <3>1. Is(a, Mcp) /\ ~Is(a, MayReopen)
      BY ClaimAssumption DEF Is, MayReopen
    <3> QED
      BY <1>1, <2>1, <2>4, <3>1
  <2>11. AtMostOnceExternal'
    BY <2>3, <2>10 DEF IInv, AtMostOnceExternal
  <2>12. ExternalClaimsStay'
    BY <2>1, <2>3, <2>10 DEF IInv, ExternalClaimsStay
  <2>13. ReplaysAreReal'
    <3>1. ledger \subseteq Keys
      BY <1>1 DEF TypeOK
    <3> QED
      BY <1>2, <2>1, <2>3, <3>1 DEF ReplaysAreReal
  <2>14. OneClaimPerOperation' /\ AdminsFitTheirRow'
    BY <2>1 DEF IInv, OneClaimPerOperation, AdminsFitTheirRow
  <2> QED
    BY <2>7, <2>8, <2>9, <2>11, <2>12, <2>13, <2>14 DEF IInv
<1>4. ASSUME NEW w \in {"done", "refused", "failed", "threw"}, Behind(a, w),
             UNCHANGED <<status, landed, key, pc, act, on>>,
             work[a] \in {"running", "landed"},
             w = "threw" => ~Is(a, Mcp),
             w = "done" /\ Is(a, Mcp) => work[a] = "landed",
             \A k \in ledger' : landed[k] # {}
      PROVE  IInv'
  <2>1. work'[a] = w /\ \A b \in Attempts : b # a => work'[b] = work[b]
    BY <1>1, <1>4, WorkMoves
  <2>2. InFlight(a) /\ Holding(a) /\ ~InFlight(a)'
    BY <1>4, <2>1 DEF InFlight, Holding
  <2>3. HoldersFitTheirRow!(a)'
    BY <1>1, <1>4, <2>2 DEF Is
  <2>4. StepsFitTheirWork!(a)'
    BY <1>1, <1>4, <2>1, <2>2 DEF Is, InFlight
  <2> QED
    BY <1>4, <2>1, <2>2, <2>3, <2>4, QuietStep
<1>5. CASE ProxyFails(a) \/ McpAnswers(a) \/ McpFails(a)
  <2>1. Is(a, Proxy) => ~Is(a, Mcp)
    BY ClaimAssumption DEF Is
  <2> QED
    BY <1>2, <1>4, <1>5, <2>1
       DEF ProxyFails, McpAnswers, McpFails, Background, claims, admins
<1>6. Is(a, Local \union Proxy) \/ Is(a, Local) => ~Is(a, Mcp)
  BY ClaimAssumption DEF Is
<1>7. CASE RegisterFails(a)
  BY <1>2, <1>4, <1>6, <1>7 DEF RegisterFails, Background, claims, admins
<1>8. ASSUME NEW threw \in BOOLEAN, ToolRefuses(a, threw)
      PROVE  IInv'
  <2>1. PICK w \in {"refused", "threw"} : Behind(a, w)
    BY <1>8 DEF ToolRefuses, Background
  <2> QED
    BY <1>2, <1>4, <1>6, <1>8, <2>1 DEF ToolRefuses, Background, claims, admins
<1>9. ASSUME NEW recorded \in BOOLEAN, Register(a, recorded)
      PROVE  IInv'
  <2>1. a \in landed[key[a]]
    BY <1>1, <1>9 DEF Register
  <2>2. \A k \in ledger' : landed[k] # {}
    BY <1>2, <1>9, <2>1 DEF Register
  <2> QED
    BY <1>4, <1>6, <1>9, <2>2 DEF Register, Background, claims, admins
<1> QED
  BY <1>3, <1>5, <1>7, <1>8, <1>9 DEF Working

\* A call that settles or releases holds a row that nothing works for any more.
LEMMA Letting ==
    ASSUME TypeOK, StepsFitTheirWork, NEW a \in Attempts
    PROVE  /\ Settling(a) \/ Releasing(a) => Holding(a) /\ ~InFlight(a)
           /\ Releasing(a) => ~Is(a, Mcp)
<1>1. StepsFitTheirWork!(a) /\ key[a] \in Keys
  BY DEF StepsFitTheirWork, TypeOK
<1>2. Is(a, Stoppable) => ~Is(a, Mcp)
  BY ClaimAssumption DEF Is
<1> QED
  BY <1>1, <1>2 DEF Settling, Releasing, Holding, InFlight

\* What the statements on a row do, a statement that did not arrive included.
LEMMA RowSteps ==
    ASSUME TypeOK, NEW k \in Keys
    PROVE  /\ SettleRow(k) =>
                status' = [status EXCEPT ![k] = IF @ = "claimed" THEN "settled" ELSE @]
           /\ ReleaseRow(k) =>
                status' = [status EXCEPT ![k] = IF @ = "claimed" THEN "released" ELSE @]
           /\ status' = status =>
                status' = [status EXCEPT ![k] = IF @ = "claimed" THEN "claimed" ELSE @]
<1>1. status \in [Keys -> Statuses]
  BY DEF TypeOK
<1> QED
  BY <1>1 DEF SettleRow, ReleaseRow

LEMMA WaitingKeeps ==
    ASSUME IInv, TypeOK', NEW a \in Attempts, Waiting(a)
    PROVE  IInv'
<1>1. /\ TypeOK /\ StepsFitTheirWork!(a) /\ HoldersFitTheirRow!(a)
      /\ key[a] \in Keys /\ OpOf(key[a]) \in Operations
  BY KeyOf DEF IInv, StepsFitTheirWork, HoldersFitTheirRow
<1>2. \A k \in ledger : landed[k] # {}
  BY DEF IInv, ReplaysAreReal
<1>3. /\ Is(a, Stoppable) \/ Is(a, Local \union Proxy) => ~Is(a, Mcp)
      /\ Is(a, Mcp) => ~Is(a, MayReopen)
      /\ Is(a, Local \union Proxy) \/ Is(a, Mcp)
  BY <1>1, ClaimAssumption DEF Is, Operations, MayReopen
<1>4. ASSUME NEW p \in {"over", "stopping", "settle"}, Goto(a, p),
             UNCHANGED <<status, landed, key, work, act, on>>,
             pc[a] \in {"await", "stopping", "release"},
             p = "stopping" => Is(a, Stoppable) /\ InFlight(a),
             p = "settle" => Is(a, Mcp) /\ ~InFlight(a) /\ pc[a] = "await",
             \A k \in ledger' : landed[k] # {}
      PROVE  IInv'
  <2>1. pc'[a] = p /\ \A b \in Attempts : b # a => pc'[b] = pc[b]
    BY <1>1, <1>4, Moves
  <2>2. Holding(a) /\ (InFlight(a)' <=> InFlight(a))
    BY <1>4 DEF InFlight, Holding
  <2>3. HoldersFitTheirRow!(a)'
    <3>1. SUFFICES ASSUME Holding(a)', ~Is(a, MayReopen)
                   PROVE  status[key[a]] = "claimed"
      BY <1>1, <1>4, <2>2 DEF Is
    <3>2. InFlight(a) \/ pc[a] # "release"
      BY <1>4, <2>1, <3>1 DEF Holding, InFlight
    <3> QED
      BY <1>1, <2>2, <3>1, <3>2
  <2>4. StepsFitTheirWork!(a)'
    BY <1>1, <1>4, <2>1, <2>2 DEF Is
  <2> QED
    BY <1>4, <2>1, <2>2, <2>3, <2>4, QuietStep
<1>5. CASE Cancel(a) \/ StopUnconfirmed(a)
  <2>1. InFlight(a)
    BY <1>5 DEF Cancel, StopUnconfirmed, InFlight
  <2> QED
    BY <1>2, <1>4, <1>5, <2>1 DEF Cancel, StopUnconfirmed, claims, admins
<1>6. CASE Anchor(a)
  <2>1. a \in landed[key[a]] /\ ~InFlight(a)
    BY <1>1, <1>6 DEF Anchor, InFlight
  <2>2. \A k \in ledger' : landed[k] # {}
    BY <1>2, <1>6, <2>1 DEF Anchor
  <2> QED
    BY <1>4, <1>6, <2>1, <2>2 DEF Anchor, claims, admins
<1>7. CASE McpGivesUp(a)
  BY <1>2, <1>4, <1>7 DEF McpGivesUp, claims, admins
<1>8. Settling(a) \/ Releasing(a) => Holding(a) /\ ~InFlight(a)
  BY Letting DEF IInv
<1>9. Releasing(a) => ~Is(a, Mcp)
  BY Letting DEF IInv
<1>10. CASE Settle(a)
  <2>1. /\ UNCHANGED <<landed, ledger, key, act, on, work>>
        /\ Settling(a) /\ SettleRow(key[a]) /\ Goto(a, "over")
    BY <1>10 DEF Settle, admins
  <2>2. pc'[a] = "over" /\ \A b \in Attempts : b # a => pc'[b] = pc[b]
    BY <1>1, <2>1, Moves
  <2> QED
    BY <1>1, <1>8, RowSteps, <2>1, <2>2, LeavingStep
<1>11. CASE Release(a)
  <2>1. /\ UNCHANGED <<landed, ledger, key, act, on, work>>
        /\ Releasing(a) /\ ReleaseRow(key[a]) /\ Goto(a, "over")
    BY <1>11 DEF Release, admins
  <2>2. pc'[a] = "over" /\ \A b \in Attempts : b # a => pc'[b] = pc[b]
    BY <1>1, <2>1, Moves
  <2> QED
    BY <1>1, <1>8, <1>9, RowSteps, <2>1, <2>2, LeavingStep
<1> QED
  BY <1>5, <1>6, <1>7, <1>10, <1>11 DEF Waiting

\* A failed statement has taken or given up the row, or has done nothing.
LEMMA FailingKeeps ==
    ASSUME IInv, TypeOK', NEW a \in Attempts, Failing(a)
    PROVE  IInv'
<1>1. /\ TypeOK /\ StepsFitTheirWork!(a)
      /\ key[a] \in Keys
  BY KeyOf DEF IInv, StepsFitTheirWork
<1>2. \A k \in ledger : landed[k] # {}
  BY DEF IInv, ReplaysAreReal
<1>3. /\ Settling(a) \/ Releasing(a) => Holding(a) /\ ~InFlight(a)
      /\ Releasing(a) => ~Is(a, Mcp)
  BY Letting DEF IInv
<1>4. ASSUME NEW applied \in BOOLEAN,
             InsertFails(a, applied) \/ ReclaimFails(a, applied)
      PROVE  IInv'
  <2>1. /\ UNCHANGED <<landed, ledger, key, act, on, work>>
        /\ pc[a] \in {"insert", "reclaim"} /\ \E p \in {"reread", "over"} : Goto(a, p)
        /\ applied => /\ status[key[a]] \in {"none", "released"} /\ ~LeaseTaken(key[a])
                      /\ status' = [status EXCEPT ![key[a]] = "claimed"]
        /\ ~applied => status' = status
    BY <1>4 DEF InsertFails, ReclaimFails, admins
  <2>2. PICK p \in {"reread", "over"} : Goto(a, p)
    BY <2>1
  <2>3. pc'[a] = p /\ \A b \in Attempts : b # a => pc'[b] = pc[b]
    BY <1>1, <2>2, Moves
  <2>4. CASE applied
    BY <2>1, <2>3, <2>4, TakingStep
  <2>5. CASE ~applied
    <3>1. ~Holding(a) /\ ~Holding(a)'
      BY <1>1, <2>1, <2>3 DEF Holding, InFlight
    <3>2. StepsFitTheirWork!(a)'
      BY <1>1, <2>1, <2>3 DEF InFlight, Is
    <3> QED
      BY <1>2, <2>1, <2>3, <2>5, <3>1, <3>2, QuietStep
  <2> QED
    BY <2>4, <2>5
<1>5. ASSUME NEW applied \in BOOLEAN, SettleFails(a, applied)
      PROVE  IInv'
  <2>1. /\ UNCHANGED <<landed, ledger, key, act, on, work>>
        /\ Settling(a)
        /\ Goto(a, IF Is(a, Mcp) THEN "over" ELSE "release")
        /\ applied => SettleRow(key[a])
        /\ ~applied => status' = status
    BY <1>5 DEF SettleFails, admins
  <2>2. /\ pc'[a] = "over" \/ (pc'[a] = "release" /\ ~Is(a, Mcp))
        /\ \A b \in Attempts : b # a => pc'[b] = pc[b]
    BY <1>1, <2>1, Moves
  <2>3. CASE applied
    BY <1>1, <1>3, RowSteps, <2>1, <2>2, <2>3, LeavingStep
  <2>4. CASE ~applied
    BY <1>1, <1>3, RowSteps, <2>1, <2>2, <2>4, LeavingStep
  <2> QED
    BY <2>3, <2>4
<1>6. ASSUME NEW applied \in BOOLEAN, ReleaseFails(a, applied)
      PROVE  IInv'
  <2>1. /\ UNCHANGED <<landed, ledger, key, act, on, work>>
        /\ Releasing(a)
        /\ Goto(a, IF pc[a] = "stopping" THEN "release" ELSE "over")
        /\ applied => ReleaseRow(key[a])
        /\ ~applied => status' = status
    BY <1>6 DEF ReleaseFails, admins
  <2>2. pc[a] = "stopping" => Is(a, MayReopen)
    BY <1>1 DEF Is, MayReopen
  <2>3. /\ pc'[a] = "over" \/ (pc'[a] = "release" /\ Is(a, MayReopen))
        /\ \A b \in Attempts : b # a => pc'[b] = pc[b]
    BY <1>1, <2>1, <2>2, Moves
  <2>4. CASE applied
    BY <1>1, <1>3, RowSteps, <2>1, <2>3, <2>4, LeavingStep
  <2>5. CASE ~applied
    BY <1>1, <1>3, RowSteps, <2>1, <2>3, <2>5, LeavingStep
  <2> QED
    BY <2>4, <2>5
<1> QED
  BY <1>4, <1>5, <1>6 DEF Failing

\* Administrators move only claims of proxy operations.
LEMMA AdministeringKeeps ==
    ASSUME IInv, TypeOK', Administering
    PROVE  IInv'
<1>1. ASSUME UNCHANGED <<status, landed, ledger, key, pc, work>>, AdminsFitTheirRow'
      PROVE  IInv'
  BY <1>1 DEF IInv, OneClaimPerOperation, OneHolder, HoldersFitTheirRow,
              StepsFitTheirWork, ExternalClaimsStay, AtMostOnceExternal,
              ReplaysAreReal, Holding, InFlight, Is
<1>2. TypeOK /\ AdminsFitTheirRow
  BY DEF IInv
<1>3. ASSUME NEW k \in Keys, Age(k)
      PROVE  IInv'
  BY <1>1, <1>2, <1>3 DEF Age, admins, AdminsFitTheirRow
<1>4. CASE SweepOverdue
  BY <1>1, <1>2, <1>4 DEF SweepOverdue, admins, AdminsFitTheirRow
<1>5. ASSUME NEW x \in Admins, NEW k \in Keys, NEW todo \in {"close", "ask"},
             AdminReads(x, k, todo)
      PROVE  IInv'
  <2>1. AdminsFitTheirRow'
    BY <1>2, <1>5 DEF AdminReads, AdminsFitTheirRow, TypeOK
  <2> QED
    BY <1>1, <1>5, <2>1 DEF AdminReads, claims
<1>6. ASSUME NEW x \in Admins, CloseUnknown(x)
      PROVE  IInv'
  <2>1. AdminsFitTheirRow'
    BY <1>2, <1>6 DEF CloseUnknown, AdminStep, AdminsFitTheirRow, TypeOK
  <2> QED
    BY <1>1, <1>6, <2>1 DEF CloseUnknown, AdminStep
<1>7. ASSUME NEW x \in Admins, NEW answer \in {"idle", "executed", "not_executed"},
             AskTarget(x, answer)
      PROVE  IInv'
  <2>1. AdminsFitTheirRow'
    BY <1>2, <1>7 DEF AskTarget, AdminStep, AdminsFitTheirRow, TypeOK
  <2> QED
    BY <1>1, <1>7, <2>1 DEF AskTarget, AdminStep
<1>8. ASSUME NEW x \in Admins, Reconcile(x)
      PROVE  IInv'
  <2> DEFINE k == on[x]
  <2>1. /\ UNCHANGED <<landed, ledger, key, pc, work, on>>
        /\ act' = [act EXCEPT ![x] = "idle"]
        /\ act[x] \in {"executed", "not_executed"}
        /\ SettleRow(k) \/ ReleaseRow(k)
    BY <1>8 DEF Reconcile, AdminStep
  <2>2. k \in Keys /\ OpOf(k) \in Proxy /\ OpOf(k) \notin Mcp
    BY <1>2, <2>1, ClaimAssumption DEF TypeOK, AdminsFitTheirRow
  <2>3. /\ status[k] # "claimed" => status'[k] = status[k]
        /\ status'[k] = "claimed" => status[k] = "claimed"
        /\ \A j \in Keys : j # k => status'[j] = status[j]
    BY <1>2, <2>1, <2>2 DEF SettleRow, ReleaseRow, TypeOK
  <2>4. \A b \in Attempts : key[b] \in Keys /\ (~Is(b, MayReopen) => key[b] # k)
    BY <1>2, <2>2 DEF TypeOK, Is, MayReopen
  <2>5. OneClaimPerOperation'
    <3>1. \A j \in Keys : status'[j] = "claimed" => status[j] = "claimed"
      BY <2>3
    <3> QED
      BY <3>1 DEF IInv, OneClaimPerOperation
  <2>6. OneHolder' /\ StepsFitTheirWork' /\ AtMostOnceExternal' /\ ReplaysAreReal'
    BY <2>1 DEF IInv, OneHolder, StepsFitTheirWork, AtMostOnceExternal,
                ReplaysAreReal, Holding, InFlight, Is
  <2>7. HoldersFitTheirRow'
    BY <2>1, <2>3, <2>4 DEF IInv, HoldersFitTheirRow, Holding, InFlight, Is
  <2>8. ExternalClaimsStay'
    BY <2>1, <2>2, <2>3 DEF IInv, ExternalClaimsStay
  <2>9. AdminsFitTheirRow'
    BY <1>2, <2>1 DEF AdminsFitTheirRow, TypeOK
  <2> QED
    BY <2>5, <2>6, <2>7, <2>8, <2>9 DEF IInv
<1> QED
  BY <1>3, <1>4, <1>5, <1>6, <1>7, <1>8 DEF Administering

\* A crash ends every wait; what was sent out stays in flight and holds its row.
LEMMA CrashKeeps ==
    ASSUME IInv, TypeOK', Crash
    PROVE  IInv'
<1>1. /\ UNCHANGED <<status, landed, ledger, key, on>>
      /\ act' = [x \in Admins |-> "idle"]
      /\ \A a \in Attempts :
            /\ pc'[a] = IF pc[a] = "idle" THEN "idle" ELSE "over"
            /\ work'[a] = IF work[a] = "sent" \/ (work[a] = "running" /\ ~Is(a, Local))
                          THEN "sent" ELSE "none"
  BY DEF Crash, claims
<1>2. \A a \in Attempts : Holding(a)' => InFlight(a)' /\ InFlight(a) /\ Holding(a)
  BY <1>1 DEF Holding, InFlight
<1>3. OneHolder'
  BY <1>1, <1>2 DEF IInv, OneHolder, Is
<1>4. HoldersFitTheirRow'
  BY <1>1, <1>2 DEF IInv, HoldersFitTheirRow, Is
<1>5. StepsFitTheirWork'
  <2> SUFFICES ASSUME NEW a \in Attempts
               PROVE  StepsFitTheirWork!(a)'
    BY DEF StepsFitTheirWork
  <2>1. StepsFitTheirWork!(a)
    BY DEF IInv, StepsFitTheirWork
  <2> QED
    BY <1>1, <2>1 DEF InFlight, Is
<1>6. AdminsFitTheirRow'
  BY <1>1 DEF AdminsFitTheirRow
<1>7. OneClaimPerOperation' /\ ExternalClaimsStay' /\ AtMostOnceExternal' /\ ReplaysAreReal'
  BY <1>1 DEF IInv, OneClaimPerOperation, ExternalClaimsStay, AtMostOnceExternal,
              ReplaysAreReal
<1> QED
  BY <1>3, <1>4, <1>5, <1>6, <1>7 DEF IInv

LEMMA InvStep ==
    ASSUME IInv, [Next]_vars
    PROVE  IInv'
<1>1. TypeOK'
  BY TypeStep DEF IInv
<1>2. CASE UNCHANGED vars
  BY <1>1, <1>2
     DEF vars, claims, admins, IInv, OneClaimPerOperation, OneHolder,
         HoldersFitTheirRow, StepsFitTheirWork, ExternalClaimsStay,
         AdminsFitTheirRow, AtMostOnceExternal, ReplaysAreReal, Holding, InFlight, Is
<1> QED
  BY <1>1, <1>2, ClaimingKeeps, WorkingKeeps, WaitingKeeps, FailingKeeps,
     AdministeringKeeps, CrashKeeps DEF Next

LEMMA InitInv == Init => IInv
<1> SUFFICES ASSUME Init
             PROVE  IInv
  OBVIOUS
<1>1. TypeOK
  BY ClaimAssumption DEF Init, TypeOK, Statuses, Works
<1>2. /\ \A k \in Keys : status[k] = "none" /\ landed[k] = {}
      /\ \A a \in Attempts : /\ ~Holding(a) /\ pc[a] = "idle" /\ work[a] = "none"
                             /\ key[a] \in Keys
      /\ \A x \in Admins : act[x] = "idle"
      /\ ledger = {}
  BY DEF Init, Holding, InFlight
<1>3. OneClaimPerOperation /\ OneHolder /\ HoldersFitTheirRow
  BY <1>2 DEF OneClaimPerOperation, OneHolder, HoldersFitTheirRow
<1>4. StepsFitTheirWork
  BY <1>2 DEF StepsFitTheirWork
<1>5. ExternalClaimsStay /\ AdminsFitTheirRow /\ AtMostOnceExternal /\ ReplaysAreReal
  BY <1>2 DEF ExternalClaimsStay, AdminsFitTheirRow, AtMostOnceExternal, ReplaysAreReal
<1> QED
  BY <1>1, <1>3, <1>4, <1>5 DEF IInv

\* The invariant that relates holders, rows and work is kept by every step.
THEOREM Inductive == Spec => []IInv
<1>1. IInv /\ [Next]_vars => IInv'
  BY InvStep
<1> QED
  BY <1>1, InitInv, PTL DEF Spec

\* Both of two calls at work hold their row; one row per operation is claimed.
LEMMA OneFlightFollows ==
    ASSUME IInv
    PROVE  OneFlight
<1> SUFFICES ASSUME NEW a \in Attempts, NEW b \in Attempts,
                    InFlight(a), InFlight(b),
                    OpOf(key[a]) = OpOf(key[b]), ~Is(a, MayReopen)
             PROVE  a = b
  BY DEF OneFlight
<1>1. Holding(a) /\ Holding(b) /\ ~Is(b, MayReopen)
  BY DEF Holding, Is
<1>2. status[key[a]] = "claimed" /\ status[key[b]] = "claimed"
  BY <1>1 DEF IInv, HoldersFitTheirRow
<1>3. key[a] \in Keys /\ key[b] \in Keys
  BY DEF IInv, TypeOK
<1>4. key[a] = key[b]
  BY <1>2, <1>3 DEF IInv, OneClaimPerOperation
<1> QED
  BY <1>1, <1>4 DEF IInv, OneHolder

\* The operation lease: two calls never have the same operation running at once,
\* from whichever conversations and whatever was abandoned or crashed before.
THEOREM OneAtATime == Spec => []OneFlight
<1>1. IInv => OneFlight
  BY OneFlightFollows
<1> QED
  BY <1>1, Inductive, PTL

\* An external MCP write reaches its target at most once per idempotency key.
THEOREM ExternalWritesOnce == Spec => []AtMostOnceExternal
<1>1. IInv => AtMostOnceExternal
  BY DEF IInv
<1> QED
  BY <1>1, Inductive, PTL

\* A ledger row, which is what a replay answers with, stands for a write.
THEOREM ReplaysAreTrue == Spec => []ReplaysAreReal
<1>1. IInv => ReplaysAreReal
  BY DEF IInv
<1> QED
  BY <1>1, Inductive, PTL

(***************************************************************************)
(* Local writes as long as nothing fails.  A local tool that cannot be     *)
(* stopped gives its claim back only when it threw, and it throws before   *)
(* it wrote; so a claim that was written under is never taken again, also  *)
(* when the wait for it was cut short and its work ended on its own.       *)
(***************************************************************************)
FirmLocal(a) == Is(a, Local) /\ ~Is(a, MayReopen)

CalmCall(a) ==
    /\ pc[a] # "release" /\ work[a] # "sent"
    /\ a \in landed[key[a]] => work[a] \in {"landed", "done"}
    /\ landed[key[a]] # {} => status[key[a]] \in {"claimed", "settled"}
    /\ \A b \in landed[key[a]] : Holding(a) \/ a \in landed[key[a]] => a = b

CalmInv == faults = 0 => \A a \in Attempts : FirmLocal(a) => CalmCall(a)

\* A step of one call that writes nothing: it keeps its part, and gives a row up
\* only when nothing was written under it.
LEMMA CalmCallStep ==
    ASSUME IInv, CalmInv, faults = 0, NEW a \in Attempts,
           UNCHANGED <<landed, key>>,
           \A b \in Attempts : b # a => pc'[b] = pc[b] /\ work'[b] = work[b],
           FirmLocal(a) =>
               /\ pc'[a] # "release" /\ work'[a] # "sent"
               /\ a \in landed[key[a]] => work'[a] \in {"landed", "done"}
               /\ (Holding(a)' => Holding(a)) \/ landed[key[a]] = {},
           \A k \in Keys : \/ status'[k] = status[k]
                           \/ status'[k] \in {"claimed", "settled"}
                           \/ k = key[a] /\ (FirmLocal(a) => landed[k] = {})
    PROVE  CalmInv'
<1> SUFFICES ASSUME NEW b \in Attempts, FirmLocal(b)'
             PROVE  CalmCall(b)'
  BY DEF CalmInv
<1>1. FirmLocal(b) /\ key[b] \in Keys /\ key'[b] = key[b]
  BY DEF FirmLocal, Is, IInv, TypeOK
<1>2. CalmCall(b)
  BY <1>1 DEF CalmInv
<1>3. (Holding(b)' => Holding(b)) \/ landed[key[b]] = {}
  BY <1>1 DEF Holding, InFlight
<1>4. landed[key[b]] # {} => status'[key[b]] \in {"claimed", "settled"}
  BY <1>1, <1>2 DEF CalmCall, FirmLocal, Is
<1>5. /\ pc'[b] # "release" /\ work'[b] # "sent"
      /\ b \in landed[key[b]] => work'[b] \in {"landed", "done"}
  BY <1>1, <1>2 DEF CalmCall
<1> QED
  BY <1>1, <1>2, <1>3, <1>4, <1>5 DEF CalmCall

\* What is free has not been written under.
LEMMA FreeIsClean ==
    ASSUME CalmInv, faults = 0, NEW a \in Attempts, FirmLocal(a),
           status[key[a]] \in {"none", "released"}
    PROVE  landed[key[a]] = {}
  BY DEF CalmInv, CalmCall

\* Taking, refusing and moving on: the row stays or becomes claimed or settled.
LEMMA CalmClaiming ==
    ASSUME IInv, CalmInv, faults = 0, NEW a \in Attempts, Claiming(a)
    PROVE  CalmInv'
<1>1. TypeOK /\ StepsFitTheirWork!(a) /\ key[a] \in Keys
  BY DEF IInv, StepsFitTheirWork, TypeOK
<1>2. FirmLocal(a) => CalmCall(a)
  BY DEF CalmInv
<1>3. CASE Begin(a) \/ InsertConflicts(a) \/ Reread(a) \/ ReclaimRefused(a)
  <2>1. /\ UNCHANGED <<status, landed, key, work>>
        /\ \E p \in {"over", "insert", "reread", "reclaim"} : Goto(a, p)
    BY <1>3 DEF Begin, InsertConflicts, Reread, ReclaimRefused, claims, Goto
  <2>2. PICK p \in {"over", "insert", "reread", "reclaim"} : Goto(a, p)
    BY <2>1
  <2>3. pc'[a] = p /\ \A b \in Attempts : b # a => pc'[b] = pc[b]
    BY <1>1, <2>2, Moves
  <2>4. Holding(a)' => Holding(a)
    BY <2>1, <2>3 DEF Holding, InFlight
  <2> QED
    BY <1>2, <2>1, <2>3, <2>4, CalmCallStep DEF CalmCall
<1>4. CASE Insert(a) \/ Reclaim(a)
  <2>1. /\ UNCHANGED <<landed, key>>
        /\ status' = [status EXCEPT ![key[a]] = "claimed"]
        /\ pc[a] \in {"insert", "reclaim"} /\ status[key[a]] \in {"none", "released"}
        /\ StartWork(a)
    BY <1>4 DEF Insert, Reclaim
  <2>2. work[a] = "none"
    BY <1>1, <2>1
  <2>3. /\ \A b \in Attempts : b # a => pc'[b] = pc[b] /\ work'[b] = work[b]
        /\ pc'[a] # "release" /\ work'[a] # "sent"
    BY <1>1, <2>1, <2>2 DEF StartWork, Goto, Behind, TypeOK
  <2>4. FirmLocal(a) => landed[key[a]] = {}
    BY <2>1, FreeIsClean
  <2>5. \A k \in Keys : status'[k] = status[k] \/ status'[k] = "claimed"
    BY <1>1, <2>1 DEF TypeOK
  <2> QED
    BY <2>1, <2>3, <2>4, <2>5, CalmCallStep
<1> QED
  BY <1>3, <1>4 DEF Claiming

\* A write lands under a row that only its own call holds and nobody wrote under.
LEMMA CalmLand ==
    ASSUME IInv, CalmInv, faults = 0, NEW a \in Attempts, Land(a)
    PROVE  CalmInv'
<1> DEFINE k == key[a]
<1>1. TypeOK /\ k \in Keys /\ \A b \in Attempts : key[b] \in Keys
  BY DEF IInv, TypeOK
<1>2. /\ UNCHANGED <<status, key, pc>> /\ work[a] \in {"running", "sent"}
      /\ landed' = [landed EXCEPT ![k] = @ \union {a}]
      /\ Behind(a, IF work[a] = "sent" THEN "none" ELSE "landed")
  BY DEF Land, Background, claims
<1>3. /\ work'[a] = IF work[a] = "sent" THEN "none" ELSE "landed"
      /\ \A b \in Attempts : b # a => work'[b] = work[b]
  BY <1>1, <1>2, WorkMoves
<1>4. /\ landed'[k] = landed[k] \union {a}
      /\ \A j \in Keys : j # k => landed'[j] = landed[j]
  BY <1>1, <1>2 DEF TypeOK
<1>5. InFlight(a) /\ Holding(a)
  BY <1>2 DEF InFlight, Holding
<1> SUFFICES ASSUME NEW b \in Attempts, FirmLocal(b)'
             PROVE  CalmCall(b)'
  BY DEF CalmInv
<1>6. FirmLocal(b) /\ CalmCall(b) /\ (Holding(b)' => Holding(b))
  BY <1>2, <1>3, <1>5 DEF FirmLocal, Is, CalmInv, Holding, InFlight
<1>7. CASE key[b] # k
  BY <1>1, <1>2, <1>3, <1>4, <1>6, <1>7 DEF CalmCall
<1>8. CASE key[b] = k
  <2>1. FirmLocal(a) /\ CalmCall(a)
    BY <1>6, <1>8 DEF FirmLocal, Is, CalmInv
  <2>2. work[a] = "running" /\ landed[k] = {}
    BY <1>2, <1>5, <2>1 DEF CalmCall
  <2>3. status[k] = "claimed"
    BY <1>5, <2>1 DEF FirmLocal, IInv, HoldersFitTheirRow
  <2>4. Holding(b) => b = a
    BY <1>5, <1>8, <2>1 DEF FirmLocal, IInv, OneHolder
  <2>5. pc'[b] # "release" /\ work'[b] # "sent"
    BY <1>2, <1>3, <1>6, <2>2 DEF CalmCall
  <2>6. b \in landed'[k] => work'[b] = "landed"
    BY <1>3, <1>4, <2>2
  <2> QED
    BY <1>2, <1>4, <1>6, <1>8, <2>2, <2>3, <2>4, <2>5, <2>6 DEF CalmCall
<1> QED
  BY <1>7, <1>8

\* The work ends: with a success if it wrote, with anything else only if not.
LEMMA CalmWorking ==
    ASSUME IInv, CalmInv, faults = 0, faults' = 0, NEW a \in Attempts, Working(a)
    PROVE  CalmInv'
<1>1. TypeOK
  BY DEF IInv
<1>2. FirmLocal(a) => CalmCall(a) /\ ~Is(a, Proxy) /\ ~Is(a, Mcp)
  BY ClaimAssumption DEF CalmInv, FirmLocal, MayReopen, Is
<1>3. ASSUME NEW w \in {"done", "refused", "failed", "threw"}, Behind(a, w),
             UNCHANGED <<status, landed, key, pc>>, work[a] \in {"running", "landed"},
             FirmLocal(a) => w = "done" \/ work[a] = "running"
      PROVE  CalmInv'
  <2>1. work'[a] = w /\ \A b \in Attempts : b # a => work'[b] = work[b]
    BY <1>1, <1>3, WorkMoves
  <2>2. Holding(a)
    BY <1>3 DEF Holding, InFlight
  <2> QED
    BY <1>2, <1>3, <2>1, <2>2, CalmCallStep DEF CalmCall
<1>4. CASE Land(a)
  BY <1>4, CalmLand
<1>5. CASE ProxyFails(a) \/ McpAnswers(a) \/ McpFails(a)
  BY <1>2, <1>3, <1>5 DEF ProxyFails, McpAnswers, McpFails, Background, claims
<1>6. CASE RegisterFails(a)
  BY <1>6 DEF RegisterFails, Fault
<1>7. ASSUME NEW threw \in BOOLEAN, ToolRefuses(a, threw)
      PROVE  CalmInv'
  BY <1>3, <1>7 DEF ToolRefuses, Background, claims
<1>8. ASSUME NEW recorded \in BOOLEAN, Register(a, recorded)
      PROVE  CalmInv'
  BY <1>3, <1>8 DEF Register, Background, claims
<1> QED
  BY <1>4, <1>5, <1>6, <1>7, <1>8 DEF Working

\* The wait ends: a claim is settled, left behind, or given back by a call whose
\* tool threw; such a call is the only holder and has written nothing.
LEMMA CalmWaiting ==
    ASSUME IInv, CalmInv, faults = 0, NEW a \in Attempts, Waiting(a)
    PROVE  CalmInv'
<1>1. TypeOK /\ StepsFitTheirWork!(a) /\ key[a] \in Keys
  BY DEF IInv, StepsFitTheirWork, TypeOK
<1>2. FirmLocal(a) => CalmCall(a) /\ ~Is(a, Stoppable)
  BY DEF CalmInv, FirmLocal, MayReopen, Is
<1>3. ASSUME NEW p \in {"over", "stopping", "settle"}, Goto(a, p), Holding(a),
             UNCHANGED <<landed, key, work>>,
             \A k \in Keys : \/ status'[k] = status[k]
                             \/ status'[k] = "settled"
                             \/ k = key[a] /\ (FirmLocal(a) => landed[k] = {})
      PROVE  CalmInv'
  <2>1. pc'[a] = p /\ \A b \in Attempts : b # a => pc'[b] = pc[b]
    BY <1>1, <1>3, Moves
  <2> QED
    BY <1>2, <1>3, <2>1, CalmCallStep DEF CalmCall
<1>4. CASE Cancel(a) \/ StopUnconfirmed(a) \/ Anchor(a) \/ McpGivesUp(a)
  <2>1. Holding(a)
    BY <1>4 DEF Cancel, StopUnconfirmed, Anchor, McpGivesUp, Holding
  <2> QED
    BY <1>3, <1>4, <2>1 DEF Cancel, StopUnconfirmed, Anchor, McpGivesUp, claims
<1>5. CASE Settle(a)
  <2>1. Holding(a)
    BY <1>5, Letting DEF Settle, IInv
  <2>2. \A k \in Keys : status'[k] = status[k] \/ status'[k] = "settled"
    BY <1>1, <1>5 DEF Settle, SettleRow, TypeOK
  <2> QED
    BY <1>3, <1>5, <2>1, <2>2 DEF Settle
<1>6. CASE Release(a)
  <2>1. Holding(a) /\ ~InFlight(a)
    BY <1>6, Letting DEF Release, IInv
  <2>2. \A k \in Keys : k = key[a] \/ status'[k] = status[k]
    BY <1>1, <1>6 DEF Release, ReleaseRow, TypeOK
  <2>3. FirmLocal(a) => work[a] = "threw"
    BY <1>1, <1>2, <1>6 DEF Release, Releasing, CalmCall
  <2>4. FirmLocal(a) => landed[key[a]] = {}
    BY <1>2, <2>1, <2>3 DEF CalmCall
  <2> QED
    BY <1>3, <1>6, <2>1, <2>2, <2>4 DEF Release
<1> QED
  BY <1>4, <1>5, <1>6 DEF Waiting

\* Administrators move claims of proxy operations only.
LEMMA CalmAdministering ==
    ASSUME IInv, CalmInv, faults = 0, Administering
    PROVE  CalmInv'
<1>1. ASSUME UNCHANGED <<landed, key, pc, work>>,
             \A k \in Keys : status'[k] = status[k] \/ OpOf(k) \in Proxy
      PROVE  CalmInv'
  <2> SUFFICES ASSUME NEW b \in Attempts, FirmLocal(b)'
               PROVE  CalmCall(b)'
    BY DEF CalmInv
  <2>1. FirmLocal(b) /\ CalmCall(b) /\ key[b] \in Keys
    BY <1>1 DEF CalmInv, FirmLocal, Is, IInv, TypeOK
  <2>2. status'[key[b]] = status[key[b]]
    BY <1>1, <2>1 DEF FirmLocal, MayReopen, Is
  <2> QED
    BY <1>1, <2>1, <2>2 DEF CalmCall, Holding, InFlight
<1>2. CASE \E k \in Keys : Age(k)
  BY <1>1, <1>2 DEF Age
<1>3. CASE SweepOverdue
  BY <1>1, <1>3 DEF SweepOverdue
<1>4. ASSUME NEW x \in Admins, Reconcile(x)
      PROVE  CalmInv'
  <2>1. on[x] \in Keys /\ OpOf(on[x]) \in Proxy
    BY <1>4 DEF Reconcile, IInv, AdminsFitTheirRow, TypeOK
  <2>2. \A k \in Keys : status'[k] = status[k] \/ k = on[x]
    BY <1>4, <2>1 DEF Reconcile, SettleRow, ReleaseRow, IInv, TypeOK
  <2> QED
    BY <1>1, <1>4, <2>1, <2>2 DEF Reconcile, AdminStep
<1>5. ASSUME NEW x \in Admins, UNCHANGED <<status, landed, key, pc, work>>
      PROVE  CalmInv'
  BY <1>1, <1>5
<1> QED
  BY <1>2, <1>3, <1>4, <1>5
     DEF Administering, AdminReads, CloseUnknown, AskTarget, AdminStep, claims

LEMMA CalmStep ==
    ASSUME IInv, CalmInv, [Next]_vars
    PROVE  CalmInv'
<1> SUFFICES ASSUME faults' = 0
             PROVE  CalmInv'
  BY DEF CalmInv
<1>1. faults \in Nat
  BY ClaimAssumption DEF IInv, TypeOK
<1>2. \A a \in Attempts : ~Failing(a)
  BY <1>1 DEF Failing, InsertFails, ReclaimFails, SettleFails, ReleaseFails, Fault
<1>3. ~Crash
  BY <1>1 DEF Crash, Fault
<1>4. ASSUME NEW a \in Attempts, Claiming(a)
      PROVE  CalmInv'
  <2>1. faults = 0
    BY <1>4 DEF Claiming, Begin, Insert, InsertConflicts, Reread, Reclaim, ReclaimRefused
  <2> QED
    BY <1>4, <2>1, CalmClaiming
<1>5. ASSUME NEW a \in Attempts, Working(a)
      PROVE  CalmInv'
  <2>1. faults = 0
    BY <1>1, <1>5 DEF Working, Land, ProxyFails, McpAnswers, McpFails, RegisterFails,
                      ToolRefuses, Register, Fault
  <2> QED
    BY <1>5, <2>1, CalmWorking
<1>6. ASSUME NEW a \in Attempts, Waiting(a)
      PROVE  CalmInv'
  <2>1. faults = 0
    BY <1>1, <1>6 DEF Waiting, Cancel, StopUnconfirmed, Anchor, McpGivesUp, Settle,
                      Release, Fault
  <2> QED
    BY <1>6, <2>1, CalmWaiting
<1>7. CASE Administering
  <2>1. faults = 0
    BY <1>7 DEF Administering, Age, SweepOverdue, AdminReads, AdminStep, CloseUnknown,
                AskTarget, Reconcile
  <2> QED
    BY <1>7, <2>1, CalmAdministering
<1>8. CASE UNCHANGED vars
  BY <1>8 DEF vars, claims, CalmInv, CalmCall, FirmLocal, Is, Holding, InFlight
<1> QED
  BY <1>2, <1>3, <1>4, <1>5, <1>6, <1>7, <1>8 DEF Next

LEMMA InitCalm == Init => CalmInv
  BY DEF Init, CalmInv, CalmCall, FirmLocal

\* What the two say of two writes of one key.
WrittenOnce ==
    \A a, b \in Attempts :
        /\ key[a] = key[b] /\ a \in landed[key[a]] /\ b \in landed[key[b]]
        /\ Is(a, Mcp) \/ (faults = 0 /\ ~Is(a, MayReopen))
        => a = b

LEMMA OnceFollows ==
    ASSUME IInv, CalmInv
    PROVE  WrittenOnce
<1> SUFFICES ASSUME NEW a \in Attempts, NEW b \in Attempts, key[a] = key[b],
                    a \in landed[key[a]], b \in landed[key[b]],
                    Is(a, Mcp) \/ (faults = 0 /\ ~Is(a, MayReopen))
             PROVE  a = b
  BY DEF WrittenOnce
<1>1. key[a] \in Keys /\ OpOf(key[a]) \in Operations
  BY KeyOf DEF IInv
<1>2. CASE Is(a, Mcp)
  BY <1>1, <1>2 DEF IInv, AtMostOnceExternal, Is
<1>3. CASE ~Is(a, Mcp) /\ faults = 0 /\ ~Is(a, MayReopen)
  <2>1. FirmLocal(a)
    BY <1>1, <1>3 DEF FirmLocal, Is, MayReopen, Operations
  <2> QED
    BY <1>3, <2>1 DEF CalmInv, CalmCall
<1> QED
  BY <1>2, <1>3

\* A write reaches its target once per idempotency key, however many calls ask for
\* it: an external one whatever fails, a local one that cannot be stopped as long
\* as no statement and no process fails, cancelled and abandoned calls included.
THEOREM WritesOnce == Spec => []WrittenOnce
<1>1. CalmInv /\ IInv /\ [Next]_vars => CalmInv'
  BY CalmStep
<1>2. IInv /\ CalmInv => WrittenOnce
  BY OnceFollows
<1> QED
  BY <1>1, <1>2, Inductive, InitCalm, PTL DEF Spec
=============================================================================
