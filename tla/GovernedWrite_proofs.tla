------------------------ MODULE GovernedWrite_proofs ------------------------
(***************************************************************************)
(* Proofs about the execution lease and about its composition with the     *)
(* write claim.  The lease: its types, and that a row says 'succeeded'     *)
(* only of an execution that did succeed.  The composition: it implements  *)
(* both of its parts, a row that says 'succeeded' stands for a write that  *)
(* reached its target, and racing executions write once.                   *)
(***************************************************************************)
EXTENDS GovernedWrite, TLAPS

-----------------------------------------------------------------------------
(* The execution lease.                                                    *)

LEMMA TypeStep ==
    ASSUME TypeOK, [Next]_vars
    PROVE  TypeOK'
<1> USE DEF Steps
<1>1. ASSUME NEW r \in Runs, NEW next \in {"take", "dialogue"}, Approve(r, next)
      PROVE  TypeOK'
  BY <1>1 DEF Approve, Goto, TypeOK
<1>2. ASSUME NEW t \in Tokens, ApproveUnheard(t) \/ Expire(t)
      PROVE  TypeOK'
  BY <1>2 DEF ApproveUnheard, Expire, TypeOK
<1>3. ASSUME NEW r \in Runs, RetryReads(r) \/ TakeRefused(r)
      PROVE  TypeOK'
  BY <1>3 DEF RetryReads, TakeRefused, Goto, rows, TypeOK
<1>4. ASSUME NEW r \in Runs, Clear(r) \/ Take(r)
      PROVE  TypeOK'
  BY <1>4 DEF Clear, Take, ClearRow, Goto, TypeOK
<1>5. ASSUME NEW r \in Runs, Settle(r)
      PROVE  TypeOK'
  BY <1>5 DEF Settle, Outcome, Goto, TypeOK
<1>6. ASSUME NEW r \in Runs, NEW applied \in BOOLEAN,
             ClearFails(r, applied) \/ TakeFails(r, applied)
      PROVE  TypeOK'
  BY <1>6 DEF ClearFails, TakeFails, ClearRow, Goto, TypeOK
<1>7. ASSUME NEW r \in Runs, NEW applied \in BOOLEAN, SettleFails(r, applied)
      PROVE  TypeOK'
  BY <1>7 DEF SettleFails, Outcome, Goto, TypeOK
<1>8. ASSUME NEW r \in Runs, NEW success \in BOOLEAN, Answer(r, success)
      PROVE  TypeOK'
  BY <1>8 DEF Answer, Goto, rows, TypeOK
<1>9. CASE Crash \/ UNCHANGED vars
  BY <1>9 DEF Crash, vars, rows, TypeOK
<1> QED
  BY <1>1, <1>2, <1>3, <1>4, <1>5, <1>6, <1>7, <1>8, <1>9
     DEF Next, Deciding, Executing, Failing

(***************************************************************************)
(* Success only grows, and only a settlement of a successful execution     *)
(* stamps a row: by token, so of its own token.                            *)
(***************************************************************************)
LEMMA SuccessStep ==
    ASSUME TypeOK, SuccessIsReal, [Next]_vars
    PROVE  SuccessIsReal'
<1>1. ASSUME NEW r \in Runs, Outcome(r), UNCHANGED <<tok, ok>>
      PROVE  SuccessIsReal'
  BY <1>1 DEF Outcome, SuccessIsReal, TypeOK
<1>2. ASSUME NEW r \in Runs, NEW success \in BOOLEAN, Answer(r, success)
      PROVE  SuccessIsReal'
  BY <1>2 DEF Answer, rows, SuccessIsReal, TypeOK
<1>3. CASE UNCHANGED <<executed, tok, ok>>
  BY <1>3 DEF SuccessIsReal
<1>4. ASSUME NEW r \in Runs, Executing(r) \/ Failing(r)
      PROVE  SuccessIsReal'
  <2>1. CASE Settle(r)
    BY <2>1, <1>1 DEF Settle
  <2>2. ASSUME NEW applied \in BOOLEAN, SettleFails(r, applied)
        PROVE  SuccessIsReal'
    BY <2>2, <1>1, <1>3 DEF SettleFails
  <2>3. CASE Clear(r) \/ Take(r) \/ TakeRefused(r)
    BY <2>3, <1>3 DEF Clear, Take, TakeRefused, rows
  <2>4. ASSUME NEW applied \in BOOLEAN, ClearFails(r, applied) \/ TakeFails(r, applied)
        PROVE  SuccessIsReal'
    BY <2>4, <1>3 DEF ClearFails, TakeFails
  <2> QED
    BY <1>4, <2>1, <2>2, <2>3, <2>4 DEF Executing, Failing
<1>5. CASE Deciding \/ (\E r \in Runs : RetryReads(r)) \/ Crash \/ UNCHANGED vars
  BY <1>5, <1>3 DEF Deciding, Approve, ApproveUnheard, Expire, RetryReads, Crash, vars, rows
<1> QED
  BY <1>2, <1>4, <1>5 DEF Next

\* The rows and the executions keep their types, whatever fails or dies.
THEOREM TypeCorrect == Spec => []TypeOK
<1>1. Init => TypeOK
  BY DEF Init, TypeOK, Steps
<1>2. TypeOK /\ [Next]_vars => TypeOK'
  BY TypeStep
<1> QED
  BY <1>1, <1>2, PTL DEF Spec

\* _settleExecution writes by token, without asking who holds the lease; still no
\* row reads 'succeeded' unless an execution of its token succeeded.
THEOREM SuccessesAreTrue == Spec => []SuccessIsReal
<1>1. Init => SuccessIsReal
  BY DEF Init, SuccessIsReal
<1>2. TypeOK /\ SuccessIsReal /\ [Next]_vars => SuccessIsReal'
  BY SuccessStep
<1> QED
  BY <1>1, <1>2, TypeCorrect, PTL DEF Spec

-----------------------------------------------------------------------------
(* The composition implements both of its parts.                           *)

\* An end of executeWrite is an answer of the execution, and nothing else is.
LEMMA ReturnsAnswer ==
    ASSUME NEW r \in Runs, NEW success \in BOOLEAN, Returns(r, success)
    PROVE  Answer(r, success) \/ UNCHANGED vars
  BY DEF Returns

LEMMA ExecuteOnLease ==
    ASSUME NEW r \in Runs, Execute(r)
    PROVE  (\E success \in BOOLEAN : Answer(r, success)) \/ UNCHANGED vars
<1>1. CASE Rejected(r)
  BY <1>1 DEF Rejected
<1>2. CASE Enter(r)
  BY <1>2, ReturnsAnswer DEF Enter
<1>3. CASE Claim(r)
  BY <1>3, ReturnsAnswer DEF Claim
<1>4. CASE Finish(r)
  BY <1>4, ReturnsAnswer DEF Finish
<1>5. CASE GiveUp(r)
  BY <1>5, ReturnsAnswer DEF GiveUp
<1> QED
  BY <1>1, <1>2, <1>3, <1>4, <1>5 DEF Execute

LEMMA ExecuteOnClaim ==
    ASSUME NEW r \in Runs, Execute(r)
    PROVE  Write!Claiming(r) \/ Write!Waiting(r) \/ Write!Failing(r) \/ UNCHANGED writeVars
  BY DEF Execute, Enter, Rejected, Claim, Finish, GiveUp, Write!Claiming, Write!Waiting

\* Every step of the composition is a step of the lease, or leaves it alone.
THEOREM LeaseImplemented == GovernedSpec => Spec
<1>1. GovernedInit => Init
  BY DEF GovernedInit
<1>2. ASSUME [GovernedNext]_governedVars
      PROVE  [Next]_vars
  <2>2. CASE OnLease
    BY <2>2 DEF OnLease, Next
  <2>3. ASSUME NEW r \in Runs, Execute(r)
        PROVE  [Next]_vars
    BY <2>3, ExecuteOnLease DEF Next
  <2>4. CASE Behind \/ UNCHANGED governedVars
    BY <2>4 DEF Behind, governedVars
  <2>5. CASE GovernedCrash
    BY <2>5 DEF GovernedCrash, Next
  <2> QED
    BY <1>2, <2>2, <2>3, <2>4, <2>5 DEF GovernedNext
<1> QED
  BY <1>1, <1>2, PTL DEF GovernedSpec, Spec

\* Every step of the composition is a step of the write claim, or leaves it alone.
THEOREM ClaimImplemented == GovernedSpec => Write!Spec
<1>1. GovernedInit => Write!Init
  BY DEF GovernedInit
<1>2. ASSUME [GovernedNext]_governedVars
      PROVE  [Write!Next]_(Write!vars)
  <2>1. UNCHANGED writeVars => UNCHANGED Write!vars
    BY DEF writeVars, Write!vars, Write!claims, Write!admins
  <2>2. CASE OnLease \/ UNCHANGED governedVars
    BY <2>1, <2>2 DEF OnLease, governedVars
  <2>3. ASSUME NEW r \in Runs, Execute(r)
        PROVE  [Write!Next]_(Write!vars)
    BY <2>1, <2>3, ExecuteOnClaim DEF Write!Next
  <2>4. CASE Behind
    BY <2>4 DEF Behind, Write!Next
  <2>5. CASE GovernedCrash
    BY <2>5 DEF GovernedCrash, Write!Next
  <2> QED
    BY <1>2, <2>2, <2>3, <2>4, <2>5 DEF GovernedNext
<1> QED
  BY <1>1, <1>2, PTL DEF GovernedSpec, Write!Spec

-----------------------------------------------------------------------------
(* From the landing of a write to the row of its approval.                 *)

WriteSide ==
    /\ key \in [Runs -> Write!Keys] /\ work \in [Runs -> Write!Works]
    /\ landed \in [Write!Keys -> SUBSET Runs]
    /\ WorkIsReal /\ Write!ReplaysAreReal

\* Nothing that landed is taken back.
Keeps ==
    /\ UNCHANGED key
    /\ \A k \in Write!Keys : Written(k) => Written(k)'

LEMMA AtRest ==
    ASSUME WriteSide, UNCHANGED <<key, work, ledger, landed>>
    PROVE  WriteSide' /\ Keeps
  BY DEF WriteSide, Keeps, WorkIsReal, Written, Write!ReplaysAreReal

\* Work that starts, fails or stops claims nothing.
LEMMA WorkClaimsNothing ==
    ASSUME WriteSide, NEW r \in Runs, NEW w \in Write!Works,
           w = "landed" \/ w = "done" => Written(key[r]),
           work' = [work EXCEPT ![r] = w], UNCHANGED <<key, ledger, landed>>
    PROVE  WriteSide' /\ Keeps
  BY DEF WriteSide, Keeps, WorkIsReal, Written, Write!ReplaysAreReal

LEMMA LandBacks ==
    ASSUME WriteSide, NEW r \in Runs, Write!Land(r)
    PROVE  WriteSide' /\ Keeps
<1>1. key[r] \in Write!Keys /\ UNCHANGED <<key, ledger>>
  BY DEF Write!Land, Write!Background, WriteSide
<1>2. landed' = [landed EXCEPT ![key[r]] = landed[key[r]] \union {r}]
  BY DEF Write!Land
<1>3. landed' \in [Write!Keys -> SUBSET Runs] /\ Keeps /\ Written(key[r])'
  BY <1>1, <1>2 DEF WriteSide, Keeps, Written
<1>4. \E w \in {"none", "landed"} : work' = [work EXCEPT ![r] = w]
  BY DEF Write!Land, Write!Background, Write!Behind
<1>5. work' \in [Runs -> Write!Works] /\ WorkIsReal'
  BY <1>1, <1>3, <1>4 DEF WriteSide, WorkIsReal, Keeps, Write!Works
<1>6. Write!ReplaysAreReal'
  BY <1>1, <1>2, <1>3 DEF WriteSide, Keeps, Written, Write!ReplaysAreReal
<1> QED
  BY <1>1, <1>3, <1>5, <1>6 DEF WriteSide

\* A ledger row is written by a registration, after its write has landed.
LEMMA LedgerBacks ==
    ASSUME WriteSide, NEW r \in Runs, Written(key[r]),
           ledger' \subseteq ledger \union {key[r]}, UNCHANGED <<key, landed>>
    PROVE  Write!ReplaysAreReal' /\ Keeps
  BY DEF WriteSide, Keeps, Written, Write!ReplaysAreReal

LEMMA WorkingBacks ==
    ASSUME WriteSide, NEW r \in Runs, Write!Working(r)
    PROVE  WriteSide' /\ Keeps
<1> USE DEF Write!Background, Write!Behind, Write!Works
<1>1. CASE Write!Land(r)
  BY <1>1, LandBacks
<1>2. CASE Write!ProxyFails(r) \/ Write!McpFails(r) \/ Write!RegisterFails(r)
  BY <1>2, WorkClaimsNothing DEF Write!ProxyFails, Write!McpFails, Write!RegisterFails
<1>3. ASSUME NEW threw \in BOOLEAN, Write!ToolRefuses(r, threw)
      PROVE  WriteSide' /\ Keeps
  BY <1>3, WorkClaimsNothing DEF Write!ToolRefuses
<1>4. CASE Write!McpAnswers(r)
  BY <1>4, WorkClaimsNothing DEF Write!McpAnswers, WriteSide, WorkIsReal
<1>5. ASSUME NEW recorded \in BOOLEAN, Write!Register(r, recorded)
      PROVE  WriteSide' /\ Keeps
  <2>1. Written(key[r]) /\ UNCHANGED <<key, landed>>
    BY <1>5 DEF Write!Register, WriteSide, WorkIsReal
  <2>2. Write!ReplaysAreReal' /\ Keeps
    BY <1>5, <2>1, LedgerBacks DEF Write!Register
  <2>3. work' \in [Runs -> Write!Works] /\ WorkIsReal'
    BY <1>5, <2>1 DEF Write!Register, WriteSide, WorkIsReal, Written
  <2> QED
    BY <2>1, <2>2, <2>3 DEF WriteSide
<1> QED
  BY <1>1, <1>2, <1>3, <1>4, <1>5 DEF Write!Working

LEMMA StartBacks ==
    ASSUME WriteSide, NEW r \in Runs, Write!StartWork(r), UNCHANGED <<key, ledger, landed>>
    PROVE  WriteSide' /\ Keeps
  BY WorkClaimsNothing, AtRest DEF Write!StartWork, Write!Behind, Write!Works

LEMMA ExecuteBacks ==
    ASSUME WriteSide, NEW r \in Runs, Execute(r)
    PROVE  WriteSide' /\ Keeps
<1>1. CASE Rejected(r) \/ Enter(r)
  BY <1>1, AtRest DEF Rejected, Enter, Write!Begin, writeVars
<1>2. CASE Write!Insert(r) \/ Write!Reclaim(r)
  BY <1>2, StartBacks DEF Write!Insert, Write!Reclaim
<1>3. CASE Write!InsertConflicts(r) \/ Write!Reread(r) \/ Write!ReclaimRefused(r)
  BY <1>3, AtRest DEF Write!InsertConflicts, Write!Reread, Write!ReclaimRefused
<1>4. CASE Finish(r)
  BY <1>4, AtRest DEF Finish, Write!Settle
<1>5. CASE Write!Cancel(r) \/ Write!StopUnconfirmed(r) \/ Write!McpGivesUp(r)
             \/ Write!Release(r)
  BY <1>5, AtRest DEF Write!Cancel, Write!StopUnconfirmed, Write!McpGivesUp, Write!Release
<1>6. CASE Write!Anchor(r)
  <2>1. Written(key[r]) /\ UNCHANGED <<key, work, landed>>
    BY <1>6 DEF Write!Anchor, WriteSide, WorkIsReal
  <2>2. Write!ReplaysAreReal' /\ Keeps
    BY <1>6, <2>1, LedgerBacks DEF Write!Anchor
  <2> QED
    BY <2>1, <2>2 DEF WriteSide, WorkIsReal, Written
<1>7. CASE Write!Failing(r)
  BY <1>7, AtRest DEF Write!Failing, Write!InsertFails, Write!ReclaimFails,
                      Write!SettleFails, Write!ReleaseFails
<1> QED
  BY <1>1, <1>2, <1>3, <1>4, <1>5, <1>6, <1>7 DEF Execute, Claim, GiveUp

LEMMA AdministeringBacks ==
    ASSUME WriteSide, Write!Administering
    PROVE  WriteSide' /\ Keeps
  BY AtRest DEF Write!Administering, Write!Age, Write!SweepOverdue, Write!AdminReads,
                Write!AdminStep, Write!CloseUnknown, Write!AskTarget, Write!Reconcile

LEMMA CrashBacks ==
    ASSUME WriteSide, Write!Crash
    PROVE  WriteSide' /\ Keeps
  BY DEF Write!Crash, WriteSide, Keeps, WorkIsReal, Written, Write!ReplaysAreReal, Write!Works

\* On the side of the lease, only a settlement stamps a row, and of its own token.
LEMMA LeaseStamps ==
    ASSUME IInv, OnLease
    PROVE  UNCHANGED <<tok, ok>> /\ OutcomesAreReal'
<1>1. ASSUME NEW r \in Runs, Outcome(r), UNCHANGED <<tok, ok>>
      PROVE  OutcomesAreReal'
  BY <1>1 DEF Outcome, IInv, Shapes, OutcomesAreReal
<1>2. ASSUME UNCHANGED <<executed, tok, ok>>
      PROVE  OutcomesAreReal'
  BY <1>2 DEF IInv, OutcomesAreReal
<1>3. CASE Deciding
  BY <1>2, <1>3 DEF Deciding, Approve, ApproveUnheard, Expire
<1>4. ASSUME NEW r \in Runs, RetryReads(r) \/ Executing(r)
      PROVE  UNCHANGED <<tok, ok>> /\ OutcomesAreReal'
  BY <1>1, <1>2, <1>4 DEF RetryReads, Executing, Clear, Take,
                          TakeRefused, Settle, rows
<1>5. ASSUME NEW r \in Runs, Failing(r)
      PROVE  UNCHANGED <<tok, ok>> /\ OutcomesAreReal'
  BY <1>1, <1>2, <1>5 DEF Failing, ClearFails, TakeFails, SettleFails
<1> QED
  BY <1>3, <1>4, <1>5 DEF OnLease

\* An execution that answers with success has its write: it replayed a row of the
\* ledger or its own work came back.
LEMMA AnswerBacked ==
    ASSUME IInv, NEW r \in Runs, Execute(r)
    PROVE  /\ UNCHANGED <<executed, tok>>
           /\ ok \subseteq ok' /\ ok' \subseteq ok \union {r}
           /\ ok' # ok => Written(key[r])
<1> USE DEF vars, Answer, rows
<1>1. CASE Rejected(r)
  BY <1>1 DEF Rejected
<1>2. CASE Enter(r)
  <2>1. pc'[r] = "over" => key[r] \in ledger
    BY <1>2 DEF Enter, Returns, Write!Begin, Write!Goto
  <2> QED
    BY <1>2, <2>1 DEF Enter, Returns, IInv, Written, Write!ReplaysAreReal
<1>3. CASE Claim(r) \/ GiveUp(r)
  BY <1>3 DEF Claim, GiveUp, Returns
<1>4. CASE Finish(r)
  BY <1>4 DEF Finish, Returns, IInv, WorkIsReal
<1> QED
  BY <1>1, <1>2, <1>3, <1>4 DEF Execute

LEMMA InvStep ==
    ASSUME IInv, [GovernedNext]_governedVars
    PROVE  IInv'
<1>1. WriteSide
  BY DEF IInv, Shapes, WriteSide
<1>2. ASSUME WriteSide', Keeps, UNCHANGED tok, OutcomesAreReal', ok' \subseteq Runs,
             \A r \in ok' : r \in ok \/ Written(key[r])
      PROVE  IInv'
  <2>1. Shapes' /\ OneKeyPerToken'
    BY <1>2 DEF WriteSide, Keeps, IInv, Shapes, OneKeyPerToken
  <2>2. AnswersAreReal'
    BY <1>2 DEF Keeps, IInv, Shapes, AnswersAreReal
  <2> QED
    BY <1>2, <2>1, <2>2 DEF WriteSide, IInv
<1>3. CASE OnLease
  <2>1. WriteSide' /\ Keeps
    BY <1>1, <1>3, AtRest DEF OnLease, writeVars
  <2> QED
    BY <1>2, <1>3, <2>1, LeaseStamps DEF IInv, Shapes
<1>4. ASSUME NEW r \in Runs, Execute(r)
      PROVE  IInv'
  <2>1. WriteSide' /\ Keeps
    BY <1>1, <1>4, ExecuteBacks
  <2>2. OutcomesAreReal'
    BY <1>4, AnswerBacked DEF IInv, OutcomesAreReal
  <2> QED
    BY <1>2, <1>4, <2>1, <2>2, AnswerBacked DEF IInv, Shapes
<1>5. CASE Behind
  <2>1. WriteSide' /\ Keeps
    BY <1>1, <1>5, WorkingBacks, AdministeringBacks DEF Behind
  <2> QED
    BY <1>2, <1>5, <2>1 DEF Behind, vars, rows, IInv, Shapes, OutcomesAreReal
<1>6. CASE GovernedCrash
  <2>1. WriteSide' /\ Keeps
    BY <1>1, <1>6, CrashBacks DEF GovernedCrash
  <2> QED
    BY <1>2, <1>6, <2>1 DEF GovernedCrash, Crash, rows, IInv, Shapes, OutcomesAreReal
<1>7. CASE UNCHANGED governedVars
  <2>1. WriteSide' /\ Keeps
    BY <1>1, <1>7, AtRest DEF governedVars, writeVars
  <2> QED
    BY <1>2, <1>7, <2>1 DEF governedVars, vars, rows, IInv, Shapes, OutcomesAreReal
<1> QED
  BY <1>3, <1>4, <1>5, <1>6, <1>7 DEF GovernedNext

LEMMA InitInv == GovernedInit => IInv
  BY DEF GovernedInit, Init, Write!Init, IInv, Shapes, OneKeyPerToken, WorkIsReal,
         AnswersAreReal, OutcomesAreReal, Write!ReplaysAreReal, Write!Works

\* The strengthening holds in every reachable state: whatever the work, the ledger,
\* an answer or a row says of a write is backed by what landed.
THEOREM Inductive == GovernedSpec => []IInv
<1>1. IInv /\ [GovernedNext]_governedVars => IInv'
  BY InvStep
<1> QED
  BY <1>1, InitInv, PTL DEF GovernedSpec

\* The row of an approval says 'succeeded' only if its write has reached its
\* target: for any number of approvals, retries, faults and administrators.
THEOREM SuccessesWereWritten == GovernedSpec => []ExecutedWasWritten
<1>1. IInv => ExecutedWasWritten
  <2> SUFFICES ASSUME IInv, NEW r \in Runs, tok[r] \in executed
               PROVE  Written(key[r])
    BY DEF ExecutedWasWritten, Written
  <2>1. PICK q \in Runs : q \in ok /\ tok[q] = tok[r]
    BY DEF IInv, Shapes, OutcomesAreReal
  <2>2. Written(key[q]) /\ key[q] = key[r]
    BY <2>1 DEF IInv, AnswersAreReal, OneKeyPerToken
  <2> QED
    BY <2>2
<1> QED
  BY <1>1, Inductive, PTL

-----------------------------------------------------------------------------
(***************************************************************************)
(* What is proved of the write claim holds in the composition.  The module *)
(* of its proofs is a second instance of the write claim; its definitions  *)
(* say the same, expanded one against the other.                           *)
(***************************************************************************)
Claims == INSTANCE WriteClaim_proofs WITH Attempts <- Runs

LEMMA SameInit == Write!Init => Claims!Init
  BY DEF Write!Init, Write!Keys, Write!Operations,
         Claims!Init, Claims!Keys, Claims!Operations

LEMMA SameClaiming ==
    ASSUME NEW r \in Runs, Write!Claiming(r) \/ Write!Failing(r)
    PROVE  Claims!Claiming(r) \/ Claims!Failing(r)
  BY DEF Write!Claiming, Write!Begin, Write!Insert, Write!InsertConflicts, Write!Reread,
         Write!Reclaim, Write!ReclaimRefused, Write!StartWork, Write!LeaseTaken,
         Write!Failing, Write!InsertFails, Write!ReclaimFails, Write!SettleFails,
         Write!ReleaseFails, Write!Settling, Write!Releasing, Write!SettleRow,
         Write!ReleaseRow, Write!Fault, Write!Goto, Write!Behind, Write!Is, Write!OpOf,
         Write!Keys, Write!Operations, Write!claims, Write!admins,
         Claims!Claiming, Claims!Begin, Claims!Insert, Claims!InsertConflicts,
         Claims!Reread, Claims!Reclaim, Claims!ReclaimRefused, Claims!StartWork,
         Claims!LeaseTaken, Claims!Failing, Claims!InsertFails, Claims!ReclaimFails,
         Claims!SettleFails, Claims!ReleaseFails, Claims!Settling, Claims!Releasing,
         Claims!SettleRow, Claims!ReleaseRow, Claims!Fault, Claims!Goto, Claims!Behind,
         Claims!Is, Claims!OpOf, Claims!Keys, Claims!Operations, Claims!claims,
         Claims!admins

LEMMA SameWorking ==
    ASSUME NEW r \in Runs, Write!Working(r)
    PROVE  Claims!Working(r)
  BY DEF Write!Working, Write!Land, Write!ProxyFails, Write!McpAnswers, Write!McpFails,
         Write!RegisterFails, Write!ToolRefuses, Write!Register, Write!Background,
         Write!Behind, Write!Fault, Write!Is, Write!OpOf, Write!claims, Write!admins,
         Claims!Working, Claims!Land, Claims!ProxyFails, Claims!McpAnswers,
         Claims!McpFails, Claims!RegisterFails, Claims!ToolRefuses, Claims!Register,
         Claims!Background, Claims!Behind, Claims!Fault, Claims!Is, Claims!OpOf,
         Claims!claims, Claims!admins

LEMMA SameWaiting ==
    ASSUME NEW r \in Runs, Write!Waiting(r)
    PROVE  Claims!Waiting(r)
  BY DEF Write!Waiting, Write!Cancel, Write!StopUnconfirmed, Write!Anchor,
         Write!McpGivesUp, Write!Settle, Write!Release, Write!Settling, Write!Releasing,
         Write!SettleRow, Write!ReleaseRow, Write!Fault, Write!Goto, Write!Is,
         Write!OpOf, Write!claims, Write!admins,
         Claims!Waiting, Claims!Cancel, Claims!StopUnconfirmed, Claims!Anchor,
         Claims!McpGivesUp, Claims!Settle, Claims!Release, Claims!Settling,
         Claims!Releasing, Claims!SettleRow, Claims!ReleaseRow, Claims!Fault,
         Claims!Goto, Claims!Is, Claims!OpOf, Claims!claims, Claims!admins

LEMMA SameAdministering ==
    ASSUME Write!Administering \/ Write!Crash
    PROVE  Claims!Administering \/ Claims!Crash
  BY DEF Write!Administering, Write!Age, Write!SweepOverdue, Write!Overdue,
         Write!AdminReads, Write!AdminStep, Write!CloseUnknown, Write!AskTarget,
         Write!Reconcile, Write!Crash, Write!SettleRow, Write!ReleaseRow, Write!Fault,
         Write!Is, Write!OpOf, Write!Keys, Write!Operations, Write!claims, Write!admins,
         Claims!Administering, Claims!Age, Claims!SweepOverdue, Claims!Overdue,
         Claims!AdminReads, Claims!AdminStep, Claims!CloseUnknown, Claims!AskTarget,
         Claims!Reconcile, Claims!Crash, Claims!SettleRow, Claims!ReleaseRow,
         Claims!Fault, Claims!Is, Claims!OpOf, Claims!Keys, Claims!Operations,
         Claims!claims, Claims!admins

LEMMA SameNext ==
    ASSUME [Write!Next]_(Write!vars)
    PROVE  [Claims!Next]_(Claims!vars)
<1>1. CASE UNCHANGED Write!vars
  BY <1>1 DEF Write!vars, Write!claims, Write!admins,
              Claims!vars, Claims!claims, Claims!admins
<1>2. CASE Write!Next
  BY <1>2, SameClaiming, SameWorking, SameWaiting, SameAdministering
     DEF Write!Next, Claims!Next
<1> QED
  BY <1>1, <1>2

\* The composition keeps the invariant of the write claim and what holds of it as
\* long as nothing fails, so that a write lands once per key.
LEMMA ClaimsHold == GovernedSpec => [](Claims!IInv /\ Claims!WrittenOnce)
<1>1. Claims!Init => Claims!IInv /\ Claims!CalmInv
  BY Claims!InitInv, Claims!InitCalm, GovernedAssumption
<1>2. Claims!IInv /\ [Claims!Next]_(Claims!vars) => Claims!IInv'
  BY Claims!InvStep, GovernedAssumption
<1>3. Claims!IInv /\ Claims!CalmInv /\ [Claims!Next]_(Claims!vars) => Claims!CalmInv'
  BY Claims!CalmStep, GovernedAssumption
<1>4. Claims!IInv /\ Claims!CalmInv => Claims!WrittenOnce
  BY Claims!OnceFollows, GovernedAssumption
<1>5. [Write!Next]_(Write!vars) => [Claims!Next]_(Claims!vars)
  BY SameNext
<1> QED
  BY <1>1, <1>2, <1>3, <1>4, <1>5, SameInit, ClaimImplemented, PTL DEF Write!Spec

\* Executions that the execution lease lets start side by side, and those of two
\* approvals of one call, are never at work on one operation at once.
THEOREM ExecutionsTakeTurns == GovernedSpec => []Write!OneFlight
<1>1. Claims!IInv => Claims!OneFlight
  BY Claims!OneFlightFollows, GovernedAssumption
<1>2. Claims!OneFlight => Write!OneFlight
  BY DEF Claims!OneFlight, Claims!InFlight, Claims!Is, Claims!OpOf, Claims!MayReopen,
         Write!OneFlight, Write!InFlight, Write!Is, Write!OpOf, Write!MayReopen
<1> QED
  BY <1>1, <1>2, ClaimsHold, PTL

\* However an approval, its answer in the dialogue, retries and other approvals of
\* the same call race, one execution writes: an MCP write always, a local one as
\* long as nothing fails.  The lease does not keep that, the write claim does.
THEOREM RetriesWriteOnce == GovernedSpec => []RetriedOnce
<1>1. Claims!WrittenOnce => RetriedOnce
  BY DEF Claims!WrittenOnce, RetriedOnce, Claims!Is, Claims!OpOf, Claims!MayReopen,
         Write!Is, Write!OpOf, Write!MayReopen
<1> QED
  BY <1>1, ClaimsHold, PTL
=============================================================================
