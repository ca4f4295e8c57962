------------------------- MODULE EffectRevoke_proofs -------------------------
(***************************************************************************)
(* Proofs about the revocation of effects, for any effects, groups and     *)
(* requests: its type, one owner and one compensation per effect, what     *)
(* readers of the rows are told, that it implements RevokeContract, and    *)
(* that requests which come one after the other leave no half of a group   *)
(* but beside a row that reads in flight.                                  *)
(***************************************************************************)
EXTENDS EffectRevoke, FiniteSetTheorems, WellFoundedInduction, TLAPS

Phases == {"idle", "check", "list", "sort", "claim", "reread",
           "fact", "write", "rewrite", "send", "wait", "over"}

\* "revoked" may be said of e.
Real(e) == e \in Local /\ target[e] # "live"

\* What a request knows of itself at each of its steps.
At(r) ==
    /\ pc[r] \notin {"claim", "fact", "write", "rewrite", "wait"} => mine[r] = {}
    /\ pc[r] = "claim" => /\ mine[r] \subseteq job[r].locals /\ mine[r] # job[r].locals
                          /\ job[r].locals \subseteq job[r].unit
    /\ pc[r] = "fact" => mine[r] # {} /\ mine[r] \subseteq Local
    /\ pc[r] \in {"write", "rewrite"} =>
         /\ mine[r] # {}
         /\ \/ to[r] = "revoke_failed"
            \/ to[r] = "revoked" /\ \A e \in mine[r] : Real(e)
            \/ to[r] = "compensating" /\ \A e \in mine[r] : e \in External /\ landed[e] # {}
    /\ pc[r] = "send" => job[r].externals # {}
    /\ pc[r] = "wait" => mine[r] # {} /\ mine[r] \subseteq External
    /\ \A e \in Effects : job[r].copy[e] = "revoked" => Real(e)
    /\ \A e \in told[r] : Real(e)

\* A row that is held is in flight, unless an answer about it was lost.
HeldInFlight == \A r \in Requests : \A e \in mine[r] :
    status[e] # "null" /\ (e \notin blind => status[e] = "compensating")

StatusReal == \A e \in Effects : status[e] = "revoked" => Real(e)

\* A request reports that its compensation was accepted.
Accepting(r) == pc[r] \in {"write", "rewrite"} /\ to[r] = "compensating"

\* What has landed stays in flight, and only the request that was answered so
\* still holds the row.
LandedInFlight == \A e \in External \ blind : landed[e] # {} =>
    /\ status[e] = "compensating"
    /\ \A a, b \in landed[e] : a = b
    /\ \A r \in Requests : e \in mine[r] => Accepting(r)

\* A stale intent is nobody's, and only those are taken on.
StaleIsStuck == \A e \in Effects :
    /\ age[e] = "stale" => status[e] = "compensating" /\ ~Held(e)
    /\ taker[e] # Nobody => age[e] = "stale"
    /\ age[e] = "none" => status[e] = "null" /\ ~Held(e)

Rest == /\ OneOwner /\ HeldInFlight /\ StatusReal /\ LandedInFlight /\ StaleIsStuck
        /\ AcknowledgedIsReal

IInv == TypeOK /\ (\A r \in Requests : At(r)) /\ Rest

-----------------------------------------------------------------------------
LEMMA FirstIn ==
    ASSUME NEW S \in SUBSET Effects, S # {}
    PROVE  First(S) \in S
<1>1. S \subseteq Nat
  BY EffectAssumption
<1>2. PICK x \in S : \A y \in S : ~(<<y, x>> \in OpToRel(<, Nat))
  BY <1>1, NatLessThanWellFounded, WFMin
<1>3. ASSUME NEW y \in S
      PROVE  x <= y
  <2>1. x \in Nat /\ y \in Nat
    BY <1>1
  <2>2. y < x => <<y, x>> \in OpToRel(<, Nat)
    BY <2>1 DEF OpToRel
  <2>3. ~(y < x)
    BY <1>2, <1>3, <2>2
  <2> QED
    BY <2>1, <2>3
<1> QED
  BY <1>3 DEF First

LEMMA JobFields ==
    ASSUME NEW j \in Jobs
    PROVE  /\ j.todo \in SUBSET Effects /\ j.unit \in SUBSET Effects
           /\ j.copy \in [Effects -> Statuses]
           /\ j.locals \in SUBSET Local /\ j.externals \in SUBSET External
           /\ j.locals \in SUBSET Effects /\ j.externals \in SUBSET Effects
  BY DEF Jobs, Effects

LEMMA JobType ==
    ASSUME TypeOK, NEW r \in Requests
    PROVE  /\ job[r] \in Jobs
           /\ job[r].todo \in SUBSET Effects /\ job[r].unit \in SUBSET Effects
           /\ job[r].copy \in [Effects -> Statuses]
           /\ job[r].locals \in SUBSET Local /\ job[r].externals \in SUBSET External
<1>1. job[r] \in Jobs
  BY DEF TypeOK
<1> QED
  BY <1>1, JobFields

LEMMA GroupType == \A e \in Effects : Group[e] \in SUBSET Effects
  BY EffectAssumption

LEMMA NoJobType == NoJob \in Jobs /\ \A e \in Effects : NoJob.copy[e] = "null"
  BY DEF NoJob, Jobs, Statuses

LEMMA GotoPhase ==
    ASSUME TypeOK, NEW r \in Requests, NEW p \in Phases, Goto(r, p)
    PROVE  /\ pc' \in [Requests -> Phases] /\ pc'[r] = p
           /\ \A s \in Requests \ {r} : pc'[s] = pc[s]
  BY DEF Goto, TypeOK, Phases

LEMMA PlanJob ==
    ASSUME TypeOK, NEW r \in Requests, NEW j \in Jobs, Plan(r, j)
    PROVE  /\ job' \in [Requests -> Jobs] /\ job'[r] = j
           /\ \A s \in Requests \ {r} : job'[s] = job[s]
  BY DEF Plan, TypeOK

\* What is read of other rows is left.
LEMMA ContinueStep ==
    ASSUME TypeOK, NEW r \in Requests, Continue(r)
    PROVE  /\ pc' \in [Requests -> Phases] /\ pc'[r] \in {"over", "check", "list"}
           /\ job' \in [Requests -> Jobs]
           /\ \A s \in Requests \ {r} : pc'[s] = pc[s] /\ job'[s] = job[s]
           /\ \A e \in Effects : job'[r].copy[e] = "revoked" => job[r].copy[e] = "revoked"
<1> DEFINE rest == job[r].todo
           unit == Group[First(rest)]
           j == [NoJob EXCEPT !.todo = rest \ unit, !.unit = unit,
                  !.copy = [e \in Effects |-> IF e \in rest THEN job[r].copy[e] ELSE "null"]]
<1>1. job[r] \in Jobs /\ rest \in SUBSET Effects
  BY JobFields DEF TypeOK
<1>2. CASE rest = {}
  <2>1. Goto(r, "over") /\ Plan(r, NoJob)
    BY <1>2 DEF Continue
  <2> QED
    BY <2>1, GotoPhase, PlanJob, NoJobType DEF Phases
<1>3. CASE rest # {}
  <2>1. Goto(r, IF Cardinality(unit) = 1 THEN "check" ELSE "list") /\ Plan(r, j)
    BY <1>3 DEF Continue
  <2>2. unit \in SUBSET Effects
    <3>1. First(rest) \in Effects
      <4> HIDE DEF rest
      <4> QED
        BY <1>1, <1>3, FirstIn
    <3>2. Group \in [Effects -> SUBSET Effects]
      BY EffectAssumption
    <3> HIDE DEF rest
    <3> QED
      BY <3>1, <3>2
  <2>3. j \in Jobs /\ j.copy = [e \in Effects |-> IF e \in rest THEN job[r].copy[e] ELSE "null"]
    <3>1. [e \in Effects |-> IF e \in rest THEN job[r].copy[e] ELSE "null"] \in [Effects -> Statuses]
      BY <1>1, JobFields DEF Statuses
    <3> HIDE DEF rest, unit
    <3> QED
      BY <1>1, <2>2, <3>1 DEF NoJob, Jobs
  <2>4. \A e \in Effects : j.copy[e] = "revoked" => job[r].copy[e] = "revoked"
    BY <2>3
  <2>5. (IF Cardinality(unit) = 1 THEN "check" ELSE "list") \in {"check", "list"}
    OBVIOUS
  <2> HIDE DEF rest, unit, j
  <2> QED
    BY <2>1, <2>3, <2>4, <2>5, GotoPhase, PlanJob DEF Phases
<1> QED
  BY <1>2, <1>3

LEMMA WorkStep ==
    ASSUME TypeOK, NEW r \in Requests, NEW j \in Jobs, Work(r, j),
           \A e \in Effects : j.copy[e] = "revoked" => job[r].copy[e] = "revoked"
    PROVE  /\ pc' \in [Requests -> Phases]
           /\ pc'[r] \in {"over", "check", "list", "claim", "send"}
           /\ job' \in [Requests -> Jobs]
           /\ \A s \in Requests \ {r} : pc'[s] = pc[s] /\ job'[s] = job[s]
           /\ pc'[r] = "claim" => job'[r] = j /\ j.locals # {}
           /\ pc'[r] = "send" => job'[r] = j /\ j.externals # {}
           /\ \A e \in Effects : job'[r].copy[e] = "revoked" => job[r].copy[e] = "revoked"
<1>1. CASE j.locals = {} /\ j.externals = {}
  <2>1. Continue(r)
    BY <1>1 DEF Work
  <2> QED
    BY <2>1, ContinueStep
<1>2. CASE ~(j.locals = {} /\ j.externals = {})
  <2>1. Goto(r, IF j.locals # {} THEN "claim" ELSE "send") /\ Plan(r, j)
    BY <1>2 DEF Work
  <2>2. (IF j.locals # {} THEN "claim" ELSE "send") \in Phases
    BY DEF Phases
  <2> QED
    BY <1>2, <2>1, <2>2, GotoPhase, PlanJob
<1> QED
  BY <1>1, <1>2

-----------------------------------------------------------------------------
RowsOK ==
    /\ status \in [Effects -> Statuses]
    /\ age \in [Effects -> {"none", "fresh", "stale"}]
    /\ acknowledged \in [Effects -> BOOLEAN]
    /\ taker \in [Effects -> People \union {Nobody}]

FactsOK ==
    /\ target \in [Local -> {"live", "deleted", "restored"}]
    /\ landed \in [Effects -> SUBSET Requests]
    /\ blind \in SUBSET Effects

RequestsOK ==
    /\ pc \in [Requests -> Phases] /\ job \in [Requests -> Jobs]
    /\ mine \in [Requests -> SUBSET Effects] /\ to \in [Requests -> Statuses]
    /\ told \in [Requests -> SUBSET Effects]

LEMMA TypeParts == TypeOK => RowsOK /\ FactsOK /\ calm \in BOOLEAN /\ RequestsOK
  BY DEF TypeOK, RowsOK, FactsOK, RequestsOK, Phases

LEMMA TypeFromParts ==
    ASSUME RowsOK', FactsOK', calm' \in BOOLEAN, RequestsOK'
    PROVE  TypeOK'
  BY DEF TypeOK, RowsOK, FactsOK, RequestsOK, Phases

Frame(r) == \A s \in Requests \ {r} :
    /\ pc'[s] = pc[s] /\ job'[s] = job[s] /\ mine'[s] = mine[s]
    /\ to'[s] = to[s] /\ told'[s] = told[s]

\* No target comes to life again, and nothing that landed is gone.
FactsGrow ==
    /\ \A e \in Local : target[e] # "live" => target'[e] # "live"
    /\ \A e \in Effects : landed[e] # {} => landed'[e] # {}

LEMMA OthersKeep ==
    ASSUME IInv, NEW r \in Requests, Frame(r), FactsGrow, At(r)'
    PROVE  \A s \in Requests : At(s)'
<1> SUFFICES ASSUME NEW s \in Requests \ {r} PROVE At(s)'
  OBVIOUS
<1>1. At(s) /\ mine[s] \subseteq Effects /\ told[s] \subseteq Effects
  BY DEF IInv, TypeOK
<1>2. \A e : Real(e) => Real(e)'
  BY DEF FactsGrow, Real
<1> QED
  BY <1>1, <1>2 DEF At, Frame, FactsGrow

\* A step of a request that touches no row and no target and takes nothing on.
LEMMA Quiet ==
    ASSUME IInv, UNCHANGED <<rows, facts>>, NEW r \in Requests, Frame(r),
           mine'[r] \subseteq mine[r], mine'[r] # {} /\ Accepting(r) => Accepting(r)'
    PROVE  Rest'
<1> USE DEF IInv, Rest
<1>1. \A s \in Requests : mine'[s] \subseteq mine[s]
  BY DEF Frame
<1>2. UNCHANGED <<status, age, acknowledged, taker, target, landed, blind>>
  BY DEF rows, facts
<1>3. OneOwner' /\ HeldInFlight' /\ StatusReal'
  BY <1>1, <1>2 DEF OneOwner, HeldInFlight, StatusReal, Real
<1>4. AcknowledgedIsReal' /\ StaleIsStuck'
  BY <1>1, <1>2 DEF AcknowledgedIsReal, StaleIsStuck, Held
<1>5. LandedInFlight'
  <2>1. ASSUME NEW e \in External \ blind, landed[e] # {}, NEW s \in Requests, e \in mine'[s]
        PROVE  Accepting(s)'
    <3>1. Accepting(s)
      BY <1>1, <2>1 DEF LandedInFlight
    <3> QED
      BY <2>1, <3>1 DEF Frame, Accepting
  <2> QED
    BY <1>2, <2>1 DEF LandedInFlight
<1> QED
  BY <1>3, <1>4, <1>5

LEMMA QuietStep ==
    ASSUME IInv, RequestsOK', calm' \in BOOLEAN, UNCHANGED <<rows, facts>>,
           NEW r \in Requests, Frame(r), At(r)',
           mine'[r] \subseteq mine[r], mine'[r] # {} /\ Accepting(r) => Accepting(r)'
    PROVE  IInv'
<1>1. TypeOK'
  <2>1. RowsOK' /\ FactsOK'
    BY TypeParts DEF IInv, RowsOK, FactsOK, rows, facts
  <2> QED
    BY <2>1, TypeFromParts
<1>2. FactsGrow
  BY DEF FactsGrow, facts
<1> QED
  BY <1>1, <1>2, OthersKeep, Quiet DEF IInv

-----------------------------------------------------------------------------
LEMMA ToldReal ==
    ASSUME IInv, NEW r \in Requests, NEW S \in SUBSET Effects
    PROVE  AlreadyRevoked(r, S) \subseteq Effects /\ \A e \in AlreadyRevoked(r, S) : Real(e)
  BY DEF IInv, At, AlreadyRevoked

LEMMA TellStep ==
    ASSUME TypeOK, NEW r \in Requests, NEW S \in SUBSET Effects, Tell(r, S)
    PROVE  /\ told' \in [Requests -> SUBSET Effects] /\ told'[r] = told[r] \union S
           /\ \A s \in Requests \ {r} : told'[s] = told[s]
  BY DEF Tell, TypeOK

\* The members to compensate, out of the unit in work.
LEMMA CompensateStep ==
    ASSUME TypeOK, NEW r \in Requests, NEW S \in SUBSET job[r].unit, Compensate(r, S)
    PROVE  /\ pc' \in [Requests -> Phases]
           /\ pc'[r] \in {"over", "check", "list", "claim", "send"}
           /\ job' \in [Requests -> Jobs]
           /\ \A s \in Requests \ {r} : pc'[s] = pc[s] /\ job'[s] = job[s]
           /\ pc'[r] = "claim" => job'[r].locals # {} /\ job'[r].locals \subseteq job'[r].unit
           /\ pc'[r] = "send" => job'[r].externals # {}
           /\ \A e \in Effects : job'[r].copy[e] = "revoked" => job[r].copy[e] = "revoked"
<1> DEFINE j == [job[r] EXCEPT !.locals = S \intersect Local, !.externals = S \intersect External]
<1>1. job[r] \in Jobs
  BY DEF TypeOK
<1>2. /\ j \in Jobs /\ j.locals = S \intersect Local /\ j.externals = S \intersect External
      /\ j.copy = job[r].copy /\ j.unit = job[r].unit
  BY <1>1 DEF Jobs
<1>3. Work(r, j)
  BY DEF Compensate
<1> HIDE DEF j
<1>4. /\ pc' \in [Requests -> Phases]
      /\ pc'[r] \in {"over", "check", "list", "claim", "send"}
      /\ job' \in [Requests -> Jobs]
      /\ \A s \in Requests \ {r} : pc'[s] = pc[s] /\ job'[s] = job[s]
      /\ pc'[r] = "claim" => job'[r] = j /\ j.locals # {}
      /\ pc'[r] = "send" => job'[r] = j /\ j.externals # {}
      /\ \A e \in Effects : job'[r].copy[e] = "revoked" => job[r].copy[e] = "revoked"
  BY <1>2, <1>3, WorkStep
<1> QED
  BY <1>2, <1>4

LEMMA EnterStep ==
    ASSUME IInv, NEW r \in Requests, NEW next \in {"check", "list"}, NEW unit \in SUBSET Effects,
           NEW todo \in SUBSET Effects, NEW S \in SUBSET Effects, Enter(r, next, unit, todo, S)
    PROVE  IInv'
<1> USE DEF IInv
<1> DEFINE j == [NoJob EXCEPT !.unit = unit, !.todo = todo,
                  !.copy = [e \in Effects |-> IF e \in S THEN status[e] ELSE "null"]]
<1>1. /\ pc[r] = "idle" /\ Goto(r, next) /\ Plan(r, j)
      /\ UNCHANGED <<rows, facts, mine, to, told>>
  BY DEF Enter
<1>2. j \in Jobs /\ j.copy = [e \in Effects |-> IF e \in S THEN status[e] ELSE "null"]
  <2>1. [e \in Effects |-> IF e \in S THEN status[e] ELSE "null"] \in [Effects -> Statuses]
    BY DEF TypeOK, Statuses
  <2> QED
    BY <2>1 DEF NoJob, Jobs
<1>3. calm' \in BOOLEAN
  BY DEF Enter
<1> HIDE DEF j
<1>4. /\ pc' \in [Requests -> Phases] /\ pc'[r] = next /\ job' \in [Requests -> Jobs] /\ job'[r] = j
      /\ \A s \in Requests \ {r} : pc'[s] = pc[s] /\ job'[s] = job[s]
  BY <1>1, <1>2, GotoPhase, PlanJob DEF Phases
<1>5. RequestsOK' /\ Frame(r)
  BY <1>1, <1>4, TypeParts DEF RequestsOK, Frame
<1>6. At(r)'
  <2>1. \A e \in Effects : j.copy[e] = "revoked" => Real(e)
    BY <1>2 DEF Rest, StatusReal
  <2> QED
    BY <1>1, <1>4, <2>1 DEF At, Real, facts
<1> QED
  BY <1>1, <1>3, <1>5, <1>6, QuietStep DEF Accepting

LEMMA CheckStep ==
    ASSUME IInv, NEW r \in Requests, Check(r)
    PROVE  IInv'
<1> USE DEF IInv
<1>1. PICK e \in job[r].unit :
        /\ pc[r] = "check"
        /\ \/ Skipped(r, e) /\ Continue(r)
           \/ /\ ~Skipped(r, e) /\ Cardinality(Group[e]) = 1 /\ Compensate(r, {e})
           \/ /\ ~Skipped(r, e) /\ Cardinality(Group[e]) > 1
              /\ Goto(r, "list") /\ Plan(r, [job[r] EXCEPT !.unit = Group[e]])
        /\ Tell(r, AlreadyRevoked(r, {e}))
        /\ UNCHANGED <<rows, facts, calm, mine, to>>
  BY DEF Check
<1>2. job[r] \in Jobs /\ e \in Effects /\ Group[e] \in SUBSET Effects
  BY JobType, GroupType
<1>3. /\ pc' \in [Requests -> Phases]
      /\ pc'[r] \in {"over", "check", "list", "claim", "send"}
      /\ job' \in [Requests -> Jobs]
      /\ \A s \in Requests \ {r} : pc'[s] = pc[s] /\ job'[s] = job[s]
      /\ pc'[r] = "claim" => job'[r].locals # {} /\ job'[r].locals \subseteq job'[r].unit
      /\ pc'[r] = "send" => job'[r].externals # {}
      /\ \A f \in Effects : job'[r].copy[f] = "revoked" => job[r].copy[f] = "revoked"
  <2>1. CASE Continue(r)
    BY <2>1, ContinueStep
  <2>2. CASE Compensate(r, {e})
    BY <2>2, CompensateStep
  <2>3. CASE Goto(r, "list") /\ Plan(r, [job[r] EXCEPT !.unit = Group[e]])
    <3>1. /\ [job[r] EXCEPT !.unit = Group[e]] \in Jobs
          /\ [job[r] EXCEPT !.unit = Group[e]].copy = job[r].copy
      BY <1>2 DEF Jobs
    <3> QED
      BY <2>3, <3>1, GotoPhase, PlanJob DEF Phases
  <2> QED
    BY <1>1, <2>1, <2>2, <2>3
<1>4. /\ told' \in [Requests -> SUBSET Effects] /\ told'[r] = told[r] \union AlreadyRevoked(r, {e})
      /\ \A s \in Requests \ {r} : told'[s] = told[s]
      /\ \A f \in AlreadyRevoked(r, {e}) : Real(f)
  BY <1>1, <1>2, ToldReal, TellStep
<1>5. RequestsOK' /\ Frame(r)
  BY <1>1, <1>3, <1>4, TypeParts DEF RequestsOK, Frame
<1>6. At(r)'
  BY <1>1, <1>3, <1>4 DEF At, Real, facts
<1> QED
  BY <1>1, <1>5, <1>6, QuietStep DEF Accepting, TypeOK

LEMMA ListStep ==
    ASSUME IInv, NEW r \in Requests, ListGroup(r)
    PROVE  IInv'
<1> USE DEF IInv
<1> DEFINE copy == [e \in Effects |-> IF e \in job[r].unit THEN status[e] ELSE job[r].copy[e]]
           j == [job[r] EXCEPT !.copy = copy]
<1>1. /\ pc[r] = "list" /\ Goto(r, "sort") /\ Plan(r, j)
      /\ UNCHANGED <<rows, facts, calm, mine, to, told>>
  BY DEF ListGroup
<1>2. copy \in [Effects -> Statuses]
  BY JobType DEF TypeOK
<1>3. \A e \in Effects : copy[e] = "revoked" => Real(e)
  BY DEF At, Rest, StatusReal
<1> HIDE DEF copy
<1>4. j \in Jobs /\ j.copy = copy
  BY <1>2, JobType DEF Jobs
<1> HIDE DEF j
<1>5. /\ pc' \in [Requests -> Phases] /\ pc'[r] = "sort" /\ job' \in [Requests -> Jobs] /\ job'[r] = j
      /\ \A s \in Requests \ {r} : pc'[s] = pc[s] /\ job'[s] = job[s]
  BY <1>1, <1>4, GotoPhase, PlanJob DEF Phases
<1>6. RequestsOK' /\ Frame(r)
  BY <1>1, <1>5, TypeParts DEF RequestsOK, Frame
<1>7. At(r)'
  BY <1>1, <1>3, <1>4, <1>5 DEF At, Real, facts
<1> QED
  BY <1>1, <1>6, <1>7, QuietStep DEF Accepting, TypeOK

LEMMA SortStep ==
    ASSUME IInv, NEW r \in Requests, SortMembers(r)
    PROVE  IInv'
<1> USE DEF IInv
<1>1. /\ pc[r] = "sort"
      /\ Compensate(r, {e \in job[r].unit : ~Skipped(r, e)})
      /\ Tell(r, AlreadyRevoked(r, job[r].unit))
      /\ UNCHANGED <<rows, facts, calm, mine, to>>
  BY DEF SortMembers
<1>2. {e \in job[r].unit : ~Skipped(r, e)} \in SUBSET job[r].unit
  OBVIOUS
<1>3. /\ pc' \in [Requests -> Phases]
      /\ pc'[r] \in {"over", "check", "list", "claim", "send"}
      /\ job' \in [Requests -> Jobs]
      /\ \A s \in Requests \ {r} : pc'[s] = pc[s] /\ job'[s] = job[s]
      /\ pc'[r] = "claim" => job'[r].locals # {} /\ job'[r].locals \subseteq job'[r].unit
      /\ pc'[r] = "send" => job'[r].externals # {}
      /\ \A f \in Effects : job'[r].copy[f] = "revoked" => job[r].copy[f] = "revoked"
  BY <1>1, <1>2, CompensateStep
<1>4. /\ told' \in [Requests -> SUBSET Effects]
      /\ told'[r] = told[r] \union AlreadyRevoked(r, job[r].unit)
      /\ \A s \in Requests \ {r} : told'[s] = told[s]
      /\ \A f \in AlreadyRevoked(r, job[r].unit) : Real(f)
  BY <1>1, JobType, ToldReal, TellStep
<1>5. RequestsOK' /\ Frame(r)
  BY <1>1, <1>3, <1>4, TypeParts DEF RequestsOK, Frame
<1>6. At(r)'
  BY <1>1, <1>3, <1>4 DEF At, Real, facts
<1> QED
  BY <1>1, <1>5, <1>6, QuietStep DEF Accepting, TypeOK

\* After a refusal, a rollback or a failure: what is held is to be given back.
LEMMA UndoStep ==
    ASSUME TypeOK, NEW r \in Requests, Undo(r)
    PROVE  /\ pc' \in [Requests -> Phases] /\ job' \in [Requests -> Jobs]
           /\ to' \in [Requests -> Statuses]
           /\ \A s \in Requests \ {r} : pc'[s] = pc[s] /\ job'[s] = job[s] /\ to'[s] = to[s]
           /\ \/ mine[r] = {} /\ pc'[r] \in {"over", "check", "list"}
              \/ mine[r] # {} /\ pc'[r] = "write" /\ to'[r] = "revoke_failed"
           /\ \A e \in Effects : job'[r].copy[e] = "revoked" => job[r].copy[e] = "revoked"
<1>1. CASE mine[r] = {}
  <2>1. Continue(r) /\ to' = to
    BY <1>1 DEF Undo
  <2> QED
    BY <1>1, <2>1, ContinueStep DEF TypeOK
<1>2. CASE mine[r] # {}
  <2> DEFINE j == [job[r] EXCEPT !.externals = {}]
  <2>1. Goto(r, "write") /\ Plan(r, j) /\ to' = [to EXCEPT ![r] = "revoke_failed"]
    BY <1>2 DEF Undo
  <2>2. j \in Jobs /\ j.copy = job[r].copy
    BY JobType DEF Jobs
  <2>3. to' \in [Requests -> Statuses] /\ to'[r] = "revoke_failed"
        /\ \A s \in Requests \ {r} : to'[s] = to[s]
    BY <2>1 DEF TypeOK, Statuses
  <2> HIDE DEF j
  <2>4. /\ pc' \in [Requests -> Phases] /\ pc'[r] = "write" /\ job' \in [Requests -> Jobs] /\ job'[r] = j
        /\ \A s \in Requests \ {r} : pc'[s] = pc[s] /\ job'[s] = job[s]
    BY <2>1, <2>2, GotoPhase, PlanJob DEF Phases
  <2> QED
    BY <1>2, <2>2, <2>3, <2>4
<1> QED
  BY <1>1, <1>2

\* A request for one row that is refused holds nothing.
LEMMA SingleHoldsNothing ==
    ASSUME IInv, NEW r \in Requests, pc[r] = "claim", Cardinality(job[r].unit) = 1
    PROVE  mine[r] = {}
<1>1. job[r].unit \in SUBSET Effects /\ IsFiniteSet(Effects)
  BY JobType, EffectAssumption DEF IInv
<1>2. IsFiniteSet(job[r].unit)
  BY <1>1, FS_Subset
<1>3. PICK x : job[r].unit = {x}
  BY <1>2, FS_Singleton
<1> QED
  BY <1>3 DEF IInv, At

LEMMA ClaimRefusedStep ==
    ASSUME IInv, NEW r \in Requests, ClaimRefused(r)
    PROVE  IInv'
<1> USE DEF IInv
<1>1. pc[r] = "claim" /\ UNCHANGED <<rows, facts, calm, mine, told>>
  BY DEF ClaimRefused
<1>2. CASE Goto(r, "reread") /\ Cardinality(job[r].unit) = 1 /\ UNCHANGED <<job, to>>
  <2>1. pc' \in [Requests -> Phases] /\ pc'[r] = "reread" /\ \A s \in Requests \ {r} : pc'[s] = pc[s]
    BY <1>2, GotoPhase DEF Phases
  <2>2. mine[r] = {}
    BY <1>1, <1>2, SingleHoldsNothing
  <2>3. RequestsOK' /\ Frame(r)
    BY <1>1, <1>2, <2>1, TypeParts DEF RequestsOK, Frame
  <2>4. At(r)'
    BY <1>1, <1>2, <2>1, <2>2 DEF At, Real, facts
  <2> QED
    BY <1>1, <2>3, <2>4, QuietStep DEF Accepting, TypeOK
<1>3. CASE Undo(r)
  <2>1. RequestsOK' /\ Frame(r)
    BY <1>1, <1>3, UndoStep, TypeParts DEF RequestsOK, Frame
  <2>2. At(r)'
    BY <1>1, <1>3, UndoStep DEF At, Real, facts
  <2> QED
    BY <1>1, <2>1, <2>2, QuietStep DEF Accepting, TypeOK
<1> QED
  BY <1>2, <1>3 DEF ClaimRefused

LEMMA RereadStep ==
    ASSUME IInv, NEW r \in Requests, Reread(r)
    PROVE  IInv'
<1> USE DEF IInv
<1>1. PICK e \in job[r].locals :
        /\ pc[r] = "reread" /\ Continue(r)
        /\ Tell(r, {f \in {e} : status[f] = "revoked"})
        /\ UNCHANGED <<rows, facts, calm, mine, to>>
  BY DEF Reread
<1> DEFINE S == {f \in {e} : status[f] = "revoked"}
<1>2. S \in SUBSET Effects /\ \A f \in S : Real(f)
  BY JobType DEF Rest, StatusReal, Effects
<1> HIDE DEF S
<1>3. /\ told' \in [Requests -> SUBSET Effects] /\ told'[r] = told[r] \union S
      /\ \A s \in Requests \ {r} : told'[s] = told[s]
  BY <1>1, <1>2, TellStep DEF S
<1>4. RequestsOK' /\ Frame(r)
  BY <1>1, <1>3, ContinueStep, TypeParts DEF RequestsOK, Frame
<1>5. At(r)'
  BY <1>1, <1>2, <1>3, ContinueStep DEF At, Real, facts
<1> QED
  BY <1>1, <1>4, <1>5, QuietStep DEF Accepting, TypeOK

LEMMA SendRefusedStep ==
    ASSUME IInv, NEW r \in Requests, SendRefused(r)
    PROVE  IInv'
<1> USE DEF IInv
<1> DEFINE e == First(job[r].externals)
           j == [job[r] EXCEPT !.locals = {}, !.externals = @ \ {e}]
<1>1. pc[r] = "send" /\ Work(r, j) /\ UNCHANGED <<rows, facts, calm, mine, to, told>>
  BY DEF SendRefused
<1> HIDE DEF e
<1>2. j \in Jobs /\ j.copy = job[r].copy /\ j.locals = {}
  BY JobType DEF Jobs
<1> HIDE DEF j
<1>3. /\ pc' \in [Requests -> Phases]
      /\ pc'[r] \in {"over", "check", "list", "claim", "send"}
      /\ job' \in [Requests -> Jobs]
      /\ \A s \in Requests \ {r} : pc'[s] = pc[s] /\ job'[s] = job[s]
      /\ pc'[r] = "claim" => job'[r] = j /\ j.locals # {}
      /\ pc'[r] = "send" => job'[r] = j /\ j.externals # {}
      /\ \A f \in Effects : job'[r].copy[f] = "revoked" => job[r].copy[f] = "revoked"
  BY <1>1, <1>2, WorkStep
<1>4. RequestsOK' /\ Frame(r)
  BY <1>1, <1>3, TypeParts DEF RequestsOK, Frame
<1>5. At(r)'
  BY <1>1, <1>2, <1>3 DEF At, Real, facts
<1> QED
  BY <1>1, <1>4, <1>5, QuietStep DEF Accepting, TypeOK

-----------------------------------------------------------------------------
LEMMA IntentWritten ==
    ASSUME TypeOK, NEW e \in Effects, WriteIntent(e)
    PROVE  /\ RowsOK' /\ UNCHANGED taker
           /\ status'[e] = "compensating" /\ age'[e] = "fresh" /\ acknowledged'[e] = FALSE
           /\ \A f \in Effects \ {e} : /\ status'[f] = status[f] /\ age'[f] = age[f]
                                       /\ acknowledged'[f] = acknowledged[f]
<1>1. status' \in [Effects -> Statuses] /\ age' \in [Effects -> {"none", "fresh", "stale"}]
  BY DEF WriteIntent, TypeOK, Statuses
<1>2. acknowledged' \in [Effects -> BOOLEAN] /\ taker' \in [Effects -> People \union {Nobody}]
  BY DEF WriteIntent, TypeOK
<1>3. RowsOK'
  BY <1>1, <1>2 DEF RowsOK
<1> QED
  BY <1>3 DEF WriteIntent, TypeOK

\* A request takes a row on that is not in flight.
LEMMA IntentStep ==
    ASSUME IInv, RequestsOK', UNCHANGED <<facts, calm>>, NEW e \in Effects,
           status[e] # "compensating", WriteIntent(e),
           NEW r \in Requests, Frame(r), At(r)', ~Accepting(r),
           mine'[r] \subseteq mine[r] \union {e}
    PROVE  IInv'
<1> USE DEF IInv, Rest
<1>1. /\ RowsOK' /\ UNCHANGED <<taker, target, landed, blind>>
      /\ status'[e] = "compensating" /\ age'[e] = "fresh" /\ acknowledged'[e] = FALSE
      /\ \A f \in Effects \ {e} : /\ status'[f] = status[f] /\ age'[f] = age[f]
                                  /\ acknowledged'[f] = acknowledged[f]
  BY IntentWritten DEF facts
<1>2. TypeOK'
  <2>1. FactsOK' /\ calm' \in BOOLEAN
    BY <1>1, TypeParts DEF FactsOK
  <2> QED
    BY <1>1, <2>1, TypeFromParts
<1>3. \A s \in Requests : /\ mine[s] \subseteq Effects
                          /\ \A f \in mine'[s] : f \in mine[s] \/ (f = e /\ s = r)
  BY DEF Frame, TypeOK
<1>4. \A s \in Requests : e \in mine[s] => e \in blind
  BY DEF HeldInFlight
<1>5. OneOwner'
  BY <1>1, <1>3, <1>4 DEF OneOwner
<1>6. HeldInFlight' /\ StatusReal'
  BY <1>1, <1>3 DEF HeldInFlight, StatusReal, Real
<1>7. LandedInFlight'
  <2> SUFFICES ASSUME NEW f \in External \ blind, landed[f] # {}
               PROVE  /\ status'[f] = "compensating"
                      /\ \A a, b \in landed[f] : a = b
                      /\ \A s \in Requests : f \in mine'[s] => Accepting(s)'
    BY <1>1 DEF LandedInFlight
  <2>1. f # e /\ f \in Effects /\ status[f] = "compensating" /\ \A a, b \in landed[f] : a = b
    BY DEF LandedInFlight, Effects
  <2>2. ASSUME NEW s \in Requests, f \in mine'[s]
        PROVE  Accepting(s)'
    <3>1. f \in mine[s] /\ Accepting(s)
      BY <1>3, <2>1, <2>2 DEF LandedInFlight
    <3>2. s # r
      BY <3>1
    <3> QED
      BY <3>1, <3>2 DEF Accepting, Frame
  <2> QED
    BY <1>1, <2>1, <2>2
<1>8. StaleIsStuck' /\ AcknowledgedIsReal'
  <2>1. \A f \in External : f \in Effects
    BY DEF Effects
  <2> QED
    BY <1>1, <1>3, <2>1 DEF StaleIsStuck, AcknowledgedIsReal, Held
<1>9. FactsGrow
  BY <1>1 DEF FactsGrow
<1>10. \A s \in Requests : At(s)'
  BY <1>9, OthersKeep
<1> QED
  BY <1>2, <1>5, <1>6, <1>7, <1>8, <1>10

LEMMA NextLocalIn ==
    ASSUME IInv, NEW r \in Requests, pc[r] = "claim"
    PROVE  /\ NextLocal(r) \in job[r].locals /\ NextLocal(r) \notin mine[r]
           /\ NextLocal(r) \in Local /\ NextLocal(r) \in Effects
<1>1. job[r].locals \in SUBSET Local /\ job[r].locals \ mine[r] # {}
  BY JobType DEF IInv, At
<1>2. (job[r].locals \ mine[r]) \in SUBSET Effects
  BY <1>1 DEF Effects
<1>3. NextLocal(r) \in job[r].locals \ mine[r]
  BY <1>1, <1>2, FirstIn DEF NextLocal
<1> QED
  BY <1>1, <1>2, <1>3

LEMMA ClaimStep ==
    ASSUME IInv, NEW r \in Requests, Claim(r)
    PROVE  IInv'
<1> USE DEF IInv
<1> DEFINE e == NextLocal(r)
<1>1. /\ pc[r] = "claim" /\ status[e] # "compensating" /\ WriteIntent(e)
      /\ mine' = [mine EXCEPT ![r] = mine[r] \union {e}]
      /\ Goto(r, IF mine'[r] = job[r].locals THEN "fact" ELSE "claim")
      /\ UNCHANGED <<facts, calm, job, to, told>>
  BY DEF Claim, LocalIntent, Hold
<1>2. e \in job[r].locals /\ e \in Local /\ e \in Effects
  BY <1>1, NextLocalIn
<1> HIDE DEF e
<1>3. /\ mine' \in [Requests -> SUBSET Effects] /\ mine'[r] = mine[r] \union {e}
      /\ \A s \in Requests \ {r} : mine'[s] = mine[s]
  BY <1>1, <1>2 DEF TypeOK
<1>4. /\ pc' \in [Requests -> Phases] /\ \A s \in Requests \ {r} : pc'[s] = pc[s]
      /\ \/ mine'[r] = job[r].locals /\ pc'[r] = "fact"
         \/ mine'[r] # job[r].locals /\ pc'[r] = "claim"
  BY <1>1, GotoPhase DEF Phases
<1>5. RequestsOK' /\ Frame(r)
  BY <1>1, <1>3, <1>4, TypeParts DEF RequestsOK, Frame
<1>6. mine[r] \subseteq job[r].locals /\ job[r].locals \in SUBSET Local
      /\ job[r].locals \subseteq job[r].unit
  BY <1>1, JobType DEF At
<1>7. At(r)'
  BY <1>1, <1>2, <1>3, <1>4, <1>6 DEF At, Real, facts
<1> QED
  BY <1>1, <1>2, <1>3, <1>5, <1>7, IntentStep DEF Accepting

LEMMA ClaimFailsStep ==
    ASSUME IInv, NEW r \in Requests, ClaimFails(r)
    PROVE  IInv'
<1> USE DEF IInv
<1>1. pc[r] = "claim" /\ Undo(r) /\ UNCHANGED <<facts, calm, mine, told>>
  BY DEF ClaimFails
<1>2. RequestsOK' /\ Frame(r)
  BY <1>1, UndoStep, TypeParts DEF RequestsOK, Frame
<1>3. At(r)'
  BY <1>1, UndoStep DEF At, Real, facts
<1>4. CASE UNCHANGED rows
  BY <1>1, <1>2, <1>3, <1>4, QuietStep DEF Accepting, TypeOK
<1>5. CASE LocalIntent(NextLocal(r))
  <2>1. NextLocal(r) \in Effects /\ WriteIntent(NextLocal(r)) /\ status[NextLocal(r)] # "compensating"
    BY <1>1, <1>5, NextLocalIn DEF LocalIntent
  <2> QED
    BY <1>1, <1>2, <1>3, <2>1, IntentStep DEF Accepting
<1> QED
  BY <1>4, <1>5 DEF ClaimFails

LEMMA FirstExternal ==
    ASSUME IInv, NEW r \in Requests, pc[r] = "send"
    PROVE  First(job[r].externals) \in External /\ First(job[r].externals) \in Effects
<1>1. job[r].externals \in SUBSET External /\ job[r].externals # {}
  BY JobType DEF IInv, At
<1>2. job[r].externals \in SUBSET Effects
  BY <1>1 DEF Effects
<1> QED
  BY <1>1, <1>2, FirstIn

LEMMA SendStep ==
    ASSUME IInv, NEW r \in Requests, Send(r)
    PROVE  IInv'
<1> USE DEF IInv
<1> DEFINE e == First(job[r].externals)
<1>1. /\ pc[r] = "send" /\ status[e] # "compensating" /\ WriteIntent(e)
      /\ mine' = [mine EXCEPT ![r] = {e}] /\ Goto(r, "wait")
      /\ UNCHANGED <<facts, calm, job, to, told>>
  BY DEF Send, ExternalIntent, Hold
<1>2. e \in External /\ e \in Effects
  BY <1>1, FirstExternal
<1> HIDE DEF e
<1>3. /\ mine' \in [Requests -> SUBSET Effects] /\ mine'[r] = {e}
      /\ \A s \in Requests \ {r} : mine'[s] = mine[s]
  BY <1>1, <1>2 DEF TypeOK
<1>4. pc' \in [Requests -> Phases] /\ pc'[r] = "wait" /\ \A s \in Requests \ {r} : pc'[s] = pc[s]
  BY <1>1, GotoPhase DEF Phases
<1>5. RequestsOK' /\ Frame(r)
  BY <1>1, <1>3, <1>4, TypeParts DEF RequestsOK, Frame
<1>6. At(r)'
  BY <1>1, <1>2, <1>3, <1>4 DEF At, Real, facts
<1> QED
  BY <1>1, <1>2, <1>3, <1>5, <1>6, IntentStep DEF Accepting

LEMMA SendFailsStep ==
    ASSUME IInv, NEW r \in Requests, SendFails(r)
    PROVE  IInv'
<1> USE DEF IInv
<1>1. pc[r] = "send" /\ Continue(r) /\ UNCHANGED <<facts, calm, mine, to, told>>
  BY DEF SendFails
<1>2. RequestsOK' /\ Frame(r)
  BY <1>1, ContinueStep, TypeParts DEF RequestsOK, Frame
<1>3. At(r)'
  BY <1>1, ContinueStep DEF At, Real, facts
<1>4. CASE UNCHANGED rows
  BY <1>1, <1>2, <1>3, <1>4, QuietStep DEF Accepting, TypeOK
<1>5. CASE ExternalIntent(First(job[r].externals))
  <2> DEFINE e == First(job[r].externals)
  <2>1. e \in Effects /\ WriteIntent(e) /\ status[e] # "compensating"
    BY <1>1, <1>5, FirstExternal DEF ExternalIntent
  <2> HIDE DEF e
  <2> QED
    BY <1>1, <1>2, <1>3, <2>1, IntentStep DEF Accepting
<1> QED
  BY <1>4, <1>5 DEF SendFails

-----------------------------------------------------------------------------
\* A request changes targets, or hears of them, or ends.
LEMMA FactStep ==
    ASSUME IInv, RequestsOK', FactsOK', UNCHANGED <<rows, calm>>, NEW r \in Requests,
           Frame(r), At(r)', mine'[r] \subseteq mine[r], FactsGrow, blind \subseteq blind',
           \A f \in External \ blind' :
             /\ \/ landed'[f] = landed[f]
                \/ landed[f] = {} /\ landed'[f] = {r} /\ f \in mine[r]
             /\ landed'[f] # {} /\ f \in mine'[r] => Accepting(r)'
    PROVE  IInv'
<1> USE DEF IInv, Rest
<1>1. UNCHANGED <<status, age, acknowledged, taker>>
  BY DEF rows
<1>2. TypeOK'
  <2>1. RowsOK' /\ calm' \in BOOLEAN
    BY <1>1, TypeParts DEF RowsOK
  <2> QED
    BY <2>1, TypeFromParts
<1>3. \A s \in Requests : mine'[s] \subseteq mine[s]
  BY DEF Frame
<1>4. OneOwner' /\ HeldInFlight'
  BY <1>1, <1>3 DEF OneOwner, HeldInFlight
<1>5. StatusReal'
  <2>1. \A f : Real(f) => Real(f)'
    BY DEF FactsGrow, Real
  <2> QED
    BY <1>1, <2>1 DEF StatusReal
<1>6. StaleIsStuck'
  BY <1>1, <1>3 DEF StaleIsStuck, Held
<1>7. AcknowledgedIsReal'
  <2>1. \A f \in External : f \in Effects
    BY DEF Effects
  <2> QED
    BY <1>1, <2>1 DEF AcknowledgedIsReal, FactsGrow
<1>8. LandedInFlight'
  <2> SUFFICES ASSUME NEW f \in External \ blind', landed'[f] # {}
               PROVE  /\ status[f] = "compensating"
                      /\ \A a, b \in landed'[f] : a = b
                      /\ \A s \in Requests : f \in mine'[s] => Accepting(s)'
    BY <1>1 DEF LandedInFlight
  <2>1. f \in External \ blind
    OBVIOUS
  <2>2. CASE landed'[f] = landed[f]
    <3>1. /\ status[f] = "compensating" /\ \A a, b \in landed'[f] : a = b
          /\ \A s \in Requests : f \in mine[s] => Accepting(s)
      BY <2>1, <2>2 DEF LandedInFlight
    <3> QED
      BY <1>3, <3>1 DEF Frame, Accepting
  <2>3. CASE landed'[f] = {r} /\ f \in mine[r]
    <3>1. status[f] = "compensating"
      BY <2>1, <2>3 DEF HeldInFlight
    <3>2. \A s \in Requests : f \in mine'[s] => s = r
      BY <1>3, <2>1, <2>3 DEF OneOwner
    <3> QED
      BY <2>3, <3>1, <3>2
  <2> QED
    BY <2>2, <2>3
<1>9. \A s \in Requests : At(s)'
  BY OthersKeep
<1> QED
  BY <1>2, <1>4, <1>5, <1>6, <1>7, <1>8, <1>9

\* A request that has not heard of its compensation holds nothing that landed.
LEMMA NotLanded ==
    ASSUME IInv, NEW r \in Requests, ~Accepting(r), NEW f \in External \ blind, f \in mine[r]
    PROVE  landed[f] = {}
  BY DEF IInv, Rest, LandedInFlight

LEMMA Deleted ==
    ASSUME IInv, NEW r \in Requests, pc[r] = "fact", DeleteTargets(mine[r])
    PROVE  /\ target' \in [Local -> {"live", "deleted", "restored"}]
           /\ \A e \in Local : target[e] # "live" => target'[e] # "live"
           /\ \A e \in mine[r] : e \in Local /\ target'[e] # "live"
  BY DEF DeleteTargets, IInv, TypeOK, At

LEMMA DeleteStep ==
    ASSUME IInv, NEW r \in Requests, Delete(r)
    PROVE  IInv'
<1> USE DEF IInv
<1>1. /\ pc[r] = "fact" /\ Goto(r, "write") /\ DeleteTargets(mine[r])
      /\ to' = [to EXCEPT ![r] = "revoked"]
      /\ UNCHANGED <<rows, landed, blind, calm, job, mine, told>>
  BY DEF Delete
<1>2. /\ target' \in [Local -> {"live", "deleted", "restored"}]
      /\ \A e \in Local : target[e] # "live" => target'[e] # "live"
      /\ \A e \in mine[r] : e \in Local /\ target'[e] # "live"
  BY <1>1, Deleted
<1>3. pc' \in [Requests -> Phases] /\ pc'[r] = "write" /\ \A s \in Requests \ {r} : pc'[s] = pc[s]
  BY <1>1, GotoPhase DEF Phases
<1>4. to' \in [Requests -> Statuses] /\ to'[r] = "revoked" /\ \A s \in Requests \ {r} : to'[s] = to[s]
  BY <1>1 DEF TypeOK, Statuses
<1>5. RequestsOK' /\ Frame(r)
  BY <1>1, <1>3, <1>4, TypeParts DEF RequestsOK, Frame
<1>6. FactsOK' /\ FactsGrow
  BY <1>1, <1>2, TypeParts DEF FactsOK, FactsGrow
<1>7. mine[r] # {} /\ mine[r] \subseteq Effects
  BY <1>1 DEF At, TypeOK
<1>8. At(r)'
  <2>1. \A e : Real(e) => Real(e)'
    BY <1>2 DEF Real
  <2> QED
    BY <1>1, <1>2, <1>3, <1>4, <1>7, <2>1 DEF At, Real
<1>9. \A f \in External \ blind : f \notin mine[r]
  BY <1>2, EffectAssumption
<1> QED
  BY <1>1, <1>5, <1>6, <1>8, <1>9, FactStep

LEMMA DeleteFailsStep ==
    ASSUME IInv, NEW r \in Requests, DeleteFails(r)
    PROVE  IInv'
<1> USE DEF IInv
<1>1. pc[r] = "fact" /\ Undo(r) /\ UNCHANGED <<rows, calm, mine, told>>
  BY DEF DeleteFails
<1>2. RequestsOK' /\ Frame(r)
  BY <1>1, UndoStep, TypeParts DEF RequestsOK, Frame
<1>3. CASE UNCHANGED facts
  <2>1. At(r)'
    BY <1>1, <1>3, UndoStep DEF At, Real, facts
  <2> QED
    BY <1>1, <1>2, <1>3, <2>1, QuietStep DEF Accepting, TypeOK
<1>4. CASE DeleteTargets(mine[r]) /\ blind' = blind \union mine[r] /\ UNCHANGED landed
  <2>1. /\ target' \in [Local -> {"live", "deleted", "restored"}]
        /\ \A e \in Local : target[e] # "live" => target'[e] # "live"
        /\ \A e \in mine[r] : e \in Local /\ target'[e] # "live"
    BY <1>1, <1>4, Deleted
  <2>2. FactsOK' /\ FactsGrow
    BY <1>4, <2>1, TypeParts DEF FactsOK, FactsGrow, TypeOK
  <2>3. \A e : Real(e) => Real(e)'
    BY <2>1 DEF Real
  <2>4. At(r)'
    BY <1>1, <2>3, UndoStep DEF At, TypeOK
  <2>5. \A f \in External \ blind' : f \notin mine[r]
    BY <2>1, EffectAssumption
  <2> QED
    BY <1>1, <1>2, <1>4, <2>2, <2>4, <2>5, FactStep
<1> QED
  BY <1>3, <1>4 DEF DeleteFails

LEMMA Landing ==
    ASSUME TypeOK, NEW r \in Requests, Land(r)
    PROVE  /\ landed' \in [Effects -> SUBSET Requests]
           /\ \A e \in mine[r] : landed'[e] = landed[e] \union {r}
           /\ \A e \in Effects \ mine[r] : landed'[e] = landed[e]
           /\ \A e \in Effects : landed[e] # {} => landed'[e] # {}
  BY DEF Land, TypeOK

LEMMA AnswerStep ==
    ASSUME IInv, NEW r \in Requests, Accepted(r) \/ Rejected(r) \/ Unheard(r)
    PROVE  IInv'
<1> USE DEF IInv
<1>1. PICK v \in {"compensating", "revoke_failed"} :
        /\ Answered(r, v)
        /\ \/ v = "compensating" /\ Land(r) /\ blind' = blind
           \/ v = "revoke_failed" /\ landed' = landed /\ blind' = blind
           \/ v = "revoke_failed" /\ Land(r) /\ blind' = blind \union mine[r]
  <2>1. CASE Accepted(r)
    BY <2>1 DEF Accepted
  <2>2. CASE Rejected(r)
    BY <2>2 DEF Rejected
  <2>3. CASE Unheard(r)
    BY <2>3 DEF Unheard
  <2> QED
    BY <2>1, <2>2, <2>3
<1>2. /\ pc[r] = "wait" /\ Goto(r, "write") /\ to' = [to EXCEPT ![r] = v]
      /\ UNCHANGED <<rows, target, calm, job, mine, told>>
  BY <1>1 DEF Answered
<1>3. pc' \in [Requests -> Phases] /\ pc'[r] = "write" /\ \A s \in Requests \ {r} : pc'[s] = pc[s]
  BY <1>2, GotoPhase DEF Phases
<1>4. to' \in [Requests -> Statuses] /\ to'[r] = v /\ \A s \in Requests \ {r} : to'[s] = to[s]
  BY <1>2 DEF TypeOK, Statuses
<1>5. RequestsOK' /\ Frame(r)
  BY <1>2, <1>3, <1>4, TypeParts DEF RequestsOK, Frame
<1>6. mine[r] # {} /\ mine[r] \subseteq External /\ mine[r] \subseteq Effects
  BY <1>2 DEF At, TypeOK
<1>7. FactsOK' /\ FactsGrow /\ blind \subseteq blind'
  <2>1. landed' \in [Effects -> SUBSET Requests] /\ \A e \in Effects : landed[e] # {} => landed'[e] # {}
    BY <1>1, Landing DEF TypeOK
  <2> QED
    BY <1>1, <1>2, <1>6, <2>1, TypeParts DEF FactsOK, FactsGrow
<1>8. v = "compensating" => \A e \in mine[r] : landed'[e] # {}
  BY <1>1, Landing
<1>9. At(r)'
  BY <1>2, <1>3, <1>4, <1>6, <1>8 DEF At, Real
<1>10. ASSUME NEW f \in External \ blind'
       PROVE  /\ \/ landed'[f] = landed[f]
                 \/ landed[f] = {} /\ landed'[f] = {r} /\ f \in mine[r]
              /\ landed'[f] # {} /\ f \in mine'[r] => Accepting(r)'
  <2>1. f \in External \ blind /\ f \in Effects
    BY <1>7 DEF Effects
  <2>2. CASE f \notin mine[r]
    BY <1>1, <1>2, <2>1, <2>2, Landing
  <2>3. CASE f \in mine[r]
    <3>1. landed[f] = {}
      BY <1>2, <2>1, <2>3, NotLanded DEF Accepting
    <3>2. CASE v = "compensating"
      <4>1. landed'[f] = {r}
        BY <1>1, <2>3, <3>1, <3>2, Landing
      <4> QED
        BY <1>2, <1>3, <1>4, <2>3, <3>1, <3>2, <4>1 DEF Accepting
    <3>3. CASE v # "compensating"
      <4>1. landed' = landed
        BY <1>1, <1>10, <2>3, <3>3
      <4> QED
        BY <3>1, <4>1
    <3> QED
      BY <3>2, <3>3
  <2> QED
    BY <2>2, <2>3
<1> QED
  BY <1>2, <1>5, <1>7, <1>9, <1>10, FactStep

LEMMA CrashStep ==
    ASSUME IInv, NEW r \in Requests, Crash(r)
    PROVE  IInv'
<1> USE DEF IInv
<1>1. /\ Goto(r, "over") /\ Plan(r, NoJob) /\ mine' = [mine EXCEPT ![r] = {}]
      /\ to' = [to EXCEPT ![r] = "null"]
      /\ landed' = landed \/ (pc[r] = "wait" /\ Land(r))
      /\ UNCHANGED <<rows, target, blind, calm, told>>
  BY DEF Crash, Hold
<1>2. /\ mine' \in [Requests -> SUBSET Effects] /\ mine'[r] = {}
      /\ \A s \in Requests \ {r} : mine'[s] = mine[s]
  BY <1>1 DEF TypeOK
<1>3. /\ pc' \in [Requests -> Phases] /\ pc'[r] = "over" /\ job' \in [Requests -> Jobs]
      /\ job'[r] = NoJob
      /\ \A s \in Requests \ {r} : pc'[s] = pc[s] /\ job'[s] = job[s]
  BY <1>1, GotoPhase, PlanJob, NoJobType DEF Phases
<1>4. to' \in [Requests -> Statuses] /\ \A s \in Requests \ {r} : to'[s] = to[s]
  BY <1>1 DEF TypeOK, Statuses
<1>5. RequestsOK' /\ Frame(r)
  BY <1>1, <1>2, <1>3, <1>4, TypeParts DEF RequestsOK, Frame
<1>6. FactsOK' /\ FactsGrow
  <2>1. landed' \in [Effects -> SUBSET Requests] /\ \A e \in Effects : landed[e] # {} => landed'[e] # {}
    BY <1>1, Landing DEF TypeOK
  <2> QED
    BY <1>1, <2>1, TypeParts DEF FactsOK, FactsGrow
<1>7. At(r)'
  BY <1>1, <1>2, <1>3, NoJobType DEF At, Real
<1>8. ASSUME NEW f \in External \ blind'
      PROVE  landed'[f] = landed[f] \/ (landed[f] = {} /\ landed'[f] = {r} /\ f \in mine[r])
  <2>1. f \in External \ blind /\ f \in Effects
    BY <1>1 DEF Effects
  <2>2. CASE landed' = landed
    BY <2>2
  <2>3. CASE pc[r] = "wait" /\ Land(r) /\ f \in mine[r]
    <3>1. landed[f] = {}
      BY <2>1, <2>3, NotLanded DEF Accepting
    <3> QED
      BY <2>3, <3>1, Landing
  <2>4. CASE Land(r) /\ f \notin mine[r]
    BY <2>1, <2>4, Landing
  <2> QED
    BY <1>1, <2>2, <2>3, <2>4
<1> QED
  BY <1>1, <1>2, <1>5, <1>6, <1>7, <1>8, FactStep

-----------------------------------------------------------------------------
\* The outcome is written to a row that the request holds.
LEMMA PatchStep ==
    ASSUME IInv, RequestsOK', UNCHANGED <<target, landed, calm>>, blind \subseteq blind',
           blind' \in SUBSET Effects, NEW r \in Requests, pc[r] \in {"write", "rewrite"},
           NEW e \in mine[r], Patch(e, to[r]), Frame(r), At(r)', mine'[r] \subseteq mine[r],
           e \in mine'[r] => e \in blind', mine'[r] # {} /\ Accepting(r) => Accepting(r)'
    PROVE  IInv'
<1> USE DEF IInv, Rest
<1>1. e \in Effects /\ to[r] \in Statuses
  BY DEF TypeOK
<1>2. /\ status' = [status EXCEPT ![e] = to[r]] /\ UNCHANGED <<age, taker>>
      /\ acknowledged' = [acknowledged EXCEPT ![e] = acknowledged[e] \/ e \in External]
  BY DEF Patch
<1>3. /\ status' \in [Effects -> Statuses] /\ status'[e] = to[r]
      /\ \A f \in Effects \ {e} : status'[f] = status[f]
  BY <1>1, <1>2 DEF TypeOK
<1>4. /\ acknowledged' \in [Effects -> BOOLEAN]
      /\ \A f \in Effects \ {e} : acknowledged'[f] = acknowledged[f]
  BY <1>1, <1>2 DEF TypeOK
<1>5. TypeOK'
  <2>1. RowsOK' /\ FactsOK' /\ calm' \in BOOLEAN
    BY <1>2, <1>3, <1>4, TypeParts DEF RowsOK, FactsOK
  <2> QED
    BY <2>1, TypeFromParts
<1>6. \A s \in Requests : mine'[s] \subseteq mine[s] /\ mine[s] \subseteq Effects
  BY DEF Frame, TypeOK
<1>7. \/ to[r] = "revoke_failed"
      \/ to[r] = "revoked" /\ Real(e)
      \/ to[r] = "compensating" /\ e \in External /\ landed[e] # {}
  BY DEF At
<1>8. OneOwner'
  BY <1>6 DEF OneOwner
<1>9. HeldInFlight'
  <2> SUFFICES ASSUME NEW s \in Requests, NEW f \in mine'[s]
               PROVE  status'[f] # "null" /\ (f \notin blind' => status'[f] = "compensating")
    BY DEF HeldInFlight
  <2>1. CASE f # e
    BY <1>3, <1>6, <2>1 DEF HeldInFlight
  <2>2. CASE f = e
    <3>1. e \in blind'
      BY <1>6, <2>2 DEF OneOwner
    <3> QED
      BY <1>3, <1>7, <2>2, <3>1
  <2> QED
    BY <2>1, <2>2
<1>10. StatusReal'
  BY <1>3, <1>7 DEF StatusReal, Real
<1>11. StaleIsStuck'
  <2>1. age[e] # "stale" /\ taker[e] = Nobody
    BY <1>1 DEF StaleIsStuck, Held
  <2> QED
    BY <1>2, <1>3, <1>6, <2>1 DEF StaleIsStuck, Held
<1>12. AcknowledgedIsReal'
  <2>1. \A f \in External : f \in Effects
    BY DEF Effects
  <2> QED
    BY <1>3, <1>4, <1>7, <2>1 DEF AcknowledgedIsReal
<1>13. LandedInFlight'
  <2> SUFFICES ASSUME NEW f \in External \ blind', landed[f] # {}
               PROVE  /\ status'[f] = "compensating"
                      /\ \A a, b \in landed[f] : a = b
                      /\ \A s \in Requests : f \in mine'[s] => Accepting(s)'
    BY DEF LandedInFlight
  <2>1. /\ status[f] = "compensating" /\ \A a, b \in landed[f] : a = b
        /\ \A s \in Requests : f \in mine[s] => Accepting(s)
    BY DEF LandedInFlight
  <2>2. status'[f] = "compensating"
    <3>1. CASE f = e
      BY <1>3, <2>1, <3>1 DEF Accepting
    <3>2. CASE f # e
      BY <1>3, <2>1, <3>2 DEF Effects
    <3> QED
      BY <3>1, <3>2
  <2>3. ASSUME NEW s \in Requests, f \in mine'[s]
        PROVE  Accepting(s)'
    <3>1. Accepting(s)
      BY <1>6, <2>1, <2>3
    <3> QED
      BY <2>3, <3>1 DEF Frame, Accepting
  <2> QED
    BY <2>1, <2>2, <2>3
<1>14. \A s \in Requests : At(s)'
  <2>1. FactsGrow
    BY DEF FactsGrow
  <2> QED
    BY <2>1, OthersKeep
<1> QED
  BY <1>5, <1>8, <1>9, <1>10, <1>11, <1>12, <1>13, <1>14

LEMMA FirstHeld ==
    ASSUME IInv, NEW r \in Requests, pc[r] \in {"write", "rewrite"}
    PROVE  First(mine[r]) \in mine[r] /\ First(mine[r]) \in Effects
<1>1. mine[r] \in SUBSET Effects /\ mine[r] # {}
  BY DEF IInv, At, TypeOK
<1> QED
  BY <1>1, FirstIn

LEMMA DoneStep ==
    ASSUME IInv, NEW r \in Requests, pc[r] \in {"write", "rewrite"}, NEW e \in mine[r], Done(r, e),
           UNCHANGED <<target, landed>>, told' \in [Requests -> SUBSET Effects],
           \A s \in Requests \ {r} : told'[s] = told[s],
           \A f \in told'[r] : Real(f)
    PROVE  /\ RequestsOK' /\ Frame(r) /\ At(r)'
           /\ mine'[r] = mine[r] \ {e}
           /\ mine'[r] # {} /\ Accepting(r) => Accepting(r)'
<1> USE DEF IInv
<1>1. /\ mine' \in [Requests -> SUBSET Effects] /\ mine'[r] = mine[r] \ {e}
      /\ \A s \in Requests \ {r} : mine'[s] = mine[s]
  BY DEF Done, Hold, TypeOK
<1>2. CASE mine'[r] # {}
  <2>1. Goto(r, "write") /\ UNCHANGED <<job, to>>
    BY <1>2 DEF Done
  <2>2. pc' \in [Requests -> Phases] /\ pc'[r] = "write" /\ \A s \in Requests \ {r} : pc'[s] = pc[s]
    BY <2>1, GotoPhase DEF Phases
  <2>3. RequestsOK' /\ Frame(r)
    BY <1>1, <2>1, <2>2, TypeParts DEF RequestsOK, Frame
  <2>4. At(r)'
    BY <1>1, <1>2, <2>1, <2>2 DEF At, Real
  <2> QED
    BY <1>1, <2>1, <2>2, <2>3, <2>4 DEF Accepting
<1>3. CASE mine'[r] = {}
  <2> DEFINE j == [job[r] EXCEPT !.locals = {}, !.externals = @ \ {e}]
  <2>1. Work(r, j) /\ to' = [to EXCEPT ![r] = "null"]
    BY <1>3 DEF Done
  <2>2. j \in Jobs /\ j.copy = job[r].copy /\ j.locals = {}
    BY JobType DEF Jobs
  <2> HIDE DEF j
  <2>3. /\ pc' \in [Requests -> Phases]
        /\ pc'[r] \in {"over", "check", "list", "claim", "send"}
        /\ job' \in [Requests -> Jobs]
        /\ \A s \in Requests \ {r} : pc'[s] = pc[s] /\ job'[s] = job[s]
        /\ pc'[r] = "claim" => job'[r] = j /\ j.locals # {}
        /\ pc'[r] = "send" => job'[r] = j /\ j.externals # {}
        /\ \A f \in Effects : job'[r].copy[f] = "revoked" => job[r].copy[f] = "revoked"
    BY <2>1, <2>2, WorkStep
  <2>4. to' \in [Requests -> Statuses] /\ \A s \in Requests \ {r} : to'[s] = to[s]
    BY <2>1 DEF TypeOK, Statuses
  <2>5. RequestsOK' /\ Frame(r)
    BY <1>1, <2>3, <2>4, TypeParts DEF RequestsOK, Frame
  <2>6. At(r)'
    BY <1>3, <2>2, <2>3 DEF At, Real
  <2> QED
    BY <1>1, <1>3, <2>5, <2>6
<1> QED
  BY <1>2, <1>3

LEMMA WriteStep ==
    ASSUME IInv, NEW r \in Requests, Write(r)
    PROVE  IInv'
<1> USE DEF IInv
<1> DEFINE e == First(mine[r])
           S == {f \in {e} : to[r] = "revoked"}
<1>1. /\ pc[r] \in {"write", "rewrite"} /\ Patch(e, to[r]) /\ Done(r, e) /\ Tell(r, S)
      /\ UNCHANGED <<target, landed, blind, calm>>
  BY DEF Write, facts
<1>2. e \in mine[r] /\ e \in Effects
  BY <1>1, FirstHeld
<1>3. S \in SUBSET Effects /\ \A f \in S : Real(f)
  BY <1>1, <1>2 DEF At
<1> HIDE DEF e, S
<1>4. /\ told' \in [Requests -> SUBSET Effects] /\ told'[r] = told[r] \union S
      /\ \A s \in Requests \ {r} : told'[s] = told[s]
  BY <1>1, <1>3, TellStep
<1>5. \A f \in told'[r] : Real(f)
  BY <1>3, <1>4 DEF At
<1>6. /\ RequestsOK' /\ Frame(r) /\ At(r)'
      /\ mine'[r] = mine[r] \ {e}
      /\ mine'[r] # {} /\ Accepting(r) => Accepting(r)'
  BY <1>1, <1>2, <1>4, <1>5, DoneStep
<1>7. blind' \in SUBSET Effects /\ blind \subseteq blind'
  BY <1>1 DEF TypeOK
<1> QED
  BY <1>1, <1>2, <1>6, <1>7, PatchStep

LEMMA WriteFailsStep ==
    ASSUME IInv, NEW r \in Requests, WriteFails(r)
    PROVE  IInv'
<1> USE DEF IInv
<1> DEFINE e == First(mine[r])
<1>1. /\ pc[r] \in {"write", "rewrite"} /\ UNCHANGED <<target, landed, calm, told>>
      /\ \/ UNCHANGED <<rows, facts>>
         \/ Patch(e, to[r]) /\ blind' = blind \union {e}
      /\ \/ Goto(r, "rewrite") /\ UNCHANGED <<job, mine, to>>
         \/ Done(r, e)
  BY DEF WriteFails, facts
<1>2. e \in mine[r] /\ e \in Effects
  BY <1>1, FirstHeld
<1> HIDE DEF e
<1>3. /\ RequestsOK' /\ Frame(r) /\ At(r)'
      /\ mine'[r] \subseteq mine[r]
      /\ mine'[r] # {} /\ Accepting(r) => Accepting(r)'
  <2>1. CASE Goto(r, "rewrite") /\ UNCHANGED <<job, mine, to>>
    <3>1. pc' \in [Requests -> Phases] /\ pc'[r] = "rewrite" /\ \A s \in Requests \ {r} : pc'[s] = pc[s]
      BY <2>1, GotoPhase DEF Phases
    <3>2. RequestsOK' /\ Frame(r)
      BY <1>1, <2>1, <3>1, TypeParts DEF RequestsOK, Frame
    <3>3. At(r)'
      BY <1>1, <2>1, <3>1 DEF At, Real
    <3> QED
      BY <2>1, <3>1, <3>2, <3>3 DEF Accepting
  <2>2. CASE Done(r, e)
    <3>1. told' \in [Requests -> SUBSET Effects] /\ \A f \in told'[r] : Real(f)
      BY <1>1 DEF At, TypeOK
    <3> QED
      BY <1>1, <1>2, <2>2, <3>1, DoneStep
  <2> QED
    BY <1>1, <2>1, <2>2
<1>4. CASE UNCHANGED <<rows, facts>>
  BY <1>1, <1>3, <1>4, QuietStep DEF TypeOK
<1>5. CASE Patch(e, to[r]) /\ blind' = blind \union {e}
  <2>1. blind' \in SUBSET Effects /\ blind \subseteq blind' /\ e \in blind'
    BY <1>2, <1>5 DEF TypeOK
  <2> QED
    BY <1>1, <1>2, <1>3, <1>5, <2>1, PatchStep
<1> QED
  BY <1>1, <1>4, <1>5

-----------------------------------------------------------------------------
\* What is not a step of a request: restoring, ageing, taking on.
LEMMA AsideStep ==
    ASSUME IInv, RowsOK', FactsOK', FactsGrow,
           UNCHANGED <<status, acknowledged, landed, blind, calm, pc, job, mine, to, told>>,
           StaleIsStuck'
    PROVE  IInv'
<1> USE DEF IInv, Rest
<1>1. TypeOK'
  <2>1. RequestsOK' /\ calm' \in BOOLEAN
    BY TypeParts DEF RequestsOK
  <2> QED
    BY <2>1, TypeFromParts
<1>2. \A e : Real(e) => Real(e)'
  BY DEF FactsGrow, Real
<1>3. OneOwner' /\ HeldInFlight' /\ StatusReal'
  BY <1>2 DEF OneOwner, HeldInFlight, StatusReal
<1>4. LandedInFlight' /\ AcknowledgedIsReal'
  BY DEF LandedInFlight, AcknowledgedIsReal, Accepting
<1>5. \A s \in Requests : At(s)'
  <2> SUFFICES ASSUME NEW s \in Requests PROVE At(s)'
    OBVIOUS
  <2> QED
    BY <1>2 DEF At
<1> QED
  BY <1>1, <1>3, <1>4, <1>5

LEMMA Step ==
    ASSUME IInv, [Next]_vars
    PROVE  IInv'
<1>1. ASSUME NEW r \in Requests, NEW e \in Effects, Revoke(r, e)
      PROVE  IInv'
  BY <1>1, EnterStep DEF Revoke
<1>2. ASSUME NEW r \in Requests, NEW S \in Batches, RevokeBatch(r, S)
      PROVE  IInv'
  <2> DEFINE unit == Group[First(S)]
             next == IF Cardinality(unit) = 1 THEN "check" ELSE "list"
  <2>1. S \in SUBSET Effects /\ S # {}
    BY <1>2, EffectAssumption DEF RevokeBatch
  <2>2. unit \in SUBSET Effects
    BY <2>1, FirstIn, GroupType
  <2>3. next \in {"check", "list"} /\ Enter(r, next, unit, S \ unit, S)
    BY <1>2 DEF RevokeBatch
  <2> HIDE DEF unit, next
  <2> QED
    BY <2>1, <2>2, <2>3, EnterStep
<1>3. ASSUME NEW r \in Requests, Handle(r)
      PROVE  IInv'
  BY <1>3, CheckStep, ListStep, SortStep, ClaimStep, ClaimRefusedStep, ClaimFailsStep, RereadStep,
     DeleteStep, DeleteFailsStep, WriteStep, WriteFailsStep, SendStep, SendRefusedStep,
     SendFailsStep, AnswerStep DEF Handle
<1>4. ASSUME NEW e \in Local, Restore(e)
      PROVE  IInv'
  <2>1. /\ target' \in [Local -> {"live", "deleted", "restored"}]
        /\ \A f \in Local : target[f] # "live" => target'[f] # "live"
    BY <1>4 DEF Restore, IInv, TypeOK
  <2>2. RowsOK' /\ FactsOK' /\ FactsGrow
    BY <1>4, <2>1, TypeParts DEF Restore, RowsOK, FactsOK, FactsGrow, rows, IInv
  <2>3. StaleIsStuck'
    BY <1>4 DEF Restore, rows, IInv, Rest, StaleIsStuck, Held
  <2> QED
    BY <1>4, <2>2, <2>3, AsideStep DEF Restore, rows
<1>5. ASSUME NEW e \in Effects, GrowOld(e)
      PROVE  IInv'
  <2>1. RowsOK' /\ FactsOK' /\ FactsGrow
    BY <1>5, TypeParts DEF GrowOld, RowsOK, FactsOK, FactsGrow, facts, IInv
  <2>2. StaleIsStuck'
    BY <1>5 DEF GrowOld, IInv, TypeOK, Rest, StaleIsStuck, Held
  <2> QED
    BY <1>5, <2>1, <2>2, AsideStep DEF GrowOld, facts
<1>6. ASSUME NEW e \in Effects, NEW p \in People, Take(e, p)
      PROVE  IInv'
  <2>1. RowsOK' /\ FactsOK' /\ FactsGrow
    BY <1>6, TypeParts DEF Take, RowsOK, FactsOK, FactsGrow, facts, IInv
  <2>2. StaleIsStuck'
    BY <1>6 DEF Take, IInv, TypeOK, Rest, StaleIsStuck, Held
  <2> QED
    BY <1>6, <2>1, <2>2, AsideStep DEF Take, facts
<1>7. CASE UNCHANGED vars
  <2>1. UNCHANGED <<rows, facts, calm, pc, job, mine, to, told>>
    BY <1>7 DEF vars
  <2>2. RowsOK' /\ FactsOK' /\ FactsGrow
    BY <2>1, TypeParts DEF RowsOK, FactsOK, FactsGrow, rows, facts, IInv
  <2>3. StaleIsStuck'
    BY <2>1 DEF rows, IInv, Rest, StaleIsStuck, Held
  <2> QED
    BY <2>1, <2>2, <2>3, AsideStep DEF rows, facts
<1> QED
  BY <1>1, <1>2, <1>3, <1>4, <1>5, <1>6, <1>7, CrashStep DEF Next

LEMMA Initially == Init => IInv
<1> SUFFICES ASSUME Init PROVE IInv
  OBVIOUS
<1>1. RowsOK
  BY DEF Init, RowsOK, Statuses
<1>2. FactsOK
  BY DEF Init, FactsOK
<1>3. RequestsOK
  BY NoJobType DEF Init, RequestsOK, Phases, Statuses
<1>4. calm \in BOOLEAN
  BY DEF Init
<1>5. TypeOK
  BY <1>1, <1>2, <1>3, <1>4 DEF TypeOK, RowsOK, FactsOK, RequestsOK, Phases
<1>6. \A r \in Requests : At(r)
  BY NoJobType DEF Init, At
<1>7. Rest
  BY DEF Init, Rest, OneOwner, HeldInFlight, StatusReal, LandedInFlight, StaleIsStuck,
         AcknowledgedIsReal, Effects, Held
<1> QED
  BY <1>5, <1>6, <1>7 DEF IInv

LEMMA Inductive == Spec => []IInv
<1>1. Init => IInv
  BY Initially
<1>2. IInv /\ [Next]_vars => IInv'
  BY Step
<1> QED
  BY <1>1, <1>2, PTL DEF Spec

LEMMA Implications == IInv => TypeOK /\ WorkersAreApart /\ CompensatedOnce /\ RepliesAreReal
<1> SUFFICES ASSUME IInv
             PROVE  TypeOK /\ WorkersAreApart /\ CompensatedOnce /\ RepliesAreReal
  OBVIOUS
<1> USE DEF IInv, Rest
<1>1. CompensatedOnce
  BY DEF CompensatedOnce, LandedInFlight
<1>2. RevokedIsReal
  BY DEF RevokedIsReal, StatusReal, At, Real
<1>3. TakenIsStuck /\ IntentsAreDated
  BY DEF TakenIsStuck, IntentsAreDated, StaleIsStuck
<1> QED
  BY <1>1, <1>2, <1>3 DEF WorkersAreApart, RepliesAreReal

\* The rows, the targets and the requests have their types.
THEOREM TypeCorrect == Spec => []TypeOK
  BY Inductive, Implications, PTL

\* For any effects, groups and requests: one request at a time holds a row, unless
\* an answer about it was lost, a person takes on what no request holds, and every
\* intent carries its moment.
THEOREM OneWorkerPerRow == Spec => []WorkersAreApart
  BY Inductive, Implications, PTL

\* A target that no answer was lost from is asked to compensate once.
THEOREM OneCompensation == Spec => []CompensatedOnce
  BY Inductive, Implications, PTL

\* "revoked" is said of changed targets only, on the rows and in the answers, and
\* an acknowledged intent has arrived at the target system.
THEOREM RepliesAreTrue == Spec => []RepliesAreReal
  BY Inductive, Implications, PTL

-----------------------------------------------------------------------------
\* The steps of the contract, in terms of the rows and the targets.
LEMMA FactStays ==
    ASSUME UNCHANGED <<target, landed>>
    PROVE  Fact' = Fact
  BY DEF Fact

LEMMA IntentContract ==
    ASSUME IInv, NEW e \in Effects, status[e] # "compensating", WriteIntent(e), UNCHANGED facts
    PROVE  Contract!Next
<1>1. Contract!Intend(e)
  BY FactStays DEF Contract!Intend, WriteIntent, facts
<1> QED
  BY <1>1 DEF Contract!Next

LEMMA PatchContract ==
    ASSUME IInv, NEW r \in Requests, pc[r] \in {"write", "rewrite"}, NEW e \in mine[r],
           Patch(e, to[r]), UNCHANGED <<target, landed>>,
           blind' = blind \/ blind' = blind \union {e}
    PROVE  Contract!Next
<1>1. e \in Effects /\ status \in [Effects -> Statuses] /\ status' = [status EXCEPT ![e] = to[r]]
  BY DEF IInv, TypeOK, Patch
<1>2. \/ to[r] = "revoke_failed"
      \/ to[r] = "revoked" /\ Real(e)
      \/ to[r] = "compensating"
  BY DEF IInv, At
<1>3. CASE blind' = blind
  <2>1. to[r] = "revoked" => Fact[e] # "live"
    BY <1>1, <1>2 DEF Fact, Real
  <2>2. Contract!Open(e)
    BY DEF Contract!Open, IInv, Rest, HeldInFlight
  <2>3. Contract!Conclude(e, to[r])
    BY <1>1, <1>3, <2>1, <2>2, FactStays DEF Contract!Conclude
  <2> QED
    BY <1>1, <1>2, <2>3 DEF Contract!Next
<1>4. CASE blind' = blind \union {e}
  <2>1. Contract!Doubt({e})
    BY <1>1, <1>2, <1>4, FactStays DEF Contract!Doubt
  <2> QED
    BY <1>1, <2>1 DEF Contract!Next
<1> QED
  BY <1>3, <1>4

LEMMA ChangeContract ==
    ASSUME IInv, NEW r \in Requests, UNCHANGED status,
           Fact' = [e \in Effects |-> IF e \in mine[r] THEN "changed" ELSE Fact[e]],
           blind' = blind \/ blind' = blind \union mine[r]
    PROVE  Contract!Next
<1>1. mine[r] \in SUBSET Effects
  BY DEF IInv, TypeOK
<1>2. CASE blind' = blind
  <2>1. \A e \in mine[r] : Contract!Open(e)
    BY DEF Contract!Open, IInv, Rest, HeldInFlight
  <2>2. Contract!Change(mine[r])
    BY <1>2, <2>1 DEF Contract!Change
  <2> QED
    BY <1>1, <2>2 DEF Contract!Next
<1>3. CASE blind' = blind \union mine[r]
  <2>1. \A e \in mine[r] : status[e] # "null"
    BY DEF IInv, Rest, HeldInFlight
  <2>2. Contract!Doubt(mine[r])
    BY <1>1, <1>3, <2>1 DEF Contract!Doubt
  <2> QED
    BY <1>1, <2>2 DEF Contract!Next
<1> QED
  BY <1>2, <1>3

LEMMA DeletedFact ==
    ASSUME IInv, NEW r \in Requests, pc[r] = "fact", DeleteTargets(mine[r]), UNCHANGED landed
    PROVE  Fact' = [e \in Effects |-> IF e \in mine[r] THEN "changed" ELSE Fact[e]]
<1>1. mine[r] \subseteq Local /\ Local \subseteq Effects
  BY DEF IInv, At, Effects
<1>2. \A e \in Local : target'[e] = IF e \in mine[r] THEN "deleted" ELSE target[e]
  BY DEF DeleteTargets
<1> QED
  BY <1>1, <1>2 DEF Fact

LEMMA LandedFact ==
    ASSUME IInv, NEW r \in Requests, pc[r] = "wait", Land(r), UNCHANGED target
    PROVE  Fact' = [e \in Effects |-> IF e \in mine[r] THEN "changed" ELSE Fact[e]]
<1>1. mine[r] \subseteq External /\ External \intersect Local = {} /\ External \subseteq Effects
  BY EffectAssumption DEF IInv, At, Effects
<1>2. /\ \A e \in mine[r] : landed'[e] # {}
      /\ \A e \in Effects \ mine[r] : landed'[e] = landed[e]
  BY Landing DEF IInv
<1> QED
  BY <1>1, <1>2 DEF Fact

LEMMA ContractStep ==
    ASSUME IInv, [Next]_vars
    PROVE  [Contract!Next]_<<status, Fact, blind>>
<1> DEFINE Same == UNCHANGED <<status, Fact, blind>>
<1>1. ASSUME UNCHANGED status, UNCHANGED facts
      PROVE  Same
  BY <1>1, FactStays DEF facts
<1>2. ASSUME NEW r \in Requests, Claim(r) \/ ClaimFails(r)
      PROVE  Contract!Next \/ Same
  <2>1. NextLocal(r) \in Effects /\ UNCHANGED facts
    BY <1>2, NextLocalIn DEF Claim, ClaimFails
  <2>2. CASE LocalIntent(NextLocal(r))
    BY <2>1, <2>2, IntentContract DEF LocalIntent
  <2>3. CASE UNCHANGED rows
    BY <1>1, <2>1, <2>3 DEF rows
  <2> QED
    BY <1>2, <2>2, <2>3 DEF Claim, ClaimFails
<1>3. ASSUME NEW r \in Requests, Send(r) \/ SendFails(r)
      PROVE  Contract!Next \/ Same
  <2> DEFINE e == First(job[r].externals)
  <2>1. e \in Effects /\ UNCHANGED facts
    BY <1>3, FirstExternal DEF Send, SendFails
  <2>2. ExternalIntent(e) \/ UNCHANGED rows
    BY <1>3 DEF Send, SendFails
  <2>3. CASE ExternalIntent(e)
    <3>1. WriteIntent(e) /\ status[e] # "compensating"
      BY <2>3 DEF ExternalIntent
    <3> HIDE DEF e
    <3> QED
      BY <2>1, <3>1, IntentContract
  <2>4. CASE UNCHANGED rows
    BY <1>1, <2>1, <2>4 DEF rows
  <2> QED
    BY <2>2, <2>3, <2>4
<1>4. ASSUME NEW r \in Requests, Delete(r) \/ DeleteFails(r)
      PROVE  Contract!Next \/ Same
  <2>1. pc[r] = "fact" /\ UNCHANGED status
    BY <1>4 DEF Delete, DeleteFails, rows
  <2>2. CASE UNCHANGED facts
    BY <1>1, <2>1, <2>2
  <2>3. CASE /\ DeleteTargets(mine[r]) /\ UNCHANGED landed
             /\ blind' = blind \/ blind' = blind \union mine[r]
    BY <2>1, <2>3, DeletedFact, ChangeContract
  <2> QED
    BY <1>4, <2>2, <2>3 DEF Delete, DeleteFails
<1>5. ASSUME NEW r \in Requests, Write(r) \/ WriteFails(r)
      PROVE  Contract!Next \/ Same
  <2> DEFINE e == First(mine[r])
  <2>1. pc[r] \in {"write", "rewrite"} /\ UNCHANGED <<target, landed>>
    BY <1>5 DEF Write, WriteFails, facts
  <2>2. e \in mine[r]
    BY <2>1, FirstHeld
  <2>3. \/ UNCHANGED <<rows, facts>>
        \/ Patch(e, to[r]) /\ (blind' = blind \/ blind' = blind \union {e})
    BY <1>5 DEF Write, WriteFails, facts
  <2> HIDE DEF e
  <2>4. CASE UNCHANGED <<rows, facts>>
    BY <1>1, <2>4 DEF rows
  <2>5. CASE Patch(e, to[r]) /\ (blind' = blind \/ blind' = blind \union {e})
    BY <2>1, <2>2, <2>5, PatchContract
  <2> QED
    BY <2>3, <2>4, <2>5
<1>6. ASSUME NEW r \in Requests, Accepted(r) \/ Rejected(r) \/ Unheard(r) \/ Crash(r)
      PROVE  Contract!Next \/ Same
  <2>1. UNCHANGED <<status, target>>
    BY <1>6 DEF Accepted, Rejected, Unheard, Answered, Crash, rows
  <2>2. \/ UNCHANGED facts
        \/ pc[r] = "wait" /\ Land(r) /\ (blind' = blind \/ blind' = blind \union mine[r])
    BY <1>6 DEF Accepted, Rejected, Unheard, Answered, Crash, facts
  <2>3. CASE pc[r] = "wait" /\ Land(r) /\ (blind' = blind \/ blind' = blind \union mine[r])
    BY <2>1, <2>3, LandedFact, ChangeContract
  <2> QED
    BY <1>1, <2>1, <2>2, <2>3
<1>7. ASSUME NEW e \in Local, Restore(e)
      PROVE  Contract!Next
  <2>1. /\ e \in Effects /\ target[e] = "deleted" /\ target' = [target EXCEPT ![e] = "restored"]
        /\ target \in [Local -> {"live", "deleted", "restored"}]
        /\ UNCHANGED <<status, landed, blind>>
    BY <1>7 DEF Restore, rows, Effects, IInv, TypeOK
  <2>2. Fact[e] = "changed" /\ Fact' = [Fact EXCEPT ![e] = "restored"]
    BY <2>1 DEF Fact
  <2>3. Contract!Restore(e)
    BY <2>1, <2>2 DEF Contract!Restore
  <2> QED
    BY <2>1, <2>3 DEF Contract!Next
<1>8. ASSUME NEW r \in Requests,
             \/ \E e \in Effects : Revoke(r, e)
             \/ \E S \in Batches : RevokeBatch(r, S)
             \/ Check(r) \/ ListGroup(r) \/ SortMembers(r) \/ ClaimRefused(r) \/ Reread(r)
             \/ SendRefused(r)
      PROVE  Same
  BY <1>1, <1>8 DEF Revoke, RevokeBatch, Enter, Check, ListGroup, SortMembers, ClaimRefused,
                    Reread, SendRefused, rows
<1>9. ASSUME NEW e \in Effects, GrowOld(e) \/ \E p \in People : Take(e, p)
      PROVE  Same
  BY <1>1, <1>9 DEF GrowOld, Take
<1>10. ASSUME UNCHANGED vars
       PROVE  Same
  BY <1>1, <1>10 DEF vars, rows
<1> HIDE DEF Same
<1>11. Contract!Next \/ Same
  <2>1. ASSUME NEW r \in Requests,
               \/ \E e \in Effects : Revoke(r, e)
               \/ \E S \in Batches : RevokeBatch(r, S)
               \/ Handle(r) \/ Crash(r)
        PROVE  Contract!Next \/ Same
    <3>1. CASE Handle(r)
      BY <1>2, <1>3, <1>4, <1>5, <1>6, <1>8, <3>1 DEF Handle
    <3> QED
      BY <1>6, <1>8, <2>1, <3>1
  <2>2. CASE Next
    BY <1>7, <1>9, <2>1, <2>2 DEF Next
  <2> QED
    BY <1>10, <2>2
<1> QED
  BY <1>11 DEF Same

\* Every step of every request, with its failures, is a step of RevokeContract:
\* for any effects, groups and requests.
THEOREM RevocationImplementsContract == Spec => ImplementsContract
<1>1. Init => Contract!Init
  BY DEF Init, Contract!Init, Fact, Effects
<1>2. IInv /\ [Next]_vars => [Contract!Next]_<<status, Fact, blind>>
  BY ContractStep
<1> QED
  BY <1>1, <1>2, Inductive, PTL DEF Spec, ImplementsContract, Contract!Spec

-----------------------------------------------------------------------------
(***************************************************************************)
(* Groups while requests come one after the other.                         *)
(***************************************************************************)
\* A local member is as a dispatched external one needs it: changed, or left in
\* flight, where no request gives it back any more.
Changed(l) == target[l] # "live"
Stuck(l) == status[l] = "compensating" /\ ~Held(l)

Members(x) == Local \intersect Group[x]

\* What a request that is alone knows of the group it works on.
Sound(r) ==
    /\ pc[r] \in {"list", "sort"} => \A e \in job[r].unit : Group[e] = job[r].unit
    /\ pc[r] = "sort" => \A e \in job[r].unit : job[r].copy[e] = status[e]
    /\ pc[r] = "fact" => mine[r] = job[r].locals
    /\ pc[r] \in {"claim", "fact"} =>
         \A x \in job[r].externals : \A l \in Members(x) \ job[r].locals : Changed(l) \/ Stuck(l)
    /\ pc[r] \in {"send", "wait", "write", "rewrite"} =>
         \A x \in job[r].externals \union (mine[r] \intersect External) :
            \A l \in Members(x) : Changed(l) \/ Stuck(l)

Alone == \A r, s \in Requests : Running(r) /\ Running(s) => r = s

LandedWhole == \A x \in External : landed[x] # {} =>
                   \A l \in Members(x) : Changed(l) \/ Stuck(l)

CalmInv == calm => Alone /\ LandedWhole /\ \A r \in Requests : Sound(r)

\* What a request does to itself only.
LEMMA Frames ==
    ASSUME IInv, NEW r \in Requests,
           \/ \E e \in Effects : Revoke(r, e)
           \/ \E S \in Batches : RevokeBatch(r, S)
           \/ Handle(r) \/ Crash(r)
    PROVE  Frame(r)
<1>1. TypeOK
  BY DEF IInv
<1>2. ASSUME Continue(r)
      PROVE  \A s \in Requests \ {r} : pc'[s] = pc[s] /\ job'[s] = job[s]
  BY <1>1, <1>2 DEF Continue, Goto, Plan, TypeOK
<1>3. ASSUME NEW j, Work(r, j)
      PROVE  \A s \in Requests \ {r} : pc'[s] = pc[s] /\ job'[s] = job[s]
  BY <1>1, <1>2, <1>3 DEF Work, Goto, Plan, TypeOK
<1>4. ASSUME Undo(r)
      PROVE  \A s \in Requests \ {r} : pc'[s] = pc[s] /\ job'[s] = job[s] /\ to'[s] = to[s]
  BY <1>1, <1>2, <1>4 DEF Undo, Goto, Plan, TypeOK
<1>5. ASSUME NEW e, Done(r, e)
      PROVE  \A s \in Requests \ {r} :
               pc'[s] = pc[s] /\ job'[s] = job[s] /\ to'[s] = to[s] /\ mine'[s] = mine[s]
  BY <1>1, <1>3, <1>5 DEF Done, Hold, Goto, TypeOK
<1>6. ASSUME NEW S, Tell(r, S)
      PROVE  \A s \in Requests \ {r} : told'[s] = told[s]
  BY <1>1, <1>6 DEF Tell, TypeOK
<1>7. CASE (\E e \in Effects : Revoke(r, e)) \/ \E S \in Batches : RevokeBatch(r, S)
  BY <1>1, <1>7 DEF Revoke, RevokeBatch, Enter, Goto, Plan, TypeOK, Frame
<1>8. CASE Check(r) \/ SortMembers(r) \/ ListGroup(r) \/ Reread(r)
  BY <1>1, <1>2, <1>3, <1>6, <1>8
     DEF Check, SortMembers, ListGroup, Reread, Compensate, Goto, Plan, TypeOK, Frame
<1>9. CASE Claim(r) \/ ClaimRefused(r) \/ ClaimFails(r) \/ Delete(r) \/ DeleteFails(r)
  BY <1>1, <1>4, <1>9
     DEF Claim, ClaimRefused, ClaimFails, Delete, DeleteFails, Hold, Goto, TypeOK, Frame
<1>10. CASE Write(r) \/ WriteFails(r)
  BY <1>1, <1>5, <1>6, <1>10 DEF Write, WriteFails, Goto, TypeOK, Frame
<1>11. CASE Send(r) \/ SendRefused(r) \/ SendFails(r)
  BY <1>1, <1>2, <1>3, <1>11 DEF Send, SendRefused, SendFails, Hold, Goto, TypeOK, Frame
<1>12. CASE Accepted(r) \/ Rejected(r) \/ Unheard(r)
  BY <1>1, <1>12 DEF Accepted, Rejected, Unheard, Answered, Goto, TypeOK, Frame
<1>13. CASE Crash(r)
  BY <1>1, <1>13 DEF Crash, Goto, Plan, Hold, TypeOK, Frame
<1> QED
  BY <1>7, <1>8, <1>9, <1>10, <1>11, <1>12, <1>13 DEF Handle

\* What a step of one request has to show.
LEMMA AloneActs ==
    ASSUME CalmInv, NEW r \in Requests, Frame(r),
           calm' => /\ calm /\ \A s \in Requests \ {r} : ~Running(s)
                    /\ LandedWhole' /\ Sound(r)'
    PROVE  CalmInv'
<1> SUFFICES ASSUME calm' PROVE Alone' /\ LandedWhole' /\ \A s \in Requests : Sound(s)'
  BY DEF CalmInv
<1>1. \A s \in Requests \ {r} : pc'[s] \in {"idle", "over"}
  BY DEF Frame, Running
<1>2. Alone'
  BY <1>1 DEF Alone, Running
<1>3. \A s \in Requests \ {r} : Sound(s)'
  BY <1>1 DEF Sound
<1> QED
  BY <1>2, <1>3

LEMMA OthersRest ==
    ASSUME IInv, CalmInv, calm, NEW r \in Requests, Running(r)
    PROVE  /\ \A s \in Requests \ {r} : ~Running(s) /\ mine[s] = {}
           /\ \A e : Held(e) <=> e \in mine[r]
           /\ LandedWhole /\ Sound(r)
<1>1. \A s \in Requests \ {r} : ~Running(s)
  BY DEF CalmInv, Alone
<1>2. \A s \in Requests \ {r} : mine[s] = {}
  BY <1>1 DEF IInv, At, Running
<1> QED
  BY <1>1, <1>2 DEF CalmInv, Held

\* No member is given back, and nothing lands.
MembersKeep == \A l \in Local : (Changed(l) => Changed(l)') /\ (Stuck(l) => Stuck(l)')

LEMMA LandedKeeps ==
    ASSUME LandedWhole, MembersKeep, landed' = landed
    PROVE  LandedWhole'
  BY DEF LandedWhole, MembersKeep, Members

LEMMA RowsKeep ==
    ASSUME UNCHANGED <<status, target>>, \A s \in Requests : mine'[s] \subseteq mine[s]
    PROVE  MembersKeep
  BY DEF MembersKeep, Changed, Stuck, Held

LEMMA ContinueSound ==
    ASSUME IInv, NEW r \in Requests, Continue(r)
    PROVE  /\ pc'[r] \in {"over", "check", "list"}
           /\ pc'[r] = "list" => \A e \in job'[r].unit : Group[e] = job'[r].unit
<1> DEFINE rest == job[r].todo
           unit == Group[First(rest)]
           j == [NoJob EXCEPT !.todo = rest \ unit, !.unit = unit,
                  !.copy = [e \in Effects |-> IF e \in rest THEN job[r].copy[e] ELSE "null"]]
<1>1. job[r] \in Jobs /\ rest \in SUBSET Effects /\ job \in [Requests -> Jobs] /\ pc \in [Requests -> Phases]
  BY JobType DEF IInv, TypeOK, Phases
<1>2. CASE rest = {}
  BY <1>1, <1>2 DEF Continue, Goto
<1>3. CASE rest # {}
  <2>1. Goto(r, IF Cardinality(unit) = 1 THEN "check" ELSE "list") /\ Plan(r, j)
    BY <1>3 DEF Continue
  <2>2. First(rest) \in Effects
    <3> HIDE DEF rest
    <3> QED
      BY <1>1, <1>3, FirstIn
  <2>3. \A e \in unit : Group[e] = unit
    BY <2>2, EffectAssumption
  <2>4. j.unit = unit
    BY DEF NoJob
  <2>5. job'[r] = j /\ pc'[r] \in {"check", "list"}
    <3> HIDE DEF j
    <3> QED
      BY <1>1, <2>1 DEF Goto, Plan
  <2> HIDE DEF j, unit
  <2> QED
    BY <2>3, <2>4, <2>5
<1> QED
  BY <1>2, <1>3

LEMMA WorkSound ==
    ASSUME IInv, NEW r \in Requests, NEW j \in Jobs, Work(r, j)
    PROVE  \/ /\ pc'[r] \in {"over", "check", "list"}
              /\ pc'[r] = "list" => \A e \in job'[r].unit : Group[e] = job'[r].unit
           \/ pc'[r] = "claim" /\ job'[r] = j
           \/ pc'[r] = "send" /\ job'[r] = j /\ j.locals = {}
<1>1. CASE j.locals = {} /\ j.externals = {}
  BY <1>1, ContinueSound DEF Work
<1>2. CASE ~(j.locals = {} /\ j.externals = {})
  <2>1. Goto(r, IF j.locals # {} THEN "claim" ELSE "send") /\ Plan(r, j)
    BY <1>2 DEF Work
  <2> QED
    BY <2>1, GotoPhase, PlanJob DEF IInv, Phases
<1> QED
  BY <1>1, <1>2

\* Nothing is asked of a request that goes on with the next unit.
LEMMA OnwardSound ==
    ASSUME NEW r \in Requests, pc'[r] \in {"idle", "over", "check", "list", "reread"},
           pc'[r] = "list" => \A e \in job'[r].unit : Group[e] = job'[r].unit
    PROVE  Sound(r)'
  BY DEF Sound

\* A step that changes no row and no target, and ends the work on the unit.
LEMMA QuietAlone ==
    ASSUME IInv, CalmInv, NEW r \in Requests, Running(r), Frame(r),
           UNCHANGED <<status, target, landed, calm>>, mine'[r] \subseteq mine[r],
           calm /\ Sound(r) /\ LandedWhole /\ (\A e : Held(e) <=> e \in mine[r]) => Sound(r)'
    PROVE  CalmInv'
<1> SUFFICES ASSUME calm
             PROVE  (\A s \in Requests \ {r} : ~Running(s)) /\ LandedWhole' /\ Sound(r)'
  BY AloneActs
<1>1. /\ \A s \in Requests \ {r} : ~Running(s) /\ mine[s] = {}
      /\ \A e : Held(e) <=> e \in mine[r]
      /\ LandedWhole /\ Sound(r)
  BY OthersRest
<1>2. \A s \in Requests : mine'[s] \subseteq mine[s]
  BY DEF Frame
<1>3. LandedWhole'
  BY <1>1, <1>2, RowsKeep, LandedKeeps
<1> QED
  BY <1>1, <1>3

LEMMA EnterAlone ==
    ASSUME IInv, CalmInv, NEW r \in Requests,
           \/ \E e \in Effects : Revoke(r, e)
           \/ \E S \in Batches : RevokeBatch(r, S)
    PROVE  CalmInv'
<1>1. Frame(r)
  BY Frames
<1>a. PICK next \in {"check", "list"}, unit \in SUBSET Effects : \E todo, S :
        /\ Enter(r, next, unit, todo, S)
        /\ next = "list" => \A e \in unit : Group[e] = unit
  <2>1. ASSUME NEW e \in Effects, Revoke(r, e)
        PROVE  Enter(r, "check", {e}, {}, {e})
    BY <2>1 DEF Revoke
  <2>2. ASSUME NEW S \in Batches, RevokeBatch(r, S)
        PROVE  \E next \in {"check", "list"}, unit \in SUBSET Effects : \E todo :
                 /\ Enter(r, next, unit, todo, S)
                 /\ next = "list" => \A e \in unit : Group[e] = unit
    <3> DEFINE unit == Group[First(S)]
               next == IF Cardinality(unit) = 1 THEN "check" ELSE "list"
    <3>1. First(S) \in Effects
      BY <2>2, FirstIn, EffectAssumption DEF RevokeBatch
    <3>2. unit \in SUBSET Effects /\ \A e \in unit : Group[e] = unit
      BY <3>1, EffectAssumption
    <3>3. Enter(r, next, unit, S \ unit, S) /\ next \in {"check", "list"}
      BY <2>2 DEF RevokeBatch
    <3> HIDE DEF unit, next
    <3> QED
      BY <3>2, <3>3
  <2>3. CASE \E e \in Effects : Revoke(r, e)
    <3>1. PICK e \in Effects : Enter(r, "check", {e}, {}, {e})
      BY <2>1, <2>3
    <3> QED
      BY <3>1
  <2>4. CASE \E S \in Batches : RevokeBatch(r, S)
    BY <2>2, <2>4
  <2> QED
    BY <2>3, <2>4
<1>2. PICK todo, S :
        /\ Enter(r, next, unit, todo, S)
        /\ next = "list" => \A e \in unit : Group[e] = unit
  BY <1>a
<1> DEFINE j == [NoJob EXCEPT !.unit = unit, !.todo = todo,
                  !.copy = [e \in Effects |-> IF e \in S THEN status[e] ELSE "null"]]
<1>3. /\ pc[r] = "idle" /\ Goto(r, next) /\ Plan(r, j)
      /\ calm' = (calm /\ \A s \in Requests : ~Running(s))
      /\ UNCHANGED <<status, target, landed, mine>>
  BY <1>2 DEF Enter, rows, facts
<1>4. pc'[r] = next /\ job'[r] = j
  BY <1>2, <1>3, GotoPhase DEF Goto, Plan, IInv, TypeOK, Phases
<1>5. j.unit = unit
  BY DEF NoJob
<1> HIDE DEF j
<1>6. Sound(r)'
  BY <1>2, <1>4, <1>5, OnwardSound
<1>7. calm' => LandedWhole'
  BY <1>3, RowsKeep, LandedKeeps DEF CalmInv
<1> QED
  BY <1>1, <1>3, <1>6, <1>7, AloneActs

\* What was left out of the work on a group is changed or in flight for good.
LEMMA CompensateSound ==
    ASSUME IInv, NEW r \in Requests, NEW S \in SUBSET job[r].unit, Compensate(r, S),
           UNCHANGED <<status, target, mine>>, mine[r] = {}, \A e : Held(e) <=> e \in mine[r],
           \A s \in Requests : mine'[s] = mine[s],
           \A x \in S \intersect External : \A l \in Members(x) : l \in S \/ Changed(l) \/ Stuck(l)
    PROVE  Sound(r)'
<1> DEFINE j == [job[r] EXCEPT !.locals = S \intersect Local, !.externals = S \intersect External]
<1>1. job[r] \in Jobs
  BY JobType DEF IInv
<1>2. j \in Jobs /\ j.locals = S \intersect Local /\ j.externals = S \intersect External
  BY <1>1 DEF Jobs
<1>3. Work(r, j)
  BY DEF Compensate
<1> HIDE DEF j
<1>4. \/ /\ pc'[r] \in {"over", "check", "list"}
         /\ pc'[r] = "list" => \A e \in job'[r].unit : Group[e] = job'[r].unit
      \/ pc'[r] = "claim" /\ job'[r] = j
      \/ pc'[r] = "send" /\ job'[r] = j /\ j.locals = {}
  BY <1>2, <1>3, WorkSound
<1>5. \A l \in Local : (Changed(l) => Changed(l)') /\ (Stuck(l) => Stuck(l)')
  BY DEF Changed, Stuck, Held
<1>6. \A x \in j.externals : \A l \in Members(x) \ j.locals : (Changed(l) \/ Stuck(l))'
  BY <1>2, <1>5 DEF Members
<1>7. CASE pc'[r] \in {"over", "check", "list"}
  BY <1>4, <1>7, OnwardSound
<1>8. CASE pc'[r] = "claim"
  BY <1>4, <1>6, <1>8 DEF Sound, Members
<1>9. CASE pc'[r] = "send"
  BY <1>4, <1>6, <1>9 DEF Sound, Members
<1> QED
  BY <1>4, <1>7, <1>8, <1>9

LEMMA CheckAlone ==
    ASSUME IInv, CalmInv, NEW r \in Requests, Check(r), Frame(r)
    PROVE  CalmInv'
<1>1. PICK e \in job[r].unit :
        /\ pc[r] = "check"
        /\ \/ Continue(r)
           \/ Cardinality(Group[e]) = 1 /\ Compensate(r, {e})
           \/ Goto(r, "list") /\ Plan(r, [job[r] EXCEPT !.unit = Group[e]])
        /\ UNCHANGED <<rows, facts, calm, mine, to>>
  BY DEF Check
<1>2. mine[r] = {} /\ e \in Effects /\ job[r] \in Jobs
  BY <1>1, JobType DEF IInv, At
<1>3. ASSUME calm, \A f : Held(f) <=> f \in mine[r]
      PROVE  Sound(r)'
  <2>1. CASE Continue(r)
    BY <2>1, ContinueSound, OnwardSound
  <2>2. CASE Cardinality(Group[e]) = 1 /\ Compensate(r, {e})
    <3>1. Group[e] = {e}
      <4>1. Group[e] \subseteq Effects /\ e \in Group[e] /\ IsFiniteSet(Group[e])
        BY <1>2, EffectAssumption, FS_Subset
      <4>2. PICK x : Group[e] = {x}
        BY <2>2, <4>1, FS_Singleton
      <4> QED
        BY <4>1, <4>2
    <3>2. {e} \in SUBSET job[r].unit
      OBVIOUS
    <3>3. \A x \in {e} \intersect External : \A l \in Members(x) : l \in {e}
      BY <3>1 DEF Members
    <3> QED
      BY <1>1, <1>2, <1>3, <2>2, <3>2, <3>3, CompensateSound DEF rows, facts
  <2>3. CASE Goto(r, "list") /\ Plan(r, [job[r] EXCEPT !.unit = Group[e]])
    <3> DEFINE j == [job[r] EXCEPT !.unit = Group[e]]
    <3>1. j \in Jobs /\ j.unit = Group[e]
      BY <1>2, GroupType DEF Jobs
    <3>2. \A f \in Group[e] : Group[f] = Group[e]
      BY <1>2, EffectAssumption
    <3> HIDE DEF j
    <3>3. pc'[r] = "list" /\ job'[r] = j
      BY <2>3, <3>1, GotoPhase, PlanJob DEF IInv, Phases, j
    <3> QED
      BY <3>1, <3>2, <3>3, OnwardSound
  <2> QED
    BY <1>1, <2>1, <2>2, <2>3
<1> QED
  BY <1>1, <1>3, QuietAlone DEF Running, rows, facts

LEMMA ListAlone ==
    ASSUME IInv, CalmInv, NEW r \in Requests, ListGroup(r), Frame(r)
    PROVE  CalmInv'
<1> DEFINE copy == [e \in Effects |-> IF e \in job[r].unit THEN status[e] ELSE job[r].copy[e]]
           j == [job[r] EXCEPT !.copy = copy]
<1>1. /\ pc[r] = "list" /\ Goto(r, "sort") /\ Plan(r, j)
      /\ UNCHANGED <<rows, facts, calm, mine>>
  BY DEF ListGroup
<1>2. job[r].unit \subseteq Effects /\ copy \in [Effects -> Statuses]
  BY JobType DEF IInv, TypeOK
<1>3. \A e \in job[r].unit : copy[e] = status[e]
  BY <1>2
<1> HIDE DEF copy
<1>4. j \in Jobs /\ j.copy = copy /\ j.unit = job[r].unit
  BY <1>2, JobType DEF Jobs, IInv
<1> HIDE DEF j
<1>5. pc'[r] = "sort" /\ job'[r] = j
  BY <1>1, <1>4, GotoPhase, PlanJob DEF IInv, Phases
<1>6. Sound(r) => Sound(r)'
  BY <1>1, <1>3, <1>4, <1>5 DEF Sound, rows
<1> QED
  BY <1>1, <1>6, QuietAlone DEF Running, rows, facts

LEMMA SortAlone ==
    ASSUME IInv, CalmInv, NEW r \in Requests, SortMembers(r), Frame(r)
    PROVE  CalmInv'
<1> DEFINE S == {e \in job[r].unit : ~Skipped(r, e)}
<1>1. pc[r] = "sort" /\ Compensate(r, S) /\ UNCHANGED <<rows, facts, calm, mine, to>>
  BY DEF SortMembers
<1>2. mine[r] = {} /\ job[r].unit \subseteq Effects
  BY <1>1, JobType DEF IInv, At
<1>3. ASSUME calm, Sound(r), \A f : Held(f) <=> f \in mine[r]
      PROVE  Sound(r)'
  <2>1. ASSUME NEW x \in S \intersect External, NEW l \in Members(x), l \notin S
        PROVE  Changed(l) \/ Stuck(l)
    <3>1. l \in job[r].unit /\ l \in Local
      BY <1>1, <1>3, <2>1 DEF Sound, Members
    <3>2. Skipped(r, l) /\ job[r].copy[l] = status[l]
      BY <1>1, <1>3, <2>1, <3>1 DEF Sound
    <3> QED
      BY <1>2, <1>3, <3>1, <3>2 DEF Skipped, Changed, Stuck
  <2>2. S \in SUBSET job[r].unit
    OBVIOUS
  <2> HIDE DEF S
  <2> QED
    BY <1>1, <1>2, <1>3, <2>1, <2>2, CompensateSound DEF rows, facts
<1> QED
  BY <1>1, <1>3, QuietAlone DEF Running, rows, facts

\* A step of a request that disturbs none of the members it counts on.
LEMMA KeepingAlone ==
    ASSUME IInv, CalmInv, NEW r \in Requests, Running(r), Frame(r), calm' = calm, landed' = landed,
           ASSUME calm, Sound(r), \A s \in Requests \ {r} : mine[s] = {},
                  \A e : Held(e) <=> e \in mine[r]
           PROVE  MembersKeep /\ Sound(r)'
    PROVE  CalmInv'
<1> SUFFICES ASSUME calm
             PROVE  (\A s \in Requests \ {r} : ~Running(s)) /\ LandedWhole' /\ Sound(r)'
  BY AloneActs
<1>1. /\ \A s \in Requests \ {r} : ~Running(s) /\ mine[s] = {}
      /\ \A e : Held(e) <=> e \in mine[r]
      /\ LandedWhole /\ Sound(r)
  BY OthersRest
<1>2. MembersKeep /\ Sound(r)'
  BY <1>1
<1> QED
  BY <1>1, <1>2, LandedKeeps

\* A row is taken on, or is in flight though nobody heard of it.
LEMMA IntentKeeps ==
    ASSUME IInv, NEW r \in Requests, NEW e \in Effects, WriteIntent(e), status[e] # "compensating",
           UNCHANGED target, \A s \in Requests \ {r} : mine[s] = {} /\ mine'[s] = {},
           mine'[r] \subseteq mine[r] \union {e} \/ (mine'[r] = {e} /\ mine[r] = {})
    PROVE  MembersKeep
<1>1. \A f \in Effects \ {e} : status'[f] = status[f]
  BY IntentWritten DEF IInv
<1>2. \A l \in Local : Stuck(l) => l # e /\ l \in Effects
  BY DEF Stuck, Effects
<1> QED
  BY <1>1, <1>2 DEF MembersKeep, Changed, Stuck, Held

LEMMA ClaimAlone ==
    ASSUME IInv, CalmInv, NEW r \in Requests, Claim(r), Frame(r)
    PROVE  CalmInv'
<1> DEFINE e == NextLocal(r)
<1>1. /\ pc[r] = "claim" /\ status[e] # "compensating" /\ WriteIntent(e)
      /\ mine' = [mine EXCEPT ![r] = mine[r] \union {e}]
      /\ Goto(r, IF mine'[r] = job[r].locals THEN "fact" ELSE "claim")
      /\ UNCHANGED <<target, landed, calm, job>>
  BY DEF Claim, LocalIntent, Hold, facts
<1>2. e \in job[r].locals /\ e \in Effects
  BY <1>1, NextLocalIn
<1> HIDE DEF e
<1>3. mine'[r] = mine[r] \union {e} /\ \A s \in Requests \ {r} : mine'[s] = mine[s]
  BY <1>1 DEF IInv, TypeOK
<1>4. \/ mine'[r] = job[r].locals /\ pc'[r] = "fact"
      \/ pc'[r] = "claim"
  BY <1>1, GotoPhase DEF Phases, IInv
<1>5. ASSUME Sound(r), \A s \in Requests \ {r} : mine[s] = {}
      PROVE  MembersKeep /\ Sound(r)'
  <2>1. MembersKeep
    BY <1>1, <1>2, <1>3, <1>5, IntentKeeps
  <2>2. \A x \in job[r].externals : \A l \in Members(x) \ job[r].locals : (Changed(l) \/ Stuck(l))'
    BY <1>1, <1>5, <2>1 DEF Sound, MembersKeep, Members
  <2> QED
    BY <1>1, <1>4, <2>1, <2>2 DEF Sound, Members
<1> QED
  BY <1>1, <1>5, KeepingAlone DEF Running

\* What is given back after a refusal or a failure leaves no external to send.
LEMMA UndoSound ==
    ASSUME IInv, NEW r \in Requests, Undo(r), pc[r] \in {"claim", "fact"}, mine' = mine
    PROVE  Sound(r)'
<1>1. mine[r] \subseteq Local
  BY JobType DEF IInv, At
<1>2. CASE mine[r] = {}
  BY <1>2, ContinueSound, OnwardSound DEF Undo
<1>3. CASE mine[r] # {}
  <2> DEFINE j == [job[r] EXCEPT !.externals = {}]
  <2>1. Goto(r, "write") /\ Plan(r, j)
    BY <1>3 DEF Undo
  <2>2. j \in Jobs /\ j.externals = {}
    BY JobType DEF Jobs, IInv
  <2> HIDE DEF j
  <2>3. pc'[r] = "write" /\ job'[r] = j
    BY <2>1, <2>2, GotoPhase, PlanJob DEF IInv, Phases
  <2>4. mine'[r] \intersect External = {}
    BY <1>1, EffectAssumption
  <2> QED
    BY <2>2, <2>3, <2>4 DEF Sound
<1> QED
  BY <1>2, <1>3

LEMMA ClaimRefusedAlone ==
    ASSUME IInv, CalmInv, NEW r \in Requests, ClaimRefused(r), Frame(r)
    PROVE  CalmInv'
<1>1. pc[r] = "claim" /\ UNCHANGED <<rows, facts, calm, mine>> /\ (Goto(r, "reread") \/ Undo(r))
  BY DEF ClaimRefused
<1>2. CASE Goto(r, "reread")
  <2>1. pc'[r] = "reread"
    BY <1>2, GotoPhase DEF IInv, Phases
  <2> QED
    BY <1>1, <2>1, OnwardSound, QuietAlone DEF Running, rows, facts
<1>3. CASE Undo(r)
  BY <1>1, <1>3, UndoSound, QuietAlone DEF Running, rows, facts
<1> QED
  BY <1>1, <1>2, <1>3

LEMMA ClaimFailsAlone ==
    ASSUME IInv, CalmInv, NEW r \in Requests, ClaimFails(r), Frame(r)
    PROVE  CalmInv'
<1> DEFINE e == NextLocal(r)
<1>1. /\ pc[r] = "claim" /\ UNCHANGED <<target, landed, calm, mine>> /\ Undo(r)
      /\ (status[e] # "compensating" /\ WriteIntent(e)) \/ UNCHANGED rows
  BY DEF ClaimFails, LocalIntent, facts
<1>2. e \in Effects
  BY <1>1, NextLocalIn
<1>3. Sound(r)'
  BY <1>1, UndoSound
<1> HIDE DEF e
<1>4. ASSUME \A s \in Requests \ {r} : mine[s] = {}
      PROVE  MembersKeep
  <2>1. CASE UNCHANGED rows
    BY <1>1, <2>1, RowsKeep DEF rows
  <2>2. CASE status[e] # "compensating" /\ WriteIntent(e)
    BY <1>1, <1>2, <1>4, <2>2, IntentKeeps
  <2> QED
    BY <1>1, <2>1, <2>2
<1> QED
  BY <1>1, <1>3, <1>4, KeepingAlone DEF Running

LEMMA RereadAlone ==
    ASSUME IInv, CalmInv, NEW r \in Requests, Reread(r), Frame(r)
    PROVE  CalmInv'
<1>1. pc[r] = "reread" /\ Continue(r) /\ UNCHANGED <<rows, facts, calm, mine>>
  BY DEF Reread
<1> QED
  BY <1>1, ContinueSound, OnwardSound, QuietAlone DEF Running, rows, facts

\* The fact: members are deleted, none comes to life.
LEMMA DeletedKeep ==
    ASSUME IInv, NEW r \in Requests, DeleteTargets(mine[r]), UNCHANGED <<status, mine>>
    PROVE  MembersKeep /\ \A l \in Local \intersect mine[r] : Changed(l)'
  BY DEF DeleteTargets, MembersKeep, Changed, Stuck, Held, IInv, TypeOK

LEMMA DeleteAlone ==
    ASSUME IInv, CalmInv, NEW r \in Requests, Delete(r), Frame(r)
    PROVE  CalmInv'
<1>1. /\ pc[r] = "fact" /\ Goto(r, "write") /\ DeleteTargets(mine[r])
      /\ UNCHANGED <<status, landed, calm, job, mine>>
  BY DEF Delete, rows
<1>2. pc'[r] = "write" /\ mine[r] \subseteq Local
  BY <1>1, GotoPhase DEF Phases, IInv, At
<1>3. MembersKeep /\ \A l \in Local \intersect mine[r] : Changed(l)'
  BY <1>1, DeletedKeep
<1>4. ASSUME Sound(r)
      PROVE  Sound(r)'
  <2>1. mine[r] \intersect External = {} /\ mine[r] = job[r].locals
    BY <1>1, <1>2, <1>4, EffectAssumption DEF Sound
  <2>2. ASSUME NEW x \in job[r].externals, NEW l \in Members(x)
        PROVE  (Changed(l) \/ Stuck(l))'
    <3>1. l \in Local /\ (l \in mine[r] \/ Changed(l) \/ Stuck(l))
      BY <1>1, <1>4, <2>1, <2>2 DEF Sound, Members
    <3> QED
      BY <1>3, <3>1 DEF MembersKeep
  <2> QED
    BY <1>1, <1>2, <2>1, <2>2 DEF Sound, Members
<1> QED
  BY <1>1, <1>3, <1>4, KeepingAlone DEF Running

LEMMA DeleteFailsAlone ==
    ASSUME IInv, CalmInv, NEW r \in Requests, DeleteFails(r), Frame(r)
    PROVE  CalmInv'
<1>1. /\ pc[r] = "fact" /\ Undo(r) /\ UNCHANGED <<status, calm, mine, landed>>
      /\ UNCHANGED target \/ DeleteTargets(mine[r])
  BY DEF DeleteFails, rows, facts
<1>2. Sound(r)'
  BY <1>1, UndoSound
<1>3. MembersKeep
  BY <1>1, DeletedKeep, RowsKeep
<1> QED
  BY <1>1, <1>2, <1>3, KeepingAlone DEF Running

-----------------------------------------------------------------------------
\* The next member is taken up with those that were counted on so far.
LEMMA ExternalsSound ==
    ASSUME IInv, NEW r \in Requests, NEW j \in Jobs, NEW X, Work(r, j), j.locals = {},
           j.externals \subseteq X, mine'[r] = {},
           \A x \in X : \A l \in Members(x) : (Changed(l) \/ Stuck(l))'
    PROVE  Sound(r)'
<1>1. \/ /\ pc'[r] \in {"over", "check", "list"}
         /\ pc'[r] = "list" => \A e \in job'[r].unit : Group[e] = job'[r].unit
      \/ pc'[r] = "claim" /\ job'[r] = j
      \/ pc'[r] = "send" /\ job'[r] = j /\ j.locals = {}
  BY WorkSound
<1>2. pc'[r] # "claim"
  <2>1. CASE j.externals = {}
    BY <2>1, ContinueSound DEF Work
  <2>2. CASE j.externals # {}
    <3>1. Goto(r, "send")
      BY <2>2 DEF Work
    <3> QED
      BY <3>1, GotoPhase DEF IInv, Phases
  <2> QED
    BY <2>1, <2>2
<1>3. CASE pc'[r] \in {"over", "check", "list"}
  BY <1>1, <1>3, OnwardSound
<1>4. CASE pc'[r] = "send"
  BY <1>1, <1>4 DEF Sound, Members
<1> QED
  BY <1>1, <1>2, <1>3, <1>4

LEMMA SendAlone ==
    ASSUME IInv, CalmInv, NEW r \in Requests, Send(r), Frame(r)
    PROVE  CalmInv'
<1> DEFINE e == First(job[r].externals)
<1>1. /\ pc[r] = "send" /\ status[e] # "compensating" /\ WriteIntent(e)
      /\ mine' = [mine EXCEPT ![r] = {e}] /\ Goto(r, "wait")
      /\ UNCHANGED <<target, landed, calm, job>>
  BY DEF Send, ExternalIntent, Hold, facts
<1>2. e \in External /\ e \in Effects /\ e \in job[r].externals
  <2>1. job[r].externals \in SUBSET Effects /\ job[r].externals # {}
    BY <1>1, JobType DEF IInv, At, Effects
  <2> QED
    BY <1>1, <2>1, FirstIn, FirstExternal
<1> HIDE DEF e
<1>3. mine'[r] = {e} /\ mine[r] = {} /\ \A s \in Requests \ {r} : mine'[s] = mine[s]
  BY <1>1 DEF IInv, TypeOK, At
<1>4. pc'[r] = "wait"
  BY <1>1, GotoPhase DEF Phases, IInv
<1>5. ASSUME Sound(r), \A s \in Requests \ {r} : mine[s] = {}
      PROVE  MembersKeep /\ Sound(r)'
  <2>1. MembersKeep
    BY <1>1, <1>2, <1>3, <1>5, IntentKeeps
  <2>2. \A x \in job[r].externals : \A l \in Members(x) : (Changed(l) \/ Stuck(l))'
    BY <1>1, <1>5, <2>1 DEF Sound, MembersKeep, Members
  <2> QED
    BY <1>1, <1>2, <1>3, <1>4, <2>1, <2>2 DEF Sound, Members
<1> QED
  BY <1>1, <1>5, KeepingAlone DEF Running

LEMMA SendRefusedAlone ==
    ASSUME IInv, CalmInv, NEW r \in Requests, SendRefused(r), Frame(r)
    PROVE  CalmInv'
<1> DEFINE e == First(job[r].externals)
           j == [job[r] EXCEPT !.locals = {}, !.externals = @ \ {e}]
<1>1. pc[r] = "send" /\ Work(r, j) /\ UNCHANGED <<rows, facts, calm, mine>>
  BY DEF SendRefused
<1>2. j \in Jobs /\ j.locals = {} /\ j.externals \subseteq job[r].externals /\ mine[r] = {}
  BY <1>1, JobType DEF Jobs, IInv, At
<1> HIDE DEF j
<1>3. Sound(r) => Sound(r)'
  <2> SUFFICES ASSUME Sound(r) PROVE Sound(r)'
    OBVIOUS
  <2>1. \A x \in job[r].externals : \A l \in Members(x) : (Changed(l) \/ Stuck(l))'
    BY <1>1 DEF Sound, Members, Changed, Stuck, Held, rows, facts
  <2> QED
    BY <1>1, <1>2, <2>1, ExternalsSound
<1> QED
  BY <1>1, <1>3, QuietAlone DEF Running, rows, facts

LEMMA SendFailsAlone ==
    ASSUME IInv, CalmInv, NEW r \in Requests, SendFails(r), Frame(r)
    PROVE  CalmInv'
<1> DEFINE e == First(job[r].externals)
<1>1. /\ pc[r] = "send" /\ Continue(r) /\ UNCHANGED <<target, landed, calm, mine>>
      /\ (status[e] # "compensating" /\ WriteIntent(e)) \/ UNCHANGED rows
  BY DEF SendFails, ExternalIntent, facts
<1>2. e \in Effects
  BY <1>1, FirstExternal
<1>3. Sound(r)'
  BY <1>1, ContinueSound, OnwardSound
<1> HIDE DEF e
<1>4. ASSUME \A s \in Requests \ {r} : mine[s] = {}
      PROVE  MembersKeep
  <2>1. CASE UNCHANGED rows
    BY <1>1, <2>1, RowsKeep DEF rows
  <2>2. CASE status[e] # "compensating" /\ WriteIntent(e)
    BY <1>1, <1>2, <1>4, <2>2, IntentKeeps
  <2> QED
    BY <1>1, <2>1, <2>2
<1> QED
  BY <1>1, <1>3, <1>4, KeepingAlone DEF Running

\* A compensation reaches its target, heard of or not.
LEMMA LandAlone ==
    ASSUME IInv, CalmInv, NEW r \in Requests, Frame(r), pc[r] = "wait",
           UNCHANGED <<status, target, calm>>, mine'[r] \subseteq mine[r],
           landed' = landed \/ Land(r), Sound(r) => Sound(r)'
    PROVE  CalmInv'
<1> SUFFICES ASSUME calm
             PROVE  (\A s \in Requests \ {r} : ~Running(s)) /\ LandedWhole' /\ Sound(r)'
  BY AloneActs
<1>1. (\A s \in Requests \ {r} : ~Running(s)) /\ LandedWhole /\ Sound(r)
  BY OthersRest DEF Running
<1>2. MembersKeep
  <2>1. \A s \in Requests : mine'[s] \subseteq mine[s]
    BY DEF Frame
  <2> QED
    BY <2>1, RowsKeep
<1>3. ASSUME NEW x \in External, landed'[x] # {}, NEW l \in Members(x)
      PROVE  (Changed(l) \/ Stuck(l))'
  <2>1. l \in Local /\ x \in Effects
    BY DEF Members, Effects
  <2>2. Changed(l) \/ Stuck(l)
    <3>1. CASE landed[x] # {}
      BY <1>1, <3>1 DEF LandedWhole
    <3>2. CASE landed[x] = {}
      <4>1. x \in mine[r]
        BY <1>3, <2>1, <3>2, Landing DEF IInv
      <4> QED
        BY <1>1, <4>1 DEF Sound
    <3> QED
      BY <3>1, <3>2
  <2> QED
    BY <1>2, <2>1, <2>2 DEF MembersKeep
<1>4. LandedWhole'
  BY <1>3 DEF LandedWhole, Members
<1> QED
  BY <1>1, <1>4

LEMMA AnswerAlone ==
    ASSUME IInv, CalmInv, NEW r \in Requests, Accepted(r) \/ Rejected(r) \/ Unheard(r), Frame(r)
    PROVE  CalmInv'
<1>1. /\ pc[r] = "wait" /\ Goto(r, "write") /\ (landed' = landed \/ Land(r))
      /\ UNCHANGED <<status, target, calm, job, mine>>
  BY DEF Accepted, Rejected, Unheard, Answered, rows
<1>2. pc'[r] = "write"
  BY <1>1, GotoPhase DEF IInv, Phases
<1>3. Sound(r) => Sound(r)'
  BY <1>1, <1>2 DEF Sound, Members, Changed, Stuck, Held
<1> QED
  BY <1>1, <1>3, LandAlone

LEMMA CrashAlone ==
    ASSUME IInv, CalmInv, NEW r \in Requests, Crash(r), Frame(r)
    PROVE  CalmInv'
<1>1. /\ Running(r) /\ Goto(r, "over") /\ mine' = [mine EXCEPT ![r] = {}]
      /\ landed' = landed \/ (pc[r] = "wait" /\ Land(r))
      /\ UNCHANGED <<status, target, calm>>
  BY DEF Crash, Hold, rows
<1>2. pc'[r] = "over" /\ mine'[r] = {}
  BY <1>1, GotoPhase DEF IInv, TypeOK, Phases
<1>3. Sound(r)'
  BY <1>2, OnwardSound
<1>4. CASE landed' = landed
  BY <1>1, <1>2, <1>3, <1>4, QuietAlone
<1>5. CASE pc[r] = "wait" /\ Land(r)
  BY <1>1, <1>2, <1>3, <1>5, LandAlone
<1> QED
  BY <1>1, <1>4, <1>5

-----------------------------------------------------------------------------
\* The outcome of a held row is written, or not; the work goes on.
LEMMA WriteAlone ==
    ASSUME IInv, CalmInv, NEW r \in Requests, Write(r) \/ WriteFails(r), Frame(r)
    PROVE  CalmInv'
<1> DEFINE e == First(mine[r])
           j == [job[r] EXCEPT !.locals = {}, !.externals = @ \ {e}]
<1>1. /\ pc[r] \in {"write", "rewrite"} /\ UNCHANGED <<target, landed, calm>>
      /\ UNCHANGED status \/ Patch(e, to[r])
      /\ (Goto(r, "rewrite") /\ UNCHANGED <<job, mine>>) \/ Done(r, e)
  BY DEF Write, WriteFails, rows, facts
<1>2. e \in mine[r] /\ e \in Effects
  BY <1>1, FirstHeld
<1> HIDE DEF e
<1>3. mine'[r] \subseteq mine[r] /\ \A s \in Requests : mine'[s] \subseteq mine[s]
  <2>1. mine'[r] \subseteq mine[r]
    BY <1>1 DEF Done, Hold, IInv, TypeOK
  <2> QED
    BY <2>1 DEF Frame
<1>4. MembersKeep
  <2>1. CASE UNCHANGED status
    BY <1>1, <1>3, <2>1, RowsKeep
  <2>2. CASE Patch(e, to[r])
    <3>1. \A f \in Effects \ {e} : status'[f] = status[f]
      BY <2>2 DEF Patch, IInv, TypeOK
    <3>2. \A l \in Local : Stuck(l) => l # e /\ l \in Effects
      BY <1>2 DEF Stuck, Held, Effects
    <3> QED
      BY <1>1, <1>3, <3>1, <3>2 DEF MembersKeep, Changed, Stuck, Held
  <2> QED
    BY <1>1, <2>1, <2>2
<1>5. ASSUME Sound(r)
      PROVE  Sound(r)'
  <2> DEFINE X == job[r].externals \union (mine[r] \intersect External)
  <2>1. \A x \in X : \A l \in Members(x) : (Changed(l) \/ Stuck(l))'
    BY <1>1, <1>4, <1>5 DEF Sound, MembersKeep, Members
  <2>2. CASE Goto(r, "rewrite") /\ UNCHANGED <<job, mine>>
    <3>1. pc'[r] = "rewrite"
      BY <2>2, GotoPhase DEF IInv, Phases
    <3> QED
      BY <2>1, <2>2, <3>1 DEF Sound, Members
  <2>3. CASE Done(r, e) /\ mine'[r] # {}
    <3>1. Goto(r, "write") /\ UNCHANGED job
      BY <2>3 DEF Done
    <3>2. pc'[r] = "write"
      BY <3>1, GotoPhase DEF IInv, Phases
    <3> QED
      BY <1>3, <2>1, <3>1, <3>2 DEF Sound, Members
  <2>4. CASE Done(r, e) /\ mine'[r] = {}
    <3>1. Work(r, j)
      BY <2>4 DEF Done
    <3>2. j \in Jobs /\ j.locals = {} /\ j.externals \subseteq X
      BY JobType DEF Jobs, IInv
    <3> HIDE DEF j, X
    <3> QED
      BY <2>1, <2>4, <3>1, <3>2, ExternalsSound
  <2> QED
    BY <1>1, <2>2, <2>3, <2>4
<1> QED
  BY <1>1, <1>4, <1>5, KeepingAlone DEF Running

\* What is not a step of a request.
LEMMA AsideAlone ==
    ASSUME CalmInv, UNCHANGED <<status, landed, calm, pc, job, mine>>,
           \A l \in Local : Changed(l) => Changed(l)'
    PROVE  CalmInv'
<1>1. MembersKeep
  BY DEF MembersKeep, Stuck, Held
<1> SUFFICES ASSUME calm PROVE Alone' /\ LandedWhole' /\ \A r \in Requests : Sound(r)'
  BY DEF CalmInv
<1>2. Alone' /\ LandedWhole'
  BY <1>1, LandedKeeps DEF CalmInv, Alone, Running
<1>3. ASSUME NEW r \in Requests
      PROVE  Sound(r)'
  <2>1. Sound(r)
    BY DEF CalmInv
  <2>2. \A x : \A l \in Members(x) : Changed(l) \/ Stuck(l) => (Changed(l) \/ Stuck(l))'
    BY <1>1 DEF MembersKeep, Members
  <2> QED
    BY <2>1, <2>2 DEF Sound, Members
<1> QED
  BY <1>2, <1>3

LEMMA CalmStep ==
    ASSUME IInv, CalmInv, [Next]_vars
    PROVE  CalmInv'
<1>1. ASSUME NEW r \in Requests, Handle(r)
      PROVE  CalmInv'
  BY <1>1, Frames, CheckAlone, ListAlone, SortAlone, ClaimAlone, ClaimRefusedAlone, ClaimFailsAlone,
     RereadAlone, DeleteAlone, DeleteFailsAlone, WriteAlone, SendAlone, SendRefusedAlone,
     SendFailsAlone, AnswerAlone DEF Handle
<1>2. ASSUME NEW r \in Requests, Crash(r)
      PROVE  CalmInv'
  BY <1>2, Frames, CrashAlone
<1>3. ASSUME NEW e \in Local, Restore(e)
      PROVE  CalmInv'
  <2>1. \A l \in Local : Changed(l) => Changed(l)'
    BY <1>3 DEF Restore, Changed, IInv, TypeOK
  <2> QED
    BY <1>3, <2>1, AsideAlone DEF Restore, rows
<1>4. ASSUME NEW e \in Effects, GrowOld(e) \/ \E p \in People : Take(e, p)
      PROVE  CalmInv'
  BY <1>4, AsideAlone DEF GrowOld, Take, facts, Changed
<1>5. CASE UNCHANGED vars
  BY <1>5, AsideAlone DEF vars, rows, facts, Changed
<1> QED
  BY <1>1, <1>2, <1>3, <1>4, <1>5, EnterAlone DEF Next

\* While requests come one after the other, a local member that is as it was beside
\* a compensated external one reads in flight, is dated and nobody works on it,
\* whichever statements fail, answers are lost, targets are restored and processes
\* end: never does a rollback leave such a half.
THEOREM HalvesAreSeen == Spec => []HalvesAreLeftInFlight
<1>1. Init => CalmInv
  BY NoJobType DEF Init, CalmInv, Alone, LandedWhole, Sound, Running, Effects
<1>2. IInv /\ CalmInv /\ [Next]_vars => CalmInv'
  BY CalmStep
<1>3. ASSUME IInv, CalmInv
      PROVE  HalvesAreLeftInFlight
  <2> SUFFICES ASSUME calm, NEW x \in External, NEW l \in Local \intersect Group[x],
                      HalfCompensated(x, l)
               PROVE  LeftInFlight(l)
    BY DEF HalvesAreLeftInFlight
  <2>1. Stuck(l)
    BY <1>3 DEF CalmInv, LandedWhole, HalfCompensated, Members, Changed
  <2>2. IntentsAreDated /\ l \in Effects
    BY <1>3, Implications DEF WorkersAreApart, Effects
  <2> QED
    BY <2>1, <2>2 DEF Stuck, LeftInFlight, IntentsAreDated
<1> QED
  BY <1>1, <1>2, <1>3, Inductive, PTL DEF Spec
=============================================================================
