-------------------------- MODULE FlowRuntime_proofs --------------------------
(***************************************************************************)
(* Proofs about the workflow runtime, for any definitions and any number   *)
(* of calls: its type; that no path of calls, failures and crashes leads   *)
(* around a human decision while no human task is dropped; that an         *)
(* instance goes on while nothing fails; and that a rejection stands while *)
(* calls come one after the other.                                         *)
(***************************************************************************)
EXTENDS FlowRuntime, TLAPS

Steps == {"idle", "begin", "find", "enter", "execute", "ask", "assign", "complete", "end",
          "catch", "load", "consult", "decide", "record", "fail", "mark", "over"}

\* Leads, with what was published, reached and approved as parameters.
Path(P, R, A, n, d) == \E D \in P, e \in Data : \E m \in NodesOf(D) :
    /\ <<m, e>> \in R
    /\ \/ m \in D.condition /\ d = e /\ n = (IF <<m, e>> \in D.holds THEN D.then[m] ELSE D.else[m])
       \/ m \in D.ai /\ n = D.follows[m]
       \/ m \in D.human /\ m \in A /\ n = D.follows[m]

Led(n, d) == Kept => Path(published, reached, approved, n, d)

IsFirst(n) == \E D \in published : n = D.first

\* What a call knows at each of its steps.
At(c) ==
    /\ ver[c] \in published
    /\ pc[c] \in {"execute", "ask", "assign"} =>
         <<copy[c].node, copy[c].data>> \in reached /\ copy[c].node \in NodesOf(ver[c])
    /\ pc[c] = "ask" => copy[c].node \in ver[c].ai
    /\ pc[c] = "assign" => copy[c].node \in ver[c].human
    /\ pc[c] = "begin" => copy[c].node = ver[c].first
    /\ pc[c] = "find" => Led(to[c], copy[c].data)
    /\ pc[c] = "enter" => /\ copy[c].node \in NodesOf(ver[c])
                          /\ IsFirst(copy[c].node) \/ Led(copy[c].node, copy[c].data)
    /\ pc[c] \in {"load", "consult", "decide", "record"} =>
         task[c] \in DOMAIN tasks /\ decision[c] \in {"approved", "rejected"}
    /\ pc[c] \notin {"idle", "over", "load"} => copy[c].state # "none"
    /\ copy[c].state = "completed" => Led(End, copy[c].data)

\* A task was given for a human node that was entered.
TasksReached == \A t \in DOMAIN tasks :
    /\ \E D \in published : tasks[t].node \in D.human
    /\ \E e \in Data : <<tasks[t].node, e>> \in reached

\* Before the start there is nothing but the row.
Unstarted == inst.state = "none" => tasks = <<>> /\ \A c \in Calls : pc[c] \in {"idle", "over"}

Entered == \A s \in reached : IsFirst(s[1]) \/ Led(s[1], s[2])

Ended == inst.state = "completed" => Led(End, inst.data)

IInv ==
    /\ TypeOK /\ def \in published
    /\ \A c \in Calls : At(c)
    /\ TasksReached /\ Unstarted /\ Entered /\ Ended

-----------------------------------------------------------------------------
\* What a well-formed definition gives.
LEMMA Formed ==
    ASSUME NEW D \in Definitions
    PROVE  /\ NodesOf(D) \subseteq Nodes /\ D.human \subseteq Human /\ D.human \subseteq NodesOf(D)
           /\ D.ai \subseteq NodesOf(D) /\ D.condition \subseteq NodesOf(D)
           /\ D.first \in NodesOf(D)
           /\ \A n \in D.condition : D.then[n] \in NodesOf(D) /\ D.else[n] \in NodesOf(D)
           /\ \A n \in D.human \union D.ai : D.follows[n] \in NodesOf(D) \union {End}
           /\ \A n : NextOf(D, n) \in Nodes \union {End}
<1>1. WellFormed(D)
  BY DefinitionAssumption
<1>2. NodesOf(D) \subseteq Nodes /\ D.human \subseteq Human
  BY DEF Nodes, Human
<1>3. /\ D.human \subseteq NodesOf(D) /\ D.ai \subseteq NodesOf(D) /\ D.condition \subseteq NodesOf(D)
      /\ D.first \in NodesOf(D)
  BY <1>1 DEF WellFormed, NodesOf
<1>4. \A n \in D.condition : D.then[n] \in NodesOf(D) /\ D.else[n] \in NodesOf(D)
  BY <1>1 DEF WellFormed
<1>5. \A n \in D.human \union D.ai : D.follows[n] \in NodesOf(D) \union {End}
  BY <1>1 DEF WellFormed
<1>6. \A n : NextOf(D, n) \in Nodes \union {End}
  BY <1>2, <1>5 DEF NextOf
<1> QED
  BY <1>2, <1>3, <1>4, <1>5, <1>6

LEMMA TaskTypes ==
    ASSUME TypeOK, NEW t \in DOMAIN tasks
    PROVE  tasks[t].node \in Human
<1> DEFINE T == [node : Human, status : {"pending", "approved", "rejected"}]
<1>1. tasks \in Seq(T)
  BY DEF TypeOK
<1>2. tasks[t] \in T
  <2> HIDE DEF T
  <2> QED
    BY <1>1
<1> QED
  BY <1>2

LEMMA TaskUpdate ==
    ASSUME TypeOK, NEW t \in DOMAIN tasks, NEW s \in {"approved", "rejected"}
    PROVE  /\ [tasks EXCEPT ![t].status = s]
                \in Seq([node : Human, status : {"pending", "approved", "rejected"}])
           /\ DOMAIN [tasks EXCEPT ![t].status = s] = DOMAIN tasks
           /\ \A u \in DOMAIN tasks : [tasks EXCEPT ![t].status = s][u].node = tasks[u].node
<1> DEFINE T == [node : Human, status : {"pending", "approved", "rejected"}]
           v == [tasks[t] EXCEPT !.status = s]
<1>1. tasks \in Seq(T)
  BY DEF TypeOK
<1>2. tasks[t] \in T
  <2> HIDE DEF T
  <2> QED
    BY <1>1
<1>3. v \in T /\ v.node = tasks[t].node
  BY <1>2
<1>4. [tasks EXCEPT ![t] = v] \in Seq(T)
  <2> HIDE DEF T, v
  <2> QED
    BY <1>1, <1>3
<1>5. [tasks EXCEPT ![t].status = s] = [tasks EXCEPT ![t] = v]
  OBVIOUS
<1>6. ASSUME NEW u \in DOMAIN tasks
      PROVE  [tasks EXCEPT ![t] = v][u].node = tasks[u].node
  BY <1>3
<1> QED
  BY <1>4, <1>5, <1>6

LEMMA PathGrows ==
    ASSUME NEW P, NEW R, NEW A, NEW PP, NEW RR, NEW AA, NEW n, NEW d,
           P \subseteq PP, R \subseteq RR, A \subseteq AA, Path(P, R, A, n, d)
    PROVE  Path(PP, RR, AA, n, d)
  BY DEF Path

\* What is known of a way stays true while the history grows.
LEMMA LedGrows ==
    ASSUME published \subseteq published', reached \subseteq reached', approved \subseteq approved'
    PROVE  /\ \A n, d : Led(n, d) => (Kept' => Path(published', reached', approved', n, d))
           /\ \A n : IsFirst(n) => \E D \in published' : n = D.first
<1>1. Kept' => Kept
  BY DEF Kept
<1>2. ASSUME NEW n, NEW d, Led(n, d), Kept'
      PROVE  Path(published', reached', approved', n, d)
  BY <1>1, <1>2, PathGrows DEF Led
<1> QED
  BY <1>2 DEF IsFirst

\* A condition has a next node: what leads to the end does so with any data.
LEMMA EndForAnyData ==
    ASSUME NEW P, NEW R, NEW A, NEW d, NEW e, P \subseteq Definitions, Path(P, R, A, End, d)
    PROVE  Path(P, R, A, End, e)
<1>1. PICK D \in P, f \in Data : \E m \in NodesOf(D) :
        /\ <<m, f>> \in R
        /\ \/ m \in D.condition /\ d = f
              /\ End = (IF <<m, f>> \in D.holds THEN D.then[m] ELSE D.else[m])
           \/ m \in D.ai /\ End = D.follows[m]
           \/ m \in D.human /\ m \in A /\ End = D.follows[m]
  BY DEF Path
<1>2. ASSUME NEW m \in D.condition
      PROVE  End # (IF <<m, f>> \in D.holds THEN D.then[m] ELSE D.else[m])
  BY Formed, DefinitionAssumption
<1> QED
  BY <1>1, <1>2 DEF Path

LEMMA StateUpdate ==
    ASSUME NEW r \in Rows, NEW s \in States
    PROVE  /\ [r EXCEPT !.state = s] \in Rows
           /\ [r EXCEPT !.state = s].state = s
           /\ [r EXCEPT !.state = s].node = r.node
           /\ [r EXCEPT !.state = s].data = r.data
  BY DEF Rows

LEMMA EndUpdate ==
    ASSUME NEW r \in Rows, NEW d \in Data
    PROVE  /\ [r EXCEPT !.state = "completed", !.data = d] \in Rows
           /\ [r EXCEPT !.state = "completed", !.data = d].state = "completed"
           /\ [r EXCEPT !.state = "completed", !.data = d].data = d
  BY DEF Rows, States

LEMMA GotoSteps ==
    ASSUME TypeOK, NEW c \in Calls, NEW p \in Steps, Goto(c, p)
    PROVE  /\ pc' \in [Calls -> Steps] /\ pc'[c] = p
           /\ \A d \in Calls \ {c} : pc'[d] = pc[d]
  BY DEF Goto, TypeOK, Steps

LEMMA DataUpdate ==
    ASSUME NEW r \in Rows, NEW d \in Data
    PROVE  /\ [r EXCEPT !.data = d] \in Rows
           /\ [r EXCEPT !.data = d].data = d
           /\ [r EXCEPT !.data = d].state = r.state
  BY DEF Rows

LEMMA NodeUpdate ==
    ASSUME NEW r \in Rows, NEW n \in Nodes \union {End}
    PROVE  /\ [r EXCEPT !.node = n] \in Rows
           /\ [r EXCEPT !.node = n].node = n
           /\ [r EXCEPT !.node = n].data = r.data
           /\ [r EXCEPT !.node = n].state = r.state
  BY DEF Rows

LEMMA AdvanceSteps ==
    ASSUME TypeOK, NEW c \in Calls, NEW n \in Nodes \union {End}, NEW d \in Data,
           Advance(c, n, d)
    PROVE  /\ pc' \in [Calls -> Steps]
           /\ copy' \in [Calls -> Rows]
           /\ to' \in [Calls -> Nodes \union {End}]
           /\ \A e \in Calls \ {c} : pc'[e] = pc[e] /\ copy'[e] = copy[e] /\ to'[e] = to[e]
           /\ copy'[c].data = d /\ to'[c] = n
           /\ n = End => pc'[c] = "complete" /\ copy'[c].state = "completed"
           /\ n # End => pc'[c] = "find" /\ copy'[c].state = copy[c].state
<1>1. copy \in [Calls -> Rows] /\ copy[c] \in Rows /\ "completed" \in States
  BY DEF TypeOK, States
<1>2. (IF n = End THEN "complete" ELSE "find") \in Steps
  BY DEF Steps
<1>3. /\ pc' \in [Calls -> Steps]
      /\ pc'[c] = IF n = End THEN "complete" ELSE "find"
      /\ \A e \in Calls \ {c} : pc'[e] = pc[e]
  BY <1>2, GotoSteps DEF Advance
<1> DEFINE r == IF n = End THEN [copy[c] EXCEPT !.state = "completed", !.data = d]
                ELSE [copy[c] EXCEPT !.data = d]
<1>4. copy' = [copy EXCEPT ![c] = r]
  BY DEF Advance
<1>5. /\ r \in Rows /\ r.data = d
      /\ n = End => r.state = "completed"
      /\ n # End => r.state = copy[c].state
  <2>1. CASE n = End
    <3>1. r = [copy[c] EXCEPT !.state = "completed", !.data = d]
      BY <2>1
    <3> HIDE DEF r
    <3> QED
      BY <1>1, <2>1, <3>1, EndUpdate
  <2>2. CASE n # End
    <3>1. r = [copy[c] EXCEPT !.data = d]
      BY <2>2
    <3> HIDE DEF r
    <3> QED
      BY <1>1, <2>2, <3>1, DataUpdate
  <2> QED
    BY <2>1, <2>2
<1>6. /\ to' \in [Calls -> Nodes \union {End}] /\ to'[c] = n
      /\ \A e \in Calls \ {c} : to'[e] = to[e]
  BY DEF Advance, TypeOK
<1> HIDE DEF r
<1> QED
  BY <1>1, <1>3, <1>4, <1>5, <1>6

\* A call at rest keeps what it knows while others act.
LEMMA Undisturbed ==
    ASSUME TypeOK, NEW d \in Calls, At(d),
           pc'[d] = pc[d], copy'[d] = copy[d], task'[d] = task[d], decision'[d] = decision[d],
           ver'[d] = ver[d], to'[d] = to[d],
           published \subseteq published',
           reached \subseteq reached', approved \subseteq approved',
           DOMAIN tasks \subseteq DOMAIN tasks'
    PROVE  At(d)'
<1>1. /\ \A n, e : Led(n, e) => (Kept' => Path(published', reached', approved', n, e))
      /\ \A n : IsFirst(n) => \E D \in published' : n = D.first
  BY LedGrows
<1>2. /\ Led(to[d], copy[d].data) => Led(to[d], copy[d].data)'
      /\ Led(copy[d].node, copy[d].data) => Led(copy[d].node, copy[d].data)'
      /\ Led(End, copy[d].data) => Led(End, copy[d].data)'
      /\ IsFirst(copy[d].node) => IsFirst(copy[d].node)'
  BY <1>1 DEF Led, IsFirst
<1>3. ver'[d] \in published'
  BY DEF At
<1> QED
  BY <1>2, <1>3 DEF At

LEMMA TypeFromSteps == TypeOK => pc \in [Calls -> Steps]
  BY DEF TypeOK, Steps

-----------------------------------------------------------------------------
\* The type of what an action leaves alone is not in question; these are the
\* conjuncts of TypeOK that one does change.
LEMMA TypeStep ==
    ASSUME IInv, [Next]_vars
    PROVE  TypeOK'
<1> USE DEF IInv
<1>1. ASSUME NEW c \in Calls, Start(c)
      PROVE  TypeOK'
  <2>1. inst' \in Rows
    <3>1. /\ inst \in Rows /\ "running" \in States /\ def.first \in Nodes
          /\ inst' = [inst EXCEPT !.state = "running", !.node = def.first]
      BY <1>1, Formed DEF Start, TypeOK, States
    <3> QED
      BY <3>1 DEF Rows
  <2>2. pc' \in [Calls -> Steps]
    BY <1>1, GotoSteps DEF Start, Steps
  <2> QED
    BY <1>1, <2>1, <2>2 DEF Start, Idle, history, TypeOK, Steps
<1>2. ASSUME NEW c \in Calls, Rollback(c)
      PROVE  TypeOK'
  <2>1. [inst EXCEPT !.state = "rolled_back"] \in Rows
    <3>1. inst \in Rows /\ "rolled_back" \in States
      BY DEF TypeOK, States
    <3> QED
      BY <3>1, StateUpdate
  <2>2. pc' \in [Calls -> Steps]
    BY <1>2, GotoSteps DEF Rollback, Steps
  <2> QED
    BY <1>2, <2>1, <2>2 DEF Rollback, Idle, history, TypeOK, Steps
<1>3. ASSUME NEW c \in Calls, NEW t \in DOMAIN tasks, NEW choice \in {"approved", "rejected"},
             Resolve(c, t, choice)
      PROVE  TypeOK'
  BY <1>3 DEF Resolve, Idle, Goto, history, TypeOK
<1>4. ASSUME NEW c \in Calls, Begin(c) \/ Finish(c) \/ Load(c) \/ Consult(c)
      PROVE  TypeOK'
  BY <1>4 DEF Begin, Finish, Load, Consult, Goto, history, TypeOK
<1>5. ASSUME NEW c \in Calls, Complete(c) \/ Catch(c) \/ Fail(c) \/ Mark(c)
      PROVE  TypeOK'
  <2>1. copy[c] \in Rows
    BY DEF TypeOK
  <2> QED
    BY <1>5, <2>1 DEF Complete, Catch, Fail, Mark, Save, Goto, history, TypeOK
<1>6. ASSUME NEW c \in Calls, Enter(c)
      PROVE  TypeOK'
  <2>1. copy[c] \in Rows /\ ver[c] \in Definitions
    BY DEF TypeOK
  <2>2. <<copy[c].node, copy[c].data>> \in Nodes \X Data
    BY <1>6, <2>1, Formed DEF Enter, At, Rows
  <2>3. pc' \in [Calls -> Steps]
    BY <1>6, GotoSteps DEF Enter, Steps
  <2> QED
    BY <1>6, <2>1, <2>2, <2>3 DEF Enter, TypeOK, Steps
<1>7. ASSUME NEW c \in Calls, Execute(c)
      PROVE  TypeOK'
  <2>1. copy[c] \in Rows /\ copy[c].data \in Data /\ ver[c] \in Definitions
    BY DEF TypeOK, Rows
  <2>2. /\ pc' \in [Calls -> Steps] /\ copy' \in [Calls -> Rows]
        /\ to' \in [Calls -> Nodes \union {End}]
    <3>1. CASE copy[c].node \in ver[c].condition
      <4> DEFINE D == ver[c]
                 n == IF <<copy[c].node, copy[c].data>> \in D.holds
                      THEN D.then[copy[c].node] ELSE D.else[copy[c].node]
      <4>1. n \in Nodes
        BY <2>1, <3>1, Formed
      <4>2. Advance(c, n, copy[c].data)
        BY <1>7, <2>1, <3>1, DefinitionAssumption DEF Execute, WellFormed
      <4> HIDE DEF n
      <4> QED
        BY <2>1, <4>1, <4>2, AdvanceSteps
    <3>2. CASE copy[c].node \notin ver[c].condition
      BY <1>7, <3>2, GotoSteps DEF Execute, Steps, TypeOK
    <3> QED
      BY <3>1, <3>2
  <2>3. guarded' \in [Calls -> BOOLEAN]
    BY <1>7 DEF Execute, TypeOK
  <2> QED
    BY <1>7, <2>2, <2>3 DEF Execute, history, TypeOK, Steps
<1>8. ASSUME NEW c \in Calls, Ask(c)
      PROVE  TypeOK'
  <2>1. /\ pc' \in [Calls -> Steps] /\ copy' \in [Calls -> Rows]
        /\ to' \in [Calls -> Nodes \union {End}]
    <3>1. ASSUME NEW out \in Data, Advance(c, ver[c].follows[copy[c].node], out)
          PROVE  /\ pc' \in [Calls -> Steps] /\ copy' \in [Calls -> Rows]
                 /\ to' \in [Calls -> Nodes \union {End}]
      <4> DEFINE n == ver[c].follows[copy[c].node]
      <4>1. n \in Nodes \union {End}
        BY <1>8, Formed DEF Ask, At, TypeOK
      <4> HIDE DEF n
      <4>2. Advance(c, n, out)
        BY <3>1 DEF n
      <4> QED
        BY <4>1, <4>2, AdvanceSteps
    <3>2. CASE Throw(c) /\ UNCHANGED to
      <4>1. [copy[c] EXCEPT !.state = "failed"] \in Rows
        <5>1. copy[c] \in Rows /\ "failed" \in States
          BY DEF TypeOK, States
        <5> QED
          BY <5>1, StateUpdate
      <4>2. copy' \in [Calls -> Rows]
        BY <3>2, <4>1 DEF Throw, TypeOK
      <4> QED
        BY <3>2, <4>2, GotoSteps DEF Throw, Steps, TypeOK
    <3>3. \/ \E out \in Data : Advance(c, ver[c].follows[copy[c].node], out)
          \/ Throw(c) /\ UNCHANGED to
      BY <1>8 DEF Ask
    <3> QED
      BY <3>1, <3>2, <3>3
  <2> QED
    BY <1>8, <2>1 DEF Ask, history, TypeOK, Steps
<1>9. ASSUME NEW c \in Calls, Assign(c)
      PROVE  TypeOK'
  <2>1. copy[c].node \in Human
    BY <1>9, Formed DEF Assign, At, TypeOK
  <2>2. pc' \in [Calls -> Steps]
    BY <1>9, GotoSteps DEF Assign, Steps
  <2>3. tasks' \in Seq([node : Human, status : {"pending", "approved", "rejected"}])
    BY <1>9, <2>1 DEF Assign, TypeOK
  <2> QED
    BY <1>9, <2>2, <2>3 DEF Assign, history, TypeOK, Steps
<1>10. ASSUME NEW c \in Calls, Decide(c)
       PROVE  TypeOK'
  <2>1. task[c] \in DOMAIN tasks /\ decision[c] \in {"approved", "rejected"}
    BY <1>10 DEF Decide, At
  <2>2. pc' \in [Calls -> Steps]
    BY <1>10, GotoSteps DEF Decide, Steps
  <2>3. tasks' \in Seq([node : Human, status : {"pending", "approved", "rejected"}])
    BY <1>10, <2>1, TaskUpdate DEF Decide
  <2> QED
    BY <1>10, <2>2, <2>3 DEF Decide, history, TypeOK, Steps
<1>11. ASSUME NEW c \in Calls, Record(c)
       PROVE  TypeOK'
  <2>1. NodeOf(c) \in Human
    <3>1. task[c] \in DOMAIN tasks
      BY <1>11 DEF Record, At
    <3> QED
      BY <3>1, TaskTypes DEF NodeOf
  <2>2. copy[c] \in Rows /\ copy[c].data \in Data /\ ver[c] \in Definitions
    BY DEF TypeOK, Rows
  <2> DEFINE n == NextOf(ver[c], NodeOf(c))
  <2>3. n \in Nodes \union {End}
    BY <2>2, Formed
  <2>4. /\ pc' \in [Calls -> Steps] /\ copy' \in [Calls -> Rows]
        /\ to' \in [Calls -> Nodes \union {End}]
    <3>1. CASE Advance(c, n, copy[c].data)
      <4> HIDE DEF n
      <4> QED
        BY <2>2, <2>3, <3>1, AdvanceSteps
    <3>2. CASE copy' = [copy EXCEPT ![c].state = "failed"] /\ Goto(c, "fail") /\ UNCHANGED to
      <4>1. [copy[c] EXCEPT !.state = "failed"] \in Rows
        BY <2>2, StateUpdate DEF States
      <4> QED
        BY <3>2, <4>1, GotoSteps DEF Steps, TypeOK
    <3> QED
      BY <1>11, <3>1, <3>2 DEF Record
  <2>5. approved' \subseteq Human /\ rejected' \subseteq Human
    BY <1>11, <2>1 DEF Record, TypeOK
  <2> QED
    BY <1>11, <2>4, <2>5 DEF Record, TypeOK, Steps
<1>12. ASSUME NEW c \in Calls, StatementFails(c) \/ Crash(c)
       PROVE  TypeOK'
  <2>1. [copy[c] EXCEPT !.state = "failed"] \in Rows
    <3>1. copy[c] \in Rows /\ "failed" \in States
      BY DEF TypeOK, States
    <3> QED
      BY <3>1, StateUpdate
  <2>2. copy' \in [Calls -> Rows]
    BY <1>12, <2>1 DEF StatementFails, Crash, Throw, TypeOK
  <2>3. pc' \in [Calls -> Steps]
    BY <1>12, GotoSteps DEF StatementFails, Crash, Throw, Steps
  <2>4. faults' \in 0 .. MaxFaults
    BY <1>12, DefinitionAssumption DEF StatementFails, Crash, Fault, TypeOK
  <2> QED
    BY <1>12, <2>2, <2>3, <2>4 DEF StatementFails, Crash, history, TypeOK, Steps
<1>13. ASSUME NEW c \in Calls, Find(c)
       PROVE  TypeOK'
  <2>1. copy[c] \in Rows /\ to[c] \in Nodes \union {End} /\ "failed" \in States
    BY DEF TypeOK, States
  <2>2. [copy[c] EXCEPT !.state = "failed"] \in Rows /\ [copy[c] EXCEPT !.node = to[c]] \in Rows
    BY <2>1, StateUpdate, NodeUpdate
  <2>3. copy' \in [Calls -> Rows] /\ ver' \in [Calls -> Definitions]
    BY <1>13, <2>2 DEF Find, TypeOK
  <2>4. pc' \in [Calls -> Steps]
    BY <1>13, GotoSteps DEF Find, Steps
  <2> QED
    BY <1>13, <2>3, <2>4 DEF Find, history, TypeOK, Steps
<1>14. ASSUME NEW D \in Definitions, Publish(D)
       PROVE  TypeOK'
  BY <1>14 DEF Publish, call, TypeOK
<1>15. CASE UNCHANGED vars
  BY <1>15 DEF vars, call, history, TypeOK
<1> QED
  BY <1>1, <1>2, <1>3, <1>4, <1>5, <1>6, <1>7, <1>8, <1>9, <1>10, <1>11, <1>12, <1>13, <1>14, <1>15
     DEF Next, Handle

-----------------------------------------------------------------------------
LEMMA Initially == Init => IInv
<1> SUFFICES ASSUME Init PROVE IInv
  OBVIOUS
<1>1. inst \in Rows /\ inst.state = "none" /\ def \in Definitions /\ published = {def}
  BY Formed DEF Init, Rows, States
<1>2. tasks \in Seq([node : Human, status : {"pending", "approved", "rejected"}])
  BY DEF Init
<1>3. TypeOK
  BY <1>1, <1>2, DefinitionAssumption DEF Init, TypeOK
<1>4. ASSUME NEW c \in Calls
      PROVE  At(c)
  BY <1>1 DEF Init, At
<1>5. TasksReached /\ Unstarted /\ Entered /\ Ended
  BY <1>1 DEF Init, TasksReached, Unstarted, Entered, Ended
<1> QED
  BY <1>1, <1>3, <1>4, <1>5 DEF IInv

\* The rows of the flow are not touched by a step that only moves a call on: what
\* they say stays true while the history grows.
LEMMA RowsUndisturbed ==
    ASSUME IInv, UNCHANGED <<inst, tasks, reached>>,
           published \subseteq published', approved \subseteq approved',
           (\A d \in Calls : pc[d] \in {"idle", "over"} => pc'[d] \in {"idle", "over"})
             \/ inst.state # "none"
    PROVE  TasksReached' /\ Unstarted' /\ Entered' /\ Ended'
<1>1. /\ \A n, d : Led(n, d) => (Kept' => Path(published', reached', approved', n, d))
      /\ \A n : IsFirst(n) => \E D \in published' : n = D.first
  BY LedGrows
<1>2. TasksReached' /\ Unstarted'
  BY DEF IInv, TasksReached, Unstarted
<1>3. Entered' /\ Ended'
  BY <1>1 DEF IInv, Entered, Ended, Led, IsFirst
<1> QED
  BY <1>2, <1>3

\* A call saves its copy of the instance: what it knows holds of the row.
LEMMA Saved ==
    ASSUME IInv, NEW c \in Calls, inst' = copy[c], pc[c] \notin {"idle", "over", "load"},
           UNCHANGED <<tasks, published, reached, approved>>
    PROVE  TasksReached' /\ Unstarted' /\ Entered' /\ Ended'
<1>1. \A n, d : Led(n, d)' <=> Led(n, d)
  BY DEF Led, Kept
<1>2. copy[c].state # "none" /\ (copy[c].state = "completed" => Led(End, copy[c].data))
  BY DEF IInv, At
<1>3. TasksReached' /\ Unstarted' /\ Ended'
  BY <1>1, <1>2 DEF IInv, TasksReached, Unstarted, Ended, Led, Kept
<1>4. Entered'
  BY DEF IInv, Entered, Led, Kept, IsFirst
<1> QED
  BY <1>3, <1>4

LEMMA CallsPersist ==
    ASSUME IInv, NEW c \in Calls,
           \A d \in Calls \ {c} : /\ pc'[d] = pc[d] /\ copy'[d] = copy[d]
                                  /\ ver'[d] = ver[d] /\ to'[d] = to[d]
                                  /\ task'[d] = task[d] /\ decision'[d] = decision[d],
           published \subseteq published',
           reached \subseteq reached', approved \subseteq approved',
           DOMAIN tasks \subseteq DOMAIN tasks', At(c)'
    PROVE  \A d \in Calls : At(d)'
  BY Undisturbed DEF IInv

LEMMA Active ==
    ASSUME IInv, NEW c \in Calls, pc[c] \notin {"idle", "over"}
    PROVE  inst.state # "none"
  BY DEF IInv, Unstarted

\* An exception: the copy is marked as failed, or the call is over.
LEMMA Throws ==
    ASSUME IInv, NEW c \in Calls, Throw(c),
           UNCHANGED <<tasks, ver, to, task, decision, published, reached, approved>>
    PROVE  /\ At(c)'
           /\ \A d \in Calls \ {c} : pc'[d] = pc[d] /\ copy'[d] = copy[d]
<1>1. /\ pc' \in [Calls -> Steps] /\ pc'[c] \in {"catch", "over"}
      /\ \A d \in Calls \ {c} : pc'[d] = pc[d]
  BY GotoSteps DEF IInv, Throw, Steps
<1>2. CASE guarded[c]
  <2>1. copy' = [copy EXCEPT ![c] = [copy[c] EXCEPT !.state = "failed"]] /\ pc'[c] = "catch"
    BY <1>2, GotoSteps DEF IInv, Throw, Steps
  <2>2. copy[c] \in Rows /\ copy \in [Calls -> Rows] /\ "failed" \in States
    BY DEF IInv, TypeOK, States
  <2>3. copy'[c] = [copy[c] EXCEPT !.state = "failed"]
    BY <2>1, <2>2
  <2>4. copy'[c].state = "failed"
    BY <2>2, <2>3, StateUpdate
  <2> QED
    BY <1>1, <2>1, <2>2, <2>4 DEF At, IInv
<1>3. CASE ~guarded[c]
  <2>1. copy' = copy /\ pc'[c] = "over"
    BY <1>3, GotoSteps DEF IInv, Throw, Steps
  <2>2. Led(End, copy[c].data)' <=> Led(End, copy[c].data)
    BY <2>1 DEF Led, Kept
  <2> QED
    BY <1>1, <2>1, <2>2 DEF At, IInv
<1> QED
  BY <1>2, <1>3

\* A call advances to a node that a path leads to.
LEMMA Advances ==
    ASSUME IInv, NEW c \in Calls, NEW n \in Nodes \union {End}, NEW d \in Data, Advance(c, n, d),
           UNCHANGED <<tasks, ver, task, decision, published, reached>>, approved \subseteq approved',
           pc[c] \notin {"idle", "over", "load"}, Kept => Path(published, reached, approved', n, d)
    PROVE  /\ At(c)'
           /\ \A e \in Calls \ {c} : pc'[e] = pc[e] /\ copy'[e] = copy[e] /\ to'[e] = to[e]
<1>1. /\ \A e \in Calls \ {c} : pc'[e] = pc[e] /\ copy'[e] = copy[e] /\ to'[e] = to[e]
      /\ copy'[c].data = d /\ to'[c] = n
      /\ n = End => pc'[c] = "complete" /\ copy'[c].state = "completed"
      /\ n # End => pc'[c] = "find" /\ copy'[c].state = copy[c].state
  BY AdvanceSteps DEF IInv
<1>2. Kept' = Kept /\ ver'[c] \in published'
  BY DEF Kept, IInv, At
<1>3. CASE n = End
  BY <1>1, <1>2, <1>3 DEF At, Led
<1>4. CASE n # End
  <2>1. copy[c].state # "none"
    BY DEF IInv, At
  <2>2. ASSUME copy[c].state = "completed", Kept
        PROVE  Path(published', reached', approved', End, d)
    <3>1. Path(published, reached, approved, End, copy[c].data) /\ published \subseteq Definitions
      BY <2>2 DEF IInv, At, Led, TypeOK
    <3>2. Path(published, reached, approved, End, d)
      BY <3>1, EndForAnyData
    <3> QED
      BY <3>2, PathGrows
  <2> QED
    BY <1>1, <1>2, <1>4, <2>1, <2>2 DEF At, Led
<1> QED
  BY <1>1, <1>3, <1>4

-----------------------------------------------------------------------------
LEMMA Step ==
    ASSUME IInv, [Next]_vars
    PROVE  IInv'
<1>1. TypeOK'
  BY TypeStep
<1> DEFINE Rest == /\ def' \in published' /\ \A d \in Calls : At(d)'
                   /\ TasksReached' /\ Unstarted' /\ Entered' /\ Ended'
<1>2. ASSUME NEW c \in Calls, Start(c)
      PROVE  Rest
  <2>1. /\ inst \in Rows /\ inst.state = "none" /\ def.first \in Nodes
        /\ inst' = [inst EXCEPT !.state = "running", !.node = def.first]
        /\ copy' = [copy EXCEPT ![c] = inst'] /\ copy \in [Calls -> Rows]
        /\ ver' = [ver EXCEPT ![c] = def] /\ ver \in [Calls -> Definitions]
        /\ UNCHANGED <<def, tasks, to, task, decision, published, reached, approved>>
    BY <1>2, Formed DEF Start, IInv, TypeOK, history
  <2>2. inst'.state = "running" /\ inst'.node = def.first
    BY <2>1 DEF Rows
  <2>3. pc'[c] = "begin" /\ \A d \in Calls \ {c} : pc'[d] = pc[d]
    BY <1>2, GotoSteps DEF Start, Steps, IInv
  <2>4. At(c)'
    BY <2>1, <2>2, <2>3 DEF At, IInv
  <2>5. \A d \in Calls : At(d)'
    BY <2>1, <2>3, <2>4, CallsPersist
  <2>6. Entered'
    BY <2>1 DEF IInv, Entered, Led, Kept, IsFirst
  <2> QED
    BY <2>1, <2>2, <2>5, <2>6 DEF IInv, TasksReached, Unstarted, Ended
<1>3. ASSUME NEW c \in Calls, Rollback(c)
      PROVE  Rest
  <2>1. /\ inst \in Rows /\ "rolled_back" \in States
        /\ copy' = [copy EXCEPT ![c] = [inst EXCEPT !.state = "rolled_back"]]
        /\ copy \in [Calls -> Rows]
        /\ UNCHANGED <<def, inst, tasks, ver, to, task, decision, published, reached, approved>>
    BY <1>3 DEF Rollback, IInv, TypeOK, States, history
  <2>2. copy'[c].state = "rolled_back"
    BY <2>1, StateUpdate
  <2>3. pc'[c] = "mark" /\ \A d \in Calls \ {c} : pc'[d] = pc[d]
    BY <1>3, GotoSteps DEF Rollback, Steps, IInv
  <2>4. At(c)'
    BY <2>1, <2>2, <2>3 DEF At, IInv
  <2>5. \A d \in Calls : At(d)'
    BY <2>1, <2>3, <2>4, CallsPersist
  <2>6. inst.state # "none"
    BY <1>3 DEF Rollback
  <2> QED
    BY <2>1, <2>5, <2>6, RowsUndisturbed DEF IInv
<1>4. ASSUME NEW c \in Calls, NEW t \in DOMAIN tasks, NEW choice \in {"approved", "rejected"},
             Resolve(c, t, choice)
      PROVE  Rest
  <2>1. pc'[c] = "load" /\ \A d \in Calls \ {c} : pc'[d] = pc[d]
    BY <1>4, GotoSteps DEF Resolve, Steps, IInv
  <2>2. /\ task' = [task EXCEPT ![c] = t] /\ task'[c] = t
        /\ decision' = [decision EXCEPT ![c] = choice] /\ decision'[c] = choice
        /\ UNCHANGED <<def, inst, tasks, copy, ver, to, published, reached, approved>>
    BY <1>4 DEF Resolve, IInv, TypeOK, history
  <2>3. At(c)'
    BY <2>1, <2>2 DEF At, IInv, Led, Kept
  <2>4. \A d \in Calls : At(d)'
    BY <2>1, <2>2, <2>3, CallsPersist
  <2>5. inst.state # "none"
    BY <1>4 DEF IInv, Unstarted
  <2> QED
    BY <2>2, <2>4, <2>5, RowsUndisturbed DEF IInv
<1>5. ASSUME NEW c \in Calls, Begin(c)
      PROVE  Rest
  <2>1. /\ pc[c] = "begin" /\ pc'[c] = "enter" /\ \A d \in Calls \ {c} : pc'[d] = pc[d]
        /\ UNCHANGED <<def, inst, tasks, copy, ver, to, task, decision, published, reached, approved>>
    BY <1>5, GotoSteps DEF Begin, Steps, IInv, history
  <2>2. copy[c].node \in NodesOf(ver[c]) /\ IsFirst(copy[c].node)
    BY <2>1, Formed DEF At, IInv, IsFirst, TypeOK
  <2>3. At(c)'
    BY <2>1, <2>2 DEF At, IInv, IsFirst, Led, Kept
  <2>4. \A d \in Calls : At(d)'
    BY <2>1, <2>3, CallsPersist
  <2> QED
    BY <2>1, <2>4, RowsUndisturbed, Active DEF IInv
<1>6. ASSUME NEW c \in Calls, Enter(c)
      PROVE  Rest
  <2>1. pc[c] = "enter" /\ pc'[c] = "execute" /\ \A d \in Calls \ {c} : pc'[d] = pc[d]
    BY <1>6, GotoSteps DEF Enter, Steps, IInv
  <2>2. /\ inst' = copy[c] /\ reached' = reached \union {<<copy[c].node, copy[c].data>>}
        /\ UNCHANGED <<def, tasks, copy, ver, to, task, decision, published, approved>>
    BY <1>6 DEF Enter
  <2>3. /\ \A n, d : Led(n, d) => (Kept' => Path(published', reached', approved', n, d))
        /\ \A n : IsFirst(n) => \E D \in published' : n = D.first
    BY <2>2, LedGrows
  <2>4. copy[c].state # "none" /\ (copy[c].state = "completed" => Led(End, copy[c].data))
    BY <2>1 DEF At, IInv
  <2>5. At(c)'
    BY <2>1, <2>2, <2>3, <2>4 DEF At, IInv, Led
  <2>6. \A d \in Calls : At(d)'
    BY <2>1, <2>2, <2>5, CallsPersist
  <2>7. TasksReached' /\ Unstarted' /\ Ended'
    BY <2>2, <2>3, <2>4 DEF IInv, TasksReached, Unstarted, Ended, Led
  <2>8. Entered'
    <3> SUFFICES ASSUME NEW s \in reached'
                 PROVE  IsFirst(s[1])' \/ Led(s[1], s[2])'
      BY DEF Entered, IsFirst, Led
    <3>1. CASE s \in reached
      BY <2>3, <3>1 DEF IInv, Entered, IsFirst, Led
    <3>2. CASE s = <<copy[c].node, copy[c].data>>
      BY <2>1, <2>3, <3>2 DEF IInv, At, IsFirst, Led
    <3> QED
      BY <2>2, <3>1, <3>2
  <2> QED
    BY <2>2, <2>6, <2>7, <2>8 DEF IInv
<1>7. ASSUME NEW c \in Calls, Execute(c)
      PROVE  Rest
  <2>1. /\ pc[c] = "execute" /\ <<copy[c].node, copy[c].data>> \in reached
        /\ copy[c].node \in NodesOf(ver[c]) /\ copy[c].data \in Data /\ inst.state # "none"
        /\ ver[c] \in published /\ ver[c] \in Definitions
        /\ UNCHANGED <<def, inst, tasks, ver, task, decision, published, reached, approved>>
    BY <1>7, Active DEF Execute, At, IInv, TypeOK, history, Rows
  <2>2. At(c)' /\ \A d \in Calls \ {c} : pc'[d] = pc[d] /\ copy'[d] = copy[d] /\ to'[d] = to[d]
    <3>1. CASE copy[c].node \in ver[c].condition
      <4> DEFINE D == ver[c]
                 n == IF <<copy[c].node, copy[c].data>> \in D.holds
                      THEN D.then[copy[c].node] ELSE D.else[copy[c].node]
      <4>1. n \in Nodes
        BY <2>1, <3>1, Formed
      <4>2. Advance(c, n, copy[c].data)
        BY <1>7, <2>1, <3>1, DefinitionAssumption DEF Execute, WellFormed
      <4>3. Path(published, reached, approved', n, copy[c].data)
        BY <2>1, <3>1 DEF Path
      <4> HIDE DEF n
      <4> QED
        BY <2>1, <4>1, <4>2, <4>3, Advances
    <3>2. CASE copy[c].node \notin ver[c].condition
      <4>1. /\ copy' = copy /\ to' = to
            /\ \/ copy[c].node \in ver[c].ai /\ Goto(c, "ask")
               \/ copy[c].node \in ver[c].human /\ Goto(c, "assign")
        BY <1>7, <3>2 DEF Execute
      <4>2. /\ pc'[c] \in {"ask", "assign"}
            /\ pc'[c] = "ask" => copy[c].node \in ver[c].ai
            /\ pc'[c] = "assign" => copy[c].node \in ver[c].human
            /\ \A d \in Calls \ {c} : pc'[d] = pc[d]
        BY <4>1, GotoSteps DEF Steps, IInv
      <4> QED
        BY <2>1, <4>1, <4>2 DEF At, IInv, Led, Kept
    <3> QED
      BY <3>1, <3>2
  <2>3. \A d \in Calls : At(d)'
    BY <2>1, <2>2, CallsPersist
  <2> QED
    BY <2>1, <2>3, RowsUndisturbed DEF IInv
<1>8. ASSUME NEW c \in Calls, Ask(c)
      PROVE  Rest
  <2>1. /\ pc[c] = "ask" /\ <<copy[c].node, copy[c].data>> \in reached
        /\ copy[c].node \in ver[c].ai /\ copy[c].data \in Data
        /\ inst.state # "none" /\ ver[c] \in published /\ ver[c] \in Definitions
        /\ UNCHANGED <<def, inst, tasks, ver, task, decision, published, reached, approved>>
    BY <1>8, Active DEF Ask, At, IInv, TypeOK, history, Rows
  <2>2. At(c)' /\ \A d \in Calls \ {c} : pc'[d] = pc[d] /\ copy'[d] = copy[d] /\ to'[d] = to[d]
    <3>1. ASSUME NEW out \in Data, Advance(c, ver[c].follows[copy[c].node], out)
          PROVE  At(c)' /\ \A d \in Calls \ {c} : pc'[d] = pc[d] /\ copy'[d] = copy[d] /\ to'[d] = to[d]
      <4> DEFINE n == ver[c].follows[copy[c].node]
      <4>1. n \in Nodes \union {End} /\ copy[c].node \in NodesOf(ver[c])
        BY <2>1, Formed DEF NodesOf
      <4>2. Path(published, reached, approved', n, out)
        BY <2>1, <4>1 DEF Path
      <4> HIDE DEF n
      <4>3. Advance(c, n, out)
        BY <3>1 DEF n
      <4> QED
        BY <2>1, <4>1, <4>2, <4>3, Advances
    <3>2. CASE Throw(c) /\ UNCHANGED to
      BY <2>1, <3>2, Throws
    <3>3. \/ \E out \in Data : Advance(c, ver[c].follows[copy[c].node], out)
          \/ Throw(c) /\ UNCHANGED to
      BY <1>8 DEF Ask
    <3> QED
      BY <3>1, <3>2, <3>3
  <2>3. \A d \in Calls : At(d)'
    BY <2>1, <2>2, CallsPersist
  <2> QED
    BY <2>1, <2>3, RowsUndisturbed DEF IInv
<1>9. ASSUME NEW c \in Calls, Assign(c)
      PROVE  Rest
  <2>1. pc[c] = "assign" /\ pc'[c] = "over" /\ \A d \in Calls \ {c} : pc'[d] = pc[d]
    BY <1>9, GotoSteps DEF Assign, Steps, IInv
  <2>2. /\ tasks' = Append(tasks, [node |-> copy[c].node, status |-> "pending"])
        /\ UNCHANGED <<def, inst, copy, ver, to, task, decision, published, reached, approved>>
        /\ inst.state # "none" /\ copy[c].data \in Data
        /\ <<copy[c].node, copy[c].data>> \in reached
        /\ ver[c] \in published /\ copy[c].node \in ver[c].human
    BY <1>9, <2>1, Active DEF Assign, history, IInv, At, TypeOK, Rows
  <2>3. DOMAIN tasks \subseteq DOMAIN tasks'
    BY <2>2 DEF IInv, TypeOK
  <2>4. At(c)'
    BY <2>1, <2>2 DEF At, IInv, Led, Kept
  <2>5. \A d \in Calls : At(d)'
    BY <2>1, <2>2, <2>3, <2>4, CallsPersist
  <2>6. TasksReached'
    <3> SUFFICES ASSUME NEW t \in DOMAIN tasks'
                 PROVE  /\ \E D \in published : tasks'[t].node \in D.human
                        /\ \E e \in Data : <<tasks'[t].node, e>> \in reached
      BY <2>2 DEF TasksReached
    <3>1. CASE t \in DOMAIN tasks
      <4>1. tasks'[t] = tasks[t]
        BY <2>2, <3>1 DEF IInv, TypeOK
      <4> QED
        BY <3>1, <4>1 DEF IInv, TasksReached
    <3>2. CASE t \notin DOMAIN tasks
      <4>1. tasks'[t].node = copy[c].node
        BY <2>2, <3>2 DEF IInv, TypeOK
      <4> QED
        BY <2>2, <4>1
    <3> QED
      BY <3>1, <3>2
  <2>7. Unstarted' /\ Entered' /\ Ended'
    BY <2>2 DEF IInv, Unstarted, Entered, Ended, Led, Kept, IsFirst
  <2> QED
    BY <2>2, <2>5, <2>6, <2>7 DEF IInv
<1>10. ASSUME NEW c \in Calls, Complete(c) \/ Catch(c) \/ Fail(c) \/ Mark(c)
       PROVE  Rest
  <2>1. /\ pc[c] \in {"complete", "catch", "fail", "mark"} /\ pc'[c] \in {"end", "over"}
        /\ \A d \in Calls \ {c} : pc'[d] = pc[d]
    BY <1>10, GotoSteps DEF Complete, Catch, Fail, Mark, Save, Steps, IInv
  <2>2. /\ inst' = copy[c]
        /\ UNCHANGED <<def, tasks, copy, ver, to, task, decision, published, reached, approved>>
    BY <1>10 DEF Complete, Catch, Fail, Mark, Save, history
  <2>3. At(c)'
    BY <2>1, <2>2 DEF At, IInv, Led, Kept
  <2>4. \A d \in Calls : At(d)'
    BY <2>1, <2>2, <2>3, CallsPersist
  <2> QED
    BY <2>1, <2>2, <2>4, Saved DEF IInv
<1>11. ASSUME NEW c \in Calls, Finish(c) \/ Crash(c)
       PROVE  Rest
  <2>1. /\ pc[c] \notin {"idle", "over"} /\ pc'[c] = "over"
        /\ \A d \in Calls \ {c} : pc'[d] = pc[d]
        /\ UNCHANGED <<def, inst, tasks, copy, ver, to, task, decision, published, reached, approved>>
    BY <1>11, GotoSteps DEF Finish, Crash, Steps, IInv, history
  <2>2. At(c)'
    BY <2>1 DEF At, IInv, Led, Kept
  <2>3. \A d \in Calls : At(d)'
    BY <2>1, <2>2, CallsPersist
  <2> QED
    BY <2>1, <2>3, RowsUndisturbed, Active DEF IInv
<1>12. ASSUME NEW c \in Calls, Load(c)
       PROVE  Rest
  <2>1. /\ pc[c] = "load" /\ pc'[c] = "consult" /\ \A d \in Calls \ {c} : pc'[d] = pc[d]
        /\ UNCHANGED <<def, inst, tasks, ver, to, task, decision, published, reached, approved>>
        /\ inst.state # "none"
    BY <1>12, GotoSteps, Active DEF Load, Steps, IInv, history
  <2>2. copy'[c] = inst /\ \A d \in Calls \ {c} : copy'[d] = copy[d]
    BY <1>12 DEF Load, IInv, TypeOK
  <2>3. At(c)'
    BY <2>1, <2>2 DEF At, IInv, Ended, Led, Kept
  <2>4. \A d \in Calls : At(d)'
    BY <2>1, <2>2, <2>3, CallsPersist
  <2> QED
    BY <2>1, <2>4, RowsUndisturbed DEF IInv
<1>13. ASSUME NEW c \in Calls, Decide(c)
       PROVE  Rest
  <2>1. /\ pc[c] = "decide" /\ pc'[c] = "record" /\ \A d \in Calls \ {c} : pc'[d] = pc[d]
        /\ UNCHANGED <<def, inst, copy, ver, to, task, decision, published, reached, approved>>
        /\ inst.state # "none"
    BY <1>13, GotoSteps, Active DEF Decide, Steps, IInv, history
  <2>2. task[c] \in DOMAIN tasks /\ decision[c] \in {"approved", "rejected"}
    BY <2>1 DEF At, IInv
  <2>3. DOMAIN tasks' = DOMAIN tasks /\ \A t \in DOMAIN tasks : tasks'[t].node = tasks[t].node
    BY <1>13, <2>2, TaskUpdate DEF Decide, IInv
  <2>4. At(c)'
    BY <2>1, <2>2, <2>3 DEF At, IInv, Led, Kept
  <2>5. \A d \in Calls : At(d)'
    BY <2>1, <2>3, <2>4, CallsPersist
  <2>6. TasksReached' /\ Unstarted'
    BY <2>1, <2>3 DEF IInv, TasksReached, Unstarted
  <2>7. Entered' /\ Ended'
    BY <2>1 DEF IInv, Entered, Ended, Led, Kept, IsFirst
  <2> QED
    BY <2>1, <2>5, <2>6, <2>7 DEF IInv
<1>14. ASSUME NEW c \in Calls, Record(c)
       PROVE  Rest
  <2> DEFINE n == NodeOf(c)
             D == ver[c]
  <2>1. /\ pc[c] = "record"
        /\ UNCHANGED <<def, inst, tasks, ver, task, decision, published, reached>>
        /\ inst.state # "none" /\ copy[c] \in Rows /\ copy[c].data \in Data
        /\ D \in published /\ D \in Definitions
    BY <1>14, Active DEF Record, IInv, TypeOK, Rows, At
  <2>2. /\ task[c] \in DOMAIN tasks /\ \E e \in Data : <<n, e>> \in reached
        /\ \E E \in published : n \in E.human
    BY <2>1 DEF At, IInv, TasksReached, NodeOf
  <2>3. approved \subseteq approved'
    BY <1>14 DEF Record
  <2>4. At(c)' /\ \A d \in Calls \ {c} : pc'[d] = pc[d] /\ copy'[d] = copy[d] /\ to'[d] = to[d]
    <3>1. CASE decision[c] = "approved"
      <4> DEFINE next == NextOf(D, n)
      <4>1. Advance(c, next, copy[c].data) /\ n \in approved'
        BY <1>14, <3>1 DEF Record
      <4>2. next \in Nodes \union {End}
        BY <2>1, Formed
      <4>3. ASSUME Kept PROVE Path(published, reached, approved', next, copy[c].data)
        <5>1. n \in D.human
          BY <2>1, <2>2, <4>3 DEF Kept
        <5>2. n \in NodesOf(D) /\ next = D.follows[n]
          BY <2>1, <5>1, Formed DEF NextOf
        <5> HIDE DEF next
        <5> QED
          BY <2>1, <2>2, <4>1, <5>1, <5>2 DEF Path
      <4> HIDE DEF next
      <4> QED
        BY <2>1, <2>3, <4>1, <4>2, <4>3, Advances
    <3>2. CASE decision[c] # "approved"
      <4>1. /\ copy' = [copy EXCEPT ![c] = [copy[c] EXCEPT !.state = "failed"]] /\ Goto(c, "fail")
            /\ UNCHANGED to
        BY <1>14, <3>2 DEF Record
      <4>2. pc'[c] = "fail" /\ \A d \in Calls \ {c} : pc'[d] = pc[d]
        BY <4>1, GotoSteps DEF Steps, IInv
      <4>3. /\ copy'[c] = [copy[c] EXCEPT !.state = "failed"]
            /\ \A d \in Calls \ {c} : copy'[d] = copy[d]
        BY <4>1 DEF IInv, TypeOK
      <4>4. copy'[c].state = "failed"
        BY <2>1, <4>3, StateUpdate DEF States
      <4> QED
        BY <2>1, <4>1, <4>2, <4>3, <4>4 DEF At
    <3> QED
      BY <3>1, <3>2
  <2>5. \A d \in Calls : At(d)'
    BY <2>1, <2>3, <2>4, CallsPersist
  <2> QED
    BY <2>1, <2>3, <2>5, RowsUndisturbed DEF IInv
<1>15. ASSUME NEW c \in Calls, StatementFails(c)
       PROVE  Rest
  <2>1. /\ Throw(c) /\ pc[c] \notin {"idle", "over"} /\ inst.state # "none"
        /\ UNCHANGED <<def, inst, tasks, ver, to, task, decision, published, reached, approved>>
    BY <1>15, Active DEF StatementFails, history
  <2>2. \A d \in Calls : At(d)'
    BY <2>1, Throws, CallsPersist
  <2> QED
    BY <2>1, <2>2, RowsUndisturbed DEF IInv
<1>16. ASSUME UNCHANGED vars
       PROVE  Rest
  <2>1. UNCHANGED <<def, inst, tasks, pc, copy, ver, to, task, decision, published, reached, approved>>
    BY <1>16 DEF vars, call, history
  <2>2. \A d \in Calls : At(d)'
    BY <2>1, Undisturbed DEF IInv
  <2> QED
    BY <2>1, <2>2, RowsUndisturbed DEF IInv
<1>17. ASSUME NEW c \in Calls, Find(c)
       PROVE  Rest
  <2>1. /\ pc[c] = "find" /\ copy[c] \in Rows /\ copy \in [Calls -> Rows]
        /\ to[c] \in Nodes \union {End} /\ ver \in [Calls -> Definitions]
        /\ UNCHANGED <<def, inst, tasks, to, task, decision, published, reached, approved>>
        /\ inst.state # "none"
    BY <1>17, Active DEF Find, IInv, TypeOK, history
  <2>2. /\ Led(to[c], copy[c].data) /\ copy[c].state # "none" /\ ver[c] \in published
        /\ copy[c].state = "completed" => Led(End, copy[c].data)
    BY <2>1 DEF At, IInv
  <2>3. At(c)' /\ \A d \in Calls \ {c} : pc'[d] = pc[d] /\ copy'[d] = copy[d] /\ ver'[d] = ver[d]
    <3>1. CASE to[c] \in NodesOf(def)
      <4>1. /\ ver' = [ver EXCEPT ![c] = def]
            /\ copy' = [copy EXCEPT ![c] = [copy[c] EXCEPT !.node = to[c]]]
            /\ Goto(c, "enter")
        BY <1>17, <3>1 DEF Find
      <4>2. pc'[c] = "enter" /\ \A d \in Calls \ {c} : pc'[d] = pc[d]
        BY <4>1, GotoSteps DEF Steps, IInv
      <4>3. /\ copy'[c] = [copy[c] EXCEPT !.node = to[c]] /\ ver'[c] = def
            /\ \A d \in Calls \ {c} : copy'[d] = copy[d] /\ ver'[d] = ver[d]
        BY <2>1, <4>1
      <4>4. copy'[c].node = to[c] /\ copy'[c].data = copy[c].data /\ copy'[c].state = copy[c].state
        BY <2>1, <4>3, NodeUpdate
      <4> QED
        BY <2>1, <2>2, <3>1, <4>2, <4>3, <4>4 DEF At, Led, Kept, IInv
    <3>2. CASE to[c] \notin NodesOf(def)
      <4>1. /\ copy' = [copy EXCEPT ![c] = [copy[c] EXCEPT !.state = "failed"]]
            /\ Goto(c, "fail") /\ UNCHANGED ver
        BY <1>17, <3>2 DEF Find
      <4>2. pc'[c] = "fail" /\ \A d \in Calls \ {c} : pc'[d] = pc[d]
        BY <4>1, GotoSteps DEF Steps, IInv
      <4>3. /\ copy'[c] = [copy[c] EXCEPT !.state = "failed"]
            /\ \A d \in Calls \ {c} : copy'[d] = copy[d]
        BY <2>1, <4>1
      <4>4. copy'[c].state = "failed"
        BY <2>1, <4>3, StateUpdate DEF States
      <4> QED
        BY <2>1, <2>2, <4>1, <4>2, <4>3, <4>4 DEF At
    <3> QED
      BY <3>1, <3>2
  <2>4. \A d \in Calls : At(d)'
    BY <2>1, <2>3, CallsPersist
  <2> QED
    BY <2>1, <2>4, RowsUndisturbed DEF IInv
<1>18. ASSUME NEW c \in Calls, Consult(c)
       PROVE  Rest
  <2>1. /\ pc[c] = "consult" /\ ver' = [ver EXCEPT ![c] = def] /\ ver \in [Calls -> Definitions]
        /\ UNCHANGED <<def, inst, tasks, copy, to, task, decision, published, reached, approved>>
        /\ inst.state # "none"
    BY <1>18, Active DEF Consult, IInv, TypeOK, history
  <2>2. pc'[c] \in {"decide", "over"} /\ \A d \in Calls \ {c} : pc'[d] = pc[d]
    BY <1>18, GotoSteps DEF Consult, Steps, IInv
  <2>3. At(c)'
    BY <2>1, <2>2 DEF At, IInv, Led, Kept
  <2>4. \A d \in Calls : At(d)'
    BY <2>1, <2>2, <2>3, CallsPersist
  <2> QED
    BY <2>1, <2>4, RowsUndisturbed DEF IInv
<1>19. ASSUME NEW D \in Definitions, Publish(D)
       PROVE  Rest
  <2>1. /\ def' = D /\ published' = published \union {D}
        /\ UNCHANGED <<inst, tasks, pc, copy, ver, to, task, decision, reached, approved>>
    BY <1>19 DEF Publish, call
  <2>2. \A d \in Calls : At(d)'
    BY <2>1, Undisturbed DEF IInv
  <2> QED
    BY <2>1, <2>2, RowsUndisturbed
<1> HIDE DEF Rest
<1>20. Rest
  <2>1. CASE \E c \in Calls :
               \/ Start(c) \/ Rollback(c)
               \/ \E t \in DOMAIN tasks : \E choice \in {"approved", "rejected"} : Resolve(c, t, choice)
               \/ Handle(c) \/ StatementFails(c) \/ Crash(c)
    <3>1. PICK c \in Calls :
            \/ Start(c) \/ Rollback(c)
            \/ \E t \in DOMAIN tasks : \E choice \in {"approved", "rejected"} : Resolve(c, t, choice)
            \/ Handle(c) \/ StatementFails(c) \/ Crash(c)
      BY <2>1
    <3>2. CASE \E t \in DOMAIN tasks : \E choice \in {"approved", "rejected"} : Resolve(c, t, choice)
      BY <1>4, <3>2
    <3>3. CASE Handle(c)
      BY <1>5, <1>6, <1>7, <1>8, <1>9, <1>10, <1>11, <1>12, <1>13, <1>14, <1>17, <1>18, <3>3
         DEF Handle
    <3> QED
      BY <1>2, <1>3, <1>11, <1>15, <3>1, <3>2, <3>3
  <2> QED
    BY <1>16, <1>19, <2>1 DEF Next
<1>21. def' \in published' /\ TasksReached' /\ Unstarted' /\ Entered' /\ Ended' /\ \A d \in Calls : At(d)'
  BY <1>20 DEF Rest
<1> QED
  BY <1>1, <1>21 DEF IInv

-----------------------------------------------------------------------------
(***************************************************************************)
(* An instance that is left running, and an instance after a rejection.    *)
(***************************************************************************)
AtRest == {"idle", "over"}
Carrying == {"begin", "find", "enter", "execute", "ask", "assign", "complete", "record"}

Pending(t) == tasks[t].status = "pending"
NonePending == \A t \in DOMAIN tasks : ~Pending(t)

\* With what a call ends the instance, when it is about to save it.
Outcome(c) ==
    /\ pc[c] = "complete" => copy[c].state = "completed"
    /\ pc[c] \in {"catch", "fail"} => copy[c].state = "failed"
    /\ pc[c] = "mark" => copy[c].state = "rolled_back"
    /\ pc[c] = "ask" => guarded[c]

\* Nobody who only reads a task moves the instance on.
Carried == faults = 0 /\ inst.state = "running" =>
    \/ \E t \in DOMAIN tasks : Pending(t)
    \/ \E c \in Calls : pc[c] \in Carrying \union {"catch", "fail"}

\* While calls come one after the other there is one thing to be done: a task
\* that is pending or a call that carries the instance on, and neither once it
\* is completed or rejected.
Alone == \A c, d \in Calls : pc[c] \notin AtRest /\ pc[d] \notin AtRest => c = d
OneTask == \A t, u \in DOMAIN tasks : Pending(t) /\ Pending(u) => t = u
Settled == rejected # {} \/ inst.state = "completed" => NonePending
Holds(c) ==
    /\ pc[c] \in Carrying => NonePending /\ rejected = {} /\ inst.state # "completed"
    /\ pc[c] \in {"load", "consult", "decide"} => Pending(task[c])
    /\ pc[c] \notin AtRest \union {"load", "complete", "end"} => copy[c].state # "completed"

OneByOne == calm =>
    Alone /\ OneTask /\ Settled /\ RejectionStands /\ \A c \in Calls : Holds(c)

NobodyDecidedYet == inst.state = "none" => rejected = {}

CInv == (\A c \in Calls : Outcome(c)) /\ Carried /\ OneByOne /\ NobodyDecidedYet

LEMMA Threw ==
    ASSUME IInv, NEW c \in Calls, Throw(c)
    PROVE  /\ pc'[c] \in {"catch", "over"} /\ (guarded[c] => pc'[c] = "catch")
           /\ pc'[c] = "catch" => copy'[c].state = "failed"
           /\ \A d \in Calls \ {c} : pc'[d] = pc[d] /\ copy'[d] = copy[d]
<1>1. /\ pc'[c] \in {"catch", "over"} /\ (guarded[c] <=> pc'[c] = "catch")
      /\ \A d \in Calls \ {c} : pc'[d] = pc[d]
  BY GotoSteps DEF IInv, Throw, Steps
<1>2. CASE guarded[c]
  <2>1. copy' = [copy EXCEPT ![c] = [copy[c] EXCEPT !.state = "failed"]]
    BY <1>2 DEF Throw
  <2>2. copy[c] \in Rows /\ copy \in [Calls -> Rows] /\ "failed" \in States
    BY DEF IInv, TypeOK, States
  <2> QED
    BY <1>1, <2>1, <2>2, StateUpdate
<1>3. CASE ~guarded[c]
  BY <1>1, <1>3 DEF Throw
<1> QED
  BY <1>2, <1>3

\* The status of a task that is decided on, and of the others.
LEMMA Decided ==
    ASSUME IInv, NEW c \in Calls, Decide(c)
    PROVE  /\ DOMAIN tasks' = DOMAIN tasks /\ task[c] \in DOMAIN tasks
           /\ ~Pending(task[c])'
           /\ \A u \in DOMAIN tasks \ {task[c]} : Pending(u)' <=> Pending(u)
<1> DEFINE T == [node : Human, status : {"pending", "approved", "rejected"}]
           v == [tasks[task[c]] EXCEPT !.status = decision[c]]
<1>1. task[c] \in DOMAIN tasks /\ decision[c] \in {"approved", "rejected"} /\ tasks \in Seq(T)
  BY DEF IInv, At, Decide, TypeOK
<1>2. tasks[task[c]] \in T
  <2> HIDE DEF T
  <2> QED
    BY <1>1
<1>3. v.status = decision[c]
  BY <1>2
<1>4. tasks' = [tasks EXCEPT ![task[c]] = v] /\ task' = task
  BY DEF Decide
<1> HIDE DEF v, T
<1>5. DOMAIN tasks' = DOMAIN tasks /\ tasks'[task[c]] = v
      /\ \A u \in DOMAIN tasks \ {task[c]} : tasks'[u] = tasks[u]
  BY <1>1, <1>4
<1> QED
  BY <1>1, <1>3, <1>4, <1>5 DEF Pending

\* The task a call gives is the only new one.
LEMMA Assigned ==
    ASSUME IInv, NEW c \in Calls, Assign(c)
    PROVE  /\ DOMAIN tasks' = DOMAIN tasks \union {Len(tasks) + 1}
           /\ tasks'[Len(tasks) + 1].status = "pending"
           /\ \A u \in DOMAIN tasks : Pending(u)' <=> Pending(u)
<1>1. tasks \in Seq([node : Human, status : {"pending", "approved", "rejected"}])
  BY DEF IInv, TypeOK
<1> DEFINE v == [node |-> copy[c].node, status |-> "pending"]
<1>2. tasks' = Append(tasks, v) /\ v.status = "pending"
  BY DEF Assign
<1> HIDE DEF v
<1>3. /\ DOMAIN tasks' = DOMAIN tasks \union {Len(tasks) + 1} /\ tasks'[Len(tasks) + 1] = v
      /\ \A u \in DOMAIN tasks : tasks'[u] = tasks[u]
  BY <1>1, <1>2
<1> QED
  BY <1>2, <1>3 DEF Pending

LEMMA CallsInitially == Init => CInv
<1> SUFFICES ASSUME Init PROVE CInv
  OBVIOUS
<1>1. inst.state = "none" /\ DOMAIN tasks = {} /\ \A c \in Calls : pc[c] = "idle"
  BY DEF Init
<1> QED
  BY <1>1 DEF Init, CInv, Outcome, Carried, OneByOne, NobodyDecidedYet, Alone, OneTask, Settled,
              RejectionStands, Holds, NonePending, AtRest, Carrying

LEMMA OnlyOne ==
    ASSUME OneByOne, calm, NEW c \in Calls, pc[c] \notin AtRest
    PROVE  \A d \in Calls \ {c} : pc[d] \in AtRest
  BY DEF OneByOne, Alone

\* What a step of one call has to show.
LEMMA OneCall ==
    ASSUME CInv, NEW c \in Calls,
           \A d \in Calls \ {c} : pc'[d] = pc[d] /\ copy'[d] = copy[d] /\ guarded'[d] = guarded[d],
           Outcome(c)', Carried', NobodyDecidedYet',
           calm' => /\ calm /\ \A d \in Calls \ {c} : pc[d] \in AtRest
                    /\ OneTask' /\ Settled' /\ RejectionStands' /\ Holds(c)'
    PROVE  CInv'
<1>1. \A d \in Calls \ {c} : Outcome(d)'
  BY DEF CInv, Outcome
<1>2. ASSUME calm'
      PROVE  Alone' /\ \A d \in Calls : Holds(d)'
  <2>1. \A d \in Calls \ {c} : pc'[d] \in AtRest
    BY <1>2
  <2> QED
    BY <1>2, <2>1 DEF Alone, Holds, AtRest, Carrying
<1> QED
  BY <1>1, <1>2 DEF CInv, OneByOne

\* A step of a call that leaves the tasks and what was rejected alone.
LEMMA QuietCall ==
    ASSUME IInv, CInv, NEW c \in Calls, UNCHANGED <<tasks, task, rejected, faults, calm>>,
           \A d \in Calls \ {c} : pc'[d] = pc[d] /\ copy'[d] = copy[d] /\ guarded'[d] = guarded[d],
           Outcome(c)',
           pc[c] \in Carrying, pc'[c] \in Carrying \union {"catch", "fail", "end"},
           inst' = inst \/ (inst' = copy[c] /\ pc[c] \in {"enter", "complete"}),
           pc[c] = "complete" <=> pc'[c] = "end", pc[c] = "complete" => inst' = copy[c],
           pc'[c] \notin {"complete", "end"} => copy'[c].state \in {copy[c].state, "failed"}
    PROVE  CInv'
<1> USE DEF Carrying
<1>1. Carried'
  <2>1. pc'[c] = "end" => inst'.state = "completed"
    BY DEF CInv, Outcome
  <2> QED
    BY <2>1 DEF CInv, Carried, Pending
<1>2. NobodyDecidedYet'
  <2>1. copy[c].state # "none"
    BY DEF IInv, At
  <2> QED
    BY <2>1 DEF CInv, NobodyDecidedYet
<1>3. ASSUME calm'
      PROVE  /\ calm /\ \A d \in Calls \ {c} : pc[d] \in AtRest
             /\ OneTask' /\ Settled' /\ RejectionStands' /\ Holds(c)'
  <2>1. calm /\ Holds(c) /\ OneTask
    BY <1>3 DEF CInv, OneByOne
  <2>2. \A d \in Calls \ {c} : pc[d] \in AtRest
    BY <2>1, OnlyOne DEF CInv, AtRest, Carrying
  <2>3. NonePending /\ rejected = {} /\ inst.state # "completed"
    BY <2>1 DEF Holds
  <2>4. OneTask' /\ Settled' /\ NonePending' /\ RejectionStands'
    BY <2>1, <2>3 DEF OneTask, Settled, NonePending, Pending, RejectionStands
  <2>5. Holds(c)'
    BY <2>1, <2>3, <2>4 DEF Holds, AtRest, Carrying
  <2> QED
    BY <2>1, <2>2, <2>4, <2>5
<1> QED
  BY <1>1, <1>2, <1>3, OneCall

-----------------------------------------------------------------------------
LEMMA CallsStep ==
    ASSUME IInv, IInv', CInv, [Next]_vars
    PROVE  CInv'
<1> DEFINE Others(c) == \A d \in Calls \ {c} :
             pc'[d] = pc[d] /\ copy'[d] = copy[d] /\ guarded'[d] = guarded[d]
           OneAfter(c) == /\ calm /\ \A d \in Calls \ {c} : pc[d] \in AtRest
                          /\ OneTask' /\ Settled' /\ RejectionStands' /\ Holds(c)'
<1>1. ASSUME NEW c \in Calls, Start(c)
      PROVE  CInv'
  <2>1. /\ pc[c] = "idle" /\ pc'[c] = "begin" /\ Others(c)
        /\ inst'.state = "running" /\ copy'[c] = inst'
        /\ calm' = (calm /\ \A d \in Calls : pc[d] \in AtRest)
    <3>1. inst \in Rows /\ copy \in [Calls -> Rows]
      BY DEF IInv, TypeOK
    <3> QED
      BY <1>1, <3>1, GotoSteps DEF Start, Idle, IInv, Steps, Rows, AtRest
  <2>2. tasks = <<>> /\ rejected = {} /\ UNCHANGED <<tasks, rejected>>
    BY <1>1 DEF Start, IInv, CInv, Unstarted, NobodyDecidedYet, history
  <2>3. Outcome(c)' /\ Carried' /\ NobodyDecidedYet'
    BY <2>1, <2>2 DEF Outcome, Carried, Carrying, NobodyDecidedYet
  <2>4. DOMAIN tasks' = {}
    BY <2>2
  <2>5. calm' => OneAfter(c)
    BY <2>1, <2>2, <2>4
       DEF OneTask, Settled, RejectionStands, Holds, NonePending, AtRest, Carrying
  <2> QED
    BY <2>1, <2>3, <2>5, OneCall
<1>2. ASSUME NEW c \in Calls, Rollback(c)
      PROVE  CInv'
  <2>1. /\ pc[c] = "idle" /\ pc'[c] = "mark" /\ Others(c)
        /\ copy'[c].state = "rolled_back"
        /\ calm' = (calm /\ \A d \in Calls : pc[d] \in AtRest)
        /\ UNCHANGED <<inst, tasks, rejected, faults>>
    <3>1. inst \in Rows /\ copy \in [Calls -> Rows] /\ "rolled_back" \in States
      BY DEF IInv, TypeOK, States
    <3> QED
      BY <1>2, <3>1, GotoSteps, StateUpdate DEF Rollback, Idle, IInv, Steps, AtRest, history
  <2>2. Outcome(c)' /\ Carried' /\ NobodyDecidedYet'
    BY <2>1 DEF CInv, Outcome, Carried, Carrying, NobodyDecidedYet, Pending
  <2>3. calm' => OneAfter(c)
    BY <2>1 DEF CInv, OneByOne, OneTask, Settled, RejectionStands, Holds, NonePending, Pending,
                AtRest, Carrying
  <2> QED
    BY <2>1, <2>2, <2>3, OneCall
<1>3. ASSUME NEW c \in Calls, NEW t \in DOMAIN tasks, NEW choice \in {"approved", "rejected"},
             Resolve(c, t, choice)
      PROVE  CInv'
  <2>1. /\ pc[c] = "idle" /\ pc'[c] = "load" /\ Others(c) /\ Pending(t) /\ task'[c] = t
        /\ calm' = (calm /\ \A d \in Calls : pc[d] \in AtRest)
        /\ UNCHANGED <<inst, tasks, rejected, faults>>
    BY <1>3, GotoSteps DEF Resolve, Idle, IInv, TypeOK, Steps, AtRest, history, Pending
  <2>2. Outcome(c)' /\ Carried' /\ NobodyDecidedYet'
    BY <2>1 DEF CInv, Outcome, Carried, Carrying, NobodyDecidedYet, Pending
  <2>3. calm' => OneAfter(c)
    BY <2>1 DEF CInv, OneByOne, OneTask, Settled, RejectionStands, Holds, NonePending, Pending,
                AtRest, Carrying
  <2> QED
    BY <2>1, <2>2, <2>3, OneCall
<1>4. ASSUME NEW c \in Calls, Load(c) \/ Consult(c)
      PROVE  CInv'
  <2>1. /\ pc[c] \in {"load", "consult"} /\ pc'[c] \in {"consult", "decide", "over"} /\ Others(c)
        /\ pc[c] = "load" => pc'[c] = "consult" /\ copy'[c] = inst
        /\ pc[c] = "consult" => pc'[c] # "consult" /\ copy'[c] = copy[c]
        /\ UNCHANGED <<inst, tasks, task, rejected, faults, calm>>
    BY <1>4, GotoSteps DEF Load, Consult, IInv, TypeOK, Steps, history
  <2>2. Outcome(c)' /\ Carried' /\ NobodyDecidedYet'
    BY <2>1 DEF CInv, Outcome, Carried, Carrying, NobodyDecidedYet, Pending
  <2>3. ASSUME calm'
        PROVE  OneAfter(c)
    <3>1. calm /\ Holds(c) /\ OneTask /\ Settled /\ RejectionStands /\ Pending(task[c])
      BY <2>1, <2>3 DEF CInv, OneByOne, Holds
    <3>2. inst.state # "completed"
      <4>1. task[c] \in DOMAIN tasks
        BY <2>1 DEF IInv, At
      <4> QED
        BY <3>1, <4>1 DEF Settled, NonePending
    <3>3. \A d \in Calls \ {c} : pc[d] \in AtRest
      BY <2>1, <3>1, OnlyOne DEF CInv, AtRest
    <3>4. Holds(c)'
      BY <2>1, <3>1, <3>2 DEF Holds, AtRest, Carrying, Pending
    <3> QED
      BY <2>1, <3>1, <3>3, <3>4 DEF OneTask, Settled, RejectionStands, NonePending, Pending
  <2> QED
    BY <2>1, <2>2, <2>3, OneCall
<1>5. ASSUME NEW c \in Calls, Decide(c)
      PROVE  CInv'
  <2>1. /\ pc[c] = "decide" /\ pc'[c] = "record" /\ Others(c) /\ copy' = copy
        /\ UNCHANGED <<inst, task, rejected, faults, calm>>
    BY <1>5, GotoSteps DEF Decide, IInv, TypeOK, Steps, history
  <2>2. /\ DOMAIN tasks' = DOMAIN tasks /\ task[c] \in DOMAIN tasks /\ ~Pending(task[c])'
        /\ \A u \in DOMAIN tasks \ {task[c]} : Pending(u)' <=> Pending(u)
    BY <1>5, Decided
  <2>3. Outcome(c)' /\ Carried' /\ NobodyDecidedYet'
    BY <2>1 DEF CInv, Outcome, Carried, Carrying, NobodyDecidedYet
  <2>4. ASSUME calm'
        PROVE  OneAfter(c)
    <3>1. calm /\ Holds(c) /\ OneTask /\ Settled /\ RejectionStands /\ Pending(task[c])
      BY <2>1, <2>4 DEF CInv, OneByOne, Holds
    <3>2. inst.state # "completed" /\ rejected = {}
      BY <2>2, <3>1 DEF Settled, NonePending
    <3>3. \A d \in Calls \ {c} : pc[d] \in AtRest
      BY <2>1, <3>1, OnlyOne DEF CInv, AtRest
    <3>4. NonePending'
      BY <2>1, <2>2, <3>1 DEF NonePending, OneTask
    <3>5. Holds(c)'
      BY <2>1, <3>1, <3>2, <3>4 DEF Holds, AtRest, Carrying
    <3> QED
      BY <2>1, <3>1, <3>2, <3>3, <3>4, <3>5 DEF OneTask, Settled, RejectionStands, NonePending
  <2> QED
    BY <2>1, <2>3, <2>4, OneCall
<1>6. ASSUME NEW c \in Calls, Record(c)
      PROVE  CInv'
  <2>1. /\ pc[c] = "record" /\ UNCHANGED <<inst, tasks, task, guarded, faults, calm>>
        /\ copy[c] \in Rows /\ copy[c].data \in Data /\ ver[c] \in Definitions
        /\ inst.state # "none"
    BY <1>6, Active DEF Record, IInv, TypeOK, Rows
  <2>2. CASE decision[c] = "approved"
    <3> DEFINE n == NextOf(ver[c], NodeOf(c))
    <3>1. Advance(c, n, copy[c].data) /\ rejected' = rejected
      BY <1>6, <2>2 DEF Record
    <3>2. n \in Nodes \union {End}
      BY <2>1, Formed
    <3> HIDE DEF n
    <3>3. /\ Others(c) /\ pc'[c] \in {"complete", "find"}
          /\ pc'[c] = "complete" => copy'[c].state = "completed"
          /\ pc'[c] = "find" => copy'[c].state = copy[c].state
      BY <2>1, <3>1, <3>2, AdvanceSteps DEF IInv
    <3>4. Outcome(c)'
      BY <3>3 DEF Outcome
    <3> QED
      BY <2>1, <3>1, <3>3, <3>4, QuietCall DEF Carrying
  <2>3. CASE decision[c] # "approved"
    <3>1. /\ pc'[c] = "fail" /\ copy'[c].state = "failed" /\ Others(c)
      <4>1. copy' = [copy EXCEPT ![c] = [copy[c] EXCEPT !.state = "failed"]] /\ Goto(c, "fail")
        BY <1>6, <2>3 DEF Record
      <4>2. pc'[c] = "fail" /\ \A d \in Calls \ {c} : pc'[d] = pc[d]
        BY <4>1, GotoSteps DEF Steps, IInv
      <4>3. [copy[c] EXCEPT !.state = "failed"].state = "failed"
        BY <2>1, StateUpdate DEF States
      <4> QED
        BY <2>1, <4>1, <4>2, <4>3 DEF IInv, TypeOK
    <3>2. Outcome(c)' /\ Carried' /\ NobodyDecidedYet'
      BY <2>1, <3>1 DEF Outcome, Carried, NobodyDecidedYet
    <3>3. ASSUME calm'
          PROVE  OneAfter(c)
      <4>1. calm /\ Holds(c) /\ OneTask /\ NonePending /\ inst.state # "completed"
        BY <2>1, <3>3 DEF CInv, OneByOne, Holds, Carrying
      <4>2. \A d \in Calls \ {c} : pc[d] \in AtRest
        BY <2>1, <4>1, OnlyOne DEF CInv, AtRest
      <4> QED
        BY <2>1, <3>1, <4>1, <4>2
           DEF OneTask, Settled, RejectionStands, Holds, NonePending, Pending, AtRest, Carrying
    <3> QED
      BY <3>1, <3>2, <3>3, OneCall
  <2> QED
    BY <2>2, <2>3
<1>7. ASSUME NEW c \in Calls, Begin(c) \/ Enter(c) \/ Complete(c)
      PROVE  CInv'
  <2>1. /\ pc[c] \in {"begin", "enter", "complete"} /\ Others(c)
        /\ pc[c] = "begin" => pc'[c] = "enter" /\ inst' = inst
        /\ pc[c] = "enter" => pc'[c] = "execute" /\ inst' = copy[c]
        /\ pc[c] = "complete" => pc'[c] = "end" /\ inst' = copy[c]
        /\ UNCHANGED <<tasks, task, copy, rejected, faults, calm>>
    BY <1>7, GotoSteps DEF Begin, Enter, Complete, Save, IInv, TypeOK, Steps, history
  <2>2. Outcome(c) /\ Outcome(c)' /\ copy[c].state # "none"
    BY <2>1 DEF CInv, IInv, At, Outcome
  <2> QED
    BY <2>1, <2>2, QuietCall DEF Carrying
<1>8. ASSUME NEW c \in Calls, Find(c)
      PROVE  CInv'
  <2>1. /\ pc[c] = "find" /\ copy[c] \in Rows /\ copy \in [Calls -> Rows]
        /\ to[c] \in Nodes \union {End}
        /\ UNCHANGED <<inst, tasks, task, guarded, rejected, faults, calm>>
    BY <1>8 DEF Find, IInv, TypeOK, history
  <2>2. /\ pc'[c] \in {"enter", "fail"} /\ Others(c)
        /\ pc'[c] = "enter" => copy'[c].state = copy[c].state
        /\ pc'[c] = "fail" => copy'[c].state = "failed"
    <3>1. CASE pc' = [pc EXCEPT ![c] = "enter"]
               /\ copy' = [copy EXCEPT ![c] = [copy[c] EXCEPT !.node = to[c]]]
      <4>1. [copy[c] EXCEPT !.node = to[c]].state = copy[c].state
        BY <2>1, NodeUpdate
      <4> QED
        BY <2>1, <3>1, <4>1 DEF IInv, TypeOK
    <3>2. CASE pc' = [pc EXCEPT ![c] = "fail"]
               /\ copy' = [copy EXCEPT ![c] = [copy[c] EXCEPT !.state = "failed"]]
      <4>1. [copy[c] EXCEPT !.state = "failed"].state = "failed"
        BY <2>1, StateUpdate DEF States
      <4> QED
        BY <2>1, <3>2, <4>1 DEF IInv, TypeOK
    <3> QED
      BY <1>8, <3>1, <3>2 DEF Find, Goto
  <2>3. Outcome(c)'
    BY <2>2 DEF Outcome
  <2> QED
    BY <2>1, <2>2, <2>3, QuietCall DEF Carrying
<1>9. ASSUME NEW c \in Calls, Execute(c)
      PROVE  CInv'
  <2>1. /\ pc[c] = "execute" /\ guarded' = [guarded EXCEPT ![c] = TRUE]
        /\ UNCHANGED <<inst, tasks, task, rejected, faults, calm>>
        /\ copy[c] \in Rows /\ copy[c].data \in Data /\ ver[c] \in Definitions
    BY <1>9 DEF Execute, IInv, TypeOK, Rows, history
  <2>2. guarded'[c] /\ \A d \in Calls \ {c} : guarded'[d] = guarded[d]
    BY <2>1 DEF IInv, TypeOK
  <2>3. /\ Others(c) /\ pc'[c] \in {"complete", "find", "ask", "assign"}
        /\ pc'[c] = "complete" => copy'[c].state = "completed"
        /\ pc'[c] # "complete" => copy'[c].state = copy[c].state
    <3>1. CASE copy[c].node \in ver[c].condition
      <4> DEFINE n == IF <<copy[c].node, copy[c].data>> \in ver[c].holds
                      THEN ver[c].then[copy[c].node] ELSE ver[c].else[copy[c].node]
      <4>1. n \in Nodes \union {End}
        BY <2>1, <3>1, Formed
      <4>2. Advance(c, n, copy[c].data)
        BY <1>9, <2>1, <3>1, DefinitionAssumption DEF Execute, WellFormed
      <4> HIDE DEF n
      <4> QED
        BY <2>1, <2>2, <4>1, <4>2, AdvanceSteps DEF IInv
    <3>2. CASE copy[c].node \notin ver[c].condition
      <4>1. copy' = copy /\ (Goto(c, "ask") \/ Goto(c, "assign"))
        BY <1>9, <3>2 DEF Execute
      <4> QED
        BY <2>2, <4>1, GotoSteps DEF Steps, IInv
    <3> QED
      BY <3>1, <3>2
  <2>4. Outcome(c)'
    BY <2>2, <2>3 DEF Outcome
  <2> QED
    BY <2>1, <2>3, <2>4, QuietCall DEF Carrying
<1>10. ASSUME NEW c \in Calls, Ask(c)
       PROVE  CInv'
  <2>1. /\ pc[c] = "ask" /\ guarded[c]
        /\ UNCHANGED <<inst, tasks, task, guarded, rejected, faults, calm>>
        /\ copy[c].node \in ver[c].ai /\ ver[c] \in Definitions
    BY <1>10 DEF Ask, IInv, CInv, At, Outcome, TypeOK, history
  <2> DEFINE Answered ==
        /\ Others(c) /\ pc'[c] \in {"complete", "find", "catch"}
        /\ pc'[c] = "complete" => copy'[c].state = "completed"
        /\ pc'[c] = "catch" => copy'[c].state = "failed"
        /\ pc'[c] = "find" => copy'[c].state = copy[c].state
  <2>2. Answered
    <3>1. ASSUME NEW out \in Data, Advance(c, ver[c].follows[copy[c].node], out)
          PROVE  Answered
      <4> DEFINE n == ver[c].follows[copy[c].node]
      <4>1. n \in Nodes \union {End} /\ Advance(c, n, out)
        BY <2>1, <3>1, Formed
      <4> HIDE DEF n
      <4> QED
        BY <2>1, <4>1, AdvanceSteps DEF IInv
    <3>2. CASE Throw(c)
      BY <2>1, <3>2, Threw
    <3> QED
      BY <1>10, <3>1, <3>2 DEF Ask
  <2>3. Outcome(c)'
    BY <2>2 DEF Outcome
  <2> QED
    BY <2>1, <2>2, <2>3, QuietCall DEF Carrying
<1>11. ASSUME NEW c \in Calls, Assign(c)
       PROVE  CInv'
  <2>1. /\ pc[c] = "assign" /\ pc'[c] = "over" /\ Others(c)
        /\ UNCHANGED <<inst, rejected, faults, calm>>
    BY <1>11, GotoSteps DEF Assign, IInv, Steps, history
  <2>2. /\ DOMAIN tasks' = DOMAIN tasks \union {Len(tasks) + 1}
        /\ tasks'[Len(tasks) + 1].status = "pending"
        /\ \A u \in DOMAIN tasks : Pending(u)' <=> Pending(u)
    BY <1>11, Assigned
  <2>3. Outcome(c)' /\ Carried' /\ NobodyDecidedYet'
    BY <2>1, <2>2 DEF CInv, Outcome, Carried, Pending, NobodyDecidedYet
  <2>4. ASSUME calm'
        PROVE  OneAfter(c)
    <3>1. calm /\ NonePending /\ rejected = {} /\ inst.state # "completed"
      BY <2>1, <2>4 DEF CInv, OneByOne, Holds, Carrying
    <3>2. \A d \in Calls \ {c} : pc[d] \in AtRest
      BY <2>1, <3>1, OnlyOne DEF CInv, AtRest
    <3>3. \A u \in DOMAIN tasks' : Pending(u)' => u = Len(tasks) + 1
      BY <2>2, <3>1 DEF NonePending
    <3>4. OneTask'
      BY <3>3 DEF OneTask
    <3> QED
      BY <2>1, <3>1, <3>2, <3>4 DEF Settled, RejectionStands, Holds, AtRest, Carrying
  <2> QED
    BY <2>1, <2>3, <2>4, OneCall
<1>12. ASSUME NEW c \in Calls, Catch(c) \/ Fail(c) \/ Mark(c)
       PROVE  CInv'
  <2>1. /\ pc[c] \in {"catch", "fail", "mark"} /\ pc'[c] = "over" /\ Others(c)
        /\ inst' = copy[c] /\ UNCHANGED <<tasks, rejected, faults, calm>>
    BY <1>12, GotoSteps DEF Catch, Fail, Mark, Save, IInv, Steps, history
  <2>2. inst'.state \in {"failed", "rolled_back"}
    BY <2>1 DEF CInv, Outcome
  <2>3. Outcome(c)' /\ Carried' /\ NobodyDecidedYet'
    BY <2>1, <2>2 DEF Outcome, Carried, NobodyDecidedYet
  <2>4. ASSUME calm'
        PROVE  OneAfter(c)
    <3>1. calm /\ OneTask /\ Settled
      BY <2>1, <2>4 DEF CInv, OneByOne
    <3>2. \A d \in Calls \ {c} : pc[d] \in AtRest
      BY <2>1, <3>1, OnlyOne DEF CInv, AtRest
    <3> QED
      BY <2>1, <2>2, <3>1, <3>2
         DEF OneTask, Settled, NonePending, Pending, RejectionStands, Holds, AtRest, Carrying
  <2> QED
    BY <2>1, <2>3, <2>4, OneCall
<1>13. ASSUME NEW c \in Calls, Finish(c) \/ Crash(c) \/ StatementFails(c)
       PROVE  CInv'
  <2>1. /\ pc[c] \notin AtRest /\ pc'[c] \in {"over", "catch"} /\ Others(c)
        /\ pc'[c] = "catch" => copy'[c].state = "failed"
        /\ UNCHANGED <<inst, tasks, rejected, calm>>
        /\ faults' # 0 \/ (pc[c] = "end" /\ faults' = faults)
    <3>1. CASE Finish(c) \/ Crash(c)
      BY <1>13, <3>1, GotoSteps
         DEF Finish, Crash, Fault, IInv, TypeOK, Steps, AtRest, history
    <3>2. CASE StatementFails(c)
      BY <3>2, Threw DEF StatementFails, Fault, IInv, TypeOK, AtRest, history
    <3> QED
      BY <1>13, <3>1, <3>2
  <2>2. Outcome(c)' /\ Carried' /\ NobodyDecidedYet'
    BY <2>1 DEF CInv, Outcome, Carried, Carrying, NobodyDecidedYet, Pending
  <2>3. ASSUME calm'
        PROVE  OneAfter(c)
    <3>1. calm /\ OneTask /\ Settled /\ RejectionStands
      BY <2>1, <2>3 DEF CInv, OneByOne
    <3>2. \A d \in Calls \ {c} : pc[d] \in AtRest
      BY <2>1, <3>1, OnlyOne DEF CInv
    <3> QED
      BY <2>1, <3>1, <3>2
         DEF OneTask, Settled, NonePending, Pending, RejectionStands, Holds, AtRest, Carrying
  <2> QED
    BY <2>1, <2>2, <2>3, OneCall
<1>14. ASSUME UNCHANGED <<inst, tasks, call, faults, rejected, calm>>
       PROVE  CInv'
  BY <1>14 DEF call, CInv, Outcome, Carried, OneByOne, NobodyDecidedYet, Alone, OneTask, Settled,
               RejectionStands, Holds, NonePending, Pending, AtRest, Carrying
<1>15. CASE UNCHANGED vars
  BY <1>14, <1>15 DEF vars, history
<1>16. CASE \E D \in Definitions : Publish(D)
  BY <1>14, <1>16 DEF Publish
<1>17. ASSUME NEW c \in Calls, Handle(c)
       PROVE  CInv'
  BY <1>4, <1>5, <1>6, <1>7, <1>8, <1>9, <1>10, <1>11, <1>12, <1>13, <1>17 DEF Handle
<1> QED
  BY <1>1, <1>2, <1>3, <1>13, <1>15, <1>16, <1>17 DEF Next

LEMMA Implications == IInv => TypeOK /\ NoStepSkippedWhileKept
<1>1. \A n, d : Leads(n, d) <=> Path(published, reached, approved, n, d)
  BY DEF Leads, Path
<1> QED
  BY <1>1 DEF IInv, Entered, Ended, Led, IsFirst, NoStepSkipped, NoStepSkippedWhileKept

LEMMA Inductive == Spec => []IInv
<1>1. Init => IInv
  BY Initially
<1>2. IInv /\ [Next]_vars => IInv'
  BY Step
<1> QED
  BY <1>1, <1>2, PTL DEF Spec

LEMMA CallsInductive == Spec => []CInv
<1>1. Init => CInv
  BY CallsInitially
<1>2. IInv /\ IInv' /\ CInv /\ [Next]_vars => CInv'
  BY CallsStep
<1> QED
  BY <1>1, <1>2, Inductive, PTL DEF Spec

\* The rows and the calls have their types, whatever calls race, fail or crash.
THEOREM TypeCorrect == Spec => []TypeOK
  BY Inductive, Implications, PTL

\* For all definitions, in whatever order they are published, and every number of
\* calls: as long as no human task is dropped, no node is entered and no instance
\* completed around the decision of a human task.
THEOREM NobodyIsSkipped == Spec => []NoStepSkippedWhileKept
  BY Inductive, Implications, PTL

\* As long as every statement succeeds an instance is running only while a task of
\* it is pending or a call is about to move it, whatever the provider answers and
\* however many calls decide, overwrite and roll back at once.
THEOREM NobodyStrands == Spec => []RunningIsMovingUnlessFaulty
<1>1. CInv => RunningIsMovingUnlessFaulty
  BY DEF CInv, Carried, Carrying, RunningIsMovingUnlessFaulty, RunningIsMoving, Moving, Pending
<1> QED
  BY <1>1, CallsInductive, PTL

\* While calls come one after the other no instance with a rejection on record is
\* completed, whatever fails or crashes in between and whatever is published.
THEOREM RejectionIsFinal == Spec => []RejectionStandsWhenCalm
<1>1. CInv => RejectionStandsWhenCalm
  BY DEF CInv, OneByOne, RejectionStandsWhenCalm
<1> QED
  BY <1>1, CallsInductive, PTL
=============================================================================
