----------------------------- MODULE FlowRuntime -----------------------------
(***************************************************************************)
(* One instance of a workflow: FlowRuntimeService and runHumanTask.  Calls *)
(* (start, resolveTask, rollback) work on copies of the instance row and   *)
(* save the whole copy; what is awaited in between is not protected.  The  *)
(* definition is one row too, read again at every decision and before      *)
(* every node, and may be published anew while the instance waits.         *)
(***************************************************************************)
EXTENDS Naturals, Sequences

CONSTANTS
    Definitions,          \* the contents the definition may be given
    End,                  \* no next node
    Data,                 \* contents of the instance
    Calls, MaxTasks, MaxFaults

NodesOf(D) == D.human \union D.ai \union D.condition

Nodes == UNION {NodesOf(D) : D \in Definitions}
Human == UNION {D.human : D \in Definitions}

\* flowDefinitionSchema and validateFlowDefinition: ids are unique (a node has
\* one type) and every reference to a node exists.
WellFormed(D) ==
    /\ D.human \intersect D.ai = {} /\ D.human \intersect D.condition = {}
    /\ D.ai \intersect D.condition = {}
    /\ D.first \in NodesOf(D)
    /\ D.then \in [D.condition -> NodesOf(D)] /\ D.else \in [D.condition -> NodesOf(D)]
    /\ D.follows \in [D.human \union D.ai -> NodesOf(D) \union {End}]
    /\ D.holds \subseteq D.condition \X Data

ASSUME DefinitionAssumption ==
    /\ \A D \in Definitions : WellFormed(D)
    /\ End \notin Nodes
    /\ MaxTasks \in Nat /\ MaxFaults \in Nat

VARIABLES
    def,       \* the row of flow_definitions
    inst,      \* the row of flow_instances
    tasks,     \* the rows of flow_tasks
    pc, copy,  \* a call: its next step, its copy of the instance
    ver, to,   \* the definition its node is from, the node it goes on to
    task, decision, \* resolveTask: the task and what was decided
    guarded,   \* the try block of an executeNode is around the step
    faults,
    published, \* all contents the definition has had
    reached,   \* nodes that were entered, with the data they were entered with
    approved, rejected, \* nodes with a decision in the audit
    calm       \* no two calls were ever under way together

call == <<pc, copy, ver, to, task, decision, guarded>>
history == <<published, reached, approved, rejected>>
vars == <<def, inst, tasks, call, faults, history, calm>>

States == {"none", "running", "completed", "failed", "rolled_back"}
Rows == [state : States, node : Nodes \union {End}, data : Data]

Init ==
    /\ def \in Definitions
    /\ inst \in [state : {"none"}, node : {def.first}, data : Data]
    /\ tasks = <<>>
    /\ pc = [c \in Calls |-> "idle"]
    /\ copy = [c \in Calls |-> inst]
    /\ ver = [c \in Calls |-> def]
    /\ to = [c \in Calls |-> End]
    /\ task = [c \in Calls |-> 0]
    /\ decision = [c \in Calls |-> "none"]
    /\ guarded = [c \in Calls |-> FALSE]
    /\ faults = 0
    /\ published = {def}
    /\ reached = {} /\ approved = {} /\ rejected = {}
    /\ calm = TRUE

-----------------------------------------------------------------------------
Goto(c, next) == pc' = [pc EXCEPT ![c] = next]

\* advance: to the next node, or to the end.
Advance(c, next, data) ==
    /\ copy' = [copy EXCEPT ![c] =
                  IF next = End THEN [@ EXCEPT !.state = "completed", !.data = data]
                  ELSE [@ EXCEPT !.data = data]]
    /\ to' = [to EXCEPT ![c] = next]
    /\ Goto(c, IF next = End THEN "complete" ELSE "find")

\* Mutant: an exception leaves the instance as it is.
Escape(c) == Goto(c, "over") /\ UNCHANGED copy

\* An exception: the catch of an enclosing executeNode, or the caller.
Throw(c) ==
    IF guarded[c]
    THEN Goto(c, "catch") /\ copy' = [copy EXCEPT ![c].state = "failed"]
    ELSE Goto(c, "over") /\ UNCHANGED copy

Idle(c) == pc[c] = "idle" /\ calm' = (calm /\ \A d \in Calls : pc[d] \in {"idle", "over"})

Fault == faults < MaxFaults /\ faults' = faults + 1

-----------------------------------------------------------------------------
\* upsertDefinition, by an administrator or by the defaults of a new release.
Publish(D) ==
    /\ def # D /\ def' = D
    /\ published' = published \union {D}
    /\ UNCHANGED <<inst, tasks, call, faults, reached, approved, rejected, calm>>

-----------------------------------------------------------------------------
\* start, with the definition as it is.
Start(c) ==
    /\ Idle(c) /\ inst.state = "none"
    /\ inst' = [inst EXCEPT !.state = "running", !.node = def.first]
    /\ copy' = [copy EXCEPT ![c] = inst'] /\ ver' = [ver EXCEPT ![c] = def]
    /\ Goto(c, "begin")
    /\ UNCHANGED <<def, tasks, to, task, decision, guarded, faults, history>>

\* The start is written to the audit.
Begin(c) ==
    /\ pc[c] = "begin" /\ Goto(c, "enter")
    /\ UNCHANGED <<def, inst, tasks, copy, ver, to, task, decision, guarded, faults, history, calm>>

\* advance: the next node is looked up in the definition as it is now.
Find(c) ==
    /\ pc[c] = "find"
    /\ \/ /\ to[c] \in NodesOf(def) /\ Goto(c, "enter")
          /\ ver' = [ver EXCEPT ![c] = def]
          /\ copy' = [copy EXCEPT ![c].node = to[c]]
       \/ /\ to[c] \notin NodesOf(def) /\ Goto(c, "fail")
          /\ copy' = [copy EXCEPT ![c].state = "failed"] /\ UNCHANGED ver
    /\ UNCHANGED <<def, inst, tasks, to, task, decision, guarded, faults, history, calm>>

\* executeNode: the instance is saved at its node.
Enter(c) ==
    /\ pc[c] = "enter" /\ Goto(c, "execute")
    /\ inst' = copy[c]
    /\ reached' = reached \union {<<copy[c].node, copy[c].data>>}
    /\ UNCHANGED <<def, tasks, copy, ver, to, task, decision, guarded, faults,
                   published, approved, rejected, calm>>

\* The node is written to the audit; a condition is evaluated at once.
Execute(c) ==
    LET D == ver[c]
        n == copy[c].node
        d == copy[c].data
    IN  /\ pc[c] = "execute" /\ guarded' = [guarded EXCEPT ![c] = TRUE]
        /\ \/ /\ n \in D.condition
              /\ Advance(c, IF <<n, d>> \in D.holds THEN D.then[n] ELSE D.else[n], d)
           \/ n \in D.ai /\ Goto(c, "ask") /\ UNCHANGED <<copy, to>>
           \/ n \in D.human /\ Goto(c, "assign") /\ UNCHANGED <<copy, to>>
        /\ UNCHANGED <<def, inst, tasks, ver, task, decision, faults, history, calm>>

\* runAiTask: an answer becomes the data, an error of the provider is thrown.
Ask(c) ==
    /\ pc[c] = "ask"
    /\ \/ \E out \in Data : Advance(c, ver[c].follows[copy[c].node], out)
       \/ Throw(c) /\ UNCHANGED to
    /\ UNCHANGED <<def, inst, tasks, ver, task, decision, guarded, faults, history, calm>>

\* runHumanTask: the instance waits, the call is over.
Assign(c) ==
    /\ pc[c] = "assign" /\ Goto(c, "over") /\ Len(tasks) < MaxTasks
    /\ tasks' = Append(tasks, [node |-> copy[c].node, status |-> "pending"])
    /\ UNCHANGED <<def, inst, copy, ver, to, task, decision, guarded, faults, history, calm>>

\* The copy of the call overwrites the row.
Save(c, next) ==
    /\ Goto(c, next) /\ inst' = copy[c]
    /\ UNCHANGED <<def, tasks, copy, ver, to, task, decision, guarded, faults, history, calm>>

Complete(c) == pc[c] = "complete" /\ Save(c, "end")

\* The completion is written to the audit.
Finish(c) ==
    /\ pc[c] = "end" /\ Goto(c, "over")
    /\ UNCHANGED <<def, inst, tasks, copy, ver, to, task, decision, guarded, faults, history, calm>>

Catch(c) == pc[c] = "catch" /\ Save(c, "over")

-----------------------------------------------------------------------------
\* resolveTask: the task is read, and refused unless it is pending,
Resolve(c, t, choice) ==
    /\ Idle(c) /\ t \in DOMAIN tasks /\ tasks[t].status = "pending"
    /\ task' = [task EXCEPT ![c] = t]
    /\ decision' = [decision EXCEPT ![c] = choice]
    /\ Goto(c, "load")
    /\ UNCHANGED <<def, inst, tasks, copy, ver, to, guarded, faults, history>>

\* the instance is read, in whatever state it is,
Load(c) ==
    /\ pc[c] = "load" /\ Goto(c, "consult")
    /\ copy' = [copy EXCEPT ![c] = inst]
    /\ UNCHANGED <<def, inst, tasks, ver, to, task, decision, guarded, faults, history, calm>>

NodeOf(c) == tasks[task[c]].node

\* the definition is read, and a user without the roles of the node is refused,
Consult(c) ==
    /\ pc[c] = "consult" /\ ver' = [ver EXCEPT ![c] = def]
    /\ \/ Goto(c, "decide")
       \/ NodeOf(c) \in NodesOf(def) /\ Goto(c, "over")
    /\ UNCHANGED <<def, inst, tasks, copy, to, task, decision, guarded, faults, history, calm>>

\* Mutant: only an approval settles the task.
DecideApproval(c) ==
    /\ pc[c] = "decide" /\ Goto(c, "record")
    /\ tasks' = IF decision[c] = "approved"
                THEN [tasks EXCEPT ![task[c]].status = "approved"] ELSE tasks
    /\ UNCHANGED <<def, inst, copy, ver, to, task, decision, guarded, faults, history, calm>>

\* the decision is saved under no condition,
Decide(c) ==
    /\ pc[c] = "decide" /\ Goto(c, "record")
    /\ tasks' = [tasks EXCEPT ![task[c]].status = decision[c]]
    /\ UNCHANGED <<def, inst, copy, ver, to, task, decision, guarded, faults, history, calm>>

\* node?.next: neither a condition nor a node that is gone has one.
NextOf(D, n) == IF n \in D.human \union D.ai THEN D.follows[n] ELSE End

\* Mutant: a rejection is recorded and the flow goes on.
RecordAndGoOn(c) ==
    LET n == NodeOf(c) IN
    /\ pc[c] = "record" /\ Advance(c, NextOf(ver[c], n), copy[c].data)
    /\ IF decision[c] = "approved"
       THEN approved' = approved \union {n} /\ UNCHANGED rejected
       ELSE rejected' = rejected \union {n} /\ UNCHANGED approved
    /\ UNCHANGED <<def, inst, tasks, ver, task, decision, guarded, faults, published, reached, calm>>

\* written to the audit, and the instance advances or fails.
Record(c) ==
    LET n == NodeOf(c) IN
    /\ pc[c] = "record"
    /\ \/ /\ decision[c] = "approved"
          /\ Advance(c, NextOf(ver[c], n), copy[c].data)
          /\ approved' = approved \union {n} /\ UNCHANGED rejected
       \/ /\ decision[c] = "rejected"
          /\ copy' = [copy EXCEPT ![c].state = "failed"] /\ Goto(c, "fail")
          /\ rejected' = rejected \union {n} /\ UNCHANGED <<approved, to>>
    /\ UNCHANGED <<def, inst, tasks, ver, task, decision, guarded, faults, published, reached, calm>>

Fail(c) == pc[c] = "fail" /\ Save(c, "over")

\* Mutant: a word outside the vocabulary of state.
RollbackWord(c) ==
    /\ Idle(c) /\ inst.state # "none"
    /\ copy' = [copy EXCEPT ![c] = [inst EXCEPT !.state = "rollback"]]
    /\ Goto(c, "mark")
    /\ UNCHANGED <<def, inst, tasks, ver, to, task, decision, guarded, faults, history>>

\* rollback: the instance is read, in whatever state it is, marked and saved.
Rollback(c) ==
    /\ Idle(c) /\ inst.state # "none"
    /\ copy' = [copy EXCEPT ![c] = [inst EXCEPT !.state = "rolled_back"]]
    /\ Goto(c, "mark")
    /\ UNCHANGED <<def, inst, tasks, ver, to, task, decision, guarded, faults, history>>

Mark(c) == pc[c] = "mark" /\ Save(c, "over")

-----------------------------------------------------------------------------
\* A statement fails and throws; a save of the audit or of a row is not made.
StatementFails(c) ==
    /\ Fault
    /\ pc[c] \in {"begin", "find", "enter", "execute", "assign", "complete", "end",
                  "load", "consult", "decide", "record", "fail", "mark"}
    /\ Throw(c)
    /\ UNCHANGED <<def, inst, tasks, ver, to, task, decision, guarded, history, calm>>

\* The process of a call ends, or its catch cannot save.
Crash(c) ==
    /\ Fault /\ pc[c] \notin {"idle", "over"} /\ Goto(c, "over")
    /\ UNCHANGED <<def, inst, tasks, copy, ver, to, task, decision, guarded, history, calm>>

Handle(c) ==
    \/ Begin(c) \/ Find(c) \/ Enter(c) \/ Execute(c) \/ Ask(c) \/ Assign(c)
    \/ Complete(c) \/ Finish(c) \/ Catch(c)
    \/ Load(c) \/ Consult(c) \/ Decide(c) \/ Record(c) \/ Fail(c) \/ Mark(c)

Next ==
    \/ \E D \in Definitions : Publish(D)
    \/ \E c \in Calls :
        \/ Start(c) \/ Rollback(c)
        \/ \E t \in DOMAIN tasks : \E choice \in {"approved", "rejected"} : Resolve(c, t, choice)
        \/ Handle(c) \/ StatementFails(c) \/ Crash(c)

Spec == Init /\ [][Next]_vars

-----------------------------------------------------------------------------
TypeOK ==
    /\ def \in Definitions
    /\ inst \in Rows
    /\ tasks \in Seq([node : Human, status : {"pending", "approved", "rejected"}])
    /\ pc \in [Calls -> {"idle", "begin", "find", "enter", "execute", "ask", "assign", "complete",
                         "end", "catch", "load", "consult", "decide", "record", "fail", "mark",
                         "over"}]
    /\ copy \in [Calls -> Rows]
    /\ ver \in [Calls -> Definitions]
    /\ to \in [Calls -> Nodes \union {End}]
    /\ task \in [Calls -> Nat]
    /\ decision \in [Calls -> {"none", "approved", "rejected"}]
    /\ guarded \in [Calls -> BOOLEAN]
    /\ faults \in 0 .. MaxFaults
    /\ published \subseteq Definitions
    /\ reached \subseteq Nodes \X Data
    /\ approved \subseteq Human /\ rejected \subseteq Human
    /\ calm \in BOOLEAN

\* By one of the published definitions, n comes after a node that was reached:
\* after the branch of a condition that its data selects, or after a human task
\* with an approval in the audit.
Leads(n, d) == \E D \in published, e \in Data : \E m \in NodesOf(D) :
    /\ <<m, e>> \in reached
    /\ \/ m \in D.condition /\ d = e /\ n = (IF <<m, e>> \in D.holds THEN D.then[m] ELSE D.else[m])
       \/ m \in D.ai /\ n = D.follows[m]
       \/ m \in D.human /\ m \in approved /\ n = D.follows[m]

\* No path leads around an approval: whatever calls race, fail or crash, every
\* node that was entered, and the end of a completed instance, comes after one
\* that was entered and, where that is a human task, approved on the record.
NoStepSkipped ==
    /\ \A s \in reached : (\E D \in published : s[1] = D.first) \/ Leads(s[1], s[2])
    /\ inst.state = "completed" => Leads(End, inst.data)

\* No definition that was published lacks a human task of another one.
Kept == \A D, E \in published : D.human \subseteq E.human

\* That holds whatever is published meanwhile, as long as no human task is
\* dropped: who approves a task that is gone completes the instance.
NoStepSkippedWhileKept == Kept => NoStepSkipped

Moving ==
    \/ \E t \in DOMAIN tasks : tasks[t].status = "pending"
    \/ \E c \in Calls : pc[c] \notin {"idle", "over", "mark"}

\* executeNode: an instance is not left running for ever with nobody to move it.
RunningIsMoving == inst.state = "running" => Moving

\* That holds as long as every statement succeeds, whatever the provider does
\* and however calls race.
RunningIsMovingUnlessFaulty == faults = 0 => RunningIsMoving

\* resolveTask: a rejection fails the instance.
RejectionStands == rejected # {} => inst.state # "completed"

\* That holds as long as calls come one after the other.
RejectionStandsWhenCalm == calm => RejectionStands
=============================================================================
