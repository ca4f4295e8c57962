----------------------------- MODULE AuditChain -----------------------------
(***************************************************************************)
(* The hash chains of the audit tables: every row keeps the hash of its    *)
(* predecessor and a hash over that and its own content.  Three tables     *)
(* follow the scheme, each with its own idea of the rows that are not part *)
(* of it: ai_tool_side_effects (EffectChainWriter), ai_audit_logs          *)
(* (AuditService, AuditEvidenceService) and operation_audit_logs           *)
(* (OperationAuditService).  An hourly patrol announces a broken chain.    *)
(***************************************************************************)
EXTENDS Naturals, Sequences

CONSTANTS
    Processes, Writers,  \* replicas of the server; calls that write a row
    Legacy, Direct,      \* chains with rows that were written without a hash
    MaxKey, MaxDamage, MaxRestarts, \* bounds
    Nobody

Chains == {"effect", "ai", "operation"}

\* The query for the last hash skips unhashed rows in the effect chain only,
\* the verification in the effect and the AI chain: an unhashed row between
\* two others would break the AI chain, and anywhere the operation chain.
ASSUME ChainAssumption ==
    /\ Legacy \subseteq {"effect", "ai"} /\ Direct \subseteq {"effect"}
    /\ MaxKey \in Nat /\ MaxDamage \in Nat /\ MaxRestarts \in Nat
    /\ Nobody \notin Writers /\ Writers \intersect {"plain", "altered"} = {}

VARIABLES
    chain, dialect, at,  \* the table, the database, writer -> its process
    table,               \* id -> row, in the order in which ids are taken
    pc, size, last,      \* a write: rows to write, ids among which it read the last hash
    lock, queue,         \* audit_chain_lock (postgres), _chainTail (sqlite)
    key, restarts,       \* the current AUDIT_HMAC_KEY of a process
    seen, telling,       \* patrol: _chainBroken, an alarm on its way
    announced, unheard,  \* an alarm was given, one was lost
    damage, altered      \* rows changed or lost outside of the service

setting == <<chain, dialect, at>>
patrol == <<seen, telling, announced, unheard>>
outside == <<damage, altered>>
vars == <<setting, table, pc, size, last, lock, queue, key, restarts, patrol, outside>>

\* A hash stands for all that was hashed into it; <<>> is NULL.
Unhashed == [by |-> Nobody, member |-> 0, prev |-> <<>>, content |-> "plain", key |-> 0,
             hash |-> <<>>, after |-> {}, state |-> "in"]

Init ==
    /\ chain \in Chains
    /\ dialect \in {"postgres", "sqlite"}
    /\ at \in [Writers -> Processes]
    \* A sqlite deployment is one process; across processes nothing is promised.
    /\ dialect = "sqlite" => \A v, w \in Writers : at[v] = at[w]
    /\ table \in {<<>>} \union {<<Unhashed>> : c \in Legacy \intersect {chain}}
    /\ pc = [w \in Writers |-> "idle"]
    /\ size = [w \in Writers |-> 0]
    /\ last = [w \in Writers |-> {}]
    /\ lock = Nobody
    /\ queue = [p \in Processes |-> <<>>]
    /\ key = [p \in Processes |-> 0]
    /\ restarts = 0
    /\ seen = [p \in Processes |-> FALSE]
    /\ telling = [p \in Processes |-> FALSE]
    /\ announced = FALSE /\ unheard = FALSE
    /\ damage = 0 /\ altered = {}

-----------------------------------------------------------------------------
\* Rows: "open" until the transaction commits, then "in"; "gone" when it was
\* rolled back, "lost" when somebody removed it.
InState(S) == {i \in DOMAIN table : table[i].state \in S}

\* A transaction sees its own rows; the one connection of sqlite sees all.
Open(w) == {i \in InState({"open"}) : table[i].by = w}

Visible == InState(IF dialect = "sqlite" THEN {"in", "open"} ELSE {"in"})

Hashed(S) == {i \in S : table[i].hash # <<>>}

Before(i, S) == {j \in S : j < i}

\* ORDER BY id DESC LIMIT 1
HashOf(S) == IF S = {} THEN <<>>
             ELSE table[CHOOSE i \in S : \A j \in S : j <= i].hash

\* lastSideEffectHash, _lastHash
Preceding(w) == LET S == Visible \union Open(w)
                IN  IF chain = "effect" THEN Hashed(S) ELSE S

\* computeHash
ComputeHash(prev, content, k) == Append(prev, <<content, k>>)

\* Mutant: only the current key.
CurrentKey(p) == {key[p]}

\* current, previous and the key derived from ENCRYPTION_KEY
Keys(p) == {k \in 0 .. MaxKey : k = 0 \/ k = key[p] \/ k + 1 = key[p]}

\* verifyChain
Verified == IF chain = "operation" THEN Visible ELSE Hashed(Visible)

Linked(i, K) ==
    LET prev == HashOf(Before(i, Verified)) IN
    /\ table[i].prev = prev
    /\ \E k \in K : table[i].hash = ComputeHash(prev, table[i].content, k)

Valid(p) == \A i \in Verified : Linked(i, Keys(p))

-----------------------------------------------------------------------------
\* log, withChainWrite; recordGroup writes several rows, the others one.
Call(w) ==
    /\ pc[w] = "idle" /\ pc' = [pc EXCEPT ![w] = "wait"]
    /\ \E n \in {1, 2} : (n = 2 => chain = "effect") /\ size' = [size EXCEPT ![w] = n]
    /\ queue' = [queue EXCEPT ![at[w]] = IF dialect = "sqlite" THEN Append(@, w) ELSE @]
    /\ UNCHANGED <<setting, table, last, lock, key, restarts, patrol, outside>>

\* Mutant: the lock is gone when the lock statement is done.
AcquireOnly(w) ==
    /\ pc[w] = "wait" /\ pc' = [pc EXCEPT ![w] = "read"]
    /\ \/ dialect = "postgres" /\ lock = Nobody
       \/ dialect = "sqlite" /\ Head(queue[at[w]]) = w
    /\ UNCHANGED <<setting, table, size, last, lock, queue, key, restarts, patrol, outside>>

\* Mutant: the lock is held in the name of the process.
AcquireForProcess(w) ==
    /\ pc[w] = "wait" /\ pc' = [pc EXCEPT ![w] = "read"]
    /\ \/ dialect = "postgres" /\ lock = Nobody /\ lock' = at[w]
       \/ dialect = "sqlite" /\ Head(queue[at[w]]) = w /\ UNCHANGED lock
    /\ UNCHANGED <<setting, table, size, last, queue, key, restarts, patrol, outside>>

\* SELECT ... FOR UPDATE, or the turn in the queue
Acquire(w) ==
    /\ pc[w] = "wait" /\ pc' = [pc EXCEPT ![w] = "read"]
    /\ \/ dialect = "postgres" /\ lock = Nobody /\ lock' = w
       \/ dialect = "sqlite" /\ Head(queue[at[w]]) = w /\ UNCHANGED lock
    /\ UNCHANGED <<setting, table, size, last, queue, key, restarts, patrol, outside>>

ReadLast(w) ==
    /\ pc[w] = "read" /\ pc' = [pc EXCEPT ![w] = "insert"]
    /\ last' = [last EXCEPT ![w] = Preceding(w)]
    /\ UNCHANGED <<setting, table, size, lock, queue, key, restarts, patrol, outside>>

\* Mutant: the row is inserted outside of the transaction.
RowAlone(w) == LET prev == HashOf(last[w])
                   k == key[at[w]]
IN  [by |-> w, member |-> IF \A i \in DOMAIN table : table[i].by # w THEN 1 ELSE 2,
     after |-> last[w], prev |-> prev, content |-> w, key |-> k,
     hash |-> ComputeHash(prev, w, k), state |-> "in"]

Row(w) == LET prev == HashOf(last[w])
              k == key[at[w]]
IN  [by |-> w, member |-> IF Open(w) = {} THEN 1 ELSE 2, after |-> last[w], prev |-> prev,
     content |-> w, key |-> k, hash |-> ComputeHash(prev, w, k), state |-> "open"]

\* insertOne
Insert(w) ==
    /\ pc[w] = "insert"
    /\ table' = Append(table, Row(w))
    /\ pc' = [pc EXCEPT ![w] = IF Row(w).member = size[w] THEN "commit" ELSE "read"]
    /\ UNCHANGED <<setting, size, last, lock, queue, key, restarts, patrol, outside>>

-----------------------------------------------------------------------------
Close(W, state) ==
    table' = [i \in DOMAIN table |->
        IF table[i].state = "open" /\ table[i].by \in W
        THEN [table[i] EXCEPT !.state = state] ELSE table[i]]

\* Mutant: the job of the queue is over, the transaction is not.
ReleaseQueueOnly(w) ==
    /\ queue' = [queue EXCEPT ![at[w]] = IF dialect = "sqlite" THEN Tail(@) ELSE @]
    /\ UNCHANGED lock

\* The lock goes with the transaction, the turn with the end of the job.
Release(w) ==
    /\ lock' = IF lock = w THEN Nobody ELSE lock
    /\ queue' = [queue EXCEPT ![at[w]] = IF dialect = "sqlite" THEN Tail(@) ELSE @]

\* The answer to the commit may be lost; the rollback then finds nothing.
Commit(w) ==
    /\ pc[w] = "commit"
    /\ \E end \in {"done", "failed"} : pc' = [pc EXCEPT ![w] = end]
    /\ Close({w}, "in") /\ Release(w)
    /\ UNCHANGED <<setting, size, last, key, restarts, patrol, outside>>

InJob(w) == pc[w] \in {"read", "insert", "commit"}

\* A statement failed: rollbackTransaction, release, and the queue goes on.
Rollback(w) ==
    /\ InJob(w) /\ pc' = [pc EXCEPT ![w] = "failed"]
    /\ Close({w}, "gone") /\ Release(w)
    /\ UNCHANGED <<setting, size, last, key, restarts, patrol, outside>>

\* So does, on postgres, the statement that waits for the lock.
GiveUp(w) ==
    /\ pc[w] = "wait" /\ dialect = "postgres" /\ pc' = [pc EXCEPT ![w] = "failed"]
    /\ UNCHANGED <<setting, table, size, last, lock, queue, key, restarts, patrol, outside>>

\* A process ends and its connections with it; it may come back with a new key
\* (the one before is then AUDIT_HMAC_KEY_PREVIOUS).
Restart(p) ==
    LET hit == {w \in Writers : at[w] = p /\ (InJob(w) \/ pc[w] = "wait")} IN
    /\ restarts < MaxRestarts /\ restarts' = restarts + 1
    /\ pc' = [w \in Writers |-> IF w \in hit THEN "failed" ELSE pc[w]]
    /\ Close(hit, "gone")
    /\ lock' = IF lock \in hit THEN Nobody ELSE lock
    /\ queue' = [queue EXCEPT ![p] = <<>>]
    /\ \E k \in {key[p], key[p] + 1} : k <= MaxKey /\ key' = [key EXCEPT ![p] = k]
    /\ seen' = [seen EXCEPT ![p] = FALSE] /\ telling' = [telling EXCEPT ![p] = FALSE]
    /\ unheard' = (unheard \/ telling[p])
    /\ UNCHANGED <<setting, size, last, announced, outside>>

-----------------------------------------------------------------------------
\* Mutant: the edge is looked for after the verdict was kept.
PatrolLate(p) ==
    /\ chain # "effect" /\ ~telling[p]
    /\ seen' = [seen EXCEPT ![p] = ~Valid(p)]
    /\ telling' = [telling EXCEPT ![p] = ~Valid(p) /\ ~seen'[p]]
    /\ UNCHANGED <<setting, table, pc, size, last, lock, queue, key, restarts,
                   announced, unheard, outside>>

\* patrolAuditChainIntegrity, of the AI and the operation chain: the verdict is
\* kept first, then the alarm is sent if the chain has just broken.
Patrol(p) ==
    /\ chain # "effect" /\ ~telling[p]
    /\ seen' = [seen EXCEPT ![p] = ~Valid(p)]
    /\ telling' = [telling EXCEPT ![p] = ~Valid(p) /\ ~seen[p]]
    /\ UNCHANGED <<setting, table, pc, size, last, lock, queue, key, restarts,
                   announced, unheard, outside>>

\* The administrators are looked up and written to, or that fails.
Announce(p) ==
    /\ telling[p] /\ telling' = [telling EXCEPT ![p] = FALSE]
    /\ \/ announced' = TRUE /\ UNCHANGED unheard
       \/ unheard' = TRUE /\ UNCHANGED announced
    /\ UNCHANGED <<setting, table, pc, size, last, lock, queue, key, restarts, seen, outside>>

-----------------------------------------------------------------------------
\* A row written past the service.
InsertPlain ==
    /\ chain \in Direct /\ damage < MaxDamage /\ damage' = damage + 1
    /\ table' = Append(table, Unhashed)
    /\ UNCHANGED <<setting, pc, size, last, lock, queue, key, restarts, patrol, altered>>

\* A column of a committed row is changed, or the row is removed.
Alter(i) ==
    /\ damage < MaxDamage /\ damage' = damage + 1
    /\ table[i].state = "in" /\ table[i].hash # <<>>
    /\ table' = [table EXCEPT ![i].content = "altered"]
    /\ altered' = altered \union {i}
    /\ UNCHANGED <<setting, pc, size, last, lock, queue, key, restarts, patrol>>

Lose(i) ==
    /\ damage < MaxDamage /\ damage' = damage + 1
    /\ table[i].state = "in" /\ table[i].hash # <<>>
    /\ table' = [table EXCEPT ![i].state = "lost"]
    /\ UNCHANGED <<setting, pc, size, last, lock, queue, key, restarts, patrol, altered>>

Work(w) == Acquire(w) \/ ReadLast(w) \/ Insert(w) \/ Commit(w) \/ Rollback(w)

Next ==
    \/ \E w \in Writers : Call(w) \/ Work(w) \/ GiveUp(w)
    \/ \E p \in Processes : Restart(p) \/ Patrol(p) \/ Announce(p)
    \/ InsertPlain
    \/ \E i \in DOMAIN table : Alter(i) \/ Lose(i)

Spec == Init /\ [][Next]_vars

\* Statements are answered or fail, waiters get the lock in turn, the cron fires.
Fairness ==
    /\ \A w \in Writers : WF_vars(Work(w)) /\ SF_vars(Acquire(w))
    /\ \A p \in Processes : WF_vars(Patrol(p)) /\ WF_vars(Announce(p))

FairSpec == Spec /\ Fairness

-----------------------------------------------------------------------------
Rows == [by : Writers \union {Nobody}, member : 0 .. 2,
         prev : Seq((Writers \union {"plain", "altered"}) \X Nat),
         content : Writers \union {"plain", "altered"}, key : Nat,
         hash : Seq((Writers \union {"plain", "altered"}) \X Nat),
         after : SUBSET Nat, state : {"open", "in", "gone", "lost"}]

TypeOK ==
    /\ chain \in Chains /\ dialect \in {"postgres", "sqlite"} /\ at \in [Writers -> Processes]
    /\ table \in Seq(Rows)
    /\ pc \in [Writers -> {"idle", "wait", "read", "insert", "commit", "done", "failed"}]
    /\ size \in [Writers -> 0 .. 2]
    /\ last \in [Writers -> SUBSET DOMAIN table]
    /\ lock \in Writers \union {Nobody}
    /\ queue \in [Processes -> Seq(Writers)]
    /\ key \in [Processes -> 0 .. MaxKey] /\ restarts \in 0 .. MaxRestarts
    /\ seen \in [Processes -> BOOLEAN] /\ telling \in [Processes -> BOOLEAN]
    /\ announced \in BOOLEAN /\ unheard \in BOOLEAN
    /\ damage \in 0 .. MaxDamage /\ altered \subseteq DOMAIN table

\* However writers interleave, fail and crash, the table is one chain: no two
\* rows share a predecessor, none refers to a row that was rolled back.
OneChain ==
    \A i \in Hashed(Visible) :
        table[i].after \intersect InState({"lost"}) = {} =>
            table[i].prev = HashOf(Before(i, Verified))

\* A verification fails exactly when a row was altered, a row was removed
\* before one that is left (a removed tail is not seen), or a row was signed
\* with a key the verifying process does not know. What was written by the
\* service alone is one chain.
VerdictIsRight ==
    /\ OneChain
    /\ \A p \in Processes :
         Valid(p) <=> \A i \in Verified : /\ i \notin altered
                                          /\ table[i].after \intersect InState({"lost"}) = {}
                                          /\ (table[i].key \in {0, key[p]} \/ table[i].key + 1 = key[p])

\* A group is recorded as a whole or not at all, and one that was reported as
\* recorded is there.
GroupsAreWhole ==
    \A w \in Writers :
        LET members == {table[i].member : i \in {j \in InState({"in", "lost"}) : table[j].by = w}}
        IN  /\ members \in {{}, 1 .. size[w]}
            /\ pc[w] = "done" => members # {}

Committed == Hashed(InState({"in"}))

\* The order of ids is the order of commits: no row of the chain appears before
\* a row that a reader of the table has already seen.
AppendOnly == [][\A i \in Committed' \ Committed : \A j \in Committed : j < i]_vars

\* A write that waits for its turn ends, whoever had the turn failed or crashed.
WritersFinish == \A w \in Writers : pc[w] = "wait" ~> pc[w] \in {"done", "failed"}

Broken == chain # "effect" /\ \A p \in Processes : ~Valid(p)

\* A chain that stays broken is announced, unless the notification failed.
BreaksAreSent == <>[]Broken => <>(announced \/ unheard)

\* Specification HS-11, section 6.2: a patrol that finds a chain broken gives
\* the alarm. The verdict is kept before the alarm is sent: when that fails,
\* the next patrol sees no transition.
BreaksAreAnnounced == <>[]Broken => <>announced
=============================================================================
