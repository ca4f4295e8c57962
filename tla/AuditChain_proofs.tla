------------------------- MODULE AuditChain_proofs -------------------------
(***************************************************************************)
(* Proofs about the hash chains, for any writers, processes, keys and      *)
(* amount of damage: the types, that committed rows are only ever added    *)
(* at the end, that a group is recorded whole, and that a verification     *)
(* fails exactly where a row was altered, removed or signed with a key     *)
(* that is not known.                                                      *)
(*                                                                         *)
(* The argument: one writer at a time is in its job, so the open rows are  *)
(* its own and the last of the chain.  Every row therefore has hashed in   *)
(* exactly the rows before it that are still there, and those that were    *)
(* lost since.  Hashes grow along the chain, so that no two of them agree  *)
(* by accident, and the first row that has lost a predecessor has lost the *)
(* one it links to.                                                        *)
(***************************************************************************)
EXTENDS AuditChain, SequenceTheorems, WellFoundedInduction, TLAPS

Content == Writers \union {"plain", "altered"}

Ids == DOMAIN table

\* The query for the last hash sees the unhashed rows in two of the chains.
Chained(S) == IF chain = "effect" THEN Hashed(S) ELSE S

\* Whoever is in its job has its turn, whoever waits on sqlite is in the queue.
Turns ==
    \A w \in Writers :
        /\ InJob(w) /\ dialect = "postgres" => lock = w
        /\ InJob(w) /\ dialect = "sqlite" => Head(queue[at[w]]) = w
        /\ (InJob(w) \/ pc[w] = "wait") /\ dialect = "sqlite"
             => \E n \in 1 .. Len(queue[at[w]]) : queue[at[w]][n] = w

OneProcess == dialect = "sqlite" => \A v, w \in Writers : at[v] = at[w]

\* What a writer has in the table at every point of its job.
Own(w) == {i \in Ids : table[i].by = w}

MembersOf(w) == {table[i].member : i \in Own(w)}

AllIn(w, S) == \A i \in Own(w) : table[i].state \in S

JobOf(w) ==
    /\ pc[w] = "idle" => Own(w) = {} /\ size[w] = 0
    /\ pc[w] # "idle" => size[w] \in {1, 2}
    /\ pc[w] = "wait" => Own(w) = {}
    /\ pc[w] \in {"read", "insert"} =>
         AllIn(w, {"open"}) /\ (MembersOf(w) = {} \/ (MembersOf(w) = {1} /\ size[w] = 2))
    /\ pc[w] = "commit" => AllIn(w, {"open"}) /\ MembersOf(w) = 1 .. size[w]
    /\ pc[w] = "done" => AllIn(w, {"in", "lost"}) /\ MembersOf(w) = 1 .. size[w]
    /\ pc[w] = "failed" => \/ AllIn(w, {"gone"})
                           \/ AllIn(w, {"in", "lost"}) /\ MembersOf(w) = 1 .. size[w]

Jobs == \A w \in Writers : JobOf(w)

\* What is hashed into a row is the past of each row of it.
Nested(S) == \A i \in Hashed(S) : \A j \in S : j < i => j \in table[i].after

Plain(i) ==
    /\ table[i] = Unhashed /\ i \notin altered
    /\ chain = "effect" \/ (chain = "ai" /\ i = 1)

Signed(i) ==
    LET r == table[i] IN
    /\ r.by \in Writers /\ r.key \in 0 .. MaxKey
    /\ r.after \subseteq Before(i, Ids)
    /\ r.prev = HashOf(r.after)
    /\ r.hash = ComputeHash(r.prev, r.by, r.key)
    /\ r.content = IF i \in altered THEN "altered" ELSE r.by
    /\ Nested(r.after)
    /\ \A j \in Hashed(r.after) : Len(table[j].hash) < Len(r.hash)

\* Rows before i that are there, and with them those that were lost.
Live(i) == Chained(Before(i, InState({"in", "open"})))

Came(i) == Chained(Before(i, InState({"in", "open", "lost"})))

Past(S, i) == Live(i) \subseteq S /\ S \subseteq Came(i)

\* Hashed rows behind an open row are open.
OpenLast ==
    \A i \in InState({"open"}) : \A j \in Hashed(Ids) : i < j => table[j].state = "open"

RowsSound == \A i \in Ids : Plain(i) \/ Signed(i)

PastKept == \A i \in Hashed(Ids) : table[i].state # "gone" => Past(table[i].after, i)

PastRead ==
    \A w \in Writers : pc[w] = "insert" => Past(last[w], Len(table) + 1) /\ Nested(last[w])

IInv == TypeOK /\ OneProcess /\ Turns /\ Jobs /\ RowsSound /\ OpenLast /\ PastKept /\ PastRead

-----------------------------------------------------------------------------
(* Numbers and sequences.                                                  *)

LEMMA Least ==
    ASSUME NEW S \in SUBSET Nat, S # {}
    PROVE  \E m \in S : \A n \in S : m <= n
<1>1. PICK m \in S : \A n \in S : ~(<<n, m>> \in OpToRel(<, Nat))
  BY NatLessThanWellFounded, WFMin
<1>2. \A n \in S : ~(n < m)
  BY <1>1 DEF OpToRel
<1> QED
  BY <1>2

LEMMA Greatest ==
    ASSUME NEW n \in Nat, NEW S \in SUBSET (1 .. n), S # {}
    PROVE  \E m \in S : \A i \in S : i <= m
<1> DEFINE T == {n - i : i \in S}
<1>1. T \in SUBSET Nat /\ T # {}
  <2>1. \A i \in S : n - i \in Nat
    OBVIOUS
  <2> QED
    BY <2>1
<1>2. PICK k \in T : \A l \in T : k <= l
  <2> HIDE DEF T
  <2> QED
    BY <1>1, Least
<1>3. PICK m \in S : k = n - m
  OBVIOUS
<1>4. \A i \in S : n - m <= n - i
  BY <1>2, <1>3
<1> QED
  BY <1>4

LEMMA IsSeq ==
    ASSUME NEW S, NEW n \in Nat, NEW f \in [1 .. n -> S]
    PROVE  f \in Seq(S) /\ Len(f) = n
  OBVIOUS

LEMMA TableFacts ==
    ASSUME TypeOK
    PROVE  /\ Len(table) \in Nat /\ Ids = 1 .. Len(table) /\ Ids \subseteq Nat
           /\ \A i \in Ids : table[i] \in Rows
  BY LenProperties DEF TypeOK, Ids

\* The last hash of some rows is the one of the greatest id.
LEMMA LastHash ==
    ASSUME TypeOK, NEW S \in SUBSET Ids, S # {}
    PROVE  \E m \in S : (\A i \in S : i <= m) /\ HashOf(S) = table[m].hash
<1>1. \E m \in S : \A i \in S : i <= m
  BY TableFacts, Greatest
<1> DEFINE m == CHOOSE i \in S : \A j \in S : j <= i
<1>2. m \in S /\ \A i \in S : i <= m
  BY <1>1
<1>3. HashOf(S) = table[m].hash
  BY DEF HashOf
<1> QED
  BY <1>2, <1>3

LEMMA HashType ==
    ASSUME TypeOK, NEW S \in SUBSET Ids
    PROVE  HashOf(S) \in Seq(Content \X Nat)
<1>1. CASE S = {}
  BY <1>1, EmptySeq DEF HashOf
<1>2. CASE S # {}
  BY <1>2, LastHash, TableFacts DEF Rows, Content
<1> QED
  BY <1>1, <1>2

-----------------------------------------------------------------------------
(* What a row was written with stays.                                      *)

Keeps ==
    /\ Ids \subseteq Ids'
    /\ \A i \in Ids : /\ table'[i].by = table[i].by /\ table'[i].key = table[i].key
                      /\ table'[i].member = table[i].member
                      /\ table'[i].prev = table[i].prev /\ table'[i].hash = table[i].hash
                      /\ table'[i].after = table[i].after

LEMMA KeepsHash ==
    ASSUME TypeOK, Keeps, NEW S \in SUBSET Ids
    PROVE  HashOf(S)' = HashOf(S) /\ Hashed(S)' = Hashed(S)
<1>1. Hashed(S)' = Hashed(S)
  BY DEF Hashed, Keeps
<1>2. CASE S = {}
  BY <1>1, <1>2 DEF HashOf
<1>3. CASE S # {}
  <2>1. \E m \in S : \A i \in S : i <= m
    BY <1>3, TableFacts, Greatest
  <2> DEFINE m == CHOOSE i \in S : \A j \in S : j <= i
  <2>2. m \in Ids
    BY <2>1
  <2>3. HashOf(S) = table[m].hash /\ HashOf(S)' = table'[m].hash
    BY <1>3 DEF HashOf
  <2> QED
    BY <1>1, <2>2, <2>3 DEF Keeps
<1> QED
  BY <1>2, <1>3
LEMMA ColumnTypes ==
    ASSUME NEW r \in Rows, NEW s \in {"open", "in", "gone", "lost"}, NEW c \in Content
    PROVE  /\ [r EXCEPT !.state = s] \in Rows /\ [r EXCEPT !.content = c] \in Rows
  BY DEF Rows, Content

LEMMA Closes ==
    ASSUME TypeOK, NEW W \in SUBSET Writers, NEW s \in {"in", "gone"}, Close(W, s)
    PROVE  /\ table' \in Seq(Rows) /\ Len(table') = Len(table) /\ Ids' = Ids /\ Keeps
           /\ \A i \in Ids :
                table'[i] = IF table[i].state = "open" /\ table[i].by \in W
                            THEN [table[i] EXCEPT !.state = s] ELSE table[i]
<1>1. \A i \in Ids :
        table'[i] = IF table[i].state = "open" /\ table[i].by \in W
                    THEN [table[i] EXCEPT !.state = s] ELSE table[i]
  BY DEF Close, Ids
<1>2. \A i \in Ids : table'[i] \in Rows
  <2>1. \A i \in Ids : [table[i] EXCEPT !.state = s] \in Rows
    BY TableFacts, ColumnTypes, Content # {} DEF Content
  <2> QED
    BY <1>1, <2>1, TableFacts
<1>3. table' \in [1 .. Len(table) -> Rows]
  BY <1>2, TableFacts DEF Close, Ids
<1>4. table' \in Seq(Rows) /\ Len(table') = Len(table)
  BY <1>3, IsSeq, TableFacts
<1>5. Ids' = Ids
  BY DEF Close, Ids
<1>6. Keeps
  BY <1>1, <1>5, TableFacts DEF Keeps, Rows
<1> QED
  BY <1>1, <1>4, <1>5, <1>6

LEMMA Grows ==
    ASSUME TypeOK, NEW r \in Rows, table' = Append(table, r)
    PROVE  /\ table' \in Seq(Rows) /\ Len(table') = Len(table) + 1 /\ Keeps
           /\ Ids' = Ids \union {Len(table) + 1}
           /\ \A i \in Ids : table'[i] = table[i]
           /\ table'[Len(table) + 1] = r
<1>1. table \in Seq(Rows) /\ Len(table) \in Nat
  BY TableFacts DEF TypeOK
<1>2. /\ table' \in Seq(Rows) /\ Len(table') = Len(table) + 1
      /\ \A i \in 1 .. Len(table) : table'[i] = table[i]
      /\ table'[Len(table) + 1] = r
  BY <1>1, AppendProperties
<1>3. Ids' = Ids \union {Len(table) + 1}
  <2>1. Ids' = 1 .. Len(table')
    BY <1>2, LenProperties DEF Ids
  <2> QED
    BY <1>1, <1>2, <2>1, TableFacts
<1> QED
  BY <1>2, <1>3, TableFacts DEF Keeps

LEMMA Damages ==
    ASSUME TypeOK, NEW i \in Ids, NEW r \in Rows, table' = [table EXCEPT ![i] = r],
           r.by = table[i].by, r.key = table[i].key, r.member = table[i].member,
           r.prev = table[i].prev, r.hash = table[i].hash, r.after = table[i].after
    PROVE  /\ table' \in Seq(Rows) /\ Len(table') = Len(table) /\ Ids' = Ids /\ Keeps
           /\ \A j \in Ids : table'[j] = IF j = i THEN r ELSE table[j]
<1>1. /\ table' \in Seq(Rows) /\ Len(table') = Len(table)
      /\ \A j \in Ids : table'[j] = IF j = i THEN r ELSE table[j]
  BY ExceptSeq, TableFacts DEF TypeOK
<1>2. Ids' = Ids
  BY DEF Ids
<1> QED
  BY <1>1, <1>2 DEF Keeps

LEMMA RowType ==
    ASSUME TypeOK, ChainAssumption, NEW w \in Writers
    PROVE  /\ Row(w) \in Rows /\ Row(w).by = w /\ Row(w).state = "open"
           /\ Row(w).member = IF Open(w) = {} THEN 1 ELSE 2
<1>1. last[w] \in SUBSET Ids
  BY DEF TypeOK, Ids
<1> DEFINE prev == HashOf(last[w])
           hash == ComputeHash(prev, w, key[at[w]])
<1>2. prev \in Seq(Content \X Nat)
  BY <1>1, HashType
<1>3. key[at[w]] \in Nat
  BY DEF TypeOK, ChainAssumption
<1>4. hash \in Seq(Content \X Nat)
  BY <1>2, <1>3, AppendProperties DEF ComputeHash, Content
<1>5. last[w] \in SUBSET Nat
  BY <1>1, TableFacts
<1>6. Row(w) = [by |-> w, member |-> IF Open(w) = {} THEN 1 ELSE 2, after |-> last[w],
                prev |-> prev, content |-> w, key |-> key[at[w]], hash |-> hash,
                state |-> "open"]
  BY DEF Row
<1> HIDE DEF prev, hash
<1> QED
  BY <1>2, <1>3, <1>4, <1>5, <1>6 DEF Rows, Content

LEMMA UnhashedType == Unhashed \in Rows
  BY EmptySeq DEF Unhashed, Rows
-----------------------------------------------------------------------------
(* Types.                                                                  *)

LEMMA TypeInit == Init => TypeOK
<1> SUFFICES ASSUME Init PROVE TypeOK
  OBVIOUS
<1>1. table \in Seq(Rows)
  <2>1. <<>> \in Seq(Rows) /\ <<Unhashed>> \in Seq(Rows)
    BY UnhashedType, EmptySeq
  <2> QED
    BY <2>1 DEF Init
<1>2. queue \in [Processes -> Seq(Writers)]
  BY EmptySeq DEF Init
<1>3. key \in [Processes -> 0 .. MaxKey] /\ restarts \in 0 .. MaxRestarts
      /\ damage \in 0 .. MaxDamage /\ altered \subseteq DOMAIN table
  BY ChainAssumption DEF Init
<1>4. last \in [Writers -> SUBSET DOMAIN table] /\ size \in [Writers -> 0 .. 2]
  BY DEF Init
<1> QED
  BY <1>1, <1>2, <1>3, <1>4 DEF Init, TypeOK

\* Steps on the table alone need the type of its rows only.
LEMMA LastKept ==
    ASSUME TypeOK, Ids \subseteq Ids', UNCHANGED last
    PROVE  (last \in [Writers -> SUBSET DOMAIN table])'
  BY DEF TypeOK, Ids

LEMMA CloseType ==
    ASSUME TypeOK, NEW W \in SUBSET Writers, NEW s \in {"in", "gone"}, Close(W, s),
           UNCHANGED <<last, altered>>
    PROVE  /\ table' \in Seq(Rows) /\ last' \in [Writers -> SUBSET DOMAIN table']
           /\ altered' \subseteq DOMAIN table'
<1>1. table' \in Seq(Rows) /\ Ids' = Ids
  BY Closes
<1> QED
  BY <1>1, LastKept DEF Ids, TypeOK

LEMMA GrowType ==
    ASSUME TypeOK, NEW r \in Rows, table' = Append(table, r), UNCHANGED <<last, altered>>
    PROVE  /\ table' \in Seq(Rows) /\ last' \in [Writers -> SUBSET DOMAIN table']
           /\ altered' \subseteq DOMAIN table'
<1>1. table' \in Seq(Rows) /\ Ids \subseteq Ids'
  BY Grows
<1> QED
  BY <1>1, LastKept DEF Ids, TypeOK

LEMMA QueueType ==
    ASSUME TypeOK, NEW w \in Writers, Release(w),
           dialect = "sqlite" => queue[at[w]] # <<>>
    PROVE  queue' \in [Processes -> Seq(Writers)] /\ lock' \in Writers \union {Nobody}
<1>1. at[w] \in Processes /\ queue[at[w]] \in Seq(Writers)
  BY DEF TypeOK
<1>2. dialect = "sqlite" => Tail(queue[at[w]]) \in Seq(Writers)
  BY <1>1, HeadTailProperties
<1> QED
  BY <1>1, <1>2 DEF Release, TypeOK

LEMMA WriterTypes ==
    ASSUME TypeOK, NEW w \in Writers,
           Call(w) \/ Acquire(w) \/ ReadLast(w) \/ Insert(w) \/ GiveUp(w)
    PROVE  TypeOK'
<1> USE DEF setting, patrol, outside
<1>1. CASE Call(w)
  <2>1. at[w] \in Processes /\ queue[at[w]] \in Seq(Writers)
    BY DEF TypeOK
  <2>2. Append(queue[at[w]], w) \in Seq(Writers)
    BY <2>1, AppendProperties
  <2>3. queue' \in [Processes -> Seq(Writers)]
    BY <1>1, <2>1, <2>2 DEF Call, TypeOK
  <2> QED
    BY <1>1, <2>3 DEF Call, TypeOK
<1>2. CASE Acquire(w) \/ GiveUp(w)
  BY <1>2 DEF Acquire, GiveUp, TypeOK
<1>3. CASE ReadLast(w)
  <2>1. Preceding(w) \subseteq DOMAIN table
    BY DEF Preceding, Hashed, Visible, Open, InState
  <2> QED
    BY <1>3, <2>1 DEF ReadLast, TypeOK
<1>4. CASE Insert(w)
  <2>1. Row(w) \in Rows
    BY RowType, ChainAssumption
  <2>2. /\ table' \in Seq(Rows) /\ last' \in [Writers -> SUBSET DOMAIN table']
        /\ altered' \subseteq DOMAIN table'
    BY <1>4, <2>1, GrowType DEF Insert
  <2> QED
    BY <1>4, <2>2 DEF Insert, TypeOK
<1> QED
  BY <1>1, <1>2, <1>3, <1>4

\* Only a writer in its job ends it, and that one is at the head of the queue.
LEMMA EndTypes ==
    ASSUME TypeOK, NEW w \in Writers, Commit(w) \/ Rollback(w),
           dialect = "sqlite" => queue[at[w]] # <<>>
    PROVE  TypeOK'
<1>1. PICK s \in {"in", "gone"} : Close({w}, s)
  BY DEF Commit, Rollback
<1>2. Release(w) /\ UNCHANGED <<last, altered>>
  BY DEF Commit, Rollback, outside
<1>3. /\ table' \in Seq(Rows) /\ last' \in [Writers -> SUBSET DOMAIN table']
      /\ altered' \subseteq DOMAIN table'
  BY <1>1, <1>2, CloseType
<1>4. queue' \in [Processes -> Seq(Writers)] /\ lock' \in Writers \union {Nobody}
  BY <1>2, QueueType
<1> QED
  BY <1>3, <1>4 DEF Commit, Rollback, TypeOK, setting, patrol, outside

LEMMA ProcessTypes ==
    ASSUME TypeOK, NEW p \in Processes, Restart(p) \/ Patrol(p) \/ Announce(p)
    PROVE  TypeOK'
<1> USE DEF setting, patrol, outside
<1>1. CASE Restart(p)
  <2> DEFINE hit == {w \in Writers : at[w] = p /\ (InJob(w) \/ pc[w] = "wait")}
  <2>1. /\ table' \in Seq(Rows) /\ last' \in [Writers -> SUBSET DOMAIN table']
        /\ altered' \subseteq DOMAIN table'
    BY <1>1, CloseType DEF Restart
  <2>2. queue' \in [Processes -> Seq(Writers)]
    BY <1>1, EmptySeq DEF Restart, TypeOK
  <2>3. /\ pc' \in [Writers -> {"idle", "wait", "read", "insert", "commit", "done", "failed"}]
        /\ lock' \in Writers \union {Nobody}
    BY <1>1 DEF Restart, TypeOK
  <2>4. key' \in [Processes -> 0 .. MaxKey]
    BY <1>1, ChainAssumption DEF Restart, TypeOK
  <2>5. restarts' \in 0 .. MaxRestarts
    BY <1>1, ChainAssumption DEF Restart, TypeOK
  <2>6. /\ seen' \in [Processes -> BOOLEAN] /\ telling' \in [Processes -> BOOLEAN]
        /\ announced' \in BOOLEAN /\ unheard' \in BOOLEAN
    BY <1>1 DEF Restart, TypeOK
  <2> QED
    BY <1>1, <2>1, <2>2, <2>3, <2>4, <2>5, <2>6 DEF Restart, TypeOK
<1>2. CASE Patrol(p)
  BY <1>2 DEF Patrol, TypeOK
<1>3. CASE Announce(p)
  BY <1>3 DEF Announce, TypeOK
<1> QED
  BY <1>1, <1>2, <1>3

LEMMA Altering ==
    ASSUME TypeOK, NEW i \in Ids, Alter(i) \/ Lose(i)
    PROVE  /\ table' \in Seq(Rows) /\ Len(table') = Len(table) /\ Ids' = Ids /\ Keeps
           /\ table[i].hash # <<>> /\ table[i].state = "in"
           /\ \A j \in Ids : j # i => table'[j] = table[j]
           /\ Alter(i) => table'[i] = [table[i] EXCEPT !.content = "altered"]
           /\ Lose(i) => table'[i] = [table[i] EXCEPT !.state = "lost"]
<1> DEFINE a == [table[i] EXCEPT !.content = "altered"]
           l == [table[i] EXCEPT !.state = "lost"]
<1>1. table[i] \in Rows
  BY TableFacts
<1>2. a \in Rows /\ l \in Rows
  BY <1>1, ColumnTypes DEF Content
<1>3. /\ a.by = table[i].by /\ a.key = table[i].key /\ a.member = table[i].member
      /\ a.prev = table[i].prev /\ a.hash = table[i].hash /\ a.after = table[i].after
      /\ l.by = table[i].by /\ l.key = table[i].key /\ l.member = table[i].member
      /\ l.prev = table[i].prev /\ l.hash = table[i].hash /\ l.after = table[i].after
  BY <1>1 DEF Rows
<1>4. /\ Alter(i) => table' = [table EXCEPT ![i] = a]
      /\ Lose(i) => table' = [table EXCEPT ![i] = l]
      /\ table[i].hash # <<>> /\ table[i].state = "in"
  BY DEF Alter, Lose
<1> HIDE DEF a, l
<1> DEFINE Shape ==
      /\ table' \in Seq(Rows) /\ Len(table') = Len(table) /\ Ids' = Ids /\ Keeps
      /\ \A j \in Ids : j # i => table'[j] = table[j]
<1>5. Alter(i) => Shape /\ table'[i] = a
  BY <1>2, <1>3, <1>4, Damages
<1>6. Lose(i) => Shape /\ table'[i] = l
  BY <1>2, <1>3, <1>4, Damages
<1> QED
  BY <1>4, <1>5, <1>6 DEF a, l

LEMMA OutsideTypes ==
    ASSUME TypeOK, InsertPlain \/ \E i \in Ids : Alter(i) \/ Lose(i)
    PROVE  TypeOK'
<1> USE DEF setting, patrol, outside
<1>1. CASE InsertPlain
  <2>1. /\ table' \in Seq(Rows) /\ last' \in [Writers -> SUBSET DOMAIN table']
        /\ altered' \subseteq DOMAIN table'
    BY <1>1, UnhashedType, GrowType DEF InsertPlain
  <2>2. damage' \in 0 .. MaxDamage
    BY <1>1, ChainAssumption DEF InsertPlain, TypeOK
  <2> QED
    BY <1>1, <2>1, <2>2 DEF InsertPlain, TypeOK
<1>2. ASSUME NEW i \in Ids, Alter(i) \/ Lose(i)
      PROVE  TypeOK'
  <2>1. table' \in Seq(Rows) /\ Ids' = Ids
    BY <1>2, Altering
  <2>2. damage' \in 0 .. MaxDamage
    BY <1>2, ChainAssumption DEF Alter, Lose, TypeOK
  <2>3. last' \in [Writers -> SUBSET DOMAIN table'] /\ altered' \subseteq DOMAIN table'
    BY <1>2, <2>1 DEF Ids, Alter, Lose, TypeOK
  <2> QED
    BY <1>2, <2>1, <2>2, <2>3 DEF Alter, Lose, TypeOK
<1> QED
  BY <1>1, <1>2
-----------------------------------------------------------------------------
(* One writer at a time.                                                   *)

LEMMA InQueue ==
    ASSUME TypeOK, Turns, NEW w \in Writers, InJob(w) \/ pc[w] = "wait", dialect = "sqlite"
    PROVE  /\ queue[at[w]] \in Seq(Writers) /\ Len(queue[at[w]]) \in Nat \ {0}
           /\ queue[at[w]] # <<>> /\ Head(queue[at[w]]) = queue[at[w]][1]
<1>1. queue[at[w]] \in Seq(Writers)
  BY DEF TypeOK
<1>2. \E n \in 1 .. Len(queue[at[w]]) : queue[at[w]][n] = w
  BY DEF Turns
<1>3. Len(queue[at[w]]) \in Nat \ {0}
  BY <1>1, <1>2, LenProperties
<1>4. queue[at[w]] # <<>>
  BY <1>3, EmptySeq
<1> QED
  BY <1>1, <1>3, <1>4

LEMMA Exclusive ==
    ASSUME TypeOK, OneProcess, Turns, NEW v \in Writers, NEW w \in Writers,
           InJob(v), InJob(w)
    PROVE  v = w
  BY DEF TypeOK, OneProcess, Turns

LEMMA Undisturbed ==
    ASSUME Turns, OneProcess, UNCHANGED <<setting, pc, lock, queue>>
    PROVE  Turns' /\ OneProcess'
  BY DEF Turns, OneProcess, InJob, setting

LEMMA CallTurns ==
    ASSUME TypeOK, Turns, NEW w \in Writers, Call(w)
    PROVE  Turns'
<1>1. /\ pc[w] = "idle" /\ pc'[w] = "wait" /\ \A v \in Writers : v # w => pc'[v] = pc[v]
      /\ UNCHANGED <<dialect, at, lock>>
      /\ \A v \in Writers : (InJob(v)' <=> InJob(v)) /\ (v # w => (pc'[v] = "wait" <=> pc[v] = "wait"))
  BY DEF Call, setting, TypeOK, InJob
<1>2. ASSUME NEW v \in Writers, InJob(v)', dialect = "postgres"
      PROVE  lock' = v
  BY <1>1, <1>2 DEF Turns
<1>3. ASSUME NEW v \in Writers, InJob(v) \/ pc[v] = "wait" \/ v = w, dialect = "sqlite"
      PROVE  /\ \E n \in 1 .. Len(queue'[at[v]]) : queue'[at[v]][n] = v
             /\ InJob(v) => Head(queue'[at[v]]) = v
  <2> DEFINE q == queue[at[v]]
  <2>1. q \in Seq(Writers) /\ at[v] \in Processes
    BY DEF TypeOK
  <2>2. Len(q) \in Nat
    BY <2>1, LenProperties
  <2>3. queue'[at[v]] = IF at[v] = at[w] THEN Append(q, w) ELSE q
    BY <1>3, <2>1 DEF Call, TypeOK
  <2>4. /\ Append(q, w) \in Seq(Writers) /\ Len(Append(q, w)) = Len(q) + 1
        /\ \A n \in 1 .. Len(q) : Append(q, w)[n] = q[n]
        /\ Append(q, w)[Len(q) + 1] = w
    BY <2>1, AppendProperties
  <2>5. CASE v = w
    <3>1. queue'[at[v]] = Append(q, w) /\ ~InJob(v)
      BY <1>1, <2>3, <2>5 DEF InJob
    <3>2. Len(q) + 1 \in 1 .. Len(Append(q, w))
      BY <2>2, <2>4
    <3> QED
      BY <2>4, <2>5, <3>1, <3>2
  <2>6. CASE v # w
    <3>1. PICK n \in 1 .. Len(q) : q[n] = v
      BY <1>3, <2>6 DEF Turns
    <3>2. /\ queue'[at[v]][n] = v /\ n \in 1 .. Len(queue'[at[v]])
          /\ queue'[at[v]][1] = q[1]
      BY <2>2, <2>3, <2>4, <3>1
    <3>3. Head(q) = q[1] /\ Head(queue'[at[v]]) = queue'[at[v]][1]
      <4>1. queue'[at[v]] \in Seq(Writers) /\ queue'[at[v]] # <<>> /\ q # <<>>
        BY <2>1, <2>3, <2>4, <3>1, <3>2, EmptySeq
      <4> QED
        BY <2>1, <4>1
    <3> QED
      BY <1>3, <3>2, <3>3 DEF Turns
  <2> QED
    BY <2>5, <2>6
<1> QED
  BY <1>1, <1>2, <1>3 DEF Turns

LEMMA JobTurns ==
    ASSUME TypeOK, Turns, NEW w \in Writers,
           Acquire(w) \/ ReadLast(w) \/ Insert(w) \/ GiveUp(w)
    PROVE  Turns'
<1>1. UNCHANGED <<dialect, at, queue>> /\ \A v \in Writers : v # w => pc'[v] = pc[v]
  BY DEF Acquire, ReadLast, Insert, GiveUp, setting, TypeOK
<1>2. CASE Acquire(w)
  <2>1. InJob(w)' /\ pc[w] = "wait" /\ pc'[w] = "read"
    BY <1>2 DEF Acquire, InJob, TypeOK
  <2>2. dialect = "postgres" => lock' = w /\ \A v \in Writers : ~InJob(v)
    BY <1>2, ChainAssumption DEF Acquire, Turns
  <2>3. dialect = "sqlite" => Head(queue[at[w]]) = w /\ UNCHANGED lock
    BY <1>2 DEF Acquire
  <2> QED
    BY <1>1, <2>1, <2>2, <2>3 DEF Turns, InJob
<1>3. CASE ReadLast(w) \/ Insert(w)
  <2>1. InJob(w) /\ pc'[w] # "wait" /\ UNCHANGED lock
    BY <1>3 DEF ReadLast, Insert, InJob, TypeOK
  <2> QED
    BY <1>1, <2>1 DEF Turns, InJob
<1>4. CASE GiveUp(w)
  <2>1. pc'[w] = "failed" /\ UNCHANGED lock
    BY <1>4 DEF GiveUp, TypeOK
  <2> QED
    BY <1>1, <2>1 DEF Turns, InJob
<1> QED
  BY <1>2, <1>3, <1>4

LEMMA EndTurns ==
    ASSUME TypeOK, OneProcess, Turns, NEW w \in Writers, Commit(w) \/ Rollback(w)
    PROVE  Turns'
<1>1. /\ UNCHANGED <<dialect, at>> /\ Release(w) /\ InJob(w) /\ pc'[w] \in {"done", "failed"}
      /\ \A v \in Writers : v # w => pc'[v] = pc[v]
  BY DEF Commit, Rollback, setting, TypeOK, InJob
<1>2. \A v \in Writers : ~InJob(v)'
  BY <1>1, Exclusive DEF InJob
<1>3. ASSUME NEW v \in Writers, pc'[v] = "wait", dialect = "sqlite"
      PROVE  \E n \in 1 .. Len(queue'[at[v]]) : queue'[at[v]][n] = v
  <2> DEFINE q == queue[at[v]]
  <2>1. v # w /\ pc[v] = "wait" /\ at[v] = at[w]
    BY <1>1, <1>3 DEF OneProcess
  <2>2. q \in Seq(Writers) /\ q # <<>> /\ Head(q) = q[1] /\ Len(q) \in Nat \ {0}
    BY <1>3, <2>1, InQueue
  <2>3. q[1] = w
    BY <1>1, <1>3, <2>1, <2>2 DEF Turns
  <2>4. PICK n \in 1 .. Len(q) : q[n] = v
    BY <1>3, <2>1 DEF Turns
  <2>5. n # 1
    BY <2>1, <2>3, <2>4
  <2>6. queue'[at[v]] = Tail(q)
    BY <1>1, <1>3, <2>1 DEF Release, TypeOK
  <2>7. Len(Tail(q)) = Len(q) - 1 /\ \A i \in 1 .. Len(Tail(q)) : Tail(q)[i] = q[i + 1]
    BY <2>2, HeadTailProperties
  <2>8. n - 1 \in 1 .. Len(Tail(q)) /\ Tail(q)[n - 1] = v
    BY <2>2, <2>4, <2>5, <2>7
  <2> QED
    BY <2>6, <2>8
<1> QED
  BY <1>1, <1>2, <1>3 DEF Turns

LEMMA RestartTurns ==
    ASSUME TypeOK, Turns, NEW p \in Processes, Restart(p)
    PROVE  Turns'
<1>1. /\ UNCHANGED <<dialect, at>>
      /\ \A q \in Processes : q # p => queue'[q] = queue[q]
  BY DEF Restart, setting, TypeOK
<1>2. ASSUME NEW v \in Writers, InJob(v)' \/ pc'[v] = "wait"
      PROVE  pc'[v] = pc[v] /\ at[v] # p /\ at[v] \in Processes
  BY <1>2 DEF Restart, InJob, TypeOK
<1>3. ASSUME NEW v \in Writers, InJob(v)', dialect = "postgres"
      PROVE  lock' = v
  <2>1. InJob(v) /\ at[v] # p
    BY <1>2, <1>3 DEF InJob
  <2>2. lock = v
    BY <1>3, <2>1 DEF Turns
  <2> QED
    BY <2>1, <2>2 DEF Restart
<1> QED
  BY <1>1, <1>2, <1>3 DEF Turns, InJob

LEMMA TurnsStep ==
    ASSUME TypeOK, OneProcess, Turns, [Next]_vars
    PROVE  TypeOK' /\ OneProcess' /\ Turns'
<1>1. ASSUME NEW w \in Writers, Call(w) \/ Work(w) \/ GiveUp(w)
      PROVE  TypeOK' /\ OneProcess' /\ Turns'
  <2>1. OneProcess'
    BY <1>1 DEF OneProcess, Call, Work, GiveUp, Acquire, ReadLast, Insert, Commit, Rollback, setting
  <2>2. CASE Call(w) \/ Acquire(w) \/ ReadLast(w) \/ Insert(w) \/ GiveUp(w)
    BY <2>1, <2>2, WriterTypes, CallTurns, JobTurns
  <2>3. CASE Commit(w) \/ Rollback(w)
    <3>1. InJob(w)
      BY <2>3 DEF Commit, Rollback, InJob
    <3> QED
      BY <2>1, <2>3, <3>1, InQueue, EndTypes, EndTurns
  <2> QED
    BY <1>1, <2>2, <2>3 DEF Work
<1>2. ASSUME NEW p \in Processes, Restart(p) \/ Patrol(p) \/ Announce(p)
      PROVE  TypeOK' /\ OneProcess' /\ Turns'
  <2>1. TypeOK'
    BY <1>2, ProcessTypes
  <2>2. CASE Restart(p)
    BY <2>1, <2>2, RestartTurns DEF OneProcess, Restart, setting
  <2>3. CASE Patrol(p) \/ Announce(p)
    BY <2>1, <2>3, Undisturbed DEF Patrol, Announce
  <2> QED
    BY <1>2, <2>2, <2>3
<1>3. CASE InsertPlain \/ \E i \in Ids : Alter(i) \/ Lose(i)
  <2>1. UNCHANGED <<setting, pc, lock, queue>>
    BY <1>3 DEF InsertPlain, Alter, Lose
  <2> QED
    BY <1>3, <2>1, OutsideTypes, Undisturbed
<1>4. CASE UNCHANGED vars
  <2>1. TypeOK'
    BY <1>4 DEF TypeOK, vars, setting, patrol, outside
  <2> QED
    BY <1>4, <2>1, Undisturbed DEF vars
<1> QED
  BY <1>1, <1>2, <1>3, <1>4 DEF Next, Ids
-----------------------------------------------------------------------------
(* What a writer has in the table.                                         *)

LEMMA OwnKept ==
    ASSUME TypeOK, Keeps, Ids' = Ids, NEW w \in Writers
    PROVE  Own(w)' = Own(w) /\ MembersOf(w)' = MembersOf(w)
<1>1. Own(w)' = Own(w)
  BY DEF Own, Keeps
<1>2. \A i \in Own(w) : table'[i].member = table[i].member
  BY DEF Own, Keeps
<1> QED
  BY <1>1, <1>2 DEF MembersOf

LEMMA OwnRows ==
    ASSUME TypeOK, Jobs, NEW w \in Writers, NEW i \in Own(w)
    PROVE  /\ i \in Ids /\ table[i].by = w
           /\ table[i].state = "open" => InJob(w)
           /\ InJob(w) => table[i].state = "open"
           /\ table[i].state \in {"in", "lost"} => AllIn(w, {"in", "lost"})
<1>1. JobOf(w) /\ i \in Ids /\ table[i].by = w
  BY DEF Jobs, Own
<1>2. pc[w] \in {"idle", "wait", "read", "insert", "commit", "done", "failed"}
  BY DEF TypeOK
<1> QED
  BY <1>1, <1>2 DEF JobOf, AllIn, InJob

LEMMA JobAlone ==
    ASSUME NEW w \in Writers, JobOf(w), pc'[w] = pc[w], size'[w] = size[w],
           Own(w)' = Own(w), MembersOf(w)' = MembersOf(w),
           \A i \in Own(w) : table'[i].state = table[i].state
    PROVE  JobOf(w)'
<1>1. \A S : AllIn(w, S) => AllIn(w, S)'
  BY DEF AllIn
<1> QED
  BY <1>1 DEF JobOf

\* A table that is left alone leaves the rows of each writer alone.
LEMMA SameOwn ==
    ASSUME NEW w \in Writers, UNCHANGED table
    PROVE  /\ Own(w)' = Own(w) /\ MembersOf(w)' = MembersOf(w)
           /\ \A i \in Own(w) : table'[i].state = table[i].state
           /\ \A S : AllIn(w, S) <=> AllIn(w, S)'
  BY DEF Own, MembersOf, AllIn, Ids

LEMMA QuietJobs ==
    ASSUME TypeOK, Jobs, NEW w \in Writers,
           Call(w) \/ Acquire(w) \/ ReadLast(w) \/ GiveUp(w)
    PROVE  Jobs'
<1>1. /\ UNCHANGED table
      /\ \A v \in Writers : v # w => pc'[v] = pc[v] /\ size'[v] = size[v]
  BY DEF Call, Acquire, ReadLast, GiveUp, TypeOK
<1>2. \A v \in Writers : v # w => JobOf(v)'
  BY <1>1, SameOwn, JobAlone DEF Jobs
<1>3. JobOf(w)
  BY DEF Jobs
<1>4. Own(w)' = Own(w) /\ MembersOf(w)' = MembersOf(w) /\ \A S : AllIn(w, S) <=> AllIn(w, S)'
  BY <1>1, SameOwn
<1>5. CASE Call(w)
  <2>1. pc[w] = "idle" /\ pc'[w] = "wait" /\ size'[w] \in {1, 2}
    BY <1>5 DEF Call, TypeOK
  <2> QED
    BY <1>2, <1>3, <1>4, <2>1 DEF Jobs, JobOf
<1>6. CASE Acquire(w) \/ GiveUp(w)
  <2>1. pc[w] = "wait" /\ pc'[w] \in {"read", "failed"} /\ size'[w] = size[w]
    BY <1>6 DEF Acquire, GiveUp, TypeOK
  <2>2. Own(w) = {} /\ MembersOf(w) = {} /\ \A S : AllIn(w, S)
    BY <1>3, <2>1 DEF JobOf, MembersOf, AllIn
  <2>3. \A S : AllIn(w, S)'
    BY <1>4, <2>2 DEF AllIn
  <2> QED
    BY <1>2, <1>3, <1>4, <2>1, <2>2, <2>3 DEF Jobs, JobOf
<1>7. CASE ReadLast(w)
  <2>1. pc[w] = "read" /\ pc'[w] = "insert" /\ size'[w] = size[w]
    BY <1>7 DEF ReadLast, TypeOK
  <2> QED
    BY <1>2, <1>3, <1>4, <2>1 DEF Jobs, JobOf
<1> QED
  BY <1>5, <1>6, <1>7

LEMMA InsertJobs ==
    ASSUME TypeOK, Jobs, NEW w \in Writers, Insert(w)
    PROVE  Jobs'
<1> DEFINE n == Len(table) + 1
<1>1. /\ Row(w) \in Rows /\ Row(w).by = w /\ Row(w).state = "open"
      /\ Row(w).member = IF Open(w) = {} THEN 1 ELSE 2
  BY RowType, ChainAssumption
<1>2. /\ Ids' = Ids \union {n} /\ \A i \in Ids : table'[i] = table[i]
      /\ table'[n] = Row(w) /\ n \notin Ids
  BY <1>1, Grows, TableFacts DEF Insert
<1>3. /\ pc[w] = "insert" /\ pc'[w] = IF Row(w).member = size[w] THEN "commit" ELSE "read"
      /\ size' = size /\ \A v \in Writers : v # w => pc'[v] = pc[v]
  BY DEF Insert, TypeOK
<1>4. ASSUME NEW v \in Writers, v # w
      PROVE  JobOf(v)'
  <2>1. Own(v)' = Own(v)
    BY <1>1, <1>2, <1>4 DEF Own
  <2>2. \A i \in Own(v) : table'[i] = table[i]
    BY <1>2 DEF Own
  <2>3. MembersOf(v)' = MembersOf(v)
    BY <2>1, <2>2 DEF MembersOf
  <2> QED
    BY <1>3, <1>4, <2>1, <2>2, <2>3, JobAlone DEF Jobs
<1>5. JobOf(w)'
  <2>1. Own(w)' = Own(w) \union {n}
    BY <1>1, <1>2 DEF Own
  <2>2. MembersOf(w)' = MembersOf(w) \union {Row(w).member}
    BY <1>2, <2>1 DEF MembersOf, Own
  <2>3. AllIn(w, {"open"}) /\ (MembersOf(w) = {} \/ (MembersOf(w) = {1} /\ size[w] = 2))
        /\ size[w] \in {1, 2}
    BY <1>3 DEF Jobs, JobOf
  <2>4. AllIn(w, {"open"})'
    BY <1>1, <1>2, <2>1, <2>3 DEF AllIn, Own
  <2>5. Open(w) = Own(w)
    BY <2>3 DEF Open, Own, AllIn, InState, Ids
  <2>6. CASE MembersOf(w) = {}
    <3>1. Own(w) = {}
      BY <2>6 DEF MembersOf
    <3>2. Row(w).member = 1 /\ MembersOf(w)' = {1}
      BY <1>1, <2>2, <2>5, <2>6, <3>1
    <3> QED
      BY <1>3, <2>3, <2>4, <3>2 DEF JobOf
  <2>7. CASE MembersOf(w) = {1} /\ size[w] = 2
    <3>1. Own(w) # {}
      BY <2>7 DEF MembersOf
    <3>2. Row(w).member = 2 /\ MembersOf(w)' = 1 .. 2
      BY <1>1, <2>2, <2>5, <2>7, <3>1
    <3> QED
      BY <1>3, <2>4, <2>7, <3>2 DEF JobOf
  <2> QED
    BY <2>3, <2>6, <2>7
<1> QED
  BY <1>4, <1>5 DEF Jobs

LEMMA EndJobs ==
    ASSUME TypeOK, Jobs, NEW w \in Writers, Commit(w) \/ Rollback(w)
    PROVE  Jobs'
<1>1. PICK s \in {"in", "gone"} :
        /\ Close({w}, s) /\ InJob(w) /\ UNCHANGED size
        /\ s = "in" => pc[w] = "commit" /\ pc'[w] \in {"done", "failed"}
        /\ s = "gone" => pc'[w] = "failed"
        /\ \A v \in Writers : v # w => pc'[v] = pc[v]
  BY DEF Commit, Rollback, InJob, TypeOK
<1>2. /\ Ids' = Ids /\ Keeps
      /\ \A i \in Ids :
           table'[i] = IF table[i].state = "open" /\ table[i].by = w
                       THEN [table[i] EXCEPT !.state = s] ELSE table[i]
  <2>1. {w} \in SUBSET Writers
    OBVIOUS
  <2> QED
    BY <1>1, <2>1, Closes
<1>3. \A v \in Writers : Own(v)' = Own(v) /\ MembersOf(v)' = MembersOf(v)
  BY <1>2, OwnKept
<1>4. ASSUME NEW v \in Writers, v # w
      PROVE  JobOf(v)'
  <2>1. \A i \in Own(v) : table'[i].state = table[i].state
    BY <1>2, <1>4 DEF Own
  <2> QED
    BY <1>1, <1>3, <1>4, <2>1, JobAlone DEF Jobs
<1>5. JobOf(w)'
  <2>1. AllIn(w, {"open"}) /\ size[w] \in {1, 2} /\ (s = "in" => MembersOf(w) = 1 .. size[w])
    BY <1>1 DEF Jobs, JobOf, InJob
  <2>2. ASSUME NEW i \in Own(w)
        PROVE  table'[i].state = s
    <3>1. i \in Ids /\ table[i].by = w /\ table[i].state = "open" /\ table[i] \in Rows
      BY <2>1, TableFacts DEF AllIn, Own
    <3> QED
      BY <1>2, <3>1 DEF Rows
  <2>3. AllIn(w, {s})'
    BY <1>3, <2>2 DEF AllIn
  <2>4. CASE s = "in"
    <3>1. AllIn(w, {"in", "lost"})'
      BY <2>3, <2>4 DEF AllIn
    <3> QED
      BY <1>1, <1>3, <2>1, <2>4, <3>1 DEF JobOf
  <2>5. CASE s = "gone"
    BY <1>1, <1>3, <2>1, <2>3, <2>5 DEF JobOf
  <2> QED
    BY <2>4, <2>5
<1> QED
  BY <1>4, <1>5 DEF Jobs

Hit(p) == {w \in Writers : at[w] = p /\ (InJob(w) \/ pc[w] = "wait")}

LEMMA RestartTable ==
    ASSUME TypeOK, NEW p \in Processes, Restart(p)
    PROVE  /\ Len(table') = Len(table) /\ Ids' = Ids /\ Keeps
           /\ \A i \in Ids :
                table'[i] = IF table[i].state = "open" /\ table[i].by \in Hit(p)
                            THEN [table[i] EXCEPT !.state = "gone"] ELSE table[i]
           /\ \A w \in Writers : pc'[w] = IF w \in Hit(p) THEN "failed" ELSE pc[w]
           /\ UNCHANGED <<setting, size, last, altered>>
<1>1. Close(Hit(p), "gone") /\ Hit(p) \in SUBSET Writers
  BY DEF Restart, Hit
<1>2. /\ Len(table') = Len(table) /\ Ids' = Ids /\ Keeps
      /\ \A i \in Ids :
           table'[i] = IF table[i].state = "open" /\ table[i].by \in Hit(p)
                       THEN [table[i] EXCEPT !.state = "gone"] ELSE table[i]
  BY <1>1, Closes
<1> QED
  BY <1>2 DEF Restart, Hit, outside

LEMMA RestartJobs ==
    ASSUME TypeOK, Jobs, NEW p \in Processes, Restart(p)
    PROVE  Jobs'
<1>1. \A v \in Writers : Own(v)' = Own(v) /\ MembersOf(v)' = MembersOf(v) /\ size'[v] = size[v]
  BY RestartTable, OwnKept
<1>2. ASSUME NEW v \in Writers, v \notin Hit(p)
      PROVE  JobOf(v)'
  <2>1. \A i \in Own(v) : table'[i].state = table[i].state
    BY <1>2, RestartTable DEF Own
  <2> QED
    BY <1>1, <1>2, <2>1, RestartTable, JobAlone DEF Jobs
<1>3. ASSUME NEW w \in Writers, w \in Hit(p)
      PROVE  JobOf(w)'
  <2>1. AllIn(w, {"open"}) /\ size[w] \in {1, 2}
    BY <1>3 DEF Jobs, JobOf, Hit, InJob, AllIn
  <2>2. ASSUME NEW i \in Own(w)
        PROVE  table'[i].state = "gone"
    <3>1. i \in Ids /\ table[i].by = w /\ table[i].state = "open" /\ table[i] \in Rows
      BY <2>1, TableFacts DEF AllIn, Own
    <3> QED
      BY <1>3, <3>1, RestartTable DEF Rows
  <2>3. AllIn(w, {"gone"})'
    BY <1>1, <2>2 DEF AllIn
  <2>4. pc'[w] = "failed"
    BY <1>3, RestartTable
  <2> QED
    BY <1>1, <2>1, <2>3, <2>4 DEF JobOf
<1> QED
  BY <1>2, <1>3 DEF Jobs

LEMMA OutsideJobs ==
    ASSUME TypeOK, Jobs, InsertPlain \/ \E i \in Ids : Alter(i) \/ Lose(i)
    PROVE  Jobs'
<1>1. UNCHANGED <<pc, size>>
  BY DEF InsertPlain, Alter, Lose
<1>2. ASSUME InsertPlain, NEW v \in Writers
      PROVE  JobOf(v)'
  <2>1. /\ Ids' = Ids \union {Len(table) + 1} /\ \A i \in Ids : table'[i] = table[i]
        /\ table'[Len(table) + 1] = Unhashed
    BY <1>2, Grows, UnhashedType DEF InsertPlain
  <2>2. Own(v)' = Own(v)
    BY <2>1, ChainAssumption DEF Own, Unhashed
  <2>3. \A i \in Own(v) : table'[i] = table[i]
    BY <2>1 DEF Own
  <2>4. MembersOf(v)' = MembersOf(v)
    BY <2>2, <2>3 DEF MembersOf
  <2> QED
    BY <1>1, <2>2, <2>3, <2>4, JobAlone DEF Jobs
<1>3. ASSUME NEW i \in Ids, Alter(i) \/ Lose(i), NEW v \in Writers
      PROVE  JobOf(v)'
  <2>1. Own(v)' = Own(v) /\ MembersOf(v)' = MembersOf(v)
    BY <1>3, Altering, OwnKept
  <2>2. table[i] \in Rows
    BY TableFacts
  <2>3. \A j \in Ids : \/ table'[j].state = table[j].state
                       \/ table[j].state = "in" /\ table'[j].state = "lost"
    <3>1. /\ [table[i] EXCEPT !.content = "altered"].state = table[i].state
          /\ [table[i] EXCEPT !.state = "lost"].state = "lost"
      BY <2>2 DEF Rows
    <3> QED
      BY <1>3, <3>1, Altering
  <2>4. \A S \in {{"open"}, {"gone"}, {"in", "lost"}} : AllIn(v, S) => AllIn(v, S)'
    BY <2>1, <2>3 DEF AllIn, Own
  <2>5. JobOf(v) /\ pc'[v] = pc[v] /\ size'[v] = size[v]
    BY <1>1 DEF Jobs
  <2> QED
    BY <2>1, <2>4, <2>5 DEF JobOf
<1> QED
  BY <1>2, <1>3 DEF Jobs

LEMMA JobsStep ==
    ASSUME TypeOK, Jobs, [Next]_vars
    PROVE  Jobs'
<1>1. CASE UNCHANGED <<table, pc, size>>
  BY <1>1, SameOwn, JobAlone DEF Jobs
<1>2. ASSUME NEW w \in Writers, Call(w) \/ Work(w) \/ GiveUp(w)
      PROVE  Jobs'
  BY <1>2, QuietJobs, InsertJobs, EndJobs DEF Work
<1>3. ASSUME NEW p \in Processes, Restart(p) \/ Patrol(p) \/ Announce(p)
      PROVE  Jobs'
  BY <1>1, <1>3, RestartJobs DEF Patrol, Announce
<1>4. CASE InsertPlain \/ \E i \in Ids : Alter(i) \/ Lose(i)
  BY <1>4, OutsideJobs
<1> QED
  BY <1>1, <1>2, <1>3, <1>4 DEF Next, Ids, vars
-----------------------------------------------------------------------------
(* Rows: what was hashed into them.                                        *)

LEMMA RowKinds ==
    ASSUME TypeOK, NEW i \in Ids
    PROVE  /\ Plain(i) => table[i].hash = <<>> /\ table[i].state = "in"
           /\ Signed(i) => /\ table[i].hash # <<>>
                           /\ Len(table[i].hash) = Len(table[i].prev) + 1
<1>1. CASE Plain(i)
  BY <1>1, EmptySeq, ChainAssumption DEF Plain, Unhashed, Signed
<1>2. ASSUME Signed(i)
      PROVE  table[i].hash # <<>> /\ Len(table[i].hash) = Len(table[i].prev) + 1
  <2> DEFINE prev == table[i].prev
             e == <<table[i].by, table[i].key>>
  <2>1. prev \in Seq(Content \X Nat)
    BY TableFacts DEF Rows, Content
  <2>2. e \in Content \X Nat
    BY <1>2, ChainAssumption DEF Signed, Content
  <2>3. table[i].hash = Append(prev, e)
    BY <1>2 DEF Signed, ComputeHash
  <2> HIDE DEF prev, e
  <2>4. Append(prev, e) \in Seq(Content \X Nat) /\ Len(Append(prev, e)) = Len(prev) + 1
    BY <2>1, <2>2, AppendProperties
  <2>5. Len(prev) \in Nat
    BY <2>1, LenProperties
  <2>6. Len(<<>>) = 0
    BY EmptySeq
  <2> QED
    BY <2>3, <2>4, <2>5, <2>6 DEF prev
<1> QED
  BY <1>1, <1>2

LEMMA Unsigned ==
    ASSUME TypeOK, RowsSound, NEW i \in Ids
    PROVE  /\ i \in Hashed(Ids) <=> Signed(i)
           /\ i \notin Hashed(Ids) <=> Plain(i)
           /\ table[i].hash # <<>> <=> Signed(i)
  BY RowKinds DEF RowsSound, Hashed

\* The last hash of a set is that of its last hashed row: unhashed rows are left
\* out, or come before all others.
LEMMA LastSigned ==
    ASSUME TypeOK, RowsSound, NEW S \in SUBSET Ids, Hashed(S) # {},
           chain = "effect" => S \subseteq Hashed(S)
    PROVE  \E m \in Hashed(S) : (\A i \in S : i <= m) /\ HashOf(S) = table[m].hash
<1>1. PICK m \in S : (\A i \in S : i <= m) /\ HashOf(S) = table[m].hash
  <2>1. S # {}
    BY DEF Hashed
  <2> QED
    BY <2>1, LastHash
<1>2. m \in Hashed(S)
  <2>1. SUFFICES ASSUME m \notin Hashed(S) PROVE FALSE
    OBVIOUS
  <2>2. Plain(m)
    BY <2>1, Unsigned DEF Hashed
  <2>3. m = 1
    BY <2>1, <2>2 DEF Plain
  <2>4. \A i \in Hashed(S) : i \in S /\ i \in Nat /\ i >= 1 /\ i # m
    BY <2>1, TableFacts DEF Hashed
  <2> QED
    BY <1>1, <2>3, <2>4
<1> QED
  BY <1>1, <1>2

LEMMA LastHashes ==
    ASSUME TypeOK, RowsSound, NEW S \in SUBSET Ids,
           chain = "effect" => S \subseteq Hashed(S)
    PROVE  HashOf(S) = HashOf(Hashed(S))
<1>1. CASE Hashed(S) # {}
  <2>1. PICK m \in Hashed(S) : (\A i \in S : i <= m) /\ HashOf(S) = table[m].hash
    BY <1>1, LastSigned
  <2>2. Hashed(S) \in SUBSET Ids /\ Hashed(S) \subseteq S
    BY DEF Hashed
  <2>3. PICK k \in Hashed(S) : (\A i \in Hashed(S) : i <= k) /\ HashOf(Hashed(S)) = table[k].hash
    BY <1>1, <2>2, LastHash
  <2>4. m <= k /\ k <= m /\ m \in Nat /\ k \in Nat
    BY <2>1, <2>2, <2>3, TableFacts
  <2> QED
    BY <2>1, <2>3, <2>4
<1>2. CASE Hashed(S) = {}
  <2>1. HashOf(Hashed(S)) = <<>>
    BY <1>2 DEF HashOf
  <2>2. CASE S = {}
    BY <1>2, <2>2
  <2>3. CASE S # {}
    BY <1>2, <2>1, <2>3, LastHash DEF Hashed
  <2> QED
    BY <2>2, <2>3
<1> QED
  BY <1>1, <1>2

\* Hashes grow along a past.
LEMMA Longer ==
    ASSUME TypeOK, RowsSound, NEW S \in SUBSET Ids, Nested(S),
           chain = "effect" => S \subseteq Hashed(S), NEW j \in Hashed(S)
    PROVE  Len(table[j].hash) <= Len(HashOf(S))
<1>1. PICK m \in Hashed(S) : (\A i \in S : i <= m) /\ HashOf(S) = table[m].hash
  <2>1. Hashed(S) # {}
    OBVIOUS
  <2> QED
    BY <2>1, LastSigned
<1>2. m \in Ids /\ j \in Ids /\ m \in Nat /\ j \in Nat /\ j \in S /\ table[j].hash # <<>>
  BY TableFacts DEF Hashed
<1>3. Len(table[j].hash) \in Nat /\ Len(table[m].hash) \in Nat
  BY <1>2, TableFacts, LenProperties DEF Rows
<1>4. CASE j = m
  BY <1>1, <1>3, <1>4
<1>5. CASE j # m
  <2>1. j < m
    BY <1>1, <1>2, <1>5
  <2>2. j \in Hashed(table[m].after)
    BY <1>1, <1>2, <2>1 DEF Nested, Hashed
  <2>3. Signed(m)
    BY <1>1, <1>2, Unsigned DEF Hashed
  <2> QED
    BY <1>1, <1>3, <2>2, <2>3 DEF Signed
<1> QED
  BY <1>4, <1>5

LEMMA NestedKept ==
    ASSUME TypeOK, Keeps, NEW S \in SUBSET Ids, Nested(S)
    PROVE  Nested(S)'
  BY DEF Nested, Hashed, Keeps

LEMMA SignedKept ==
    ASSUME TypeOK, Keeps, NEW i \in Ids, Signed(i),
           table'[i].content = IF i \in altered' THEN "altered" ELSE table[i].by
    PROVE  Signed(i)'
<1> DEFINE S == table[i].after
<1>1. S \in SUBSET Ids /\ S \subseteq Before(i, Ids)
  BY DEF Signed, Before
<1>2. S \subseteq Before(i, Ids)'
  BY <1>1 DEF Before, Keeps
<1>3. PICK T \in SUBSET Ids : T = S
  BY <1>1
<1>4. /\ HashOf(T)' = HashOf(T) /\ Hashed(T)' = Hashed(T) /\ Nested(T)'
  BY <1>3, KeepsHash, NestedKept DEF Signed
<1>5. table'[i].after = T
  BY <1>3 DEF Keeps
<1>6. HashOf(table[i].after)' = HashOf(T)' /\ Nested(table[i].after)'
      /\ Hashed(table[i].after)' = Hashed(T)'
  BY <1>4, <1>5
<1>7. \A j \in Hashed(T) : table'[j].hash = table[j].hash
  BY DEF Hashed, Keeps
<1> QED
  BY <1>2, <1>3, <1>4, <1>5, <1>6, <1>7 DEF Signed, Keeps
LEMMA RowsKept ==
    ASSUME TypeOK, RowsSound, Keeps, Ids' = Ids, UNCHANGED <<chain, altered>>,
           \A i \in Ids : table'[i].content = table[i].content,
           \A i \in Ids : Plain(i) => table'[i] = table[i]
    PROVE  RowsSound'
<1> SUFFICES ASSUME NEW i \in Ids PROVE Plain(i)' \/ Signed(i)'
  BY DEF RowsSound
<1>1. CASE Plain(i)
  BY <1>1 DEF Plain, Unhashed
<1>2. CASE Signed(i)
  BY <1>2, SignedKept DEF Signed
<1> QED
  BY <1>1, <1>2 DEF RowsSound

\* Membership of the sets that a past lies between.
LEMMA PastSets ==
    \A i : /\ Live(i) = {j \in Ids : /\ j < i /\ table[j].state \in {"in", "open"}
                                     /\ chain = "effect" => table[j].hash # <<>>}
           /\ Came(i) = {j \in Ids : /\ j < i /\ table[j].state \in {"in", "open", "lost"}
                                     /\ chain = "effect" => table[j].hash # <<>>}
  BY DEF Live, Came, Chained, Hashed, Before, InState, Ids

LEMMA PastSetsNext ==
    \A i : /\ Live(i)' = {j \in Ids' : /\ j < i' /\ table'[j].state \in {"in", "open"}
                                       /\ chain' = "effect" => table'[j].hash # <<>>}
           /\ Came(i)' = {j \in Ids' : /\ j < i' /\ table'[j].state \in {"in", "open", "lost"}
                                       /\ chain' = "effect" => table'[j].hash # <<>>}
  BY DEF Live, Came, Chained, Hashed, Before, InState, Ids

-----------------------------------------------------------------------------
(* A writer reads the last hash.                                           *)

ChainInv == RowsSound /\ OpenLast /\ PastKept /\ PastRead

LEMMA OpenOwner ==
    ASSUME TypeOK, Jobs, RowsSound, NEW i \in Ids, table[i].state = "open"
    PROVE  /\ Signed(i) /\ table[i].by \in Writers /\ i \in Own(table[i].by)
           /\ InJob(table[i].by)
<1>1. Signed(i)
  BY RowKinds DEF RowsSound
<1>2. table[i].by \in Writers /\ i \in Own(table[i].by)
  BY <1>1 DEF Signed, Own
<1> QED
  BY <1>1, <1>2, OwnRows

LEMMA PrecedingIs ==
    ASSUME IInv, NEW w \in Writers, InJob(w)
    PROVE  Preceding(w) = Live(Len(table) + 1)
<1>1. \A i \in Ids : table[i].state = "open" => table[i].by = w
  BY OpenOwner, Exclusive DEF IInv
<1>2. Visible \union Open(w) = InState({"in", "open"})
  BY <1>1 DEF Visible, Open, InState, Ids
<1>3. InState({"in", "open"}) = Before(Len(table) + 1, InState({"in", "open"}))
  BY TableFacts DEF Before, InState, Ids, IInv
<1> QED
  BY <1>2, <1>3 DEF Preceding, Live, Chained

LEMMA LiveNested ==
    ASSUME TypeOK, PastKept
    PROVE  Nested(Live(Len(table) + 1))
<1> DEFINE n == Len(table) + 1
<1> SUFFICES ASSUME NEW m \in Hashed(Live(n)), NEW j \in Live(n), j < m
             PROVE  j \in table[m].after
  BY DEF Nested
<1>1. m \in Hashed(Ids) /\ table[m].state # "gone"
  BY PastSets DEF Hashed
<1>2. j \in Live(m)
  BY PastSets
<1> QED
  BY <1>1, <1>2 DEF PastKept, Past

\* A step that leaves the table alone.
LEMMA SameTable ==
    ASSUME IInv, UNCHANGED <<chain, table, altered>>
    PROVE  /\ RowsSound' /\ OpenLast' /\ PastKept'
           /\ \A S, i : Past(S, i) => Past(S, i)'
           /\ \A S : Nested(S) => Nested(S)'
<1>1. \A i : Live(i)' = Live(i') /\ Came(i)' = Came(i')
  BY PastSets, PastSetsNext DEF Ids
<1>2. Ids' = Ids /\ Keeps /\ TypeOK
  BY DEF Ids, Keeps, IInv
<1>3. RowsSound'
  BY <1>2, RowsKept DEF IInv
<1>4. OpenLast'
  BY DEF OpenLast, InState, Hashed, Ids, IInv
<1>5. PastKept'
  BY <1>1 DEF PastKept, Past, Hashed, Ids, IInv
<1>6. \A S, i : Past(S, i) => Past(S, i)'
  BY <1>1 DEF Past
<1>7. \A S : Nested(S) => Nested(S)'
  BY DEF Nested, Hashed
<1> QED
  BY <1>3, <1>4, <1>5, <1>6, <1>7

LEMMA QuietChain ==
    ASSUME IInv, NEW w \in Writers, Call(w) \/ Acquire(w) \/ ReadLast(w) \/ GiveUp(w)
    PROVE  ChainInv'
<1>1. UNCHANGED <<chain, table, altered>> /\ Len(table') = Len(table)
  BY DEF Call, Acquire, ReadLast, GiveUp, setting, outside
<1>2. \A v \in Writers : v # w => pc'[v] = pc[v] /\ last'[v] = last[v]
  BY DEF Call, Acquire, ReadLast, GiveUp, IInv, TypeOK
<1>3. ASSUME NEW v \in Writers, pc'[v] = "insert"
      PROVE  Past(last[v], Len(table) + 1)' /\ Nested(last[v])'
  <2>1. CASE v # w
    <3>1. Past(last[v], Len(table) + 1) /\ Nested(last[v])
      BY <1>2, <1>3, <2>1 DEF IInv, PastRead
    <3>2. PICK S, n : S = last[v] /\ n = Len(table) + 1
      OBVIOUS
    <3>3. Past(S, n)' /\ Nested(S)'
      BY <1>1, <3>1, <3>2, SameTable
    <3> QED
      BY <1>1, <1>2, <2>1, <3>2, <3>3 DEF Past, Nested
  <2>2. CASE v = w
    <3>1. ReadLast(w)
      BY <1>3, <2>2 DEF Call, Acquire, GiveUp, IInv, TypeOK
    <3>2. PICK S, n : S = Preceding(w) /\ n = Len(table) + 1
      OBVIOUS
    <3>3. S = Live(n)
      BY <3>1, <3>2, PrecedingIs DEF ReadLast, InJob
    <3>4. Past(S, n) /\ Nested(S)
      BY <3>2, <3>3, PastSets, LiveNested DEF Past, IInv
    <3>5. Past(S, n)' /\ Nested(S)'
      BY <1>1, <3>4, SameTable
    <3>6. last'[v] = S
      BY <2>2, <3>1, <3>2 DEF ReadLast, IInv, TypeOK
    <3> QED
      BY <1>1, <3>2, <3>5, <3>6 DEF Past, Nested
  <2> QED
    BY <2>1, <2>2
<1> QED
  BY <1>1, <1>3, SameTable DEF ChainInv, PastRead
-----------------------------------------------------------------------------
(* A row is inserted, by the writer that is in its job or past the service. *)

\* Old rows and what is before them do not notice a row that is added.
LEMMA OldRows ==
    ASSUME IInv, NEW r \in Rows, table' = Append(table, r), UNCHANGED <<chain, altered>>
    PROVE  /\ \A i \in Ids : Plain(i)' \/ Signed(i)'
           /\ \A i \in Nat : i <= Len(table) + 1 => Live(i)' = Live(i) /\ Came(i)' = Came(i)
           /\ \A S \in SUBSET Ids : Nested(S) => Nested(S)'
           /\ \A i \in Ids : i \in Hashed(Ids)' <=> i \in Hashed(Ids)
<1>1. TypeOK /\ RowsSound
  BY DEF IInv
<1>2. /\ Keeps /\ Ids' = Ids \union {Len(table) + 1} /\ \A i \in Ids : table'[i] = table[i]
  BY <1>1, Grows
<1>3. Len(table) \in Nat /\ Ids = 1 .. Len(table)
  BY <1>1, TableFacts
<1>4. ASSUME NEW i \in Ids
      PROVE  Plain(i)' \/ Signed(i)'
  <2>1. CASE Plain(i)
    BY <1>2, <2>1 DEF Plain, Unhashed
  <2>2. CASE Signed(i)
    BY <1>1, <1>2, <2>2, SignedKept DEF Signed
  <2> QED
    BY <1>1, <2>1, <2>2 DEF RowsSound
<1>5. ASSUME NEW i \in Nat, i <= Len(table) + 1
      PROVE  Live(i)' = Live(i) /\ Came(i)' = Came(i)
  <2>1. ~(Len(table) + 1 < i)
    BY <1>3, <1>5
  <2> QED
    BY <1>2, <2>1, PastSets, PastSetsNext
<1>6. \A S \in SUBSET Ids : Nested(S) => Nested(S)'
  BY <1>1, <1>2, NestedKept
<1>7. \A i \in Ids : i \in Hashed(Ids)' <=> i \in Hashed(Ids)
  BY <1>2 DEF Hashed
<1> QED
  BY <1>4, <1>5, <1>6, <1>7

LEMMA InsertSigned ==
    ASSUME IInv, NEW w \in Writers, Insert(w), NEW n, n = Len(table) + 1
    PROVE  Signed(n)'
<1> DEFINE k == key[at[w]]
<1>1. TypeOK /\ RowsSound /\ pc[w] = "insert" /\ n \notin Ids
  BY TableFacts DEF IInv, Insert
<1>2. Past(last[w], n) /\ Nested(last[w])
  BY <1>1 DEF IInv, PastRead
<1>3. PICK S : S = last[w]
  OBVIOUS
<1>4. /\ S \in SUBSET Ids
      /\ chain = "effect" => S \subseteq Hashed(S)
  BY <1>2, <1>3, PastSets DEF Past, Hashed
<1>5. /\ Row(w) \in Rows /\ Row(w).by = w /\ Row(w).key = k /\ Row(w).after = S
      /\ Row(w).prev = HashOf(S) /\ Row(w).content = w
      /\ Row(w).hash = ComputeHash(HashOf(S), w, k)
  BY <1>1, <1>3, RowType, ChainAssumption DEF Row
<1>6. /\ Keeps /\ Ids' = Ids \union {n} /\ table'[n] = Row(w)
  BY <1>1, <1>5, Grows DEF Insert
<1>7. k \in 0 .. MaxKey /\ k \in Nat
  BY <1>1, ChainAssumption DEF TypeOK
<1>8. /\ HashOf(S)' = HashOf(S) /\ Hashed(S)' = Hashed(S) /\ Nested(S)'
  BY <1>1, <1>2, <1>3, <1>4, <1>6, KeepsHash, NestedKept
<1>9. ASSUME NEW j \in Hashed(S)
      PROVE  Len(table'[j].hash) < Len(Row(w).hash)
  <2>1. Len(table[j].hash) <= Len(HashOf(S))
    BY <1>1, <1>2, <1>3, <1>4, Longer
  <2>2. HashOf(S) \in Seq(Content \X Nat) /\ <<w, k>> \in Content \X Nat
    BY <1>1, <1>4, <1>7, HashType DEF Content
  <2>3. Len(Row(w).hash) = Len(HashOf(S)) + 1 /\ Len(HashOf(S)) \in Nat
    BY <1>5, <2>2, AppendProperties, LenProperties DEF ComputeHash
  <2>4. j \in Ids /\ table'[j].hash = table[j].hash /\ Len(table[j].hash) \in Nat
    BY <1>1, <1>4, <1>6, TableFacts, LenProperties DEF Hashed, Keeps, Rows
  <2> QED
    BY <2>1, <2>3, <2>4
<1>10. S \subseteq Before(n, Ids)'
  BY <1>1, <1>4, <1>6, TableFacts DEF Before
<1>11. n \notin altered'
  BY <1>1 DEF Insert, outside, TypeOK, Ids
<1>12. /\ table'[n].after = S /\ table'[n].by = w /\ table'[n].key = k
       /\ table'[n].prev = HashOf(S) /\ table'[n].content = w
       /\ table'[n].hash = ComputeHash(HashOf(S), w, k)
  BY <1>5, <1>6
<1>13. /\ HashOf(table[n].after)' = HashOf(S) /\ Hashed(table[n].after)' = Hashed(S)
       /\ Nested(table[n].after)' /\ table'[n].after \subseteq Before(n, Ids)'
  BY <1>8, <1>10, <1>12
<1>14. \A j \in Hashed(S) : Len(table'[j].hash) < Len(table'[n].hash)
  BY <1>6, <1>9
<1> QED
  BY <1>7, <1>11, <1>12, <1>13, <1>14 DEF Signed, ComputeHash

LEMMA InsertChain ==
    ASSUME IInv, NEW w \in Writers, Insert(w)
    PROVE  ChainInv'
<1>1. PICK n : n = Len(table) + 1
  OBVIOUS
<1>2. TypeOK /\ n \in Nat /\ n \notin Ids /\ Ids \subseteq Nat /\ \A i \in Ids : i < n
  BY <1>1, TableFacts DEF IInv
<1>3. Row(w) \in Rows /\ Row(w).by = w /\ Row(w).state = "open" /\ Row(w).after = last[w]
  BY <1>2, RowType, ChainAssumption DEF Row
<1>4. table' = Append(table, Row(w)) /\ UNCHANGED <<chain, altered>>
  BY DEF Insert, setting, outside
<1>5. /\ Ids' = Ids \union {n} /\ \A i \in Ids : table'[i] = table[i]
      /\ table'[n] = Row(w)
  BY <1>1, <1>2, <1>3, <1>4, Grows
<1>6. /\ \A i \in Ids : Plain(i)' \/ Signed(i)'
      /\ \A i \in Nat : i <= n => Live(i)' = Live(i) /\ Came(i)' = Came(i)
      /\ \A i \in Ids : i \in Hashed(Ids)' <=> i \in Hashed(Ids)
  BY <1>1, <1>3, <1>4, OldRows
<1>7. RowsSound'
  BY <1>1, <1>5, <1>6, InsertSigned DEF RowsSound
<1>8. OpenLast'
  <2>1. SUFFICES ASSUME NEW i \in Ids', table'[i].state = "open",
                        NEW j \in Hashed(Ids)', i < j
                 PROVE  table'[j].state = "open"
    BY DEF OpenLast, InState, Ids
  <2>2. CASE j = n
    BY <1>3, <1>5, <2>2
  <2>3. CASE j # n
    <3>1. j \in Ids /\ i \in Ids
      BY <1>2, <1>5, <2>1, <2>3 DEF Hashed
    <3> QED
      BY <1>5, <1>6, <2>1, <3>1 DEF OpenLast, InState, Ids, IInv
  <2> QED
    BY <2>2, <2>3
<1>9. PastKept'
  <2>1. SUFFICES ASSUME NEW i \in Hashed(Ids)', table'[i].state # "gone"
                 PROVE  Past(table[i].after, i)'
    BY DEF PastKept
  <2>2. CASE i = n
    <3>1. Past(last[w], n)
      BY <1>1 DEF IInv, PastRead, Insert
    <3> QED
      BY <1>2, <1>3, <1>5, <1>6, <2>2, <3>1 DEF Past
  <2>3. CASE i # n
    <3>1. i \in Ids /\ table'[i] = table[i] /\ i \in Hashed(Ids)
      <4>1. i \in Ids
        BY <1>5, <2>1, <2>3 DEF Hashed
      <4> QED
        BY <1>5, <1>6, <2>1, <4>1
    <3>3. i \in Nat /\ i <= n
      BY <1>2, <3>1
    <3>2. Past(table[i].after, i)
      BY <2>1, <3>1 DEF IInv, PastKept
    <3> QED
      BY <1>6, <3>1, <3>2, <3>3 DEF Past
  <2> QED
    BY <2>2, <2>3
<1>10. PastRead'
  <2>1. InJob(w) /\ pc'[w] # "insert" /\ \A v \in Writers : v # w => pc'[v] = pc[v]
    BY <1>2 DEF Insert, InJob, TypeOK
  <2>2. \A v \in Writers : pc'[v] # "insert"
    BY <2>1, Exclusive DEF InJob, IInv
  <2> QED
    BY <2>2 DEF PastRead
<1> QED
  BY <1>7, <1>8, <1>9, <1>10 DEF ChainInv

LEMMA PlainChain ==
    ASSUME IInv, InsertPlain
    PROVE  ChainInv'
<1>1. PICK n : n = Len(table) + 1
  OBVIOUS
<1>2. TypeOK /\ n \in Nat /\ n \notin Ids /\ Ids \subseteq Nat /\ \A i \in Ids : i < n
  BY <1>1, TableFacts DEF IInv
<1>3. /\ table' = Append(table, Unhashed) /\ UNCHANGED <<chain, altered, pc, last>>
      /\ chain = "effect"
  BY ChainAssumption DEF InsertPlain, setting
<1>4. /\ Len(table') = n /\ Ids' = Ids \union {n} /\ \A i \in Ids : table'[i] = table[i]
      /\ table'[n] = Unhashed
  BY <1>1, <1>2, <1>3, Grows, UnhashedType
<1>5. /\ \A i \in Ids : Plain(i)' \/ Signed(i)'
      /\ \A i \in Nat : i <= n => Live(i)' = Live(i) /\ Came(i)' = Came(i)
      /\ \A S \in SUBSET Ids : Nested(S) => Nested(S)'
      /\ \A i \in Ids : i \in Hashed(Ids)' <=> i \in Hashed(Ids)
  BY <1>1, <1>3, OldRows, UnhashedType
<1>6. n \notin Hashed(Ids)' /\ Hashed(Ids)' = Hashed(Ids)
  BY <1>2, <1>4, <1>5 DEF Hashed, Unhashed
<1>7. RowsSound'
  <2>1. Plain(n)'
    BY <1>2, <1>3, <1>4 DEF Plain, Unhashed, TypeOK, Ids
  <2> QED
    BY <1>4, <1>5, <2>1 DEF RowsSound
<1>8. OpenLast'
  BY <1>2, <1>4, <1>6 DEF OpenLast, InState, Ids, Hashed, Unhashed, IInv
<1>9. PastKept'
  <2>1. SUFFICES ASSUME NEW i \in Hashed(Ids), table'[i].state # "gone"
                 PROVE  Past(table[i].after, i)'
    BY <1>6 DEF PastKept
  <2>2. i \in Ids /\ i \in Nat /\ i <= n /\ table'[i] = table[i]
    <3>1. i \in Ids
      BY DEF Hashed
    <3> QED
      BY <1>2, <1>4, <3>1
  <2>3. Past(table[i].after, i)
    BY <2>1, <2>2 DEF IInv, PastKept
  <2> QED
    BY <1>5, <2>2, <2>3 DEF Past
<1>10. PastRead'
  <2>1. SUFFICES ASSUME NEW v \in Writers, pc'[v] = "insert"
                 PROVE  Past(last[v], Len(table) + 1)' /\ Nested(last[v])'
    BY DEF PastRead
  <2>2. PICK S : S = last[v] /\ S \in SUBSET Ids
    BY <1>2 DEF TypeOK, Ids
  <2>3. Past(S, n) /\ Nested(S)
    BY <1>1, <1>3, <2>1, <2>2 DEF IInv, PastRead
  <2>4. Past(S, n)' /\ Nested(S)'
    BY <1>2, <1>5, <2>2, <2>3 DEF Past
  <2>5. Live(n + 1)' = Live(n)' /\ Came(n + 1)' = Came(n)'
    <3>1. \A j \in Ids' : chain' = "effect" /\ table'[j].hash # <<>> => (j < n + 1 <=> j < n)
      BY <1>2, <1>4 DEF Unhashed
    <3>2. PICK m : m = n + 1
      OBVIOUS
    <3>3. Live(m)' = Live(n)' /\ Came(m)' = Came(n)'
      BY <1>3, <3>1, <3>2, PastSetsNext
    <3> QED
      BY <3>2, <3>3
  <2>6. last'[v] = S /\ Len(table') + 1 = n + 1
    BY <1>3, <1>4, <2>2
  <2> QED
    BY <2>4, <2>5, <2>6 DEF Past, Nested
<1> QED
  BY <1>7, <1>8, <1>9, <1>10 DEF ChainInv
-----------------------------------------------------------------------------
(* The open rows are committed or rolled back together.                    *)

LEMMA CloseChain ==
    ASSUME IInv, NEW W \in SUBSET Writers, NEW s \in {"in", "gone"}, Close(W, s),
           UNCHANGED <<chain, altered>>,
           \A i \in Ids : table[i].state = "open" => table[i].by \in W,
           \A w \in Writers : pc'[w] # "insert"
    PROVE  ChainInv'
<1>1. TypeOK /\ RowsSound
  BY DEF IInv
<1>2. /\ Ids' = Ids /\ Keeps
      /\ \A i \in Ids :
           table'[i] = IF table[i].state = "open" /\ table[i].by \in W
                       THEN [table[i] EXCEPT !.state = s] ELSE table[i]
  BY <1>1, Closes
<1>3. \A i \in Ids : /\ table[i].state = "open" => table'[i].state = s
                     /\ table[i].state # "open" => table'[i] = table[i]
                     /\ table'[i].content = table[i].content
                     /\ table'[i].hash = table[i].hash
                     /\ table'[i].after = table[i].after
  <2>1. SUFFICES ASSUME NEW i \in Ids, table[i].state = "open"
                 PROVE  /\ table'[i].state = s /\ table'[i].content = table[i].content
    BY <1>2 DEF Keeps
  <2>2. table'[i] = [table[i] EXCEPT !.state = s] /\ table[i] \in Rows
    BY <1>1, <1>2, <2>1, TableFacts
  <2> QED
    BY <2>2 DEF Rows
<1>4. RowsSound'
  <2>1. \A i \in Ids : Plain(i) => table'[i] = table[i]
    BY <1>1, <1>3, RowKinds
  <2> QED
    BY <1>1, <1>2, <1>3, <2>1, RowsKept
<1>5. OpenLast'
  BY <1>2, <1>3 DEF OpenLast, InState, Ids
<1>6. PastRead'
  BY DEF PastRead
<1>7. ASSUME NEW i \in Hashed(Ids)', table'[i].state # "gone"
      PROVE  Past(table[i].after, i)'
  <2>1. i \in Ids /\ i \in Hashed(Ids)
    BY <1>2, <1>3, <1>7 DEF Hashed
  <2>2. table[i].state # "gone"
    BY <1>3, <1>7, <2>1
  <2>3. Past(table[i].after, i) /\ table'[i].after = table[i].after
    BY <1>3, <2>1, <2>2 DEF IInv, PastKept
  <2>4. Live(i)' \subseteq Live(i)
    BY <1>2, <1>3, PastSets, PastSetsNext
  <2>5. ASSUME NEW j \in table[i].after
        PROVE  j \in Came(i)'
    <3>1. /\ j \in Ids /\ j < i /\ table[j].state \in {"in", "open", "lost"}
          /\ chain = "effect" => table[j].hash # <<>>
      BY <2>3, PastSets DEF Past
    <3>2. table'[j].state \in {"in", "open", "lost"}
      <4>1. CASE table[j].state = "open"
        <5>1. table[i].state = "open"
          BY <2>1, <3>1, <4>1 DEF IInv, OpenLast, InState, Ids
        <5> QED
          BY <1>3, <1>7, <2>1, <3>1, <4>1, <5>1
      <4>2. CASE table[j].state # "open"
        BY <1>3, <3>1, <4>2
      <4> QED
        BY <4>1, <4>2
    <3> QED
      BY <1>2, <1>3, <3>1, <3>2, PastSetsNext
  <2> QED
    BY <2>3, <2>4, <2>5 DEF Past
<1> QED
  BY <1>4, <1>5, <1>6, <1>7 DEF ChainInv, PastKept

LEMMA EndChain ==
    ASSUME IInv, NEW w \in Writers, Commit(w) \/ Rollback(w)
    PROVE  ChainInv'
<1>1. PICK s \in {"in", "gone"} : Close({w}, s)
  BY DEF Commit, Rollback
<1>2. /\ InJob(w) /\ UNCHANGED <<chain, altered>>
      /\ pc'[w] # "insert" /\ \A v \in Writers : v # w => pc'[v] = pc[v]
  BY DEF Commit, Rollback, InJob, setting, outside, IInv, TypeOK
<1>3. \A i \in Ids : table[i].state = "open" => table[i].by \in {w}
  BY <1>2, OpenOwner, Exclusive DEF IInv
<1>4. \A v \in Writers : pc'[v] # "insert"
  BY <1>2, Exclusive DEF InJob, IInv
<1>5. {w} \in SUBSET Writers
  OBVIOUS
<1> QED
  BY <1>1, <1>2, <1>3, <1>4, <1>5, CloseChain

LEMMA RestartChain ==
    ASSUME IInv, NEW p \in Processes, Restart(p)
    PROVE  ChainInv'
<1>1. /\ Close(Hit(p), "gone") /\ Hit(p) \in SUBSET Writers
      /\ UNCHANGED <<chain, altered, last>>
      /\ \A w \in Writers : pc'[w] = IF w \in Hit(p) THEN "failed" ELSE pc[w]
  BY DEF Restart, Hit, setting, outside
<1>2. CASE \E i \in Ids : table[i].state = "open" /\ table[i].by \in Hit(p)
  <2>1. PICK h \in Hit(p) : h \in Writers /\ InJob(h)
    BY <1>2, OpenOwner DEF IInv
  <2>2. \A w \in Writers : InJob(w) => w = h
    BY <2>1, Exclusive DEF IInv
  <2>3. \A i \in Ids : table[i].state = "open" => table[i].by \in Hit(p)
    BY <2>2, OpenOwner DEF IInv
  <2>4. \A w \in Writers : pc'[w] # "insert"
    BY <1>1, <2>2 DEF InJob
  <2> QED
    BY <1>1, <2>3, <2>4, CloseChain
<1>3. CASE ~\E i \in Ids : table[i].state = "open" /\ table[i].by \in Hit(p)
  <2>1. \A i \in Ids : ~(table[i].state = "open" /\ table[i].by \in Hit(p))
    BY <1>3
  <2>2. table' = [i \in Ids |-> table[i]]
    BY <1>1, <2>1 DEF Close, Ids
  <2>3. table \in [Ids -> Rows]
    BY LenProperties DEF Ids, IInv, TypeOK
  <2>4. table' = table
    BY <2>2, <2>3
  <2>5. ASSUME NEW v \in Writers, pc'[v] = "insert"
        PROVE  Past(last[v], Len(table) + 1)' /\ Nested(last[v])'
    <3>1. PICK S, n : S = last[v] /\ n = Len(table) + 1
      OBVIOUS
    <3>2. Past(S, n) /\ Nested(S)
      BY <1>1, <2>5, <3>1 DEF IInv, PastRead
    <3>3. Past(S, n)' /\ Nested(S)'
      BY <1>1, <2>4, <3>2, SameTable
    <3>4. last'[v] = S /\ Len(table') + 1 = n
      BY <1>1, <2>4, <3>1
    <3> QED
      BY <3>3, <3>4 DEF Past, Nested
  <2> QED
    BY <1>1, <2>4, <2>5, SameTable DEF ChainInv, PastRead
<1> QED
  BY <1>2, <1>3

-----------------------------------------------------------------------------
(* Damage.                                                                 *)

LEMMA DamageChain ==
    ASSUME IInv, NEW i \in Ids, Alter(i) \/ Lose(i)
    PROVE  ChainInv'
<1>1. TypeOK /\ RowsSound
  BY DEF IInv
<1>2. /\ Len(table') = Len(table) /\ Ids' = Ids /\ Keeps /\ table[i].hash # <<>>
      /\ table[i].state = "in" /\ \A j \in Ids : j # i => table'[j] = table[j]
      /\ UNCHANGED <<chain, pc, last>>
  BY <1>1, Altering DEF Alter, Lose, setting
<1>3. table[i] \in Rows /\ Signed(i)
  BY <1>1, <1>2, Unsigned, TableFacts
<1>4. \A j \in Ids : /\ table'[j].hash = table[j].hash /\ table'[j].after = table[j].after
                     /\ table'[j].by = table[j].by
  BY <1>2 DEF Keeps
<1>5. \A j \in Ids : \/ table'[j].state = table[j].state
                     \/ table[j].state = "in" /\ table'[j].state = "lost"
  <2>1. /\ [table[i] EXCEPT !.content = "altered"].state = table[i].state
        /\ [table[i] EXCEPT !.state = "lost"].state = "lost"
    BY <1>3 DEF Rows
  <2> QED
    BY <1>1, <1>2, <2>1, Altering
<1>6. /\ \A j : Live(j)' \subseteq Live(j)
      /\ \A j : Came(j)' = Came(j)
  BY <1>2, <1>4, <1>5, PastSets, PastSetsNext
<1>7. \A j \in Ids :
        \/ Plain(j)
        \/ table'[j].content = IF j \in altered' THEN "altered" ELSE table[j].by
  <2>1. CASE Alter(i)
    <3>1. altered' = altered \union {i} /\ table'[i].content = "altered"
      <4>1. table'[i] = [table[i] EXCEPT !.content = "altered"]
        BY <1>1, <2>1, Altering
      <4> QED
        BY <1>3, <2>1, <4>1 DEF Alter, Rows
    <3> QED
      BY <1>1, <1>2, <3>1 DEF RowsSound, Signed
  <2>2. CASE Lose(i)
    <3>1. altered' = altered /\ table'[i].content = table[i].content
      <4>1. table'[i] = [table[i] EXCEPT !.state = "lost"]
        BY <1>1, <2>2, Altering
      <4> QED
        BY <1>3, <2>2, <4>1 DEF Lose, Rows
    <3> QED
      BY <1>1, <1>2, <3>1 DEF RowsSound, Signed
  <2> QED
    BY <2>1, <2>2
<1>8. RowsSound'
  <2>1. SUFFICES ASSUME NEW j \in Ids PROVE Plain(j)' \/ Signed(j)'
    BY <1>2 DEF RowsSound
  <2>2. CASE Plain(j)
    <3>1. j # i
      BY <1>1, <1>2, <2>2, RowKinds
    <3>2. altered' \subseteq altered \union {i}
      BY DEF Alter, Lose
    <3> QED
      BY <1>2, <2>2, <3>1, <3>2 DEF Plain, Unhashed
  <2>3. CASE Signed(j) /\ ~Plain(j)
    BY <1>1, <1>2, <1>7, <2>3, SignedKept
  <2> QED
    BY <1>1, <2>2, <2>3 DEF RowsSound
<1>9. OpenLast'
  BY <1>2, <1>4, <1>5 DEF OpenLast, InState, Ids, Hashed, IInv
<1>10. PastKept'
  BY <1>2, <1>4, <1>5, <1>6 DEF PastKept, Past, Hashed, IInv
<1>11. PastRead'
  <2>1. SUFFICES ASSUME NEW v \in Writers, pc'[v] = "insert"
                 PROVE  Past(last[v], Len(table) + 1)' /\ Nested(last[v])'
    BY DEF PastRead
  <2>2. PICK S, n : S = last[v] /\ n = Len(table) + 1
    OBVIOUS
  <2>3. Past(S, n) /\ Nested(S) /\ S \in SUBSET Ids
    BY <1>1, <1>2, <2>1, <2>2 DEF IInv, PastRead, TypeOK, Ids
  <2>4. Past(S, n)' /\ Nested(S)'
    BY <1>1, <1>2, <1>6, <2>3, NestedKept DEF Past
  <2>5. last'[v] = S /\ Len(table') + 1 = n
    BY <1>2, <2>2
  <2> QED
    BY <2>4, <2>5 DEF Past, Nested
<1> QED
  BY <1>8, <1>9, <1>10, <1>11 DEF ChainInv

-----------------------------------------------------------------------------
(* The inductive invariant.                                                *)

LEMMA InvStep ==
    ASSUME IInv, [Next]_vars
    PROVE  IInv'
<1>1. TypeOK' /\ OneProcess' /\ Turns'
  BY TurnsStep DEF IInv
<1>2. Jobs'
  BY JobsStep DEF IInv
<1>3. CASE UNCHANGED <<chain, table, altered, pc, last>>
  <2>1. ASSUME NEW v \in Writers, pc'[v] = "insert"
        PROVE  Past(last[v], Len(table) + 1)' /\ Nested(last[v])'
    <3>1. PICK S, n : S = last[v] /\ n = Len(table) + 1
      OBVIOUS
    <3>2. Past(S, n)' /\ Nested(S)'
      BY <1>3, <2>1, <3>1, SameTable DEF IInv, PastRead
    <3>3. last'[v] = S /\ Len(table') + 1 = n
      BY <1>3, <3>1
    <3> QED
      BY <3>2, <3>3 DEF Past, Nested
  <2> QED
    BY <1>1, <1>2, <1>3, <2>1, SameTable DEF IInv, PastRead
<1>4. CASE ChainInv'
  BY <1>1, <1>2, <1>4 DEF IInv, ChainInv
<1>5. ASSUME NEW w \in Writers, Call(w) \/ Work(w) \/ GiveUp(w)
      PROVE  ChainInv'
  BY <1>5, QuietChain, InsertChain, EndChain DEF Work
<1>6. ASSUME NEW p \in Processes, Restart(p) \/ Patrol(p) \/ Announce(p)
      PROVE  IInv'
  <2>1. CASE Restart(p)
    BY <1>4, <2>1, RestartChain
  <2>2. CASE Patrol(p) \/ Announce(p)
    BY <1>3, <2>2 DEF Patrol, Announce, setting, outside
  <2> QED
    BY <1>6, <2>1, <2>2
<1>7. CASE InsertPlain
  BY <1>4, <1>7, PlainChain
<1>8. ASSUME NEW i \in Ids, Alter(i) \/ Lose(i)
      PROVE  IInv'
  BY <1>4, <1>8, DamageChain
<1>9. CASE UNCHANGED vars
  BY <1>3, <1>9 DEF vars, setting, outside
<1> QED
  BY <1>4, <1>5, <1>6, <1>7, <1>8, <1>9 DEF Next, Ids

LEMMA InitInv == Init => IInv
<1> SUFFICES ASSUME Init PROVE IInv
  OBVIOUS
<1>1. TypeOK
  BY TypeInit
<1>2. \A w \in Writers : pc[w] = "idle" /\ size[w] = 0 /\ ~InJob(w)
  BY DEF Init, InJob
<1>3. OneProcess /\ Turns
  BY <1>2 DEF Init, OneProcess, Turns
<1>4. \A i \in Ids : i = 1 /\ table[i] = Unhashed /\ chain \in {"effect", "ai"}
  <2>1. CASE table = <<>>
    BY <2>1 DEF Ids
  <2>2. CASE table = <<Unhashed>> /\ chain \in Legacy
    BY <2>2, ChainAssumption DEF Ids
  <2> QED
    BY <2>1, <2>2 DEF Init
<1>5. Jobs
  <2>1. \A w \in Writers : Own(w) = {}
    BY <1>4, ChainAssumption DEF Own, Unhashed
  <2> QED
    BY <1>2, <2>1 DEF Jobs, JobOf
<1>6. RowsSound
  BY <1>4 DEF RowsSound, Plain, Init
<1>7. OpenLast /\ PastKept /\ PastRead
  BY <1>2, <1>4 DEF OpenLast, PastKept, PastRead, InState, Hashed, Ids, Unhashed
<1> QED
  BY <1>1, <1>3, <1>5, <1>6, <1>7 DEF IInv
-----------------------------------------------------------------------------
(* What a verification sees.                                               *)

Lost == InState({"lost"})

LEMMA VerifiedRows ==
    ASSUME IInv
    PROVE  /\ Verified = Hashed(Visible) /\ Verified \in SUBSET Ids
           /\ \A i \in Verified : /\ Signed(i) /\ i \in Hashed(Ids)
                                  /\ table[i].state \in {"in", "open"}
                                  /\ table[i].state = "open" => dialect = "sqlite"
           /\ \A i \in Hashed(Ids) : table[i].state = "in" => i \in Verified
           /\ \A i \in Hashed(Ids) :
                table[i].state = "open" /\ dialect = "sqlite" => i \in Verified
<1>1. TypeOK /\ RowsSound
  BY DEF IInv
<1>2. Visible \in SUBSET Ids
  BY DEF Visible, InState, Ids
<1>3. \A i \in Ids : chain = "operation" => Signed(i)
  BY <1>1 DEF RowsSound, Plain
<1>4. chain = "operation" => Visible = Hashed(Visible)
  BY <1>1, <1>2, <1>3, Unsigned DEF Hashed
<1>5. Verified = Hashed(Visible)
  BY <1>4 DEF Verified
<1>6. \A i \in Ids : i \in Hashed(Ids) <=> Signed(i)
  BY <1>1, Unsigned
<1>7. \A i : i \in Hashed(Visible) <=> /\ i \in Hashed(Ids)
                                       /\ \/ table[i].state = "in"
                                          \/ table[i].state = "open" /\ dialect = "sqlite"
  BY DEF Hashed, Visible, InState, Ids
<1> QED
  BY <1>2, <1>5, <1>6, <1>7 DEF Hashed

\* The past of a verified row, as it was hashed into it: the verified rows before
\* it and those that were lost.
LEMMA HashedPast ==
    ASSUME IInv, NEW i \in Verified
    PROVE  /\ table[i].after \in SUBSET Ids
           /\ chain = "effect" => table[i].after \subseteq Hashed(table[i].after)
           /\ \A j \in table[i].after : j < i
           /\ Before(i, Verified) \subseteq Hashed(table[i].after)
           /\ Hashed(table[i].after) \subseteq Before(i, Verified) \union Lost
<1> DEFINE S == table[i].after
<1>1. Past(S, i) /\ i \in Hashed(Ids) /\ i \in Ids
  BY VerifiedRows DEF IInv, PastKept, Hashed
<1>2. /\ S \in SUBSET Ids
      /\ chain = "effect" => S \subseteq Hashed(S)
      /\ \A j \in S : j < i
  BY <1>1, PastSets DEF Past, Hashed
<1>3. ASSUME NEW j \in Before(i, Verified)
      PROVE  j \in Hashed(S)
  <2>1. j \in Verified /\ j < i
    BY DEF Before
  <2>2. j \in Ids /\ table[j].state \in {"in", "open"} /\ table[j].hash # <<>>
    BY <2>1, VerifiedRows DEF Hashed
  <2>3. j \in Live(i)
    BY <2>1, <2>2, PastSets
  <2> QED
    BY <1>1, <2>2, <2>3 DEF Past, Hashed
<1>4. ASSUME NEW j \in Hashed(S)
      PROVE  j \in Before(i, Verified) \union Lost
  <2>1. j \in Hashed(Ids) /\ j < i /\ table[j].state \in {"in", "open", "lost"} /\ j \in Ids
    BY <1>1, PastSets DEF Past, Hashed
  <2>2. CASE table[j].state = "in"
    BY <2>1, <2>2, VerifiedRows DEF Before
  <2>3. CASE table[j].state = "open"
    <3>1. table[i].state = "open"
      BY <1>1, <2>1, <2>3 DEF IInv, OpenLast, InState, Ids
    <3> QED
      BY <2>1, <2>3, <3>1, VerifiedRows DEF Before
  <2>4. CASE table[j].state = "lost"
    BY <2>1, <2>4 DEF Lost, InState, Ids
  <2> QED
    BY <2>1, <2>2, <2>3, <2>4
<1> QED
  BY <1>2, <1>3, <1>4

LEMMA WholePast ==
    ASSUME IInv, NEW i \in Verified, table[i].after \intersect Lost = {}
    PROVE  table[i].prev = HashOf(Before(i, Verified))
<1>1. Hashed(table[i].after) = Before(i, Verified)
  BY HashedPast DEF Hashed
<1>2. HashOf(table[i].after) = HashOf(Hashed(table[i].after))
  BY HashedPast, LastHashes DEF IInv
<1> QED
  BY <1>1, <1>2, VerifiedRows DEF Signed

\* The first row that has lost one of its past has lost the last of it, and no
\* row that is left has its hash.
LEMMA FirstGap ==
    ASSUME IInv, NEW i \in Verified, table[i].after \intersect Lost # {},
           \A j \in Verified : j < i => table[j].after \intersect Lost = {}
    PROVE  table[i].prev # HashOf(Before(i, Verified))
<1> DEFINE S == table[i].after
           B == Before(i, Verified)
<1>1. /\ S \in SUBSET Ids
      /\ chain = "effect" => S \subseteq Hashed(S)
      /\ \A j \in S : j < i
      /\ B \subseteq Hashed(S) /\ Hashed(S) \subseteq B \union Lost
  BY HashedPast
<1>2. TypeOK /\ RowsSound /\ Signed(i) /\ Ids \subseteq Nat
  BY VerifiedRows, TableFacts DEF IInv
<1>3. PICK l \in S : l \in Lost
  OBVIOUS
<1>4. l \in Hashed(S)
  <2>1. table[l].state = "lost" /\ l \in Ids
    BY <1>3 DEF Lost, InState, Ids
  <2>2. ~Plain(l)
    BY <1>2, <2>1, RowKinds
  <2> QED
    BY <1>2, <1>3, <2>1, <2>2, Unsigned DEF Hashed
<1>5. PICK m \in Hashed(S) : (\A j \in S : j <= m) /\ HashOf(S) = table[m].hash
  <2>1. Hashed(S) # {}
    BY <1>4
  <2> QED
    BY <1>1, <1>2, <2>1, LastSigned
<1>6. m \in S /\ m \in Ids /\ m \in Nat /\ m < i /\ table[m].hash # <<>>
  BY <1>1, <1>2 DEF Hashed
<1>7. \A j \in S : j # m => j \in table[m].after
  <2>1. ASSUME NEW j \in S, j # m
        PROVE  j < m
    <3>1. j \in Nat /\ j <= m
      BY <1>1, <1>2, <1>5
    <3> QED
      BY <1>6, <2>1, <3>1
  <2> QED
    BY <1>2, <2>1 DEF Signed, Nested
<1>8. m \in Lost
  <2>1. SUFFICES ASSUME m \notin Lost PROVE FALSE
    OBVIOUS
  <2>2. m \in Verified
    BY <1>1, <2>1 DEF Before
  <2>3. l \in table[m].after
    BY <1>3, <1>7, <2>1
  <2> QED
    BY <1>3, <1>6, <2>2, <2>3
<1>9. m \notin B
  BY <1>8, VerifiedRows DEF Before, Lost, InState
<1>10. table[i].prev = table[m].hash
  BY <1>2, <1>5 DEF Signed
<1>11. CASE B = {}
  BY <1>6, <1>10, <1>11 DEF HashOf
<1>12. CASE B # {}
  <2>1. B \in SUBSET Ids
    BY VerifiedRows DEF Before
  <2>2. PICK b \in B : HashOf(B) = table[b].hash
    BY <1>2, <1>12, <2>1, LastHash
  <2>3. b \in Hashed(S) /\ b \in S /\ b # m /\ b \in Ids
    BY <1>1, <1>9, <2>1, <2>2 DEF Hashed
  <2>4. b \in Hashed(table[m].after)
    BY <1>7, <2>3 DEF Hashed
  <2>5. Signed(m)
    BY <1>2, <1>6, Unsigned
  <2>6. Len(table[b].hash) < Len(table[m].hash)
    BY <2>4, <2>5 DEF Signed
  <2>7. Len(table[b].hash) \in Nat
    BY <1>2, <2>3, TableFacts, LenProperties DEF Rows
  <2>8. table[b].hash # table[m].hash
    BY <2>6, <2>7
  <2> QED
    BY <1>10, <2>2, <2>8
<1> QED
  BY <1>11, <1>12

\* A hash is recomputed from the content that is there, with a key that is known.
LEMMA Recomputed ==
    ASSUME IInv, NEW p \in Processes, NEW i \in Verified
    PROVE  (\E k \in Keys(p) : table[i].hash = ComputeHash(table[i].prev, table[i].content, k))
             <=> /\ i \notin altered
                 /\ table[i].key \in {0, key[p]} \/ table[i].key + 1 = key[p]
<1> DEFINE r == table[i]
<1>1. TypeOK /\ Signed(i) /\ i \in Ids
  BY VerifiedRows DEF IInv, Hashed
<1>2. r \in Rows
  BY <1>1, TableFacts
<1>3. /\ r.by \in Writers /\ r.key \in 0 .. MaxKey /\ r.hash = Append(r.prev, <<r.by, r.key>>)
      /\ r.content = IF i \in altered THEN "altered" ELSE r.by
  BY <1>1 DEF Signed, ComputeHash
<1>4. r.prev \in Seq(Content \X Nat) /\ r.content \in Content
  BY <1>2 DEF Rows, Content
<1>5. "altered" \notin Writers /\ MaxKey \in Nat
  BY ChainAssumption
<1>6. ASSUME NEW k \in 0 .. MaxKey
      PROVE  r.hash = Append(r.prev, <<r.content, k>>) <=> i \notin altered /\ k = r.key
  <2>1. <<r.content, k>> \in Content \X Nat /\ <<r.by, r.key>> \in Content \X Nat
    BY <1>3, <1>4, <1>5 DEF Content
  <2>2. r.hash = Append(r.prev, <<r.content, k>>) <=> <<r.content, k>> = <<r.by, r.key>>
    <3> DEFINE a == <<r.content, k>>
               b == <<r.by, r.key>>
    <3>1. r.hash = Append(r.prev, b)
      BY <1>3
    <3> HIDE DEF a, b, r
    <3>2. a \in Content \X Nat /\ b \in Content \X Nat
      BY <2>1 DEF a, b, r
    <3>3. Append(r.prev, b) = Append(r.prev, a) <=> a = b
      BY <1>4, <3>2, AppendProperties
    <3> QED
      BY <3>1, <3>3 DEF a, b, r
  <2> QED
    BY <1>3, <1>5, <2>2
<1>7. Keys(p) = {k \in 0 .. MaxKey : k \in {0, key[p]} \/ k + 1 = key[p]}
  BY DEF Keys
<1> QED
  BY <1>3, <1>6, <1>7 DEF ComputeHash

LEMMA Verdict == IInv => VerdictIsRight
<1> SUFFICES ASSUME IInv PROVE VerdictIsRight
  OBVIOUS
<1>1. OneChain
  BY WholePast, VerifiedRows DEF OneChain, Lost
<1> DEFINE Gap(i) == table[i].after \intersect Lost # {}
           Known(p, i) == /\ i \notin altered
                          /\ table[i].key \in {0, key[p]} \/ table[i].key + 1 = key[p]
<1>2. ASSUME NEW p \in Processes, NEW i \in Verified, ~Gap(i)
      PROVE  Linked(i, Keys(p)) <=> Known(p, i)
  <2>1. table[i].prev = HashOf(Before(i, Verified))
    BY <1>2, WholePast
  <2> QED
    BY <2>1, Recomputed DEF Linked
<1>3. ASSUME NEW p \in Processes, Valid(p)
      PROVE  \A i \in Verified : ~Gap(i)
  <2>1. SUFFICES ASSUME NEW g \in Verified, Gap(g) PROVE FALSE
    OBVIOUS
  <2> DEFINE G == {i \in Verified : Gap(i)}
  <2>2. G \in SUBSET Nat /\ G # {}
    BY <2>1, VerifiedRows, TableFacts DEF IInv
  <2>3. PICK i \in G : \A j \in G : i <= j
    <3> HIDE DEF G
    <3> QED
      BY <2>2, Least
  <2>4. \A j \in Verified : j < i => table[j].after \intersect Lost = {}
    <3>1. \A j \in Verified : j \in Nat /\ i \in Nat
      BY <2>2, VerifiedRows, TableFacts DEF IInv
    <3> QED
      BY <2>3, <3>1
  <2>5. table[i].prev # HashOf(Before(i, Verified))
    BY <2>3, <2>4, FirstGap
  <2> QED
    BY <1>3, <2>3, <2>5 DEF Valid, Linked
<1>4. ASSUME NEW p \in Processes
      PROVE  Valid(p) <=> \A i \in Verified : Known(p, i) /\ ~Gap(i)
  BY <1>2, <1>3 DEF Valid
<1> QED
  BY <1>1, <1>4 DEF VerdictIsRight, Lost

-----------------------------------------------------------------------------
(* What a commit adds.                                                     *)

LEMMA CommittedLast ==
    ASSUME IInv, [Next]_vars, NEW i \in Committed' \ Committed, NEW j \in Committed
    PROVE  j < i
<1>1. /\ TypeOK /\ j \in Ids /\ j \in Hashed(Ids) /\ table[j].state = "in"
      /\ i \in Ids' /\ table'[i].state = "in" /\ table'[i].hash # <<>>
  BY DEF IInv, Committed, Hashed, InState, Ids
<1>2. CASE i \in Ids /\ table[i].state = "open"
  <2>1. ~(i < j) /\ i # j
    BY <1>1, <1>2 DEF IInv, OpenLast, InState, Ids
  <2> QED
    BY <1>1, <1>2, <2>1, TableFacts
<1>3. SUFFICES i \in Ids /\ table[i].state = "open"
  BY <1>2
<1>4. ASSUME i \in Ids, table'[i].hash = table[i].hash
      PROVE  table[i].state # "in"
  BY <1>1, <1>4 DEF Committed, Hashed, InState, Ids
<1>5. CASE UNCHANGED table
  BY <1>1, <1>4, <1>5 DEF Ids
<1>6. ASSUME NEW w \in Writers, Insert(w)
      PROVE  FALSE
  <2>1. Row(w) \in Rows /\ Row(w).state = "open" /\ table' = Append(table, Row(w))
    BY <1>1, <1>6, RowType, ChainAssumption DEF Insert
  <2> QED
    BY <1>1, <1>4, <2>1, Grows
<1>7. CASE InsertPlain
  <2>1. table' = Append(table, Unhashed)
    BY <1>7 DEF InsertPlain
  <2>2. /\ Ids' = Ids \union {Len(table) + 1} /\ \A h \in Ids : table'[h] = table[h]
        /\ table'[Len(table) + 1].hash = <<>>
    <3>1. Unhashed.hash = <<>>
      BY DEF Unhashed
    <3> QED
      BY <1>1, <2>1, <3>1, UnhashedType, Grows
  <2> QED
    BY <1>1, <1>4, <2>2
<1>8. ASSUME NEW W \in SUBSET Writers, NEW s \in {"in", "gone"}, Close(W, s)
      PROVE  i \in Ids /\ table[i].state = "open"
  BY <1>1, <1>4, <1>8, Closes DEF Keeps
<1>9. ASSUME NEW a \in Ids, Alter(a) \/ Lose(a)
      PROVE  FALSE
  <2>1. i \in Ids /\ table'[i].hash = table[i].hash /\ table[i].state # "in"
    BY <1>1, <1>4, <1>9, Altering DEF Keeps
  <2>2. i # a /\ table'[i] = table[i]
    BY <1>1, <1>9, <2>1, Altering
  <2> QED
    BY <1>1, <2>1, <2>2
<1>10. ASSUME NEW w \in Writers, Call(w) \/ Work(w) \/ GiveUp(w)
       PROVE  i \in Ids /\ table[i].state = "open"
  <2>1. CASE Commit(w) \/ Rollback(w)
    <3>1. PICK s \in {"in", "gone"} : Close({w}, s)
      BY <2>1 DEF Commit, Rollback
    <3>2. {w} \in SUBSET Writers
      OBVIOUS
    <3> QED
      BY <1>8, <3>1, <3>2
  <2>2. CASE Call(w) \/ Acquire(w) \/ ReadLast(w) \/ GiveUp(w)
    BY <1>5, <2>2 DEF Call, Acquire, ReadLast, GiveUp
  <2> QED
    BY <1>6, <1>10, <2>1, <2>2 DEF Work
<1>11. ASSUME NEW p \in Processes, Restart(p) \/ Patrol(p) \/ Announce(p)
       PROVE  i \in Ids /\ table[i].state = "open"
  <2>1. CASE Restart(p)
    <3>1. Close(Hit(p), "gone") /\ Hit(p) \in SUBSET Writers
      BY <2>1 DEF Restart, Hit
    <3> QED
      BY <1>8, <3>1
  <2> QED
    BY <1>5, <1>11, <2>1 DEF Patrol, Announce
<1> QED
  BY <1>5, <1>7, <1>9, <1>10, <1>11 DEF Next, Ids, vars

-----------------------------------------------------------------------------
(* The theorems.                                                           *)

\* One writer at a time, its rows the last of the chain, each of them with its
\* whole past hashed in: this holds whatever interleaves, fails or crashes.
THEOREM Inductive == Spec => []IInv
<1>1. IInv /\ [Next]_vars => IInv'
  BY InvStep
<1> QED
  BY <1>1, InitInv, PTL DEF Spec

\* Rows, hashes, writers, queues and keys keep their types.
THEOREM TypeCorrect == Spec => []TypeOK
<1>1. IInv => TypeOK
  BY DEF IInv
<1> QED
  BY <1>1, Inductive, PTL

\* verifyChain fails exactly when a row was altered, a row was removed before one
\* that is left, or a row was signed with a key that is not known: whatever writers
\* the service runs, and however much is damaged, it neither misses nor invents a
\* break.
THEOREM VerdictsAreRight == Spec => []VerdictIsRight
  BY Inductive, Verdict, PTL

\* recordGroup: a group is in the table as a whole or not at all, and one that was
\* reported as recorded is there.
THEOREM GroupsStayWhole == Spec => []GroupsAreWhole
<1>1. IInv => GroupsAreWhole
  <2> SUFFICES ASSUME IInv, NEW w \in Writers
               PROVE  LET members == {table[i].member : i \in {j \in InState({"in", "lost"}) : table[j].by = w}}
                      IN  /\ members \in {{}, 1 .. size[w]}
                          /\ pc[w] = "done" => members # {}
    BY DEF GroupsAreWhole
  <2> DEFINE kept == {j \in InState({"in", "lost"}) : table[j].by = w}
             members == {table[i].member : i \in kept}
  <2>1. kept = {j \in Own(w) : table[j].state \in {"in", "lost"}}
    BY DEF Own, InState, Ids
  <2>2. JobOf(w) /\ pc[w] \in {"idle", "wait", "read", "insert", "commit", "done", "failed"}
    BY DEF IInv, Jobs, TypeOK
  <2>3. CASE AllIn(w, {"in", "lost"}) /\ MembersOf(w) = 1 .. size[w] /\ size[w] \in {1, 2}
    <3>1. kept = Own(w)
      BY <2>1, <2>3 DEF AllIn
    <3>2. members = MembersOf(w)
      BY <3>1 DEF MembersOf
    <3>3. 1 \in 1 .. size[w]
      BY <2>3
    <3> QED
      BY <2>3, <3>2, <3>3
  <2>4. CASE pc[w] # "done" /\ \A j \in Own(w) : table[j].state \notin {"in", "lost"}
    <3>1. kept = {}
      BY <2>1, <2>4
    <3> QED
      BY <2>4, <3>1
  <2>5. \/ AllIn(w, {"in", "lost"}) /\ MembersOf(w) = 1 .. size[w] /\ size[w] \in {1, 2}
        \/ pc[w] # "done" /\ \A j \in Own(w) : table[j].state \notin {"in", "lost"}
    BY <2>2 DEF JobOf, AllIn
  <2> QED
    BY <2>3, <2>4, <2>5
<1> QED
  BY <1>1, Inductive, PTL

\* The transaction that reads the last hash also inserts and commits under the
\* lock: no row of the chain is committed before one that was seen.
THEOREM OnlyAppended == Spec => AppendOnly
<1>1. IInv /\ [Next]_vars => [\A i \in Committed' \ Committed : \A j \in Committed : j < i]_vars
  BY CommittedLast
<1> QED
  BY <1>1, Inductive, PTL DEF Spec, AppendOnly
=============================================================================
