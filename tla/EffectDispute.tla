---------------------------- MODULE EffectDispute ----------------------------
(***************************************************************************)
(* The registration of what one operation wrote, and the dispute about it: *)
(* EffectRegistration and EffectDisputeStore of governance-shared.  Calls  *)
(* with one idempotency key register their effects; the first one wins,    *)
(* the others compare what they wrote with what is held and leave their    *)
(* evidence on the root row, which a person may acknowledge.  As long as   *)
(* evidence is open, no revocation is reported as complete.                *)
(***************************************************************************)
EXTENDS Naturals, FiniteSets

CONSTANTS
    Targets,   \* business rows the tool may write
    Calls,     \* executions of the tool under one key
    People,    \* who may acknowledge a dispute
    NoTarget,
    MaxFaults  \* bound

ASSUME DisputeAssumption == NoTarget \notin Targets /\ MaxFaults \in Nat

VARIABLES
    held, root, grouped, \* the rows under the key: targets, the root's, composite or single
    dispute,             \* revoke_dispute of the root row
    pc, kind, declared, seen, \* a call: record or recordGroup, what it wrote, what it read
    reading,             \* person -> the evidence they look at
    confirmed,           \* sets that were reported as acknowledged
    faults,
    calm                 \* no two updates of the evidence ever overlapped

rows == <<held, root, grouped>>
calls == <<pc, kind, declared, seen>>
vars == <<rows, dispute, calls, reading, confirmed, faults, calm>>

NoEvidence == [marked |-> FALSE, missing |-> {}, extra |-> {}, acknowledged |-> FALSE]

Init ==
    /\ held = {} /\ root = NoTarget /\ grouped = FALSE
    /\ dispute = NoEvidence
    /\ pc = [c \in Calls |-> "idle"]
    /\ kind = [c \in Calls |-> "single"]
    /\ declared = [c \in Calls |-> {}]
    /\ seen = [c \in Calls |-> NoEvidence]
    /\ reading = [p \in People |-> NoEvidence]
    /\ confirmed = {}
    /\ faults = 0
    /\ calm = TRUE

-----------------------------------------------------------------------------
\* hasOpenDispute: what was written and is not held is open until a person
\* says otherwise; what is held beyond the declaration is not.
Open(d) == d.missing # {} /\ ~d.acknowledged

\* The rows a refused call compares with: the group, or the row that has the key.
Stored(c) == IF kind[c] = "single" THEN {root} ELSE held

\* declarationDiff
Missing(c) == declared[c] \ Stored(c)

Extra(c) == Stored(c) \ declared[c]

Busy == {c \in Calls : pc[c] = "mark"} \union {p \in People : reading[p].marked}

Overlap == calm' = (calm /\ Busy = {})

-----------------------------------------------------------------------------
\* The tool has written its targets, and the writes are committed.
Execute(c, k, D) ==
    /\ pc[c] = "idle" /\ pc' = [pc EXCEPT ![c] = "register"]
    /\ D # {} /\ (k = "single" => \E t \in Targets : D = {t})
    /\ kind' = [kind EXCEPT ![c] = k]
    /\ declared' = [declared EXCEPT ![c] = D]
    /\ UNCHANGED <<rows, dispute, seen, reading, confirmed, faults, calm>>

\* Mutant: the root is left out of the rows of a group.
RegisterMembers(c) ==
    /\ pc[c] = "register" /\ held = {} /\ pc' = [pc EXCEPT ![c] = "over"]
    /\ root' \in declared[c] /\ grouped' = (kind[c] = "group")
    /\ held' = IF grouped' THEN declared[c] \ {root'} ELSE declared[c]
    /\ UNCHANGED <<dispute, kind, declared, seen, reading, confirmed, faults, calm>>

\* record, recordGroup: all rows in one transaction; the unique key decides.
Register(c) ==
    /\ pc[c] = "register" /\ held = {} /\ pc' = [pc EXCEPT ![c] = "over"]
    /\ held' = declared[c] /\ root' \in declared[c] /\ grouped' = (kind[c] = "group")
    /\ UNCHANGED <<dispute, kind, declared, seen, reading, confirmed, faults, calm>>

\* Mutant: a group that finds no row of its own compares with nothing.
RefusedByGroup(c) ==
    /\ pc[c] = "register" /\ held # {}
    /\ seen' = [seen EXCEPT ![c] = dispute]
    /\ IF declared[c] = Stored(c) \/ (kind[c] = "group" /\ ~grouped)
       THEN pc' = [pc EXCEPT ![c] = "over"] /\ UNCHANGED calm
       ELSE pc' = [pc EXCEPT ![c] = "mark"] /\ Overlap
    /\ UNCHANGED <<rows, dispute, kind, declared, reading, confirmed, faults>>

\* The key is taken: the rows that have it are read, with their evidence; the
\* same targets are a replay.
Refused(c) ==
    /\ pc[c] = "register" /\ held # {}
    /\ seen' = [seen EXCEPT ![c] = dispute]
    /\ IF declared[c] = Stored(c)
       THEN pc' = [pc EXCEPT ![c] = "over"] /\ UNCHANGED calm
       ELSE pc' = [pc EXCEPT ![c] = "mark"] /\ Overlap
    /\ UNCHANGED <<rows, dispute, kind, declared, reading, confirmed, faults>>

\* Mutant: an acknowledgement is never carried over.
EvidenceAnew(c) ==
    [marked |-> TRUE, missing |-> Missing(c), extra |-> Extra(c), acknowledged |-> FALSE]

\* Mutant: an acknowledgement is carried over whatever is missing by now.
EvidenceCarried(c) ==
    [marked |-> TRUE, missing |-> Missing(c), extra |-> Extra(c),
     acknowledged |-> kind[c] = "group" /\ seen[c].acknowledged]

\* markIfDeclarationDiffers carries an acknowledgement of the same missing set
\* over, as it was read; markIfWriteDiffers does not.
Evidence(c) ==
    [marked |-> TRUE, missing |-> Missing(c), extra |-> Extra(c),
     acknowledged |-> /\ kind[c] = "group" /\ seen[c].acknowledged
                      /\ seen[c].missing = Missing(c)]

\* The evidence replaces what the column held, under no condition.
Mark(c) ==
    /\ pc[c] = "mark" /\ pc' = [pc EXCEPT ![c] = "over"]
    /\ dispute' = Evidence(c)
    /\ UNCHANGED <<rows, kind, declared, seen, reading, confirmed, faults, calm>>

\* The registration fails and throws, the update of the evidence fails and is
\* only logged, or the process ends.
Stop(c) ==
    /\ faults < MaxFaults /\ faults' = faults + 1
    /\ pc[c] \in {"register", "mark"} /\ pc' = [pc EXCEPT ![c] = "over"]
    /\ UNCHANGED <<rows, dispute, kind, declared, seen, reading, confirmed, calm>>

-----------------------------------------------------------------------------
\* acknowledgeDispute: the row is read,
Look(p) ==
    /\ ~reading[p].marked /\ dispute.marked /\ ~dispute.acknowledged
    /\ reading' = [reading EXCEPT ![p] = dispute]
    /\ Overlap
    /\ UNCHANGED <<rows, dispute, calls, confirmed, faults>>

\* and what was read is written back with the acknowledgement,
Acknowledge(p) ==
    /\ reading[p].marked
    /\ dispute' = [reading[p] EXCEPT !.acknowledged = TRUE]
    /\ confirmed' = confirmed \union {reading[p].missing}
    /\ reading' = [reading EXCEPT ![p] = NoEvidence]
    /\ UNCHANGED <<rows, calls, faults, calm>>

\* or the update fails, and the person is told so.
AcknowledgeFails(p) ==
    /\ reading[p].marked
    /\ reading' = [reading EXCEPT ![p] = NoEvidence]
    /\ UNCHANGED <<rows, dispute, calls, confirmed, faults, calm>>

Next ==
    \/ \E c \in Calls :
         \/ \E k \in {"single", "group"}, D \in SUBSET Targets : Execute(c, k, D)
         \/ Register(c) \/ Refused(c) \/ Mark(c) \/ Stop(c)
    \/ \E p \in People : Look(p) \/ Acknowledge(p) \/ AcknowledgeFails(p)

Spec == Init /\ [][Next]_vars

-----------------------------------------------------------------------------
EvidenceType == [marked : BOOLEAN, missing : SUBSET Targets, extra : SUBSET Targets,
                 acknowledged : BOOLEAN]

TypeOK ==
    /\ held \in SUBSET Targets
    /\ IF held = {} THEN root = NoTarget ELSE root \in held
    /\ grouped \in BOOLEAN
    /\ dispute \in EvidenceType
    /\ pc \in [Calls -> {"idle", "register", "mark", "over"}]
    /\ kind \in [Calls -> {"single", "group"}]
    /\ declared \in [Calls -> SUBSET Targets]
    /\ seen \in [Calls -> EvidenceType]
    /\ reading \in [People -> EvidenceType]
    /\ confirmed \in SUBSET SUBSET Targets
    /\ faults \in 0 .. MaxFaults
    /\ calm \in BOOLEAN

Settled == {c \in Calls : pc[c] = "over"}

Lost(c) == declared[c] \ held

\* No write disappears as long as no mark of the evidence fails: a call whose
\* targets are not all held has left evidence on the row that has its key, whoever
\* else writes to that row. (A mark that fails is only logged.)
NothingIsSilent ==
    faults = 0 => \A c \in Settled : Lost(c) = {} \/ dispute.marked

\* The evidence in the column is that of another call, about something else.
Replaced(c) == \E d \in Settled \ {c} :
    /\ declared[d] # Stored(d) /\ Missing(d) # Lost(c)
    /\ dispute.missing = Missing(d)

\* What keeps a revocation from being complete is only ever closed by a person
\* who read just that set, whatever is carried over, read early or written late,
\* and whatever fails: never does one set inherit the acknowledgement of another.
\* And as long as nothing fails, a loss that is neither open nor acknowledged was
\* replaced: the column holds one evidence, and a call that missed something else,
\* or an acknowledgement of an earlier reading, puts its own over what is open.
OpenUntilConfirmed ==
    /\ dispute.missing # {} => Open(dispute) \/ dispute.missing \in confirmed
    /\ faults = 0 => \A c \in Settled : Lost(c) # {} =>
           Open(dispute) \/ Lost(c) \in confirmed \/ Replaced(c)

\* The comment of markIfDeclarationDiffers: a set that changed is a new fact, which
\* stands unacknowledged. That does not hold: the two replacements above close it.
LossesStandAlone ==
    faults = 0 => \A c \in Settled : Lost(c) # {} => Open(dispute) \/ Lost(c) \in confirmed

\* All settled calls that do not agree with the rows lost the same.
Steady == \A c, d \in Settled :
    Lost(c) # {} /\ declared[d] # Stored(d) => Lost(c) = Lost(d)

\* An acknowledgement of a group stands while nothing else is found missing, as
\* long as the updates of the evidence come one after the other. It is said of
\* recordGroup only: record opens the same set again (markIfWriteDiffers).
ConfirmationStands ==
    calm /\ Steady /\ (\A c \in Calls : pc[c] # "idle" => kind[c] = "group") =>
        confirmed = {} \/ ~Open(dispute)

\* The comment of acknowledgeDispute: a dispute is resolved by an explicit act
\* of a person and never automatically, because a later declaration that agrees
\* does not register what is missing.
OnlyPeopleClose == [][Open(dispute) /\ ~Open(dispute') => dispute'.acknowledged]_vars
=============================================================================
