------------------------- MODULE EffectDispute_proofs -------------------------
(***************************************************************************)
(* Proofs about the registration of effects and its disputes, for any      *)
(* number of targets, calls and people.                                    *)
(***************************************************************************)
EXTENDS EffectDispute, TLAPS

\* Evidence as it was written for a call: what it says is missing was missing
\* from its point of view, and what it says is acknowledged was.
Founded(x) ==
    /\ x.acknowledged => x.missing \in confirmed
    /\ x.marked => \E d \in Calls : /\ pc[d] = "over" /\ declared[d] # Stored(d)
                                    /\ x.missing = Missing(d)

AllFounded ==
    /\ Founded(dispute)
    /\ \A c \in Calls : Founded(seen[c])
    /\ \A p \in People : Founded(reading[p])

\* There is no evidence without rows, and evidence never goes away.
NothingBefore ==
    /\ held = {} => /\ ~dispute.marked
                    /\ \A c \in Calls : pc[c] # "mark" /\ ~seen[c].marked
                    /\ \A p \in People : ~reading[p].marked
    /\ confirmed # {} => dispute.marked
    /\ \A p \in People : reading[p].marked => dispute.marked

\* A single record is of one target.
Singles == \A c \in Calls :
    pc[c] # "idle" /\ kind[c] = "single" => \E t \in Targets : declared[c] = {t}

\* A call that leaves evidence disagrees with the rows.
MarksDiffer == \A c \in Calls : pc[c] = "mark" => declared[c] # Stored(c)

\* One update at a time: it works on what the column holds.
OneAtATime == calm =>
    /\ \A c, d \in Calls : pc[c] = "mark" /\ pc[d] = "mark" => c = d
    /\ \A c \in Calls, p \in People : ~(pc[c] = "mark" /\ reading[p].marked)
    /\ \A c \in Calls : pc[c] = "mark" => seen[c] = dispute

IInv ==
    /\ TypeOK /\ AllFounded /\ NothingBefore /\ Singles /\ MarksDiffer /\ OneAtATime
    /\ NothingIsSilent /\ ConfirmationStands

-----------------------------------------------------------------------------
LEMMA StoredType ==
    ASSUME TypeOK, held # {}, NEW c \in Calls
    PROVE  /\ Stored(c) \subseteq held /\ held \subseteq Targets
           /\ Missing(c) \in SUBSET Targets /\ Extra(c) \in SUBSET Targets
  BY DEF TypeOK, Stored, Missing, Extra

LEMMA EvidenceWritten ==
    ASSUME TypeOK, NEW c \in Calls, held # {}
    PROVE  /\ Evidence(c) \in EvidenceType
           /\ Evidence(c).marked /\ Evidence(c).missing = Missing(c)
           /\ Evidence(c).acknowledged => /\ kind[c] = "group" /\ seen[c].acknowledged
                                          /\ seen[c].missing = Missing(c)
           /\ (kind[c] = "group" /\ seen[c].acknowledged /\ seen[c].missing = Missing(c))
                => Evidence(c).acknowledged
<1>1. seen[c] \in EvidenceType
  BY DEF TypeOK
<1>2. (kind[c] = "group" /\ seen[c].acknowledged /\ seen[c].missing = Missing(c)) \in BOOLEAN
  OBVIOUS
<1> QED
  BY <1>1, <1>2, StoredType DEF Evidence, EvidenceType

LEMMA AcknowledgedType ==
    ASSUME NEW x \in EvidenceType
    PROVE  /\ [x EXCEPT !.acknowledged = TRUE] \in EvidenceType
           /\ [x EXCEPT !.acknowledged = TRUE].acknowledged
           /\ [x EXCEPT !.acknowledged = TRUE].marked = x.marked
           /\ [x EXCEPT !.acknowledged = TRUE].missing = x.missing
  BY DEF EvidenceType

LEMMA TypeStep ==
    ASSUME IInv, [Next]_vars
    PROVE  TypeOK'
<1> USE DEF IInv
<1>1. ASSUME NEW c \in Calls, NEW k \in {"single", "group"}, NEW D \in SUBSET Targets,
             Execute(c, k, D)
      PROVE  TypeOK'
  BY <1>1 DEF Execute, TypeOK, rows
<1>2. ASSUME NEW c \in Calls, Register(c)
      PROVE  TypeOK'
  <2>1. declared[c] \in SUBSET Targets /\ held' = declared[c] /\ root' \in declared[c]
        /\ grouped' \in BOOLEAN
    BY <1>2 DEF Register, TypeOK
  <2>2. pc' \in [Calls -> {"idle", "register", "mark", "over"}]
    BY <1>2 DEF Register, TypeOK
  <2> QED
    BY <1>2, <2>1, <2>2 DEF Register, TypeOK
<1>3. ASSUME NEW c \in Calls, Refused(c)
      PROVE  TypeOK'
  <2>1. pc' \in [Calls -> {"idle", "register", "mark", "over"}]
    BY <1>3 DEF Refused, TypeOK
  <2>2. seen' \in [Calls -> EvidenceType] /\ calm' \in BOOLEAN
    BY <1>3 DEF Refused, Overlap, TypeOK
  <2> QED
    BY <1>3, <2>1, <2>2 DEF Refused, TypeOK, rows
<1>4. ASSUME NEW c \in Calls, Mark(c)
      PROVE  TypeOK'
  <2>1. held # {} /\ dispute' = Evidence(c)
    BY <1>4 DEF Mark, NothingBefore
  <2>2. dispute' \in EvidenceType
    BY <2>1, EvidenceWritten
  <2> QED
    BY <1>4, <2>2 DEF Mark, TypeOK, rows
<1>5. ASSUME NEW c \in Calls, Stop(c)
      PROVE  TypeOK'
  BY <1>5, DisputeAssumption DEF Stop, TypeOK, rows
<1>6. ASSUME NEW p \in People, Look(p)
      PROVE  TypeOK'
  BY <1>6 DEF Look, Overlap, TypeOK, rows, calls
<1>7. ASSUME NEW p \in People, Acknowledge(p)
      PROVE  TypeOK'
  <2>1. dispute' \in EvidenceType /\ reading[p].missing \in SUBSET Targets
    BY <1>7, AcknowledgedType DEF Acknowledge, TypeOK, EvidenceType
  <2>2. NoEvidence \in EvidenceType
    BY DEF NoEvidence, EvidenceType
  <2> QED
    BY <1>7, <2>1, <2>2 DEF Acknowledge, TypeOK, rows, calls
<1>8. ASSUME NEW p \in People, AcknowledgeFails(p)
      PROVE  TypeOK'
  <2>1. NoEvidence \in EvidenceType
    BY DEF NoEvidence, EvidenceType
  <2> QED
    BY <1>8, <2>1 DEF AcknowledgeFails, TypeOK, rows, calls
<1>9. CASE UNCHANGED vars
  BY <1>9 DEF vars, rows, calls, TypeOK
<1> QED
  BY <1>1, <1>2, <1>3, <1>4, <1>5, <1>6, <1>7, <1>8, <1>9 DEF Next

-----------------------------------------------------------------------------
\* What a settled call says of its writes does not change any more.
SettledStay ==
    \A d \in Calls : pc[d] = "over" =>
        pc'[d] = "over" /\ kind'[d] = kind[d] /\ declared'[d] = declared[d]

LEMMA StaysFounded ==
    ASSUME NEW x, Founded(x), confirmed \subseteq confirmed', SettledStay,
           ~x.marked \/ UNCHANGED <<held, root>>
    PROVE  Founded(x)'
<1>1. ~x.marked => Founded(x)'
  BY DEF Founded
<1>2. ASSUME x.marked
      PROVE  Founded(x)'
  <2>1. PICK d \in Calls : /\ pc[d] = "over" /\ declared[d] # Stored(d)
                           /\ x.missing = Missing(d)
    BY <1>2 DEF Founded
  <2>2. Stored(d)' = Stored(d) /\ Missing(d)' = Missing(d) /\ declared'[d] = declared[d]
    BY <1>2, <2>1 DEF SettledStay, Stored, Missing
  <2>3. \E e \in Calls : /\ pc'[e] = "over" /\ declared'[e] # Stored(e)'
                         /\ x.missing = Missing(e)'
    BY <2>1, <2>2 DEF SettledStay
  <2> QED
    BY <2>3 DEF Founded
<1> QED
  BY <1>1, <1>2

LEMMA FoundedStep ==
    ASSUME IInv, [Next]_vars
    PROVE  AllFounded'
<1> USE DEF IInv
<1>1. ASSUME NEW c \in Calls, NEW k \in {"single", "group"}, NEW D \in SUBSET Targets,
             Execute(c, k, D)
      PROVE  AllFounded'
  <2>1. SettledStay /\ UNCHANGED <<rows, confirmed, dispute, seen, reading>>
    BY <1>1 DEF Execute, SettledStay, TypeOK
  <2> QED
    BY <2>1, StaysFounded DEF AllFounded, rows
<1>2. ASSUME NEW c \in Calls, Register(c)
      PROVE  AllFounded'
  <2>1. SettledStay /\ UNCHANGED <<confirmed, dispute, seen, reading>> /\ held = {}
    BY <1>2 DEF Register, SettledStay, TypeOK
  <2> QED
    BY <2>1, StaysFounded DEF AllFounded, NothingBefore
<1>3. ASSUME NEW c \in Calls, Refused(c)
      PROVE  AllFounded'
  <2>1. SettledStay /\ UNCHANGED <<rows, confirmed, dispute, reading>>
    BY <1>3 DEF Refused, SettledStay, TypeOK
  <2>2. \A d \in Calls : seen'[d] = seen[d] \/ seen'[d] = dispute
    BY <1>3 DEF Refused, TypeOK
  <2>3. \A d \in Calls : Founded(seen'[d])
    BY <2>2 DEF AllFounded
  <2>4. \A x : Founded(x) => Founded(x)'
    BY <2>1, StaysFounded DEF rows
  <2> QED
    BY <2>1, <2>2, <2>3, <2>4 DEF AllFounded
<1>4. ASSUME NEW c \in Calls, Mark(c)
      PROVE  AllFounded'
  <2>1. SettledStay /\ UNCHANGED <<rows, confirmed, seen, reading>>
    BY <1>4 DEF Mark, SettledStay, TypeOK
  <2>2. \A x : Founded(x) => Founded(x)'
    BY <2>1, StaysFounded DEF rows
  <2>3. Founded(dispute)'
    <3>1. held # {} /\ dispute' = Evidence(c) /\ pc'[c] = "over"
      BY <1>4 DEF Mark, NothingBefore, TypeOK
    <3>2. declared[c] # Stored(c) /\ UNCHANGED <<declared, kind, rows, confirmed>>
      BY <1>4 DEF Mark, MarksDiffer
    <3>3. Stored(c)' = Stored(c) /\ Missing(c)' = Missing(c)
      BY <3>2 DEF Stored, Missing, rows
    <3>4. /\ dispute'.missing = Missing(c)
          /\ dispute'.acknowledged => seen[c].acknowledged /\ seen[c].missing = Missing(c)
      BY <3>1, EvidenceWritten
    <3>5. dispute'.acknowledged => dispute'.missing \in confirmed'
      BY <3>2, <3>4 DEF AllFounded, Founded
    <3>6. pc'[c] = "over" /\ declared'[c] # Stored(c)' /\ dispute'.missing = Missing(c)'
      BY <3>1, <3>2, <3>3, <3>4
    <3> QED
      BY <3>5, <3>6 DEF Founded
  <2> QED
    BY <2>1, <2>2, <2>3 DEF AllFounded
<1>5. ASSUME NEW c \in Calls, Stop(c)
      PROVE  AllFounded'
  <2>1. SettledStay /\ UNCHANGED <<rows, confirmed, dispute, seen, reading>>
    BY <1>5 DEF Stop, SettledStay, TypeOK
  <2> QED
    BY <2>1, StaysFounded DEF AllFounded, rows
<1>6. ASSUME NEW p \in People, Look(p)
      PROVE  AllFounded'
  <2>1. SettledStay /\ UNCHANGED <<rows, confirmed, dispute, seen>>
    BY <1>6 DEF Look, SettledStay, calls
  <2>2. \A x : Founded(x) => Founded(x)'
    BY <2>1, StaysFounded DEF rows
  <2>3. \A q \in People : reading'[q] = reading[q] \/ reading'[q] = dispute
    BY <1>6 DEF Look, TypeOK
  <2> QED
    BY <2>1, <2>2, <2>3 DEF AllFounded
<1>7. ASSUME NEW p \in People, Acknowledge(p) \/ AcknowledgeFails(p)
      PROVE  AllFounded'
  <2>1. SettledStay /\ UNCHANGED <<rows, seen>> /\ confirmed \subseteq confirmed'
    BY <1>7 DEF Acknowledge, AcknowledgeFails, SettledStay, calls
  <2>2. \A x : Founded(x) => Founded(x)'
    BY <2>1, StaysFounded DEF rows
  <2>3. \A q \in People : reading'[q] = reading[q] \/ reading'[q] = NoEvidence
    BY <1>7 DEF Acknowledge, AcknowledgeFails, TypeOK
  <2>4. Founded(NoEvidence)
    BY DEF Founded, NoEvidence
  <2>5. Founded(dispute)'
    <3>1. CASE AcknowledgeFails(p)
      BY <3>1, <2>2 DEF AcknowledgeFails, AllFounded
    <3>2. CASE Acknowledge(p)
      <4>1. /\ dispute'.missing = reading[p].missing /\ dispute'.marked = reading[p].marked
            /\ reading[p].missing \in confirmed'
        BY <3>2, AcknowledgedType DEF Acknowledge, TypeOK
      <4>2. Founded(reading[p])
        BY DEF AllFounded
      <4> DEFINE x == reading[p]
      <4>3. PICK d \in Calls : pc[d] = "over" /\ declared[d] # Stored(d) /\ x.missing = Missing(d)
        BY <3>2, <4>2 DEF Founded, Acknowledge
      <4>4. Stored(d)' = Stored(d) /\ Missing(d)' = Missing(d)
        BY <2>1, <4>3 DEF Stored, Missing, SettledStay, rows
      <4>5. pc'[d] = "over" /\ declared'[d] # Stored(d)' /\ dispute'.missing = Missing(d)'
        BY <2>1, <4>1, <4>3, <4>4 DEF SettledStay
      <4> QED
        BY <4>1, <4>5 DEF Founded
    <3> QED
      BY <1>7, <3>1, <3>2
  <2> QED
    BY <2>1, <2>2, <2>3, <2>4, <2>5 DEF AllFounded
<1>8. CASE UNCHANGED vars
  <2>1. SettledStay /\ UNCHANGED <<rows, confirmed, dispute, seen, reading>>
    BY <1>8 DEF vars, calls, SettledStay
  <2> QED
    BY <2>1, StaysFounded DEF AllFounded, rows
<1> QED
  BY <1>1, <1>2, <1>3, <1>4, <1>5, <1>6, <1>7, <1>8 DEF Next

LEMMA BeforeStep ==
    ASSUME IInv, [Next]_vars
    PROVE  NothingBefore' /\ Singles' /\ MarksDiffer'
<1> USE DEF IInv
<1>1. ASSUME NEW c \in Calls, NEW k \in {"single", "group"}, NEW D \in SUBSET Targets,
             Execute(c, k, D)
      PROVE  NothingBefore' /\ Singles' /\ MarksDiffer'
  BY <1>1 DEF Execute, NothingBefore, Singles, MarksDiffer, Stored, TypeOK, rows
<1>2. ASSUME NEW c \in Calls, Register(c)
      PROVE  NothingBefore' /\ Singles' /\ MarksDiffer'
  BY <1>2 DEF Register, NothingBefore, Singles, MarksDiffer, TypeOK
<1>3. ASSUME NEW c \in Calls, Refused(c)
      PROVE  NothingBefore' /\ Singles' /\ MarksDiffer'
  BY <1>3 DEF Refused, NothingBefore, Singles, MarksDiffer, Stored, TypeOK, rows
<1>4. ASSUME NEW c \in Calls, Mark(c)
      PROVE  NothingBefore' /\ Singles' /\ MarksDiffer'
  <2>1. held # {} /\ dispute'.marked
    BY <1>4, EvidenceWritten DEF Mark, NothingBefore
  <2> QED
    BY <1>4, <2>1 DEF Mark, NothingBefore, Singles, MarksDiffer, Stored, TypeOK, rows
<1>5. ASSUME NEW c \in Calls, Stop(c)
      PROVE  NothingBefore' /\ Singles' /\ MarksDiffer'
  BY <1>5 DEF Stop, NothingBefore, Singles, MarksDiffer, Stored, TypeOK, rows
<1>6. ASSUME NEW p \in People, Look(p)
      PROVE  NothingBefore' /\ Singles' /\ MarksDiffer'
  BY <1>6 DEF Look, NothingBefore, Singles, MarksDiffer, Stored, TypeOK, rows, calls
<1>7. ASSUME NEW p \in People, Acknowledge(p)
      PROVE  NothingBefore' /\ Singles' /\ MarksDiffer'
  <2>1. reading[p].marked /\ dispute'.marked
    BY <1>7, AcknowledgedType DEF Acknowledge, TypeOK
  <2>2. \A q \in People : reading'[q] = reading[q] \/ ~reading'[q].marked
    BY <1>7 DEF Acknowledge, TypeOK, NoEvidence
  <2> QED
    BY <1>7, <2>1, <2>2 DEF Acknowledge, NothingBefore, Singles, MarksDiffer, Stored, rows, calls
<1>8. ASSUME NEW p \in People, AcknowledgeFails(p)
      PROVE  NothingBefore' /\ Singles' /\ MarksDiffer'
  <2>1. \A q \in People : reading'[q] = reading[q] \/ ~reading'[q].marked
    BY <1>8 DEF AcknowledgeFails, TypeOK, NoEvidence
  <2> QED
    BY <1>8, <2>1 DEF AcknowledgeFails, NothingBefore, Singles, MarksDiffer, Stored, rows, calls
<1>9. CASE UNCHANGED vars
  BY <1>9 DEF vars, rows, calls, NothingBefore, Singles, MarksDiffer, Stored
<1> QED
  BY <1>1, <1>2, <1>3, <1>4, <1>5, <1>6, <1>7, <1>8, <1>9 DEF Next

LEMMA OneStep ==
    ASSUME IInv, [Next]_vars
    PROVE  OneAtATime'
<1> USE DEF IInv
<1>1. ASSUME NEW c \in Calls, NEW k \in {"single", "group"}, NEW D \in SUBSET Targets,
             Execute(c, k, D)
      PROVE  OneAtATime'
  BY <1>1 DEF Execute, OneAtATime, TypeOK
<1>2. ASSUME NEW c \in Calls, Register(c)
      PROVE  OneAtATime'
  BY <1>2 DEF Register, OneAtATime, TypeOK
<1>3. ASSUME NEW c \in Calls, Refused(c)
      PROVE  OneAtATime'
  BY <1>3 DEF Refused, Overlap, Busy, OneAtATime, TypeOK
<1>4. ASSUME NEW c \in Calls, Mark(c)
      PROVE  OneAtATime'
  BY <1>4 DEF Mark, OneAtATime, TypeOK
<1>5. ASSUME NEW c \in Calls, Stop(c)
      PROVE  OneAtATime'
  BY <1>5 DEF Stop, OneAtATime, TypeOK
<1>6. ASSUME NEW p \in People, Look(p)
      PROVE  OneAtATime'
  BY <1>6 DEF Look, Overlap, Busy, OneAtATime, calls
<1>7. ASSUME NEW p \in People, Acknowledge(p) \/ AcknowledgeFails(p)
      PROVE  OneAtATime'
  BY <1>7 DEF Acknowledge, AcknowledgeFails, OneAtATime, TypeOK, NoEvidence, calls
<1>8. CASE UNCHANGED vars
  BY <1>8 DEF vars, calls, OneAtATime
<1> QED
  BY <1>1, <1>2, <1>3, <1>4, <1>5, <1>6, <1>7, <1>8 DEF Next

LEMMA SilentStep ==
    ASSUME IInv, [Next]_vars
    PROVE  NothingIsSilent'
<1> USE DEF IInv
<1>1. ASSUME NEW c \in Calls, NEW k \in {"single", "group"}, NEW D \in SUBSET Targets,
             Execute(c, k, D)
      PROVE  NothingIsSilent'
  BY <1>1 DEF Execute, NothingIsSilent, Settled, Lost, TypeOK, rows
<1>2. ASSUME NEW c \in Calls, Register(c)
      PROVE  NothingIsSilent'
  BY <1>2 DEF Register, NothingIsSilent, Settled, Lost, TypeOK
<1>3. ASSUME NEW c \in Calls, Refused(c)
      PROVE  NothingIsSilent'
  <2>1. declared[c] = Stored(c) => Lost(c) = {}
    BY <1>3, StoredType DEF Refused, Lost
  <2> QED
    BY <1>3, <2>1 DEF Refused, NothingIsSilent, Settled, Lost, TypeOK, rows
<1>4. ASSUME NEW c \in Calls, Mark(c)
      PROVE  NothingIsSilent'
  <2>1. dispute'.marked
    BY <1>4, EvidenceWritten DEF Mark, NothingBefore
  <2> QED
    BY <2>1 DEF NothingIsSilent
<1>5. ASSUME NEW c \in Calls, Stop(c)
      PROVE  NothingIsSilent'
  <2>1. faults' # 0
    BY <1>5 DEF Stop, TypeOK
  <2> QED
    BY <2>1 DEF NothingIsSilent
<1>6. ASSUME NEW p \in People, Look(p) \/ AcknowledgeFails(p)
      PROVE  NothingIsSilent'
  BY <1>6 DEF Look, AcknowledgeFails, NothingIsSilent, Settled, Lost, rows, calls
<1>7. ASSUME NEW p \in People, Acknowledge(p)
      PROVE  NothingIsSilent'
  <2>1. dispute'.marked
    BY <1>7, AcknowledgedType DEF Acknowledge, TypeOK
  <2> QED
    BY <2>1 DEF NothingIsSilent
<1>8. CASE UNCHANGED vars
  BY <1>8 DEF vars, rows, calls, NothingIsSilent, Settled, Lost
<1> QED
  BY <1>1, <1>2, <1>3, <1>4, <1>5, <1>6, <1>7, <1>8 DEF Next

-----------------------------------------------------------------------------
Groups == \A c \in Calls : pc[c] # "idle" => kind[c] = "group"

\* What held after a step of the calls that are settled held before it.
LEMMA Backwards ==
    ASSUME IInv, [Next]_vars
    PROVE  /\ held # {} => UNCHANGED rows
           /\ SettledStay
           /\ calm' => calm
           /\ Groups' => Groups
<1> USE DEF IInv
<1>1. ASSUME NEW c \in Calls, NEW k \in {"single", "group"}, NEW D \in SUBSET Targets,
             Execute(c, k, D)
      PROVE  SettledStay /\ (calm' => calm) /\ (Groups' => Groups) /\ UNCHANGED rows
  BY <1>1 DEF Execute, SettledStay, Groups, TypeOK
<1>2. ASSUME NEW c \in Calls, Register(c)
      PROVE  SettledStay /\ (calm' => calm) /\ (Groups' => Groups) /\ held = {}
  BY <1>2 DEF Register, SettledStay, Groups, TypeOK
<1>3. ASSUME NEW c \in Calls, Refused(c)
      PROVE  SettledStay /\ (calm' => calm) /\ (Groups' => Groups) /\ UNCHANGED rows
  BY <1>3 DEF Refused, Overlap, SettledStay, Groups, TypeOK
<1>4. ASSUME NEW c \in Calls, Mark(c) \/ Stop(c)
      PROVE  SettledStay /\ (calm' => calm) /\ (Groups' => Groups) /\ UNCHANGED rows
  BY <1>4 DEF Mark, Stop, SettledStay, Groups, TypeOK
<1>5. ASSUME NEW p \in People, Look(p) \/ Acknowledge(p) \/ AcknowledgeFails(p)
      PROVE  SettledStay /\ (calm' => calm) /\ (Groups' => Groups) /\ UNCHANGED rows
  <2>1. UNCHANGED <<rows, calls>> /\ (calm' => calm)
    <3>1. CASE Look(p)
      BY <3>1 DEF Look, Overlap
    <3>2. CASE Acknowledge(p) \/ AcknowledgeFails(p)
      BY <3>2 DEF Acknowledge, AcknowledgeFails
    <3> QED
      BY <1>5, <3>1, <3>2
  <2> QED
    BY <2>1 DEF SettledStay, Groups, calls
<1>6. CASE UNCHANGED vars
  BY <1>6 DEF vars, calls, SettledStay, Groups
<1> QED
  BY <1>1, <1>2, <1>3, <1>4, <1>5, <1>6 DEF Next

LEMMA SteadyBefore ==
    ASSUME SettledStay, UNCHANGED rows, Steady'
    PROVE  Steady
<1>1. \A c \in Settled : /\ c \in Settled' /\ Lost(c)' = Lost(c) /\ Stored(c)' = Stored(c)
                         /\ declared'[c] = declared[c]
  BY DEF SettledStay, Settled, Lost, Stored, rows
<1> QED
  BY <1>1 DEF Steady

\* A group that lost something missed just that.
LEMMA GroupMissing ==
    ASSUME NEW c \in Calls, kind[c] = "group"
    PROVE  Missing(c) = Lost(c)
  BY DEF Missing, Lost, Stored

LEMMA ConfirmationStep ==
    ASSUME IInv, [Next]_vars
    PROVE  ConfirmationStands'
<1> USE DEF IInv
<1> SUFFICES ASSUME calm', Steady', Groups', confirmed' # {}
             PROVE  ~Open(dispute')
  BY DEF ConfirmationStands, Groups, Open
<1>1. held # {}
  <2> SUFFICES ASSUME held = {} PROVE FALSE
    OBVIOUS
  <2>1. confirmed = {} /\ \A p \in People : ~reading[p].marked
    BY DEF NothingBefore
  <2>2. confirmed' = confirmed
    BY <2>1 DEF Next, Execute, Register, Refused, Mark, Stop, Look, Acknowledge,
                AcknowledgeFails, vars
  <2> QED
    BY <2>1, <2>2
<1>2. calm /\ Groups /\ Steady /\ UNCHANGED rows
  BY <1>1, Backwards, SteadyBefore
<1>3. confirmed # {} => ~Open(dispute)
  BY <1>2 DEF ConfirmationStands, Groups
<1>4. ASSUME NEW c \in Calls, Mark(c)
      PROVE  ~Open(dispute')
  <2>1. /\ pc[c] = "mark" /\ seen[c] = dispute /\ kind[c] = "group" /\ confirmed # {}
        /\ dispute' = Evidence(c) /\ dispute.marked /\ declared[c] # Stored(c)
        /\ pc'[c] = "over" /\ UNCHANGED <<kind, declared, held, root>>
    BY <1>2, <1>4 DEF Mark, OneAtATime, Groups, MarksDiffer, NothingBefore, TypeOK, rows
  <2>2. PICK d \in Calls : pc[d] = "over" /\ declared[d] # Stored(d) /\ dispute.missing = Missing(d)
    BY <2>1 DEF AllFounded, Founded
  <2>3. kind[d] = "group" /\ Missing(d) = Lost(d) /\ Missing(c) = Lost(c)
    BY <1>2, <2>1, <2>2, GroupMissing DEF Groups
  <2>4. /\ Lost(c)' = Lost(c) /\ Lost(d)' = Lost(d) /\ Stored(d)' = Stored(d)
        /\ c \in Settled' /\ d \in Settled'
    BY <2>1, <2>2, Backwards DEF Lost, Stored, Settled, SettledStay
  <2>5. Lost(c) # {} => Lost(c) = Lost(d)
    BY <2>1, <2>2, <2>4 DEF Steady
  <2>6. Missing(c) # {} => Evidence(c).acknowledged
    <3> SUFFICES ASSUME Missing(c) # {} PROVE Evidence(c).acknowledged
      OBVIOUS
    <3>1. seen[c].missing = Missing(c) /\ dispute.missing # {}
      BY <2>1, <2>2, <2>3, <2>5
    <3>2. seen[c].acknowledged
      BY <1>3, <2>1, <3>1 DEF Open
    <3> QED
      BY <1>1, <2>1, <3>1, <3>2, EvidenceWritten
  <2>7. Evidence(c).missing = Missing(c)
    BY <1>1, EvidenceWritten
  <2> QED
    BY <2>1, <2>6, <2>7 DEF Open
<1>5. ASSUME NEW p \in People, Acknowledge(p)
      PROVE  ~Open(dispute')
  <2>1. dispute'.acknowledged
    BY <1>5, AcknowledgedType DEF Acknowledge, TypeOK
  <2> QED
    BY <2>1 DEF Open
<1>6. CASE UNCHANGED <<dispute, confirmed>>
  BY <1>3, <1>6
<1>7. \/ \E c \in Calls : Mark(c)
      \/ \E p \in People : Acknowledge(p)
      \/ UNCHANGED <<dispute, confirmed>>
  BY DEF Next, Execute, Register, Refused, Stop, Look, AcknowledgeFails, vars
<1> QED
  BY <1>4, <1>5, <1>6, <1>7

-----------------------------------------------------------------------------
LEMMA Initially == Init => IInv
<1> SUFFICES ASSUME Init PROVE IInv
  OBVIOUS
<1>1. TypeOK
  <2>1. NoEvidence \in EvidenceType
    BY DEF NoEvidence, EvidenceType
  <2>2. /\ seen \in [Calls -> EvidenceType] /\ reading \in [People -> EvidenceType]
        /\ dispute \in EvidenceType
    BY <2>1 DEF Init
  <2>3. held = {} /\ root = NoTarget /\ confirmed = {} /\ faults \in 0 .. MaxFaults
    BY DisputeAssumption DEF Init
  <2>5. grouped \in BOOLEAN /\ calm \in BOOLEAN
    BY DEF Init
  <2>4. /\ pc \in [Calls -> {"idle", "register", "mark", "over"}]
        /\ kind \in [Calls -> {"single", "group"}]
        /\ declared \in [Calls -> SUBSET Targets]
    BY DEF Init
  <2> QED
    BY <2>2, <2>3, <2>4, <2>5 DEF TypeOK
<1>2. AllFounded /\ NothingBefore /\ Singles /\ MarksDiffer /\ OneAtATime
  BY DEF Init, AllFounded, Founded, NothingBefore, Singles, MarksDiffer, OneAtATime, NoEvidence
<1>3. NothingIsSilent /\ ConfirmationStands
  BY DEF Init, NothingIsSilent, Settled, ConfirmationStands
<1> QED
  BY <1>1, <1>2, <1>3 DEF IInv

LEMMA Inductive == Spec => []IInv
<1>1. Init => IInv
  BY Initially
<1>2. ASSUME IInv, [Next]_vars
      PROVE  IInv'
  BY <1>2, TypeStep, FoundedStep, BeforeStep, OneStep, SilentStep, ConfirmationStep DEF IInv
<1> QED
  BY <1>1, <1>2, PTL DEF Spec

\* What a settled call lost it also missed.
LEMMA LostIsMissing ==
    ASSUME IInv, held # {}, NEW c \in Settled, Lost(c) # {}
    PROVE  Missing(c) = Lost(c)
<1> USE DEF IInv
<1>1. CASE kind[c] = "group"
  BY <1>1, GroupMissing DEF Settled
<1>2. CASE kind[c] # "group"
  <2>1. Stored(c) = {root} /\ root \in held
    BY <1>2 DEF Stored, Settled, TypeOK
  <2>2. PICK t \in Targets : declared[c] = {t}
    BY <1>2 DEF Singles, Settled, TypeOK
  <2> QED
    BY <2>1, <2>2 DEF Missing, Lost
<1> QED
  BY <1>1, <1>2

\* The evidence was left by a settled call; if it is not open, somebody has
\* acknowledged what that call missed.
LEMMA OpenFollows == IInv => OpenUntilConfirmed
<1> SUFFICES ASSUME IInv PROVE OpenUntilConfirmed
  OBVIOUS
<1> USE DEF IInv
<1>1. dispute.acknowledged => dispute.missing \in confirmed
  BY DEF AllFounded, Founded
<1>2. dispute.missing # {} => Open(dispute) \/ dispute.missing \in confirmed
  BY <1>1 DEF Open
<1>3. ASSUME faults = 0, NEW c \in Settled, Lost(c) # {}, ~Open(dispute), Lost(c) \notin confirmed
      PROVE  Replaced(c)
  <2>1. dispute.marked
    BY <1>3 DEF NothingIsSilent
  <2>2. PICK d \in Calls : /\ pc[d] = "over" /\ declared[d] # Stored(d)
                           /\ dispute.missing = Missing(d)
    BY <2>1 DEF AllFounded, Founded
  <2>3. Missing(d) # Lost(c)
    BY <1>2, <1>3, <2>2
  <2>4. d # c
    BY <1>3, <2>1, <2>3, LostIsMissing DEF NothingBefore
  <2> QED
    BY <2>2, <2>3, <2>4 DEF Replaced, Settled
<1> QED
  BY <1>2, <1>3 DEF OpenUntilConfirmed

\* The rows, the evidence and the calls have their types.
THEOREM TypeCorrect == Spec => []TypeOK
<1>1. IInv => TypeOK
  BY DEF IInv
<1> QED
  BY <1>1, Inductive, PTL

\* For any number of calls and people, while no mark fails: a call whose writes are
\* not held has left evidence.
THEOREM LossesAreMarked == Spec => []NothingIsSilent
<1>1. IInv => NothingIsSilent
  BY DEF IInv
<1> QED
  BY <1>1, Inductive, PTL

\* Under any overlap and any fault, evidence that something is missing is open or
\* was acknowledged as it stands; while nothing fails, what a call lost is open,
\* acknowledged, or replaced by the evidence of a call that missed something else.
THEOREM AcknowledgedAsRead == Spec => []OpenUntilConfirmed
  BY OpenFollows, Inductive, PTL

\* Where updates do not overlap, and all calls are of groups that lost the same, a
\* confirmation is not asked for again.
THEOREM ConfirmedOnce == Spec => []ConfirmationStands
<1>1. IInv => ConfirmationStands
  BY DEF IInv
<1> QED
  BY <1>1, Inductive, PTL
=============================================================================
