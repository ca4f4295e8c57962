------------------------ MODULE Confirmation_proofs ------------------------
(***************************************************************************)
(* Proofs about the decision axis, for any set of tokens, calls and        *)
(* approvers: its type, the inductive invariant, and that it implements    *)
(* the decision contract.                                                  *)
(***************************************************************************)
EXTENDS Confirmation, TLAPS

(***************************************************************************)
(* What the record updates of the actions do.                              *)
(***************************************************************************)
LEMMA RowWindow ==
    ASSUME NEW r \in Rows
    PROVE  LET q == [r EXCEPT !.open = FALSE] IN
           /\ q \in Rows
           /\ q.status = r.status /\ q.mode = r.mode /\ q.approver = r.approver
  BY DEF Rows

LEMMA RowStatus ==
    ASSUME NEW r \in Rows, NEW s \in Terminal
    PROVE  LET q == [r EXCEPT !.status = s] IN
           /\ q \in Rows
           /\ q.status = s /\ q.mode = r.mode /\ q.approver = r.approver
  BY DEF Rows, Terminal

LEMMA CallStep ==
    ASSUME NEW k \in CallRecord, NEW p \in {"update", "won", "ran", "over"}
    PROVE  LET q == [k EXCEPT !.pc = p] IN
           /\ q \in CallRecord
           /\ q.pc = p /\ q.op = k.op /\ q.tok = k.tok
           /\ q.who = k.who /\ q.dec = k.dec
  BY DEF CallRecord

LEMMA UnusedIsNoCall == Unused \notin CallRecord
  BY DEF Unused, CallRecord

LEMMA ActiveCall ==
    ASSUME TypeOK, NEW c \in Calls, calls[c] # Unused
    PROVE  /\ calls[c] \in CallRecord
           /\ calls[c].tok \in Tokens /\ calls[c].who \in Users
           /\ calls[c].dec \in Decisions
           /\ StatusOf(calls[c].dec) \in Terminal
  BY DEF TypeOK, CallRecord, StatusOf, Terminal

LEMMA CallMoves ==
    ASSUME TypeOK, NEW c \in Calls, calls[c] # Unused,
           NEW p \in {"update", "won", "ran", "over"},
           calls' = [calls EXCEPT ![c].pc = p]
    PROVE  /\ calls' \in [Calls -> CallRecord \union {Unused}]
           /\ calls'[c] \in CallRecord
           /\ calls'[c].pc = p /\ calls'[c].op = calls[c].op
           /\ calls'[c].tok = calls[c].tok /\ calls'[c].who = calls[c].who
           /\ calls'[c].dec = calls[c].dec
           /\ \A d \in Calls \ {c} : calls'[d] = calls[d]
<1>1. calls[c] \in CallRecord
  BY DEF TypeOK
<1> DEFINE q == [calls[c] EXCEPT !.pc = p]
<1>2. calls' = [calls EXCEPT ![c] = q]
  OBVIOUS
<1>3. /\ q \in CallRecord
      /\ q.pc = p /\ q.op = calls[c].op /\ q.tok = calls[c].tok
      /\ q.who = calls[c].who /\ q.dec = calls[c].dec
  BY <1>1, CallStep
<1> HIDE DEF q
<1>4. calls \in [Calls -> CallRecord \union {Unused}]
  BY DEF TypeOK
<1>5. calls'[c] = q /\ \A d \in Calls \ {c} : calls'[d] = calls[d]
  BY <1>2, <1>4
<1>6. calls' \in [Calls -> CallRecord \union {Unused}]
  BY <1>2, <1>3, <1>4
<1> QED
  BY <1>3, <1>5, <1>6

LEMMA SettledRows ==
    ASSUME TypeOK, NEW c \in Calls, calls[c] # Unused
    PROVE  LET k == calls[c] IN
           /\ Settled(c) \in [Tokens -> Rows]
           /\ Settled(c)[k.tok].status = StatusOf(k.dec)
           /\ Settled(c)[k.tok].mode = rows[k.tok].mode
           /\ Settled(c)[k.tok].approver =
                 IF k.op = "approval" THEN k.who ELSE rows[k.tok].approver
           /\ \A t \in Tokens \ {k.tok} : Settled(c)[t] = rows[t]
<1> DEFINE k == calls[c]
           a == IF k.op = "approval" THEN k.who ELSE rows[k.tok].approver
<1>1. k \in CallRecord /\ k.tok \in Tokens /\ StatusOf(k.dec) \in Terminal
  BY ActiveCall
<1>2. rows[k.tok] \in Rows
  BY <1>1 DEF TypeOK
<1>3. a \in Users \union {Nobody}
  BY <1>1, <1>2, ActiveCall DEF Rows
<1> DEFINE q == [status |-> StatusOf(k.dec), approver |-> a,
                 mode |-> rows[k.tok].mode, open |-> rows[k.tok].open]
<1>4. Settled(c) = [rows EXCEPT ![k.tok] = q]
  BY DEF Settled
<1>6. /\ q \in Rows
      /\ q.status = StatusOf(k.dec) /\ q.mode = rows[k.tok].mode /\ q.approver = a
  BY <1>1, <1>2, <1>3 DEF Rows, Terminal
<1>7. rows \in [Tokens -> Rows]
  BY DEF TypeOK
<1> HIDE DEF k, a, q
<1>5. /\ Settled(c) \in [Tokens -> Rows]
      /\ Settled(c)[k.tok].status = StatusOf(k.dec)
      /\ Settled(c)[k.tok].mode = rows[k.tok].mode
      /\ Settled(c)[k.tok].approver = a
      /\ \A t \in Tokens \ {k.tok} : Settled(c)[t] = rows[t]
  BY <1>1, <1>4, <1>6, <1>7
<1> QED
  BY <1>5 DEF k, a, q

(***************************************************************************)
(* A pending row is a fresh row: nobody was told of a decision, nobody     *)
(* holds a ticket, nobody ran and the sweep has not flipped it.            *)
(***************************************************************************)
LEMMA PendingIsFresh ==
    ASSUME IInv, NEW u \in Tokens, Pending(u)
    PROVE  /\ granted[u] = {} /\ notes[u] = {}
           /\ dialogue[u] \notin {"approve", "ran", "decline"}
           /\ recorded[u] = 0 /\ u \notin sweep.expired
           /\ \A c \in Calls : Active(c) /\ calls[c].tok = u
                                 => calls[c].pc \notin {"won", "ran"}
<1>1. rows[u].status = "pending"
  BY DEF Pending
<1>2. granted[u] = {}
  BY <1>1 DEF IInv, RunsAreAuthorized
<1>3. dialogue[u] \notin {"approve", "ran", "decline"}
  BY <1>1 DEF IInv, ConversationAgrees
<1>4. notes[u] \subseteq Terminal /\ notes[u] \subseteq {"pending"}
  BY <1>1 DEF IInv, TypeOK, ConversationAgrees
<1>5. notes[u] = {}
  BY <1>4 DEF Terminal
<1>6. recorded[u] = 0 /\ u \notin sweep.expired
  BY <1>1 DEF IInv, SweepFitsRows
<1>7. ASSUME NEW c \in Calls, Active(c), calls[c].tok = u
      PROVE  calls[c].pc \notin {"won", "ran"}
  BY <1>1, <1>7 DEF IInv, CallsFitTheirRow, StatusOf
<1> QED
  BY <1>2, <1>3, <1>5, <1>6, <1>7

(***************************************************************************)
(* Settling a row by a decision keeps what does not speak of the calls.    *)
(***************************************************************************)
LEMMA SettlingKeeps ==
    ASSUME IInv, NEW c \in Calls, Active(c), Matches(c), rows' = Settled(c),
           UNCHANGED <<dialogue, sweep, granted, notes, recorded>>
    PROVE  /\ AtMostOneRun' /\ RunsAreAuthorized' /\ ConversationAgrees'
           /\ ExpiryRecordedOnce' /\ RowsFitTheirDialogue' /\ SweepFitsRows'
<1> DEFINE u == calls[c].tok
           s == StatusOf(calls[c].dec)
           a == IF calls[c].op = "approval" THEN calls[c].who
                                            ELSE rows[u].approver
<1>1. u \in Tokens /\ calls[c].op \in {"resolve", "outOfBand", "approval"}
  BY ActiveCall DEF IInv, Active, CallRecord
<1>2. rows[u].status = "pending" /\ s \in {"approved", "declined"}
  BY DEF Matches, Pending, StatusOf
<1>3. /\ rows'[u].status = s /\ rows'[u].mode = rows[u].mode
      /\ rows'[u].approver = a
      /\ \A t \in Tokens \ {u} : rows'[t] = rows[t]
  BY SettledRows DEF IInv, Active
<1>4. /\ granted[u] = {} /\ notes[u] = {} /\ recorded[u] = 0
      /\ dialogue[u] \notin {"approve", "ran", "decline"}
      /\ u \notin sweep.expired
  BY <1>1, PendingIsFresh DEF Matches
<1>5. /\ calls[c].op = "resolve" => dialogue[u] # "none"
      /\ calls[c].op = "outOfBand" => rows[u].mode = "immediate"
      /\ calls[c].op = "approval" /\ calls[c].dec = "approve"
            => calls[c].who \in Approvers
  BY DEF IInv, CallsFitTheirRow
<1>6. dialogue[u] # "none" => rows[u].mode # "approval"
  BY <1>1 DEF IInv, RowsFitTheirDialogue
<1>7. s = "approved" /\ rows[u].mode = "approval" => a \in Approvers
  BY <1>1, <1>5, <1>6 DEF StatusOf
<1> HIDE DEF u, s, a
<1>8. AtMostOneRun'
  BY DEF IInv, AtMostOneRun
<1>9. RunsAreAuthorized'
  BY <1>1, <1>3, <1>4 DEF IInv, RunsAreAuthorized
<1>10. ConversationAgrees'
  BY <1>1, <1>3, <1>4 DEF IInv, ConversationAgrees
<1>11. ExpiryRecordedOnce'
  BY <1>1, <1>3, <1>4 DEF IInv, ExpiryRecordedOnce
<1>12. RowsFitTheirDialogue'
  BY <1>1, <1>2, <1>3, <1>7 DEF IInv, RowsFitTheirDialogue
<1>13. SweepFitsRows'
  <2>1. sweep.expired \subseteq Tokens
    BY DEF IInv, TypeOK, Sweeps
  <2> QED
    BY <1>1, <1>3, <1>4, <2>1 DEF IInv, SweepFitsRows
<1> QED
  BY <1>8, <1>9, <1>10, <1>11, <1>12, <1>13

(***************************************************************************)
(* Type correctness.                                                       *)
(***************************************************************************)
LEMMA TypeStep == TypeOK /\ [Next]_vars => TypeOK'
<1> SUFFICES ASSUME TypeOK, [Next]_vars PROVE TypeOK'
  OBVIOUS
<1> USE ConstantsAssumption DEF TypeOK
<1>1. ASSUME NEW t \in Tokens, NEW mode \in Modes, NEW persisted \in BOOLEAN,
             Ask(t, mode, persisted)
      PROVE  TypeOK'
  BY <1>1 DEF Ask, NoRow, Rows, Modes, Waits
<1>2. ASSUME NEW t \in Tokens, AskApproval(t) PROVE TypeOK'
  BY <1>2 DEF AskApproval, NoRow, Rows, Modes
<1>3. ASSUME NEW t \in Tokens, StreamTimer(t) PROVE TypeOK'
  BY <1>3 DEF StreamTimer, Waits
<1>4. ASSUME NEW t \in Tokens, DialogueRun(t) PROVE TypeOK'
  BY <1>4 DEF DialogueRun, Waits
<1>5. ASSUME NEW t \in Tokens, WindowCloses(t) PROVE TypeOK'
  BY <1>5, RowWindow DEF WindowCloses
<1>6. ASSUME NEW c \in Calls, NEW t \in Tokens, NEW who \in Users, NEW dec \in
             Decisions, ResolveBegin(c, t, who, dec)
      PROVE  TypeOK'
  BY <1>6 DEF ResolveBegin, Accepted, CallRecord
<1>7. ASSUME NEW c \in Calls, NEW t \in Tokens, NEW who \in Users, NEW dec \in
             Decisions, OutOfBandBegin(c, t, who, dec)
      PROVE  TypeOK'
  BY <1>7 DEF OutOfBandBegin, Accepted, CallRecord
<1>8. ASSUME NEW c \in Calls, NEW t \in Tokens, NEW who \in Users, NEW dec \in
             Decisions, ApprovalBegin(c, t, who, dec)
      PROVE  TypeOK'
  BY <1>8 DEF ApprovalBegin, Accepted, CallRecord
<1>9. ASSUME NEW c \in Calls, UpdateWins(c) PROVE TypeOK'
  BY <1>9, CallMoves, SettledRows DEF UpdateWins
<1>10. ASSUME NEW c \in Calls, UpdateLoses(c) PROVE TypeOK'
  BY <1>10, CallMoves DEF UpdateLoses
<1>11. ASSUME NEW c \in Calls, NEW applied \in BOOLEAN, UpdateFails(c,
              applied)
       PROVE  TypeOK'
  BY <1>11, CallMoves, SettledRows DEF UpdateFails
<1>12. ASSUME NEW c \in Calls, ResolveResume(c) PROVE TypeOK'
  BY <1>12, CallMoves, ActiveCall DEF ResolveResume, CallRecord, Decisions, Waits
<1>13. ASSUME NEW c \in Calls, CallRun(c) PROVE TypeOK'
  <2> DEFINE p == IF calls[c].op = "outOfBand" THEN "ran" ELSE "over"
  <2>1. p \in {"update", "won", "ran", "over"}
    OBVIOUS
  <2>2. calls' = [calls EXCEPT ![c].pc = p] /\ calls[c] # Unused
    BY <1>13 DEF CallRun
  <2> HIDE DEF p
  <2>3. calls' \in [Calls -> CallRecord \union {Unused}]
    BY <2>1, <2>2, CallMoves
  <2> QED
    BY <1>13, <2>3, ActiveCall DEF CallRun
<1>14. ASSUME NEW c \in Calls, NEW appended \in BOOLEAN, LateNote(c, appended)
       PROVE  TypeOK'
  BY <1>14, CallMoves, ActiveCall DEF LateNote, StatusOf, Terminal
<1>15. ASSUME SweepFind PROVE TypeOK'
  BY <1>15 DEF SweepFind, Due, Sweeps
<1>16. ASSUME NEW t \in Tokens, SweepFlip(t) PROVE TypeOK'
  BY <1>16, RowStatus DEF SweepFlip, Sweeps, Terminal
<1>17. ASSUME NEW t \in Tokens, SweepRecord(t) PROVE TypeOK'
  BY <1>17 DEF SweepRecord, Sweeps
<1>18. ASSUME SweepEnds PROVE TypeOK'
  BY <1>18 DEF SweepEnds, IdleSweep, Sweeps
<1>19. ASSUME SweepFails PROVE TypeOK'
  BY <1>19 DEF SweepFails, IdleSweep, Sweeps
<1>20. ASSUME Restart PROVE TypeOK'
  <2>1. ASSUME NEW c \in Calls, calls[c] # Unused
        PROVE  [calls[c] EXCEPT !.pc = "over"] \in CallRecord
    <3>1. calls[c] \in CallRecord
      BY <2>1
    <3> QED
      BY ONLY <3>1, CallStep
  <2>2. calls' \in [Calls -> CallRecord \union {Unused}]
    BY <1>20, <2>1 DEF Restart
  <2> QED
    BY <1>20, <2>2 DEF Restart, IdleSweep, Sweeps, Waits
<1>21. CASE UNCHANGED vars
  BY <1>21 DEF vars
<1> QED
  BY <1>1, <1>2, <1>3, <1>4, <1>5, <1>6, <1>7, <1>8, <1>9, <1>10, <1>11,
     <1>12, <1>13, <1>14, <1>15, <1>16, <1>17, <1>18, <1>19, <1>20, <1>21 DEF
     Next, Dialogues, Requests, Sweeping

(***************************************************************************)
(* The inductive invariant, one step per action.  What makes it inductive: *)
(* a call that won its update holds the only ticket of its token, because  *)
(* the row it settled was pending and a pending row is fresh.              *)
(***************************************************************************)
LEMMA InvStep == IInv /\ [Next]_vars => IInv'
<1> SUFFICES ASSUME IInv, [Next]_vars PROVE IInv'
  OBVIOUS
<1>0. TypeOK /\ TypeOK'
  BY TypeStep DEF IInv
<1>t. /\ rows \in [Tokens -> Rows] /\ dialogue \in [Tokens -> Waits]
      /\ granted \in [Tokens -> SUBSET (Calls \union {Operator})]
      /\ notes \in [Tokens -> SUBSET Terminal] /\ recorded \in [Tokens -> Nat]
      /\ calls \in [Calls -> CallRecord \union {Unused}]
      /\ \A c \in Calls : Active(c) => calls[c].tok \in Tokens
  BY <1>0, ActiveCall DEF TypeOK, Active
<1> USE <1>t DEF IInv
<1>1. ASSUME NEW t \in Tokens, NEW mode \in Modes, NEW persisted \in BOOLEAN,
             Ask(t, mode, persisted)
      PROVE  IInv'
  <2>1. AtMostOneRun'
    BY <1>1 DEF Ask, AtMostOneRun
  <2>2. RunsAreAuthorized'
    BY <1>1 DEF Ask, NoRow, RunsAreAuthorized, RowsFitTheirDialogue
  <2>3. ConversationAgrees'
    <3>1. rows[t].status = "absent" /\ notes[t] = {}
      BY <1>1 DEF Ask, NoRow, ConversationAgrees, Terminal
    <3>2. /\ \A x \in Tokens \ {t} : rows'[x] = rows[x] /\ dialogue'[x] = dialogue[x]
          /\ dialogue'[t] = "waiting" /\ notes' = notes
      BY <1>1 DEF Ask
    <3> QED
      BY <3>1, <3>2 DEF ConversationAgrees
  <2>4. ExpiryRecordedOnce'
    BY <1>1 DEF Ask, NoRow, ExpiryRecordedOnce
  <2>5. CallsFitTheirRow'
    BY <1>1 DEF Ask, NoRow, CallsFitTheirRow, Active, RowsFitTheirDialogue
  <2>6. OneTicket'
    BY <1>1 DEF Ask, NoRow, OneTicket, Won, Active
  <2>7. RowsFitTheirDialogue'
    <3>1. /\ rows'[t].mode # "approval" /\ rows'[t].status \in {"absent", "pending"}
          /\ rows'[t].status = "absent" => rows'[t] = NoRow
          /\ \A x \in Tokens \ {t} : rows'[x] = rows[x] /\ dialogue'[x] = dialogue[x]
      BY <1>1 DEF Ask, NoRow
    <3> QED
      BY <3>1 DEF RowsFitTheirDialogue
  <2>8. SweepFitsRows'
    BY <1>1 DEF Ask, NoRow, SweepFitsRows
  <2> QED
    BY <1>0, <2>1, <2>2, <2>3, <2>4, <2>5, <2>6, <2>7, <2>8
<1>2. ASSUME NEW t \in Tokens, AskApproval(t) PROVE IInv'
  <2>1. AtMostOneRun' /\ OneTicket'
    BY <1>2 DEF AskApproval, AtMostOneRun, OneTicket, Active, Won
  <2>2. RunsAreAuthorized'
    BY <1>2 DEF AskApproval, NoRow, RunsAreAuthorized,
       RowsFitTheirDialogue
  <2>3. ConversationAgrees'
    <3>1. rows[t].status = "absent" /\ notes[t] = {}
      BY <1>2 DEF AskApproval, NoRow, ConversationAgrees, Terminal
    <3>2. /\ \A x \in Tokens \ {t} : rows'[x] = rows[x]
          /\ dialogue[t] = "none" /\ dialogue' = dialogue /\ notes' = notes
      BY <1>2 DEF AskApproval
    <3> QED
      BY <3>1, <3>2 DEF ConversationAgrees
  <2>4. ExpiryRecordedOnce'
    BY <1>2 DEF AskApproval, NoRow, ExpiryRecordedOnce
  <2>5. CallsFitTheirRow'
    BY <1>2 DEF AskApproval, NoRow, CallsFitTheirRow, Active,
       RowsFitTheirDialogue
  <2>6. RowsFitTheirDialogue'
    BY <1>2 DEF AskApproval, NoRow, RowsFitTheirDialogue
  <2>7. SweepFitsRows'
    BY <1>2 DEF AskApproval, NoRow, SweepFitsRows
  <2> QED
    BY <1>0, <2>1, <2>2, <2>3, <2>4, <2>5, <2>6, <2>7
<1>3. ASSUME NEW t \in Tokens, StreamTimer(t) PROVE IInv'
  <2>1. AtMostOneRun' /\ RunsAreAuthorized' /\ ExpiryRecordedOnce' /\
     SweepFitsRows'
    BY <1>3 DEF StreamTimer, AtMostOneRun, RunsAreAuthorized,
       ExpiryRecordedOnce, SweepFitsRows
  <2>2. ConversationAgrees'
    BY <1>3 DEF StreamTimer, ConversationAgrees
  <2>3. CallsFitTheirRow'
    BY <1>3 DEF StreamTimer, CallsFitTheirRow, Active
  <2>4. OneTicket'
    BY <1>3 DEF StreamTimer, OneTicket, Won, Active
  <2>5. RowsFitTheirDialogue'
    BY <1>3 DEF StreamTimer, RowsFitTheirDialogue, NoRow
  <2> QED
    BY <1>0, <2>1, <2>2, <2>3, <2>4, <2>5
<1>4. ASSUME NEW t \in Tokens, DialogueRun(t) PROVE IInv'
  <2>1. ExpiryRecordedOnce' /\ SweepFitsRows'
    BY <1>4 DEF DialogueRun, ExpiryRecordedOnce, SweepFitsRows
  <2>2. AtMostOneRun'
    BY <1>4 DEF DialogueRun, AtMostOneRun, OneTicket, Won, Active
  <2>3. RunsAreAuthorized'
    BY <1>4 DEF DialogueRun, RunsAreAuthorized, ConversationAgrees,
       RowsFitTheirDialogue, NoRow, OneTicket, Won, Active
  <2>4. ConversationAgrees'
    BY <1>4 DEF DialogueRun, ConversationAgrees
  <2>5. CallsFitTheirRow'
    BY <1>4 DEF DialogueRun, CallsFitTheirRow, Active
  <2>6. OneTicket'
    BY <1>4 DEF DialogueRun, OneTicket, Won, Active
  <2>7. RowsFitTheirDialogue'
    BY <1>4 DEF DialogueRun, RowsFitTheirDialogue, NoRow
  <2> QED
    BY <1>0, <2>1, <2>2, <2>3, <2>4, <2>5, <2>6, <2>7
<1>5. ASSUME NEW t \in Tokens, WindowCloses(t) PROVE IInv'
  <2>1. AtMostOneRun' /\ OneTicket'
    BY <1>5 DEF WindowCloses, AtMostOneRun, OneTicket, Active, Won
  <2>2. RunsAreAuthorized'
    BY <1>5, <1>0, RowWindow DEF WindowCloses, RunsAreAuthorized, Pending
  <2>3. ConversationAgrees'
    BY <1>5, <1>0, RowWindow DEF WindowCloses, ConversationAgrees, Pending
  <2>4. ExpiryRecordedOnce'
    BY <1>5, <1>0, RowWindow DEF WindowCloses, ExpiryRecordedOnce, Pending
  <2>5. CallsFitTheirRow'
    BY <1>5, <1>0, RowWindow DEF WindowCloses, CallsFitTheirRow, Active,
       Pending
  <2>6. RowsFitTheirDialogue'
    BY <1>5, <1>0, RowWindow DEF WindowCloses, RowsFitTheirDialogue,
       NoRow, Pending
  <2>7. SweepFitsRows'
    BY <1>5, <1>0, RowWindow DEF WindowCloses, SweepFitsRows, Pending
  <2> QED
    BY <1>0, <2>1, <2>2, <2>3, <2>4, <2>5, <2>6, <2>7
<1>6. ASSUME NEW c \in Calls, NEW t \in Tokens, NEW who \in Users, NEW dec \in
             Decisions, ResolveBegin(c, t, who, dec)
      PROVE  IInv'
  <2>1. AtMostOneRun' /\ RunsAreAuthorized' /\ ConversationAgrees' /\
     ExpiryRecordedOnce' /\ RowsFitTheirDialogue' /\ SweepFitsRows'
    BY <1>6 DEF ResolveBegin, Accepted, AtMostOneRun, RunsAreAuthorized,
       ConversationAgrees, ExpiryRecordedOnce, RowsFitTheirDialogue,
       SweepFitsRows
  <2>2. CallsFitTheirRow'
    BY <1>6, UnusedIsNoCall DEF ResolveBegin, Accepted, CallsFitTheirRow,
       Active
  <2>3. OneTicket'
    BY <1>6, UnusedIsNoCall DEF ResolveBegin, Accepted, OneTicket, Won,
       Active
  <2> QED
    BY <1>0, <2>1, <2>2, <2>3
<1>7. ASSUME NEW c \in Calls, NEW t \in Tokens, NEW who \in Users, NEW dec \in
             Decisions, OutOfBandBegin(c, t, who, dec)
      PROVE  IInv'
  <2>1. AtMostOneRun' /\ RunsAreAuthorized' /\ ConversationAgrees' /\
     ExpiryRecordedOnce' /\ RowsFitTheirDialogue' /\ SweepFitsRows'
    BY <1>7 DEF OutOfBandBegin, Accepted, AtMostOneRun, RunsAreAuthorized,
       ConversationAgrees, ExpiryRecordedOnce, RowsFitTheirDialogue,
       SweepFitsRows
  <2>2. CallsFitTheirRow'
    BY <1>7, UnusedIsNoCall DEF OutOfBandBegin, Accepted,
       CallsFitTheirRow, Active
  <2>3. OneTicket'
    BY <1>7, UnusedIsNoCall DEF OutOfBandBegin, Accepted, OneTicket, Won,
       Active
  <2> QED
    BY <1>0, <2>1, <2>2, <2>3
<1>8. ASSUME NEW c \in Calls, NEW t \in Tokens, NEW who \in Users, NEW dec \in
             Decisions, ApprovalBegin(c, t, who, dec)
      PROVE  IInv'
  <2>1. AtMostOneRun' /\ RunsAreAuthorized' /\ ConversationAgrees' /\
     ExpiryRecordedOnce' /\ RowsFitTheirDialogue' /\ SweepFitsRows'
    BY <1>8 DEF ApprovalBegin, Accepted, AtMostOneRun, RunsAreAuthorized,
       ConversationAgrees, ExpiryRecordedOnce, RowsFitTheirDialogue,
       SweepFitsRows
  <2>2. CallsFitTheirRow'
    <3>1. /\ rows[t].status = "pending" /\ rows[t].mode # "run"
          /\ dec = "approve" => who \in Approvers
      BY <1>8 DEF ApprovalBegin, Pending, Users
    <3>2. /\ calls'[c] = [op |-> "approval", tok |-> t, who |-> who,
                          dec |-> dec, pc |-> "update"]
          /\ \A d \in Calls \ {c} : calls'[d] = calls[d]
          /\ rows' = rows /\ dialogue' = dialogue
      BY <1>8 DEF ApprovalBegin, Accepted
    <3> QED
      BY <3>1, <3>2 DEF CallsFitTheirRow, Active
  <2>3. OneTicket'
    BY <1>8, UnusedIsNoCall DEF ApprovalBegin, Accepted, OneTicket, Won,
       Active, Pending
  <2> QED
    BY <1>0, <2>1, <2>2, <2>3
<1>9. ASSUME NEW c \in Calls, UpdateWins(c) PROVE IInv'
  <2> DEFINE u == calls[c].tok
             s == StatusOf(calls[c].dec)
  <2>1. /\ calls[c] # Unused /\ Active(c) /\ Matches(c) /\ rows' = Settled(c)
        /\ calls' = [calls EXCEPT ![c].pc = "won"]
        /\ UNCHANGED <<dialogue, sweep, granted, notes, recorded>>
    BY <1>9 DEF UpdateWins, Active
  <2>2. /\ AtMostOneRun' /\ RunsAreAuthorized' /\ ConversationAgrees'
        /\ ExpiryRecordedOnce' /\ RowsFitTheirDialogue' /\ SweepFitsRows'
    BY <2>1, SettlingKeeps
  <2>3. /\ u \in Tokens /\ Pending(u)
        /\ rows'[u].status = s /\ rows'[u].mode = rows[u].mode
        /\ \A t \in Tokens \ {u} : rows'[t] = rows[t]
    BY <2>1, ActiveCall, SettledRows DEF Matches, TypeOK
  <2>4. /\ calls'[c].pc = "won" /\ calls'[c].op = calls[c].op
        /\ calls'[c].tok = u /\ calls'[c].who = calls[c].who
        /\ calls'[c].dec = calls[c].dec /\ Active(c)'
        /\ \A d \in Calls \ {c} : calls'[d] = calls[d]
    BY <1>0, <2>1, CallMoves, UnusedIsNoCall DEF Active
  <2>5. /\ granted[u] = {} /\ dialogue[u] # "approve"
        /\ \A d \in Calls : Active(d) /\ calls[d].tok = u
                              => calls[d].pc \notin {"won", "ran"}
    BY <2>3, PendingIsFresh
  <2>6. s # "absent" /\ s = StatusOf(calls[c].dec)
    BY DEF StatusOf
  <2> HIDE DEF u, s
  <2>7. ASSUME NEW d \in Calls, Active(d)' PROVE CallsFitTheirRow!(d)'
    <3>1. CASE d = c
      BY <2>1, <2>3, <2>4, <2>6, <3>1 DEF CallsFitTheirRow
    <3>2. CASE d # c
      BY <1>t, <2>1, <2>3, <2>4, <2>5, <2>6, <2>7, <3>2 DEF CallsFitTheirRow, Active
    <3> QED
      BY <3>1, <3>2
  <2>8. CallsFitTheirRow'
    BY <2>7 DEF CallsFitTheirRow
  <2>9. OneTicket'
    BY <2>1, <2>4, <2>5 DEF OneTicket, Won, Active
  <2> QED
    BY <1>0, <2>2, <2>8, <2>9
<1>10. ASSUME NEW c \in Calls, UpdateLoses(c) PROVE IInv'
  <2>1. AtMostOneRun' /\ RunsAreAuthorized' /\ ConversationAgrees' /\
     ExpiryRecordedOnce' /\ RowsFitTheirDialogue' /\ SweepFitsRows'
    BY <1>10 DEF UpdateLoses, AtMostOneRun, RunsAreAuthorized,
       ConversationAgrees, ExpiryRecordedOnce, RowsFitTheirDialogue,
       SweepFitsRows
  <2>2. CallsFitTheirRow'
    BY <1>10, <1>0, CallMoves, UnusedIsNoCall DEF UpdateLoses,
       CallsFitTheirRow, Active, Pending
  <2>3. OneTicket'
    BY <1>10, <1>0, CallMoves, UnusedIsNoCall DEF UpdateLoses, OneTicket,
       Won, Active, Pending
  <2> QED
    BY <1>0, <2>1, <2>2, <2>3
<1>11. ASSUME NEW c \in Calls, NEW applied \in BOOLEAN, UpdateFails(c,
              applied)
       PROVE  IInv'
  <2> DEFINE u == calls[c].tok
  <2>1. /\ calls[c] # Unused /\ Active(c)
        /\ rows' = IF applied /\ Matches(c) THEN Settled(c) ELSE rows
        /\ calls' = [calls EXCEPT ![c].pc = "over"]
        /\ UNCHANGED <<dialogue, sweep, granted, notes, recorded>>
    BY <1>11 DEF UpdateFails, Active
  <2>2. /\ calls'[c].pc = "over" /\ calls'[c].op = calls[c].op
        /\ calls'[c].tok = u /\ calls'[c].who = calls[c].who
        /\ calls'[c].dec = calls[c].dec /\ Active(c)'
        /\ \A d \in Calls \ {c} : calls'[d] = calls[d]
    BY <1>0, <2>1, CallMoves, UnusedIsNoCall DEF Active
  <2>3. OneTicket'
    BY <2>1, <2>2 DEF OneTicket, Won, Active
  <2>4. CASE applied /\ Matches(c)
    <3>1. /\ AtMostOneRun' /\ RunsAreAuthorized' /\ ConversationAgrees'
          /\ ExpiryRecordedOnce' /\ RowsFitTheirDialogue' /\ SweepFitsRows'
      BY <2>1, <2>4, SettlingKeeps
    <3>2. /\ u \in Tokens /\ Pending(u)
          /\ rows'[u].status = StatusOf(calls[c].dec)
          /\ rows'[u].mode = rows[u].mode
          /\ \A t \in Tokens \ {u} : rows'[t] = rows[t]
      BY <2>1, <2>4, ActiveCall, SettledRows DEF Matches, TypeOK
    <3>3. \A d \in Calls : Active(d) /\ calls[d].tok = u
                             => calls[d].pc \notin {"won", "ran"}
      BY <3>2, PendingIsFresh
    <3>4. rows'[u].status # "absent"
      BY <3>2 DEF StatusOf
    <3> HIDE DEF u
    <3>5. ASSUME NEW d \in Calls, Active(d)' PROVE CallsFitTheirRow!(d)'
      <4>1. CASE d = c
        BY <2>1, <2>2, <3>2, <3>4, <4>1 DEF CallsFitTheirRow
      <4>2. CASE d # c
        BY <1>t, <2>1, <2>2, <3>2, <3>3, <3>4, <3>5, <4>2 DEF
           CallsFitTheirRow, Active
      <4> QED
        BY <4>1, <4>2
    <3>6. CallsFitTheirRow'
      BY <3>5 DEF CallsFitTheirRow
    <3> QED
      BY <1>0, <2>3, <3>1, <3>6
  <2>5. CASE ~(applied /\ Matches(c))
    <3>1. rows' = rows
      BY <2>1, <2>5
    <3>2. CallsFitTheirRow'
      BY <2>1, <2>2, <3>1 DEF CallsFitTheirRow, Active
    <3>3. /\ AtMostOneRun' /\ RunsAreAuthorized' /\ ConversationAgrees'
          /\ ExpiryRecordedOnce' /\ RowsFitTheirDialogue' /\ SweepFitsRows'
      BY <2>1, <3>1 DEF AtMostOneRun, RunsAreAuthorized, ConversationAgrees,
         ExpiryRecordedOnce, RowsFitTheirDialogue, SweepFitsRows
    <3> QED
      BY <1>0, <2>3, <3>2, <3>3
  <2> QED
    BY <2>4, <2>5
<1>12. ASSUME NEW c \in Calls, ResolveResume(c) PROVE IInv'
  <2>1. AtMostOneRun' /\ RunsAreAuthorized' /\ ExpiryRecordedOnce' /\
     SweepFitsRows'
    BY <1>12 DEF ResolveResume, AtMostOneRun, RunsAreAuthorized,
       ExpiryRecordedOnce, SweepFitsRows
  <2>2. ConversationAgrees'
    <3>1. /\ calls[c].pc = "won" /\ Active(c) /\ calls[c].op = "resolve"
          /\ calls'[c].pc = "over" /\ calls'[c].op = calls[c].op
          /\ calls'[c].tok = calls[c].tok /\ calls'[c].who = calls[c].who
          /\ calls'[c].dec = calls[c].dec
          /\ \A d \in Calls \ {c} : calls'[d] = calls[d]
          /\ UNCHANGED <<rows, notes>>
          /\ dialogue' = IF dialogue[calls[c].tok] = "waiting"
                         THEN [dialogue EXCEPT ![calls[c].tok] = calls[c].dec]
                         ELSE dialogue
      BY <1>0, <1>12, CallMoves DEF ResolveResume, Active
    <3>2. calls[c].tok \in Tokens /\ calls[c].dec \in {"approve", "decline"}
      BY <1>0, <3>1, ActiveCall DEF Active, Decisions
    <3>3. rows[calls[c].tok].status = StatusOf(calls[c].dec)
      BY <3>1 DEF CallsFitTheirRow
    <3>4. /\ \A x \in Tokens \ {calls[c].tok} : dialogue'[x] = dialogue[x]
          /\ dialogue'[calls[c].tok] \in {dialogue[calls[c].tok], calls[c].dec}
          /\ \A x \in Tokens : dialogue[x] # "none" => dialogue'[x] # "none"
      BY <3>1, <3>2
    <3>5. ASSUME NEW x \in Tokens PROVE ConversationAgrees!(x)'
      <4>1. CASE x = calls[c].tok
        BY <3>1, <3>2, <3>3, <3>4, <4>1 DEF ConversationAgrees, StatusOf
      <4>2. CASE x # calls[c].tok
        BY <3>1, <3>4, <4>2 DEF ConversationAgrees
      <4> QED
        BY <4>1, <4>2
    <3> QED
      BY <3>5 DEF ConversationAgrees
  <2>3. CallsFitTheirRow'
    <3>1. /\ calls[c].pc = "won" /\ Active(c) /\ calls[c].op = "resolve"
          /\ calls'[c].pc = "over" /\ calls'[c].op = calls[c].op
          /\ calls'[c].tok = calls[c].tok /\ calls'[c].who = calls[c].who
          /\ calls'[c].dec = calls[c].dec
          /\ \A d \in Calls \ {c} : calls'[d] = calls[d]
          /\ UNCHANGED <<rows, notes>>
          /\ dialogue' = IF dialogue[calls[c].tok] = "waiting"
                         THEN [dialogue EXCEPT ![calls[c].tok] = calls[c].dec]
                         ELSE dialogue
      BY <1>0, <1>12, CallMoves DEF ResolveResume, Active
    <3>2. calls[c].tok \in Tokens /\ calls[c].dec \in {"approve", "decline"}
      BY <1>0, <3>1, ActiveCall DEF Active, Decisions
    <3>3. rows[calls[c].tok].status = StatusOf(calls[c].dec)
      BY <3>1 DEF CallsFitTheirRow
    <3>4. /\ \A x \in Tokens \ {calls[c].tok} : dialogue'[x] = dialogue[x]
          /\ dialogue'[calls[c].tok] \in {dialogue[calls[c].tok], calls[c].dec}
          /\ \A x \in Tokens : dialogue[x] # "none" => dialogue'[x] # "none"
      BY <3>1, <3>2
    <3>5. ASSUME NEW d \in Calls, Active(d)' PROVE CallsFitTheirRow!(d)'
      <4>1. CASE d = c
        BY <3>1, <3>2, <3>4, <4>1 DEF CallsFitTheirRow
      <4>2. CASE d # c
        BY <1>t, <3>1, <3>4, <3>5, <4>2 DEF CallsFitTheirRow, Active
      <4> QED
        BY <4>1, <4>2
    <3> QED
      BY <3>5 DEF CallsFitTheirRow
  <2>4. OneTicket'
    BY <1>12, <1>0, CallMoves, ActiveCall, UnusedIsNoCall DEF
       ResolveResume, OneTicket, Won, Active
  <2>5. RowsFitTheirDialogue'
    BY <1>12, <1>0, CallMoves, ActiveCall DEF ResolveResume,
       RowsFitTheirDialogue, NoRow
  <2> QED
    BY <1>0, <2>1, <2>2, <2>3, <2>4, <2>5
<1>13. ASSUME NEW c \in Calls, CallRun(c) PROVE IInv'
  <2>1. ConversationAgrees' /\ ExpiryRecordedOnce' /\ RowsFitTheirDialogue'
     /\ SweepFitsRows'
    BY <1>13 DEF CallRun, ConversationAgrees, ExpiryRecordedOnce,
       RowsFitTheirDialogue, SweepFitsRows
  <2>2. AtMostOneRun'
    <3>1. /\ Won(c) /\ calls[c].op # "resolve"
          /\ granted' = IF calls[c].dec = "approve"
                        THEN [granted EXCEPT ![calls[c].tok] = @ \union {c}]
                        ELSE granted
          /\ UNCHANGED <<rows, dialogue>>
      BY <1>13 DEF CallRun, Won, Active
    <3>2. calls[c].tok \in Tokens /\ granted[calls[c].tok] = {}
      BY <3>1 DEF OneTicket, Won
    <3>3. /\ \A x \in Tokens \ {calls[c].tok} : granted'[x] = granted[x]
          /\ granted'[calls[c].tok] \in {{}, {c}}
          /\ granted'[calls[c].tok] # {} => calls[c].dec = "approve"
      BY <3>1, <3>2
    <3> QED
      BY <3>3 DEF AtMostOneRun
  <2>3. RunsAreAuthorized'
    <3>1. /\ Won(c) /\ calls[c].op # "resolve"
          /\ granted' = IF calls[c].dec = "approve"
                        THEN [granted EXCEPT ![calls[c].tok] = @ \union {c}]
                        ELSE granted
          /\ UNCHANGED <<rows, dialogue>>
      BY <1>13 DEF CallRun, Won, Active
    <3>2. calls[c].tok \in Tokens /\ granted[calls[c].tok] = {}
      BY <3>1 DEF OneTicket, Won
    <3>3. /\ \A x \in Tokens \ {calls[c].tok} : granted'[x] = granted[x]
          /\ granted'[calls[c].tok] \in {{}, {c}}
          /\ granted'[calls[c].tok] # {} => calls[c].dec = "approve"
      BY <3>1, <3>2
    <3>4. /\ rows[calls[c].tok].status = StatusOf(calls[c].dec)
          /\ calls[c].op = "outOfBand" => rows[calls[c].tok].mode = "immediate"
          /\ calls[c].op = "approval" => rows[calls[c].tok].mode # "run"
      BY <3>1 DEF CallsFitTheirRow, Won
    <3>5. calls[c].op \in {"outOfBand", "approval"}
      BY <1>0, <3>1, ActiveCall DEF Won, Active, CallRecord
    <3>6. ASSUME granted'[calls[c].tok] # {}
          PROVE  /\ rows[calls[c].tok].status = "approved"
                 /\ rows[calls[c].tok].mode # "run"
                 /\ rows[calls[c].tok].mode = "approval"
                       => rows[calls[c].tok].approver \in Approvers
      BY <3>2, <3>3, <3>4, <3>5, <3>6 DEF StatusOf, RowsFitTheirDialogue
    <3> QED
      BY <3>1, <3>2, <3>3, <3>6 DEF RunsAreAuthorized
  <2>4. CallsFitTheirRow'
    BY <1>13, <1>0, CallMoves, ActiveCall, UnusedIsNoCall DEF CallRun,
       CallsFitTheirRow, Active
  <2>5. OneTicket'
    BY <1>13, <1>0, CallMoves, ActiveCall, UnusedIsNoCall DEF CallRun,
       OneTicket, Won, Active
  <2> QED
    BY <1>0, <2>1, <2>2, <2>3, <2>4, <2>5
<1>14. ASSUME NEW c \in Calls, NEW appended \in BOOLEAN, LateNote(c, appended)
       PROVE  IInv'
  <2>1. AtMostOneRun' /\ RunsAreAuthorized' /\ ExpiryRecordedOnce' /\
     RowsFitTheirDialogue' /\ SweepFitsRows'
    BY <1>14 DEF LateNote, AtMostOneRun, RunsAreAuthorized,
       ExpiryRecordedOnce, RowsFitTheirDialogue, SweepFitsRows
  <2>2. ConversationAgrees'
    <3>1. /\ Active(c) /\ calls[c].pc = "ran" /\ UNCHANGED <<rows, dialogue>>
          /\ notes' = IF appended
               THEN [notes EXCEPT ![calls[c].tok] = @ \union {StatusOf(calls[c].dec)}]
               ELSE notes
      BY <1>14 DEF LateNote, Active
    <3>2. calls[c].tok \in Tokens /\ rows[calls[c].tok].status = StatusOf(calls[c].dec)
      BY <3>1 DEF CallsFitTheirRow
    <3>3. /\ \A x \in Tokens \ {calls[c].tok} : notes'[x] = notes[x]
          /\ notes'[calls[c].tok] \subseteq
                notes[calls[c].tok] \union {StatusOf(calls[c].dec)}
      BY <3>1, <3>2
    <3> QED
      BY <3>1, <3>2, <3>3 DEF ConversationAgrees
  <2>3. CallsFitTheirRow'
    BY <1>14, <1>0, CallMoves, ActiveCall, UnusedIsNoCall DEF LateNote,
       StatusOf, Terminal, CallsFitTheirRow, Active
  <2>4. OneTicket'
    BY <1>14, <1>0, CallMoves, ActiveCall, UnusedIsNoCall DEF LateNote,
       StatusOf, Terminal, OneTicket, Won, Active
  <2> QED
    BY <1>0, <2>1, <2>2, <2>3, <2>4
<1>15. ASSUME SweepFind PROVE IInv'
  <2>1. AtMostOneRun' /\ RunsAreAuthorized' /\ ConversationAgrees' /\
     ExpiryRecordedOnce' /\ CallsFitTheirRow' /\ OneTicket' /\
     RowsFitTheirDialogue'
    BY <1>15 DEF SweepFind, AtMostOneRun, RunsAreAuthorized,
       ConversationAgrees, ExpiryRecordedOnce, CallsFitTheirRow,
       OneTicket, RowsFitTheirDialogue, Active, Won
  <2>2. SweepFitsRows'
    BY <1>15 DEF SweepFind, Due, SweepFitsRows
  <2> QED
    BY <1>0, <2>1, <2>2
<1>16. ASSUME NEW t \in Tokens, SweepFlip(t) PROVE IInv'
  <2>1. AtMostOneRun' /\ OneTicket'
    BY <1>16 DEF SweepFlip, AtMostOneRun, OneTicket, Active, Won
  <2>2. RunsAreAuthorized'
    BY <1>16, <1>0, RowStatus DEF SweepFlip, Terminal, RunsAreAuthorized,
       Pending
  <2>3. ConversationAgrees'
    BY <1>16, <1>0, RowStatus DEF SweepFlip, Terminal, ConversationAgrees,
       Pending
  <2>4. ExpiryRecordedOnce'
    BY <1>16, <1>0, RowStatus DEF SweepFlip, Terminal, ExpiryRecordedOnce,
       Pending
  <2>5. CallsFitTheirRow'
    <3>1. /\ rows' = IF Pending(t) THEN [rows EXCEPT ![t].status = "timeout"] ELSE rows
          /\ UNCHANGED <<dialogue, calls>>
      BY <1>16 DEF SweepFlip
    <3>2. rows[t] \in Rows /\ "timeout" \in Terminal
      BY DEF Terminal
    <3>3. /\ \A x \in Tokens \ {t} : rows'[x] = rows[x]
          /\ rows'[t].mode = rows[t].mode
          /\ rows'[t].status = IF Pending(t) THEN "timeout" ELSE rows[t].status
          /\ rows'[t] = rows[t] \/ rows'[t].status = "timeout"
      BY <3>1, <3>2, RowStatus
    <3>4. Pending(t) => \A d \in Calls : Active(d) /\ calls[d].tok = t
                             => calls[d].pc \notin {"won", "ran"}
      BY PendingIsFresh
    <3>5. ASSUME NEW d \in Calls, Active(d)' PROVE CallsFitTheirRow!(d)'
      <4>1. calls'[d] = calls[d] /\ Active(d) /\ calls[d].tok \in Tokens
        BY <1>t, <3>1, <3>5 DEF Active
      <4> QED
        BY <3>1, <3>3, <3>4, <4>1 DEF CallsFitTheirRow, Pending
    <3> QED
      BY <3>5 DEF CallsFitTheirRow
  <2>6. RowsFitTheirDialogue'
    <3>1. /\ rows' = IF Pending(t) THEN [rows EXCEPT ![t].status = "timeout"] ELSE rows
          /\ UNCHANGED <<dialogue, calls>>
      BY <1>16 DEF SweepFlip
    <3>2. rows[t] \in Rows /\ "timeout" \in Terminal
      BY DEF Terminal
    <3>3. /\ \A x \in Tokens \ {t} : rows'[x] = rows[x]
          /\ rows'[t].mode = rows[t].mode
          /\ rows'[t].status = IF Pending(t) THEN "timeout" ELSE rows[t].status
          /\ rows'[t] = rows[t] \/ rows'[t].status = "timeout"
      BY <3>1, <3>2, RowStatus
    <3> QED
      BY <3>1, <3>3 DEF RowsFitTheirDialogue
  <2>7. SweepFitsRows'
    BY <1>16, <1>0, RowStatus DEF SweepFlip, Terminal, SweepFitsRows,
       Pending
  <2> QED
    BY <1>0, <2>1, <2>2, <2>3, <2>4, <2>5, <2>6, <2>7
<1>17. ASSUME NEW t \in Tokens, SweepRecord(t) PROVE IInv'
  <2>1. AtMostOneRun' /\ RunsAreAuthorized' /\ ConversationAgrees' /\
     CallsFitTheirRow' /\ OneTicket' /\ RowsFitTheirDialogue'
    BY <1>17 DEF SweepRecord, AtMostOneRun, RunsAreAuthorized,
       ConversationAgrees, CallsFitTheirRow, OneTicket,
       RowsFitTheirDialogue, Active, Won
  <2>2. ExpiryRecordedOnce'
    <3>1. rows[t].status = "timeout" /\ recorded[t] = 0
      BY <1>17 DEF SweepRecord, SweepFitsRows
    <3>2. rows' = rows /\ recorded' = [recorded EXCEPT ![t] = @ + 1]
      BY <1>17 DEF SweepRecord
    <3> QED
      BY <3>1, <3>2 DEF ExpiryRecordedOnce
  <2>3. SweepFitsRows'
    BY <1>17 DEF SweepRecord, SweepFitsRows
  <2> QED
    BY <1>0, <2>1, <2>2, <2>3
<1>18. ASSUME SweepEnds PROVE IInv'
  <2>1. AtMostOneRun' /\ RunsAreAuthorized' /\ ConversationAgrees' /\
     ExpiryRecordedOnce' /\ CallsFitTheirRow' /\ OneTicket' /\
     RowsFitTheirDialogue'
    BY <1>18 DEF SweepEnds, AtMostOneRun, RunsAreAuthorized,
       ConversationAgrees, ExpiryRecordedOnce, CallsFitTheirRow,
       OneTicket, RowsFitTheirDialogue, Active, Won
  <2>2. SweepFitsRows'
    BY <1>18 DEF SweepEnds, IdleSweep, SweepFitsRows
  <2> QED
    BY <1>0, <2>1, <2>2
<1>19. ASSUME SweepFails PROVE IInv'
  <2>1. AtMostOneRun' /\ RunsAreAuthorized' /\ ConversationAgrees' /\
     ExpiryRecordedOnce' /\ CallsFitTheirRow' /\ OneTicket' /\
     RowsFitTheirDialogue'
    BY <1>19 DEF SweepFails, AtMostOneRun, RunsAreAuthorized,
       ConversationAgrees, ExpiryRecordedOnce, CallsFitTheirRow,
       OneTicket, RowsFitTheirDialogue, Active, Won
  <2>2. SweepFitsRows'
    BY <1>19 DEF SweepFails, IdleSweep, SweepFitsRows
  <2> QED
    BY <1>0, <2>1, <2>2
<1>20. ASSUME Restart PROVE IInv'
  <2>1. AtMostOneRun' /\ RunsAreAuthorized' /\ ExpiryRecordedOnce'
    BY <1>20 DEF Restart, AtMostOneRun, RunsAreAuthorized,
       ExpiryRecordedOnce
  <2>2. ConversationAgrees'
    BY <1>20, <1>0, CallStep DEF Restart, IdleSweep, ConversationAgrees
  <2>3. CallsFitTheirRow'
    BY <1>20, <1>0, CallStep, UnusedIsNoCall DEF Restart, IdleSweep,
       CallsFitTheirRow, Active
  <2>4. OneTicket'
    BY <1>20, <1>0, CallStep, UnusedIsNoCall DEF Restart, IdleSweep,
       OneTicket, Won, Active
  <2>5. RowsFitTheirDialogue'
    BY <1>20, <1>0, CallStep DEF Restart, IdleSweep, RowsFitTheirDialogue,
       NoRow
  <2>6. SweepFitsRows'
    BY <1>20, <1>0, CallStep DEF Restart, IdleSweep, SweepFitsRows
  <2> QED
    BY <1>0, <2>1, <2>2, <2>3, <2>4, <2>5, <2>6
<1>21. CASE UNCHANGED vars
  BY <1>0, <1>21 DEF vars, AtMostOneRun, RunsAreAuthorized,
     ConversationAgrees, ExpiryRecordedOnce, CallsFitTheirRow, OneTicket,
     RowsFitTheirDialogue, SweepFitsRows, Active, Won
<1> QED
  BY <1>1, <1>2, <1>3, <1>4, <1>5, <1>6, <1>7, <1>8, <1>9, <1>10, <1>11,
     <1>12, <1>13, <1>14, <1>15, <1>16, <1>17, <1>18, <1>19, <1>20, <1>21 DEF
     Next, Dialogues, Requests, Sweeping

(***************************************************************************)
(* The theorems about every behaviour.                                     *)
(***************************************************************************)
LEMMA InitInv == Init => IInv
<1> SUFFICES ASSUME Init PROVE IInv
  OBVIOUS
<1> USE ConstantsAssumption DEF Init
<1>1. TypeOK
  BY DEF TypeOK, NoRow, Rows, Modes, Waits, IdleSweep, Sweeps
<1>2. /\ AtMostOneRun /\ RunsAreAuthorized /\ ConversationAgrees
      /\ ExpiryRecordedOnce
  BY DEF AtMostOneRun, RunsAreAuthorized, ConversationAgrees, ExpiryRecordedOnce
<1>3. CallsFitTheirRow /\ OneTicket
  BY DEF CallsFitTheirRow, OneTicket, Won, Active
<1>4. RowsFitTheirDialogue /\ SweepFitsRows
  BY DEF RowsFitTheirDialogue, SweepFitsRows, NoRow, IdleSweep
<1> QED
  BY <1>1, <1>2, <1>3, <1>4 DEF IInv

\* The tables, the waits, the requests in flight and the sweep keep their
\* types under every interleaving of the four parties, faults included.
THEOREM TypeCorrect == Spec => []TypeOK
<1>1. Init => TypeOK
  BY InitInv DEF IInv
<1> QED
  BY <1>1, TypeStep, PTL DEF Spec

\* The inductive invariant holds of every behaviour.
THEOREM Inductive == Spec => []IInv
  BY InitInv, InvStep, PTL DEF Spec

\* ConfirmationStore.resolve, MyConfirmationService.decide, decideApproval and
\* the sweep may race in any order and any number: at most one party enters
\* the write pipeline on a token.
THEOREM RunsAreSafe == Spec => []AtMostOneRun
<1>1. IInv => AtMostOneRun
  BY DEF IInv
<1> QED
  BY <1>1, Inductive, PTL

\* A party enters the write pipeline on a token only once its row is approved:
\* by an approver where the row asks for one, and by the operator alone where
\* the dialogue runs the tool.
THEOREM RunsFollowApproval == Spec => []RunsAreAuthorized
<1>1. IInv => RunsAreAuthorized
  BY DEF IInv
<1> QED
  BY <1>1, Inductive, PTL

\* What a conversation was told, by its promise or by _recordLateDecision, is
\* what the row says for good.
THEOREM ConversationsAreTrue == Spec => []ConversationAgrees
<1>1. IInv => ConversationAgrees
  BY DEF IInv
<1> QED
  BY <1>1, Inductive, PTL

\* expireStaleConfirmations writes no second expiry row, and none for a row
\* that a person decided.
THEOREM ExpiriesAreTrue == Spec => []ExpiryRecordedOnce
<1>1. IInv => ExpiryRecordedOnce
  BY DEF IInv
<1> QED
  BY <1>1, Inductive, PTL

(***************************************************************************)
(* Refinement of the decision contract.                                    *)
(***************************************************************************)
Verdict == [t \in Tokens |-> rows[t].status]

LEMMA VerdictMoves ==
    ASSUME NEW u \in Tokens,
           \A t \in Tokens \ {u} : rows'[t].status = rows[t].status
    PROVE  Verdict' = [Verdict EXCEPT ![u] = rows'[u].status]
  BY DEF Verdict

\* One step of the code is one step of the contract or none.
LEMMA StepRefines ==
    IInv /\ [Next]_vars => [Contract!Next]_<<Verdict, granted>>
<1> SUFFICES ASSUME IInv, [Next]_vars
             PROVE  Contract!Next \/ UNCHANGED <<Verdict, granted>>
  OBVIOUS
<1>0. TypeOK
  BY DEF IInv
<1>a. ASSUME NEW u \in Tokens, rows[u].status = "absent", granted' = granted,
             rows'[u].status = "pending",
             \A t \in Tokens \ {u} : rows'[t].status = rows[t].status
      PROVE  Contract!Next
  <2>1. Contract!Ask(u)
    BY <1>a, VerdictMoves DEF Contract!Ask, Verdict
  <2> QED
    BY <2>1 DEF Contract!Next
<1>b. ASSUME NEW u \in Tokens, NEW v \in Terminal, rows[u].status = "pending",
             rows'[u].status = v, granted' = granted,
             \A t \in Tokens \ {u} : rows'[t].status = rows[t].status
      PROVE  Contract!Next
  <2>1. Verdict' = [Verdict EXCEPT ![u] = v]
    BY <1>b, VerdictMoves
  <2>2. Contract!Decide(u, v)
    BY <1>b, <2>1 DEF Contract!Decide, Verdict
  <2>3. v \in {"approved", "declined", "timeout"}
    BY DEF Terminal
  <2> QED
    BY <2>2, <2>3 DEF Contract!Next
<1>c. ASSUME NEW u \in Tokens, NEW who \in Calls \union {Operator},
             rows[u].status = "approved", granted[u] = {}, rows' = rows,
             granted' = [granted EXCEPT ![u] = @ \union {who}]
      PROVE  Contract!Next
  <2>1. granted' = [granted EXCEPT ![u] = {who}]
    BY <1>c
  <2>2. Contract!Run(u, who)
    BY <1>c, <2>1 DEF Contract!Run, Verdict
  <2> QED
    BY <2>2 DEF Contract!Next
<1>d. ASSUME granted' = granted,
             \A t \in Tokens : rows'[t].status = rows[t].status
      PROVE  UNCHANGED <<Verdict, granted>>
  BY <1>d DEF Verdict
<1>1. ASSUME NEW t \in Tokens, NEW mode \in Modes, NEW persisted \in BOOLEAN,
             Ask(t, mode, persisted)
      PROVE  Contract!Next \/ UNCHANGED <<Verdict, granted>>
  <2>1. CASE persisted
    <3>1. /\ rows[t].status = "absent" /\ rows'[t].status = "pending"
          /\ \A x \in Tokens \ {t} : rows'[x] = rows[x]
          /\ granted' = granted
      BY <1>0, <1>1, <2>1 DEF Ask, NoRow, TypeOK
    <3> QED
      BY <1>a, <3>1
  <2>2. CASE ~persisted
    BY <1>1, <1>d, <2>2 DEF Ask
  <2> QED
    BY <2>1, <2>2
<1>2. ASSUME NEW t \in Tokens, AskApproval(t) PROVE Contract!Next
  <2>1. /\ rows[t].status = "absent" /\ rows'[t].status = "pending"
        /\ \A x \in Tokens \ {t} : rows'[x] = rows[x]
        /\ granted' = granted
    BY <1>0, <1>2 DEF AskApproval, NoRow, TypeOK
  <2> QED
    BY <1>a, <2>1
<1>3. ASSUME NEW t \in Tokens, DialogueRun(t) PROVE Contract!Next
  <2>1. rows[t].status = "approved" /\ granted[t] = {}
    BY <1>3 DEF DialogueRun, IInv, ConversationAgrees, OneTicket
  <2> QED
    BY <1>3, <1>c, <2>1 DEF DialogueRun
<1>4. ASSUME NEW t \in Tokens, WindowCloses(t)
      PROVE  UNCHANGED <<Verdict, granted>>
  <2>1. /\ rows'[t].status = rows[t].status /\ granted' = granted
        /\ \A x \in Tokens \ {t} : rows'[x] = rows[x]
    BY <1>0, <1>4, RowWindow DEF WindowCloses, TypeOK
  <2> QED
    BY <1>d, <2>1
<1>5. ASSUME NEW c \in Calls, Active(c), Matches(c), rows' = Settled(c),
             granted' = granted
      PROVE  Contract!Next
  <2>1. calls[c].tok \in Tokens /\ StatusOf(calls[c].dec) \in Terminal
    BY <1>0, <1>5, ActiveCall DEF Active
  <2>2. /\ rows'[calls[c].tok].status = StatusOf(calls[c].dec)
        /\ \A t \in Tokens \ {calls[c].tok} : rows'[t] = rows[t]
    BY <1>0, <1>5, SettledRows DEF Active
  <2> QED
    BY <1>5, <1>b, <2>1, <2>2 DEF Matches, Pending
<1>6. ASSUME NEW c \in Calls, UpdateWins(c) PROVE Contract!Next
  BY <1>5, <1>6 DEF UpdateWins, Active
<1>7. ASSUME NEW c \in Calls, NEW applied \in BOOLEAN, UpdateFails(c, applied)
      PROVE  Contract!Next \/ UNCHANGED <<Verdict, granted>>
  BY <1>5, <1>7, <1>d DEF UpdateFails, Active
<1>8. ASSUME NEW c \in Calls, CallRun(c)
      PROVE  Contract!Next \/ UNCHANGED <<Verdict, granted>>
  <2>1. Won(c) /\ granted[calls[c].tok] = {} /\ calls[c].tok \in Tokens
    BY <1>0, <1>8, ActiveCall DEF CallRun, IInv, OneTicket, Won, Active
  <2>2. calls[c].dec = "approve" => rows[calls[c].tok].status = "approved"
    BY <2>1 DEF IInv, CallsFitTheirRow, Won, StatusOf
  <2>3. CASE calls[c].dec = "approve"
    BY <1>8, <1>c, <2>1, <2>2, <2>3 DEF CallRun
  <2>4. CASE calls[c].dec # "approve"
    BY <1>8, <1>d, <2>4 DEF CallRun
  <2> QED
    BY <2>3, <2>4
<1>9. ASSUME NEW t \in Tokens, SweepFlip(t)
      PROVE  Contract!Next \/ UNCHANGED <<Verdict, granted>>
  <2>1. rows[t] \in Rows /\ "timeout" \in Terminal
    BY <1>0 DEF TypeOK, Terminal
  <2>2. CASE Pending(t)
    <3>1. /\ rows'[t].status = "timeout" /\ granted' = granted
          /\ \A x \in Tokens \ {t} : rows'[x] = rows[x]
      BY <1>0, <1>9, <2>1, <2>2, RowStatus DEF SweepFlip, TypeOK
    <3> QED
      BY <1>b, <2>1, <2>2, <3>1 DEF Pending
  <2>3. CASE ~Pending(t)
    BY <1>9, <1>d, <2>3 DEF SweepFlip
  <2> QED
    BY <2>2, <2>3
<1>10. ASSUME UNCHANGED <<rows, granted>>
       PROVE  UNCHANGED <<Verdict, granted>>
  BY <1>10 DEF Verdict
<1>11. CASE UNCHANGED vars
  BY <1>10, <1>11 DEF vars
<1>12. CASE Dialogues
  <2>1. ASSUME NEW t \in Tokens, StreamTimer(t)
        PROVE  UNCHANGED <<rows, granted>>
    BY <2>1 DEF StreamTimer
  <2> QED
    BY <1>1, <1>2, <1>3, <1>4, <1>10, <1>12, <2>1 DEF Dialogues
<1>13. CASE Requests
  <2>1. ASSUME NEW c \in Calls, NEW t \in Tokens, NEW who \in Users,
               NEW dec \in Decisions,
               \/ ResolveBegin(c, t, who, dec) \/ OutOfBandBegin(c, t, who, dec)
               \/ ApprovalBegin(c, t, who, dec)
        PROVE  UNCHANGED <<rows, granted>>
    BY <2>1 DEF ResolveBegin, OutOfBandBegin, ApprovalBegin, Accepted
  <2>2. ASSUME NEW c \in Calls, NEW appended \in BOOLEAN,
               UpdateLoses(c) \/ ResolveResume(c) \/ LateNote(c, appended)
        PROVE  UNCHANGED <<rows, granted>>
    BY <2>2 DEF UpdateLoses, ResolveResume, LateNote
  <2> QED
    BY <1>6, <1>7, <1>8, <1>10, <1>13, <2>1, <2>2 DEF Requests
<1>14. CASE Sweeping
  <2>1. ASSUME NEW t \in Tokens, SweepFind \/ SweepRecord(t) \/ SweepEnds
        PROVE  UNCHANGED <<rows, granted>>
    BY <2>1 DEF SweepFind, SweepRecord, SweepEnds
  <2>2. ASSUME SweepFind \/ SweepEnds PROVE UNCHANGED <<rows, granted>>
    BY <2>2 DEF SweepFind, SweepEnds
  <2> QED
    BY <1>9, <1>10, <1>14, <2>1, <2>2 DEF Sweeping
<1>15. CASE SweepFails \/ Restart
  BY <1>10, <1>15 DEF SweepFails, Restart
<1> QED
  BY <1>11, <1>12, <1>13, <1>14, <1>15 DEF Next

\* The decision axis implements DecisionContract: whatever the four parties
\* do, a token sees one verdict, which is final, and one run after approval.
THEOREM Refinement == Spec => ImplementsContract
<1>1. Init => Contract!Init
  <2> SUFFICES ASSUME Init PROVE Contract!Init
    OBVIOUS
  <2>1. \A t \in Tokens : rows[t].status = "absent"
    BY DEF Init, NoRow
  <2> QED
    BY <2>1 DEF Init, Contract!Init
<1> QED
  BY <1>1, StepRefines, Inductive, PTL DEF Spec, ImplementsContract,
     Contract!Spec, Verdict
=============================================================================
