---------------------------- MODULE Confirmation ----------------------------
(***************************************************************************)
(* The decision axis of a governed AI write: a row of                      *)
(* ai_confirmation_requests, the in-memory wait of the dialogue that asked *)
(* (ConfirmationStore.pending), and the four parties that race to settle   *)
(* the row: the dialogue's own endpoint, the Action Center, an approver,   *)
(* and the hourly sweep.  Every database statement is one step and every   *)
(* await between two statements is an interleaving point; a restart loses  *)
(* the waits and the calls in flight and keeps the rows.                   *)
(***************************************************************************)
EXTENDS Naturals, FiniteSets

CONSTANTS
    Tokens,       \* confirmation tokens (randomUUID; never reused)
    Calls,        \* decision requests; each identifier is one HTTP call
    Operator,     \* the user whose AI conversation asks for the write
    Approvers,    \* other accounts, allowed to decide at the approval endpoint
    Nobody,       \* approver_id IS NULL
    MaxFaults     \* bound on restarts and on failed sweeps

ASSUME ConstantsAssumption ==
    /\ Operator \notin Approvers
    /\ Nobody \notin Approvers \union {Operator}
    /\ MaxFaults \in Nat

VARIABLES
    rows,      \* the table: token -> row
    dialogue,  \* token -> the wait of the conversation that created it
    calls,     \* decision requests in flight
    sweep,     \* the hourly expiry job
    granted,   \* token -> who entered the write pipeline on this token
    notes,     \* token -> late decisions written back to the conversation
    recorded,  \* token -> number of expiry audit rows
    faults     \* restarts and failed sweeps so far

vars == <<rows, dialogue, calls, sweep, granted, notes, recorded, faults>>

Users == Approvers \union {Operator}

\* 'immediate' is an R3 card, 'approval' an R4 request, 'run' one card for a
\* whole batch of writes.
Modes == {"immediate", "approval", "run"}

Terminal == {"approved", "declined", "timeout"}

Rows == [status   : {"absent", "pending"} \union Terminal,
         mode     : Modes,
         approver : Users \union {Nobody},
         open     : BOOLEAN]              \* createdAt >= offlineWindowCutoff

NoRow == [status |-> "absent", mode |-> "immediate",
          approver |-> Nobody, open |-> TRUE]

\* "waiting" is an entry of ConfirmationStore.pending with its timer armed:
\* the entry and the promise are created together and settled together.
Waits == {"none", "waiting", "approve", "decline", "timeout", "ran", "lost"}

Decisions == {"approve", "decline"}

CallRecord == [op  : {"resolve", "outOfBand", "approval"},
               tok : Tokens, who : Users, dec : Decisions,
               pc  : {"update", "won", "ran", "over"}]

Unused == [op |-> "none"]

Sweeps == [pc : {"idle", "flip", "record"},
           due : SUBSET Tokens, expired : SUBSET Tokens]

IdleSweep == [pc |-> "idle", due |-> {}, expired |-> {}]

TypeOK ==
    /\ rows \in [Tokens -> Rows]
    /\ dialogue \in [Tokens -> Waits]
    /\ calls \in [Calls -> CallRecord \union {Unused}]
    /\ sweep \in Sweeps
    /\ granted \in [Tokens -> SUBSET (Calls \union {Operator})]
    /\ notes \in [Tokens -> SUBSET Terminal]
    /\ recorded \in [Tokens -> Nat]
    /\ faults \in 0..MaxFaults

Init ==
    /\ rows = [t \in Tokens |-> NoRow]
    /\ dialogue = [t \in Tokens |-> "none"]
    /\ calls = [c \in Calls |-> Unused]
    /\ sweep = IdleSweep
    /\ granted = [t \in Tokens |-> {}]
    /\ notes = [t \in Tokens |-> {}]
    /\ recorded = [t \in Tokens |-> 0]
    /\ faults = 0

-----------------------------------------------------------------------------
(* The conversation asks, waits and, on approval, runs the write.          *)

Pending(t) == rows[t].status = "pending"

\* mutant: the decision is stored as it was sent.
StatusOfRaw(dec) == dec

StatusOf(dec) == IF dec = "approve" THEN "approved" ELSE "declined"

\* create / createRun.  A failed save is logged and swallowed: the dialogue
\* then waits on a token that has no row.
Ask(t, mode, persisted) ==
    /\ rows[t] = NoRow /\ dialogue[t] = "none"
    /\ mode \in {"immediate", "run"}
    /\ dialogue' = [dialogue EXCEPT ![t] = "waiting"]
    /\ rows' = IF persisted
               THEN [rows EXCEPT ![t] = [NoRow EXCEPT !.status = "pending",
                                                      !.mode = mode]]
               ELSE rows
    /\ UNCHANGED <<calls, sweep, granted, notes, recorded, faults>>

\* createR4ApprovalRequest: a row and no wait; the dialogue goes on.
AskApproval(t) ==
    /\ rows[t] = NoRow /\ dialogue[t] = "none"
    /\ rows' = [rows EXCEPT ![t] = [NoRow EXCEPT !.status = "pending",
                                                 !.mode = "approval"]]
    /\ UNCHANGED <<dialogue, calls, sweep, granted, notes, recorded, faults>>

\* The in-stream window ends the wait and never touches the row.
StreamTimer(t) ==
    /\ dialogue[t] = "waiting"
    /\ dialogue' = [dialogue EXCEPT ![t] = "timeout"]
    /\ UNCHANGED <<rows, calls, sweep, granted, notes, recorded, faults>>

\* The dialogue resumes with 'approve' and enters the write pipeline.
DialogueRun(t) ==
    /\ dialogue[t] = "approve"
    /\ dialogue' = [dialogue EXCEPT ![t] = "ran"]
    /\ granted' = [granted EXCEPT ![t] = @ \union {Operator}]
    /\ UNCHANGED <<rows, calls, sweep, notes, recorded, faults>>

\* The offline window of a row passes; its age matters only while it is pending.
WindowCloses(t) ==
    /\ Pending(t) /\ rows[t].open
    /\ rows' = [rows EXCEPT ![t].open = FALSE]
    /\ UNCHANGED <<dialogue, calls, sweep, granted, notes, recorded, faults>>

-----------------------------------------------------------------------------
(* The three decision endpoints.  Each reads first and then settles the    *)
(* row with one conditional update.                                        *)

\* A call that passed the checks made on what it read.
Accepted(c, op, t, who, dec) ==
    /\ calls[c] = Unused
    /\ calls' = [calls EXCEPT ![c] = [op |-> op, tok |-> t, who |-> who,
                                      dec |-> dec, pc |-> "update"]]
    /\ UNCHANGED <<rows, dialogue, sweep, granted, notes, recorded, faults>>

\* ConfirmationStore.resolve reads the in-memory entry, not the row.
ResolveBegin(c, t, who, dec) ==
    /\ dialogue[t] = "waiting" /\ who = Operator
    /\ Accepted(c, "resolve", t, who, dec)

\* MyConfirmationService.decide: own single R3 rows only; the status it read
\* is not looked at.
OutOfBandBegin(c, t, who, dec) ==
    /\ rows[t].status # "absent" /\ who = Operator
    /\ rows[t].mode = "immediate"
    /\ Accepted(c, "outOfBand", t, who, dec)

\* mutant: decideApproval forgets the self-approval check.
ApprovalBeginSelf(c, t, who, dec) ==
    /\ Pending(t) /\ rows[t].mode # "run"
    /\ Accepted(c, "approval", t, who, dec)

\* R4ApprovalService.decideApproval: pending, not a run, no self-approval; the
\* operator may decline.  The risk level is not looked at.
ApprovalBegin(c, t, who, dec) ==
    /\ Pending(t) /\ rows[t].mode # "run"
    /\ ~(dec = "approve" /\ who = Operator)
    /\ Accepted(c, "approval", t, who, dec)

\* mutant: the update goes by token alone, whatever the row's status.
MatchesAnyStatus(c) ==
    calls[c].op = "outOfBand" => rows[calls[c].tok].open

\* WHERE of the conditional update.
Matches(c) ==
    LET k == calls[c] IN
    /\ Pending(k.tok)
    /\ k.op = "outOfBand" => rows[k.tok].open

\* SET of the conditional update.
Settled(c) ==
    LET k == calls[c]
        r == rows[k.tok]
    IN [rows EXCEPT ![k.tok] =
          [status   |-> StatusOf(k.dec),
           approver |-> IF k.op = "approval" THEN k.who ELSE r.approver,
           mode     |-> r.mode, open |-> r.open]]

\* affected = 1: this call is the winner.
UpdateWins(c) ==
    /\ calls[c] # Unused /\ calls[c].pc = "update"
    /\ Matches(c)
    /\ rows' = Settled(c)
    /\ calls' = [calls EXCEPT ![c].pc = "won"]
    /\ UNCHANGED <<dialogue, sweep, granted, notes, recorded, faults>>

\* mutant: affected is not looked at.
UpdateLosesUnseen(c) ==
    /\ calls[c] # Unused /\ calls[c].pc = "update"
    /\ ~Matches(c)
    /\ calls' = [calls EXCEPT ![c].pc = "won"]
    /\ UNCHANGED <<rows, dialogue, sweep, granted, notes, recorded, faults>>

\* affected = 0: refused.
UpdateLoses(c) ==
    /\ calls[c] # Unused /\ calls[c].pc = "update"
    /\ ~Matches(c)
    /\ calls' = [calls EXCEPT ![c].pc = "over"]
    /\ UNCHANGED <<rows, dialogue, sweep, granted, notes, recorded, faults>>

\* The statement fails, before or after the database applied it.  resolve
\* catches and fails closed, the two others throw; none goes on.
UpdateFails(c, applied) ==
    /\ calls[c] # Unused /\ calls[c].pc = "update"
    /\ rows' = IF applied /\ Matches(c) THEN Settled(c) ELSE rows
    /\ calls' = [calls EXCEPT ![c].pc = "over"]
    /\ UNCHANGED <<dialogue, sweep, granted, notes, recorded, faults>>

\* resolve goes on after its update: it settles the promise, which is a no-op
\* when the timer was faster.
ResolveResume(c) ==
    /\ calls[c] # Unused /\ calls[c].op = "resolve" /\ calls[c].pc = "won"
    /\ LET t == calls[c].tok IN
       dialogue' = IF dialogue[t] = "waiting"
                   THEN [dialogue EXCEPT ![t] = calls[c].dec]
                   ELSE dialogue
    /\ calls' = [calls EXCEPT ![c].pc = "over"]
    /\ UNCHANGED <<rows, sweep, granted, notes, recorded, faults>>

\* The other two call executeApprovedTool themselves on 'approve'.
CallRun(c) ==
    /\ calls[c] # Unused /\ calls[c].op # "resolve" /\ calls[c].pc = "won"
    /\ granted' = IF calls[c].dec = "approve"
                  THEN [granted EXCEPT ![calls[c].tok] = @ \union {c}]
                  ELSE granted
    /\ calls' = [calls EXCEPT ![c].pc = IF calls[c].op = "outOfBand"
                                        THEN "ran" ELSE "over"]
    /\ UNCHANGED <<rows, dialogue, sweep, notes, recorded, faults>>

\* _recordLateDecision; an append that fails is logged and swallowed.
LateNote(c, appended) ==
    /\ calls[c] # Unused /\ calls[c].pc = "ran"
    /\ notes' = IF appended
                THEN [notes EXCEPT ![calls[c].tok] = @ \union {StatusOf(calls[c].dec)}]
                ELSE notes
    /\ calls' = [calls EXCEPT ![c].pc = "over"]
    /\ UNCHANGED <<rows, dialogue, sweep, granted, recorded, faults>>

-----------------------------------------------------------------------------
(* The hourly sweep.                                                       *)

\* mutant: the job looks for single R3 cards only.
DueImmediate == {t \in Tokens : Pending(t) /\ ~rows[t].open
                                 /\ rows[t].mode = "immediate"}

Due == {t \in Tokens : Pending(t) /\ ~rows[t].open}

SweepFind ==
    /\ sweep = IdleSweep /\ Due # {}
    /\ sweep' = [pc |-> "flip", due |-> Due, expired |-> {}]
    /\ UNCHANGED <<rows, dialogue, calls, granted, notes, recorded, faults>>

\* mutants: every candidate is reported as expired; the update goes by token.
SweepFlipReportsAll(t) ==
    /\ sweep.pc = "flip" /\ t \in sweep.due
    /\ rows' = IF Pending(t) THEN [rows EXCEPT ![t].status = "timeout"] ELSE rows
    /\ sweep' = [pc |-> IF sweep.due = {t} THEN "record" ELSE "flip",
                 due |-> sweep.due \ {t}, expired |-> sweep.expired \union {t}]
    /\ UNCHANGED <<dialogue, calls, granted, notes, recorded, faults>>

SweepFlipAnyStatus(t) ==
    /\ sweep.pc = "flip" /\ t \in sweep.due
    /\ rows' = [rows EXCEPT ![t].status = "timeout"]
    /\ sweep' = [pc |-> IF sweep.due = {t} THEN "record" ELSE "flip",
                 due |-> sweep.due \ {t}, expired |-> sweep.expired \union {t}]
    /\ UNCHANGED <<dialogue, calls, granted, notes, recorded, faults>>

\* One conditional update per candidate; 0 rows means the sweep lost this one.
SweepFlip(t) ==
    /\ sweep.pc = "flip" /\ t \in sweep.due
    /\ rows' = IF Pending(t) THEN [rows EXCEPT ![t].status = "timeout"] ELSE rows
    /\ sweep' = [pc |-> IF sweep.due = {t} THEN "record" ELSE "flip",
                 due |-> sweep.due \ {t},
                 expired |-> IF Pending(t) THEN sweep.expired \union {t}
                                           ELSE sweep.expired]
    /\ UNCHANGED <<dialogue, calls, granted, notes, recorded, faults>>

\* _recordExpiries: one audit row per row this sweep flipped.
SweepRecord(t) ==
    /\ sweep.pc = "record" /\ t \in sweep.expired
    /\ recorded' = [recorded EXCEPT ![t] = @ + 1]
    /\ sweep' = [sweep EXCEPT !.expired = @ \ {t}]
    /\ UNCHANGED <<rows, dialogue, calls, granted, notes, faults>>

SweepEnds ==
    /\ sweep.pc = "record" /\ sweep.expired = {}
    /\ sweep' = IdleSweep
    /\ UNCHANGED <<rows, dialogue, calls, granted, notes, recorded, faults>>

\* A statement of the job throws: the cron handler gives up this round, and
\* with it the list of rows it has flipped.
SweepFails ==
    /\ sweep # IdleSweep /\ faults < MaxFaults
    /\ faults' = faults + 1
    /\ sweep' = IdleSweep
    /\ UNCHANGED <<rows, dialogue, calls, granted, notes, recorded>>

-----------------------------------------------------------------------------
\* The process dies and comes back: Map, timers, promises, handlers and the
\* job are gone, the tables stay.
Restart ==
    /\ faults < MaxFaults
    /\ faults' = faults + 1
    /\ dialogue' = [t \in Tokens |-> IF dialogue[t] \in {"waiting", "approve"}
                                     THEN "lost" ELSE dialogue[t]]
    /\ calls' = [c \in Calls |-> IF calls[c] = Unused THEN Unused
                                 ELSE [calls[c] EXCEPT !.pc = "over"]]
    /\ sweep' = IdleSweep
    /\ UNCHANGED <<rows, granted, notes, recorded>>

Dialogues == \E t \in Tokens :
    \/ \E mode \in Modes, persisted \in BOOLEAN : Ask(t, mode, persisted)
    \/ AskApproval(t)
    \/ StreamTimer(t)
    \/ DialogueRun(t)
    \/ WindowCloses(t)

Requests == \E c \in Calls :
    \/ \E t \in Tokens, who \in Users, dec \in Decisions :
          \/ ResolveBegin(c, t, who, dec)
          \/ OutOfBandBegin(c, t, who, dec)
          \/ ApprovalBegin(c, t, who, dec)
    \/ UpdateWins(c)
    \/ UpdateLoses(c)
    \/ \E applied \in BOOLEAN : UpdateFails(c, applied)
    \/ ResolveResume(c)
    \/ CallRun(c)
    \/ \E appended \in BOOLEAN : LateNote(c, appended)

Sweeping ==
    \/ SweepFind
    \/ \E t \in Tokens : SweepFlip(t) \/ SweepRecord(t)
    \/ SweepEnds

Next == Dialogues \/ Requests \/ Sweeping \/ SweepFails \/ Restart

Spec == Init /\ [][Next]_vars

\* Timers fire, the event loop runs what it was handed, and the cron job
\* comes round; nobody is obliged to decide and nothing obliges a restart.
Fairness ==
    /\ \A t \in Tokens : WF_vars(StreamTimer(t)) /\ WF_vars(WindowCloses(t))
    /\ \A t \in Tokens : WF_vars(DialogueRun(t))
    /\ \A c \in Calls : /\ WF_vars(UpdateWins(c) \/ UpdateLoses(c))
                        /\ WF_vars(ResolveResume(c)) /\ WF_vars(CallRun(c))
    /\ WF_vars(Sweeping)

FairSpec == Spec /\ Fairness

-----------------------------------------------------------------------------
(* Properties.                                                             *)

\* Four parties may settle one token and a fifth may fail half way, yet at
\* most one of them ever enters the write pipeline on it.
AtMostOneRun == \A t \in Tokens : \A a, b \in granted[t] : a = b

\* Whoever runs a write does so on an approved row; an R4 row was approved by
\* a second person, and a run card is only ever executed by its dialogue.
RunsAreAuthorized ==
    \A t \in Tokens : granted[t] # {} =>
        /\ rows[t].status = "approved"
        /\ rows[t].mode = "approval" => rows[t].approver \in Approvers
        /\ rows[t].mode = "run" => granted[t] = {Operator}

\* What a conversation was told of a decision, by its own promise or by a late
\* note, is what the row says for good; "timed out" is not a decision.
ConversationAgrees ==
    \A t \in Tokens :
        /\ dialogue[t] \in {"approve", "ran"} => rows[t].status = "approved"
        /\ dialogue[t] = "decline" => rows[t].status = "declined"
        /\ notes[t] \subseteq {rows[t].status}

\* The sweep writes at most one expiry row per token, and only for a row that
\* it turned to timeout, whoever raced it.
ExpiryRecordedOnce ==
    \A t \in Tokens : /\ recorded[t] <= 1
                       /\ recorded[t] = 1 => rows[t].status = "timeout"

\* The inductive invariant behind the properties above.  A "ticket" to run the
\* write is a call that has won its update and not gone on yet, or a dialogue
\* woken with 'approve': a token has at most one, and none once it was used.
Active(c) == calls[c] # Unused

Won(c) == Active(c) /\ calls[c].pc = "won"

CallsFitTheirRow ==
    \A c \in Calls : Active(c) =>
        LET k == calls[c] IN
        /\ k.op = "resolve" => dialogue[k.tok] # "none"
        /\ k.op # "resolve" => rows[k.tok].status # "absent"
        /\ k.op = "outOfBand" => rows[k.tok].mode = "immediate"
        /\ k.op = "approval" => rows[k.tok].mode # "run"
        /\ k.op = "approval" /\ k.dec = "approve" => k.who \in Approvers
        /\ k.pc \in {"won", "ran"} => rows[k.tok].status = StatusOf(k.dec)
        /\ k.pc = "ran" => k.op = "outOfBand"

OneTicket ==
    /\ \A c, d \in Calls : Won(c) /\ Won(d) /\ calls[c].tok = calls[d].tok => c = d
    /\ \A c \in Calls : Won(c) => /\ granted[calls[c].tok] = {}
                                 /\ dialogue[calls[c].tok] # "approve"
    /\ \A t \in Tokens : dialogue[t] = "approve" => granted[t] = {}

RowsFitTheirDialogue ==
    \A t \in Tokens :
        /\ dialogue[t] # "none" => rows[t].mode # "approval"
        /\ rows[t].status = "approved" /\ rows[t].mode = "approval"
              => rows[t].approver \in Approvers
        /\ rows[t].status = "absent" => rows[t] = NoRow

SweepFitsRows ==
    /\ \A t \in Tokens : rows[t].status # "timeout" => recorded[t] = 0
    /\ \A t \in sweep.expired : rows[t].status = "timeout" /\ recorded[t] = 0
    /\ sweep.due \intersect sweep.expired = {}

IInv ==
    /\ TypeOK
    /\ AtMostOneRun /\ RunsAreAuthorized /\ ConversationAgrees /\ ExpiryRecordedOnce
    /\ CallsFitTheirRow /\ OneTicket /\ RowsFitTheirDialogue /\ SweepFitsRows

\* The decision axis implements the contract the rest of the runtime relies
\* on: one verdict per token, never revised, and one run after an approval.
Contract == INSTANCE DecisionContract WITH
                verdict <- [t \in Tokens |-> rows[t].status],
                runners <- granted,
                Parties <- Calls \union {Operator}
ImplementsContract == Contract!Spec

\* Every question ends: a dialogue stops waiting and a row leaves pending, with
\* or without a decision.
QuestionsEnd ==
    \A t \in Tokens : /\ ((dialogue[t] = "waiting") ~> (dialogue[t] # "waiting"))
                       /\ (Pending(t) ~> ~Pending(t))

\* docs/audit-authz-snapshot.spec.md section 5.7: the sweep writes one audit
\* row for every row it turned to timeout.
EveryExpiryIsRecorded ==
    \A t \in Tokens : (rows[t].status = "timeout") ~> (recorded[t] > 0)
=============================================================================
