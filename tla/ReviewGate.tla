------------------------------ MODULE ReviewGate ------------------------------
(***************************************************************************)
(* One human review gate of one run: the ticket that waits for a person     *)
(* behind an agent's ticket (its upstream).  The orchestrator presents the  *)
(* gate (status, notification, gate state), and answers the person's        *)
(* decision: an approval closes the cycle, a rejection re-opens the         *)
(* upstream until the round cap hands the gate back to the person.          *)
(*                                                                          *)
(* Every Lambda invocation is a handler that works through the awaits of    *)
(* its code one step at a time; handlers share the run's row, where each    *)
(* write is one conditional update.  Events reach them through a queue (the *)
(* FIFO command queue of a Jira run, the stream of the DynamoDB board), in  *)
(* order and one at a time, or, on Jira without a command queue, directly:  *)
(* in any order, to several handlers at once.  Either way a handler that    *)
(* dies leaves its event to be taken again.  The sweep runs beside them.    *)
(***************************************************************************)
EXTENDS ReviewCap, FiniteSetsExt

CONSTANTS Handlers,          \* invocations of the orchestrator
          Settings,          \* the deployments and gates considered
          Continue,          \* the notes with a line "DECISION: continue"
          Advisory,          \* the notes whose findings all lie outside the diff
          MaxDecisions,      \* bound: decisions of the person
          MaxOthers,         \* bound: notifications about other things
          MaxTrouble,        \* bound: dying handlers, failed calls and second looks
          MaxJiraDecisions,    \* the bound on decisions on a Jira board
          MaxDirectTrouble   \* the bound on trouble where there is no queue

\* GATE_STATE_GUARD, the command queue, TICKET_PROVIDER, the gate's onReject.
Deployment == [guard : {"off", "shadow", "enforce"}, delivery : {"queue", "direct"},
               board : {"ddb", "jira"}, onReject : {"rework", "hold"}]

ASSUME GateAssumption ==
    /\ Settings \subseteq Deployment
    /\ \A s \in Settings : s.board = "ddb" => s.delivery = "queue"
    /\ Continue \subseteq Notes /\ Advisory \subseteq Notes
    /\ MaxDecisions \in Nat /\ MaxOthers \in Nat /\ MaxTrouble \in Nat
    /\ MaxJiraDecisions \in 0..MaxDecisions /\ MaxDirectTrouble \in Nat

VARIABLES setting,   \* the deployment, which no step changes
          gate,      \* the gate's ticket
          upstream,  \* the reviewed ticket: "open" or "done"
          row,       \* what the run's row says about the gate
          inbox,     \* events not yet dealt with
          handler,   \* the invocations
          said,      \* decisions made so far
          posted,    \* notifications ever appended
          reworks,   \* how often each rejection has re-opened the upstream
          newRounds, \* new rounds that went to rework since the last authorization
          heard,     \* rejections the guard has admitted, and dropped ones it has not
          budget     \* looks, others, crashes, errors so far

vars == <<setting, gate, upstream, row, inbox, handler, said, posted, reworks, newRounds, heard, budget>>

Attempts == 3  \* maxAttempts of the notification writers

\* "parked": the ticket carries the advisory park comment.  The note is reviewComment.
Gate == [status : {"blocked", "ready", "in_review", "done"}, note : Notes \cup {"none"}, parked : BOOLEAN]

\* The row: gateStates[gate].state, humanNotifications, notifVersion, reviewGateHistory[gate].
GATE_STATES == {"requested", "rejected", "approved"}
Notification == [id : Nat, review : BOOLEAN, open : BOOLEAN]
Row == [state : GATE_STATES \cup {"none"}, notifs : SUBSET Notification, version : Nat, ledger : Ledger]

NewRow == [state |-> "none", notifs |-> {}, version |-> 0, ledger |-> Unreviewed]

\* An event; n numbers the person's decisions, so two events of a kind differ.
Event == [kind : {"ready", "reject", "approve", "none"}, n : Nat]
NoEvent == [kind |-> "none", n |-> 0]

PresentingAt == {"park", "appendRead", "appendWrite", "mark"}
RejectingAt == {"guard", "claim", "begin", "decide", "authorize", "record", "reopen", "escalate"}
ConcludingAt == {"ackRead", "ackWrite", "approve", "end"}

\* wf is the run as the handler has resolved it, fresh what a notification writer has
\* read, note the feedback, round the round an escalation is to be recorded at (or 0).
Handler == [pc : {"idle"} \cup PresentingAt \cup RejectingAt \cup ConcludingAt,
            event : Event, note : Notes \cup {"none"}, wf : Row, fresh : Row,
            tries : 0..Attempts, round : Nat]

Idle == [pc |-> "idle", event |-> NoEvent, note |-> "none", wf |-> NewRow, fresh |-> NewRow,
         tries |-> 0, round |-> 0]

OpenReviews(r) == {m \in r.notifs : m.review /\ m.open}
Presented(r) == \E m \in r.notifs : m.review

\* The gate is created blocked behind its upstream (gateStates has no entry for it).
Init ==
    /\ setting \in Settings
    /\ gate = [status |-> "blocked", note |-> "none", parked |-> FALSE]
    /\ upstream = "open"
    /\ row = NewRow
    /\ inbox = <<>>
    /\ handler = [h \in Handlers |-> Idle]
    /\ said = 0 /\ posted = 0
    /\ reworks = [n \in 1..MaxDecisions |-> 0]
    /\ newRounds = 0
    /\ heard = [admitted |-> {}, dropped |-> {}]
    /\ budget = [looks |-> 0, others |-> 0, crashes |-> 0, errors |-> 0]

-----------------------------------------------------------------------------
(* The person, the agent, and everything else that writes notifications.    *)

\* The bounds on what may still go wrong and on what the person may still decide.
MayTrouble == budget.looks + budget.crashes + budget.errors
                < (IF setting.delivery = "queue" THEN MaxTrouble ELSE MaxDirectTrouble)
MayDecide == said < (IF setting.board = "ddb" THEN MaxDecisions ELSE MaxJiraDecisions)

Presenting ==
    \E h \in Handlers : \/ handler[h].pc \in PresentingAt
                        \/ handler[h].pc = "end" /\ handler[h].event.kind = "ready"

SentBack == gate.status = "blocked" /\ gate.note # "none"

\* Request changes, with a note.  A person is slower than the handlers that have just
\* moved the gate to In Review.
Reject(note) ==
    /\ gate.status = "in_review" /\ ~Presenting /\ MayDecide
    /\ said' = said + 1
    /\ gate' = [gate EXCEPT !.status = "blocked", !.note = note]
    /\ inbox' = Append(inbox, [kind |-> "reject", n |-> said + 1])
    /\ UNCHANGED <<upstream, row, handler, posted, reworks, newRounds, heard, budget>>

\* Done, from In Review or after a rejection.
Approve ==
    /\ gate.status = "in_review" \/ SentBack
    /\ ~Presenting /\ MayDecide
    /\ said' = said + 1
    /\ gate' = [gate EXCEPT !.status = "done"]
    /\ inbox' = Append(inbox, [kind |-> "approve", n |-> said + 1])
    /\ UNCHANGED <<upstream, row, handler, posted, reworks, newRounds, heard, budget>>

\* A rejected gate moved back to In Review by hand: no handler listens to that.
LookAgain ==
    /\ SentBack /\ MayTrouble
    /\ gate' = [gate EXCEPT !.status = "in_review"]
    /\ budget' = [budget EXCEPT !.looks = @ + 1]
    /\ UNCHANGED <<upstream, row, inbox, handler, said, posted, reworks, newRounds, heard>>

\* The agent finishes the reviewed ticket and the cascade readies the gate behind it.
\* A rework outlasts the handler that ordered it (the Lambda has 60 seconds).
UpstreamDone ==
    /\ upstream = "open"
    /\ \A h \in Handlers : handler[h].pc = "idle"
    /\ \A i \in DOMAIN inbox : inbox[i].kind # "reject"
    /\ upstream' = "done"
    /\ IF gate.status = "blocked"
       THEN /\ gate' = [gate EXCEPT !.status = "ready"]
            /\ inbox' = Append(inbox, [kind |-> "ready", n |-> said])
       ELSE UNCHANGED <<gate, inbox>>
    /\ UNCHANGED <<row, handler, said, posted, reworks, newRounds, heard, budget>>

\* Mutant: the append does not bump notifVersion.
AppendNotificationUnversioned ==
    /\ budget.others < MaxOthers
    /\ posted' = posted + 1
    /\ row' = [row EXCEPT !.notifs = @ \cup {[id |-> posted + 1, review |-> FALSE, open |-> TRUE]}]
    /\ budget' = [budget EXCEPT !.others = @ + 1]
    /\ UNCHANGED <<gate, upstream, inbox, handler, said, reworks, newRounds, heard>>

\* appendNotification, by a handler of another ticket: one atomic append.
AppendNotification ==
    /\ budget.others < MaxOthers
    /\ posted' = posted + 1
    /\ row' = [row EXCEPT !.notifs = @ \cup {[id |-> posted + 1, review |-> FALSE, open |-> TRUE]},
                          !.version = @ + 1]
    /\ budget' = [budget EXCEPT !.others = @ + 1]
    /\ UNCHANGED <<gate, upstream, inbox, handler, said, reworks, newRounds, heard>>

-----------------------------------------------------------------------------
(* A handler takes an event.                                                *)

\* handleTicketReadyUnified, processStatusChange "blocked", ackApprovedGateNotification.
FirstStep(kind) ==
    CASE kind = "ready" -> "park"
      [] kind = "reject" -> IF setting.guard = "off" THEN "begin" ELSE "guard"
      [] kind = "approve" -> "ackRead"

\* The queue hands out the first event of the run's group and holds back the rest.
Deliverable ==
    IF setting.delivery = "direct" THEN {inbox[i] : i \in DOMAIN inbox}
    ELSE {inbox[i] : i \in {j \in DOMAIN inbox : j = 1 /\ \A h \in Handlers : handler[h].event = NoEvent}}

Take(h, e) ==
    /\ handler[h].pc = "idle" /\ e \in Deliverable
    /\ handler' = [handler EXCEPT ![h] = [Idle EXCEPT !.pc = FirstStep(e.kind), !.event = e,
                                                      !.note = gate.note, !.tries = Attempts]]
    /\ UNCHANGED <<gate, upstream, row, inbox, said, posted, reworks, newRounds, heard, budget>>

\* The reconcile sweep finds the gate in review, its blocker done, with no open review
\* notification.  On the DynamoDB board it looks at tickets that have not moved for a lease
\* TTL, which outlasts the deliveries; a Jira ticket has no updatedAt and never waits.
Rewake(h) ==
    /\ handler[h].pc = "idle" /\ upstream = "done"
    /\ setting.board = "ddb" => ~Presenting /\ inbox = <<>>
    /\ gate.status = "in_review" /\ OpenReviews(row) = {}
    /\ handler' = [handler EXCEPT ![h] = [Idle EXCEPT !.pc = "park", !.tries = Attempts]]
    /\ UNCHANGED <<gate, upstream, row, inbox, said, posted, reworks, newRounds, heard, budget>>

Goto(h, pc) == handler' = [handler EXCEPT ![h].pc = pc]

\* The queue q without its i-th event.
Without(q, i) == [j \in 1..(Len(q) - 1) |-> q[IF j < i THEN j ELSE j + 1]]

\* The handler's event is deleted, if no other delivery's handler was first.
Consume(h) ==
    LET places == {i \in DOMAIN inbox : inbox[i] = handler[h].event}
    IN IF places = {} THEN inbox' = inbox ELSE \E i \in places : inbox' = Without(inbox, i)

\* The handler returns.
End(h) ==
    /\ handler[h].pc = "end"
    /\ Consume(h)
    /\ handler' = [handler EXCEPT ![h] = Idle]
    /\ UNCHANGED <<gate, upstream, row, said, posted, reworks, newRounds, heard, budget>>

-----------------------------------------------------------------------------
(* Presenting the gate: handleHumanReviewGate.                              *)

AfterPresenting(h) == IF handler[h].round > 0 THEN "escalate" ELSE "end"

\* The status is set whatever it was.
Park(h) ==
    /\ handler[h].pc = "park"
    /\ gate' = [gate EXCEPT !.status = "in_review"]
    /\ Goto(h, "appendRead")
    /\ UNCHANGED <<upstream, row, inbox, said, posted, reworks, newRounds, heard, budget>>

\* Mutant: the open notification is not looked for.
AppendReadUnchecked(h) ==
    /\ handler[h].pc = "appendRead"
    /\ handler' = [handler EXCEPT ![h].pc = "appendWrite", ![h].fresh = row]
    /\ UNCHANGED <<gate, upstream, row, inbox, said, posted, reworks, newRounds, heard, budget>>

\* appendReviewNotificationOnce reads the run and stands down before an open one.
AppendRead(h) ==
    /\ handler[h].pc = "appendRead"
    /\ IF OpenReviews(row) # {}
       THEN Goto(h, AfterPresenting(h))
       ELSE handler' = [handler EXCEPT ![h].pc = "appendWrite", ![h].fresh = row]
    /\ UNCHANGED <<gate, upstream, row, inbox, said, posted, reworks, newRounds, heard, budget>>

Unmoved(h) == row.version = handler[h].fresh.version  \* the notifVersion fence

LostRace(h, retryAt, giveUpAt) ==
    LET again == handler[h].tries > 1
    IN handler' = [handler EXCEPT ![h].pc = IF again THEN retryAt ELSE giveUpAt,
                                  ![h].tries = IF again THEN @ - 1 ELSE Attempts,
                                  ![h].fresh = NewRow]

\* ... and writes back the list it has read, with the notification.
AppendWrite(h) ==
    /\ handler[h].pc = "appendWrite"
    /\ \/ /\ Unmoved(h)
          /\ posted' = posted + 1
          /\ row' = [row EXCEPT !.notifs = handler[h].fresh.notifs
                                             \cup {[id |-> posted + 1, review |-> TRUE, open |-> TRUE]},
                                !.version = handler[h].fresh.version + 1]
          /\ handler' = [handler EXCEPT ![h].pc = IF setting.guard = "off" THEN AfterPresenting(h) ELSE "mark",
                                        ![h].fresh = NewRow]
       \/ /\ ~Unmoved(h)
          /\ LostRace(h, "appendRead", AfterPresenting(h))
          /\ UNCHANGED <<row, posted>>
    /\ UNCHANGED <<gate, upstream, inbox, said, reworks, newRounds, heard, budget>>

\* Mutant: only a gate without a state becomes requested.
MarkFirst(h) ==
    /\ handler[h].pc = "mark"
    /\ row' = IF row.state = "none" THEN [row EXCEPT !.state = "requested"] ELSE row
    /\ Goto(h, AfterPresenting(h))
    /\ UNCHANGED <<gate, upstream, inbox, said, posted, reworks, newRounds, heard, budget>>

\* markGateRequested; a failed write is logged and the handler goes on.
Mark(h) ==
    /\ handler[h].pc = "mark"
    /\ row' = [row EXCEPT !.state = "requested"]
    /\ Goto(h, AfterPresenting(h))
    /\ UNCHANGED <<gate, upstream, inbox, said, posted, reworks, newRounds, heard, budget>>

-----------------------------------------------------------------------------
(* Concluding a cycle: ackNotifications, for both decisions.                *)

AfterAck(h) == IF handler[h].event.kind = "approve"
               THEN IF setting.guard = "off" THEN "end" ELSE "approve"
               ELSE "decide"

AckRead(h) ==
    /\ handler[h].pc = "ackRead"
    /\ IF OpenReviews(row) = {}
       THEN handler' = [handler EXCEPT ![h].pc = AfterAck(h), ![h].tries = Attempts]
       ELSE handler' = [handler EXCEPT ![h].pc = "ackWrite", ![h].fresh = row]
    /\ UNCHANGED <<gate, upstream, row, inbox, said, posted, reworks, newRounds, heard, budget>>

Acknowledged(notifs) == {IF m.review THEN [m EXCEPT !.open = FALSE] ELSE m : m \in notifs}

AckWrite(h) ==
    /\ handler[h].pc = "ackWrite"
    /\ \/ /\ Unmoved(h)
          /\ row' = [row EXCEPT !.notifs = Acknowledged(handler[h].fresh.notifs),
                                !.version = handler[h].fresh.version + 1]
          /\ handler' = [handler EXCEPT ![h].pc = AfterAck(h), ![h].fresh = NewRow, ![h].tries = Attempts]
       \/ /\ ~Unmoved(h)
          /\ LostRace(h, "ackRead", AfterAck(h))
          /\ UNCHANGED row
    /\ UNCHANGED <<gate, upstream, inbox, said, posted, reworks, newRounds, heard, budget>>

\* Mutant: the ticket's status is written as the gate's state.
MarkDone(h) ==
    /\ handler[h].pc = "approve"
    /\ row' = [row EXCEPT !.state = "done"]
    /\ Goto(h, "end")
    /\ UNCHANGED <<gate, upstream, inbox, said, posted, reworks, newRounds, heard, budget>>

\* markGateApproved: a pending or a rejected review; otherwise a lost condition.
MarkApproved(h) ==
    /\ handler[h].pc = "approve"
    /\ row' = IF row.state \in {"requested", "rejected"} THEN [row EXCEPT !.state = "approved"] ELSE row
    /\ Goto(h, "end")
    /\ UNCHANGED <<gate, upstream, inbox, said, posted, reworks, newRounds, heard, budget>>

-----------------------------------------------------------------------------
(* A rejection: the gate-state guard, then handleReviewRejection.           *)

\* classifyRejection: the rejection of a gate somebody was asked about.
Answers(r) == \/ r.state = "requested"
              \/ r.state \notin GATE_STATES /\ Presented(r)

\* The rejection is published as ignored and, if the guard is enforced, dropped.
Ignore(h) ==
    \/ /\ setting.guard = "enforce"
       /\ Goto(h, "end")
       /\ heard' = IF handler[h].event.n \in heard.admitted THEN heard
                   ELSE [heard EXCEPT !.dropped = @ \cup
                           {[note |-> handler[h].note, parked |-> gate.parked]}]
    \/ /\ setting.guard = "shadow"
       /\ handler' = [handler EXCEPT ![h].pc = "begin", ![h].wf = NewRow]
       /\ UNCHANGED heard

Admit(h) == heard' = [heard EXCEPT !.admitted = @ \cup {handler[h].event.n}]

\* gateRejectionAdmitted reads the run; what it cannot read it admits.
Guard(h) ==
    /\ handler[h].pc = "guard"
    /\ \/ /\ Answers(row)
          /\ handler' = [handler EXCEPT ![h].pc = "claim", ![h].wf = row]
          /\ UNCHANGED <<heard, budget>>
       \/ /\ ~Answers(row)
          /\ Ignore(h)
          /\ UNCHANGED budget
       \/ /\ MayTrouble
          /\ budget' = [budget EXCEPT !.errors = @ + 1]
          /\ Goto(h, "begin")
          /\ Admit(h)
    /\ UNCHANGED <<gate, upstream, row, inbox, said, posted, reworks, newRounds>>

\* markGateRejected, or markGateRejectedFromLegacy for a row that had no usable state.
RejectClaimed(h) == IF handler[h].wf.state \in GATE_STATES THEN row.state = "requested"
                                                            ELSE row.state \notin GATE_STATES

\* Mutant: the guard only looks.
NotClaimed == row

Claimed == [row EXCEPT !.state = "rejected"]

ClaimRejection(h) ==
    /\ handler[h].pc = "claim"
    /\ \/ /\ RejectClaimed(h)
          /\ row' = Claimed
          /\ handler' = [handler EXCEPT ![h].pc = "begin", ![h].wf = NewRow]
          /\ Admit(h)
       \/ /\ ~RejectClaimed(h)
          /\ Ignore(h)
          /\ UNCHANGED row
    /\ UNCHANGED <<gate, upstream, inbox, said, posted, reworks, newRounds, budget>>

\* handleReviewRejection resolves the run; its ledger is used after the acknowledgement.
Begin(h) ==
    /\ handler[h].pc = "begin"
    /\ handler' = [handler EXCEPT ![h].pc = "ackRead", ![h].wf = row]
    /\ UNCHANGED <<gate, upstream, row, inbox, said, posted, reworks, newRounds, heard, budget>>

OutOfDiff(h) == handler[h].note \in Advisory
Decided(h) == handler[h].note \in Continue

\* A gate with onReject "hold" pauses the run: nothing is re-opened.  Findings outside the
\* diff record no round: the gate is parked with a comment, or, if the note says
\* DECISION: continue, the upstream is re-opened all the same.
Decide(h) ==
    /\ handler[h].pc = "decide"
    /\ \/ /\ setting.onReject = "hold"
          /\ Goto(h, "end")
          /\ UNCHANGED gate
       \/ /\ setting.onReject = "rework" /\ OutOfDiff(h) /\ ~Decided(h)
          /\ gate' = [gate EXCEPT !.parked = TRUE]
          /\ Goto(h, "end")
       \/ /\ setting.onReject = "rework" /\ OutOfDiff(h) /\ Decided(h)
          /\ Goto(h, "reopen")
          /\ UNCHANGED gate
       \/ /\ setting.onReject = "rework" /\ ~OutOfDiff(h)
          /\ Goto(h, IF OpenEscalations(handler[h].wf.ledger) # {} /\ Decided(h)
                     THEN "authorize" ELSE "record")
          /\ UNCHANGED gate
    /\ UNCHANGED <<upstream, row, inbox, said, posted, reworks, newRounds, heard, budget>>

\* authorizeIfDecided: the newest open escalation the run showed is released.
Authorize(h) ==
    /\ handler[h].pc = "authorize"
    /\ row' = [row EXCEPT !.ledger.authorized = @ \cup {Max(OpenEscalations(handler[h].wf.ledger))}]
    /\ newRounds' = 0
    /\ Goto(h, "record")
    /\ UNCHANGED <<gate, upstream, inbox, said, posted, reworks, heard, budget>>

\* Mutant: an escalated gate is not parked a second time.
AfterRoundOnce(l) == IF ~CapReached(l) THEN "reopen"
                     ELSE IF OpenEscalations(l) = {} THEN "park" ELSE "end"

AfterRound(l) == IF CapReached(l) THEN "park" ELSE "reopen"

\* enforce: the round is appended and the cap judged by the ledger the write returns.
\* At the cap the gate goes back to the person; a ledger that fails allows the rework.
Record(h) ==
    /\ handler[h].pc = "record"
    /\ \/ LET l == WithRound(row.ledger, handler[h].wf.ledger, handler[h].note)
              k == RoundOf(handler[h].wf.ledger, handler[h].note)
          IN /\ row' = [row EXCEPT !.ledger = l]
             /\ handler' = [handler EXCEPT
                    ![h].pc = AfterRound(l),
                    ![h].round = IF CapReached(l) /\ OpenEscalations(l) = {} THEN k ELSE 0,
                    ![h].wf = NewRow]
             /\ newRounds' = IF CapReached(l) \/ SameRound(handler[h].wf.ledger, handler[h].note)
                             THEN newRounds ELSE newRounds + 1
             /\ UNCHANGED budget
       \/ /\ MayTrouble
          /\ budget' = [budget EXCEPT !.errors = @ + 1]
          /\ handler' = [handler EXCEPT ![h].pc = "reopen", ![h].wf = NewRow]
          /\ UNCHANGED <<row, newRounds>>
    /\ UNCHANGED <<gate, upstream, inbox, said, posted, reworks, heard>>

\* appendReviewCapEscalation, after the gate has been parked.
Escalate(h) ==
    /\ handler[h].pc = "escalate"
    /\ row' = [row EXCEPT !.ledger.escalated = @ \cup {handler[h].round}]
    /\ Goto(h, "end")
    /\ UNCHANGED <<gate, upstream, inbox, said, posted, reworks, newRounds, heard, budget>>

\* The feedback is stashed and the upstream re-opened.  On Jira either hop of the re-open
\* may not land: the upstream stays as it is, or in To Do, and is skipped.
Reopen(h) ==
    /\ handler[h].pc = "reopen"
    /\ \/ /\ upstream' = "open"
          /\ reworks' = [reworks EXCEPT ![handler[h].event.n] = @ + 1]
          /\ UNCHANGED budget
       \/ /\ setting.board = "jira" /\ MayTrouble
          /\ upstream' \in {upstream, "open"}
          /\ budget' = [budget EXCEPT !.errors = @ + 1]
          /\ UNCHANGED reworks
    /\ Goto(h, "end")
    /\ UNCHANGED <<gate, row, inbox, said, posted, newRounds, heard>>

-----------------------------------------------------------------------------
(* Failures.                                                                *)

\* The invocation ends early; its event is delivered again.  What a record of the stream
\* throws is logged, and the record is consumed.
Crash(h) ==
    /\ handler[h].pc # "idle" /\ MayTrouble
    /\ budget' = [budget EXCEPT !.crashes = @ + 1]
    /\ \/ UNCHANGED inbox
       \/ setting.board = "ddb" /\ Consume(h)
    /\ handler' = [handler EXCEPT ![h] = Idle]
    /\ UNCHANGED <<gate, upstream, row, said, posted, reworks, newRounds, heard>>

\* A call of a step fails and is caught: the gate-state write of a presentation, or
\* anything in the acknowledgement of an approval.
CallFails(h) ==
    /\ MayTrouble
    /\ \/ handler[h].pc = "mark" /\ Goto(h, AfterPresenting(h))
       \/ handler[h].pc \in {"ackRead", "ackWrite", "approve"} /\ handler[h].event.kind = "approve"
            /\ handler' = [handler EXCEPT ![h].pc = "end", ![h].fresh = NewRow]
       \/ handler[h].pc = "escalate" /\ Goto(h, "end")
    /\ budget' = [budget EXCEPT !.errors = @ + 1]
    /\ UNCHANGED <<gate, upstream, row, inbox, said, posted, reworks, newRounds, heard>>

Work(h) ==
    \/ \E e \in Deliverable : Take(h, e)
    \/ Park(h) \/ AppendRead(h) \/ AppendWrite(h) \/ Mark(h)
    \/ AckRead(h) \/ AckWrite(h) \/ MarkApproved(h)
    \/ Guard(h) \/ ClaimRejection(h) \/ Begin(h) \/ Decide(h)
    \/ Authorize(h) \/ Record(h) \/ Escalate(h) \/ Reopen(h)
    \/ End(h)

Next ==
    /\ \/ \E h \in Handlers : Work(h) \/ Rewake(h) \/ Crash(h) \/ CallFails(h)
       \/ \E note \in Notes : Reject(note)
       \/ Approve \/ LookAgain \/ UpstreamDone \/ AppendNotification
    /\ UNCHANGED setting

Spec == Init /\ [][Next]_vars

\* Events are delivered and invocations run; the sweep comes round every five minutes.
\* Nothing is assumed of the person or the agent.
FairSpec == Spec /\ \A h \in Handlers : WF_vars(Work(h) /\ UNCHANGED setting)
                                          /\ WF_vars(Rewake(h) /\ UNCHANGED setting)

-----------------------------------------------------------------------------
TypeOK ==
    /\ gate \in Gate
    /\ upstream \in {"open", "done"}
    /\ row \in Row
    /\ inbox \in Seq(Event)
    /\ handler \in [Handlers -> Handler]
    /\ said \in 0..MaxDecisions
    /\ posted \in Nat
    /\ reworks \in [1..MaxDecisions -> Nat]
    /\ newRounds \in Nat
    /\ setting \in Settings
    /\ heard \in [admitted : SUBSET (1..MaxDecisions),
                 dropped : SUBSET [note : Notes \cup {"none"}, parked : BOOLEAN]]
    /\ budget \in [looks : Nat, others : 0..MaxOthers,
                  crashes : Nat, errors : Nat]

\* A person is asked once at a time: whatever handlers present the gate from copies of the
\* list they have read, at most one review notification is open
\* (workflow-store.mjs:837-851).
OneOpenReview == \A m, n \in OpenReviews(row) : m = n

\* No notification is lost: an append or an acknowledgement that writes back a whole list
\* never undoes an append in between (workflow-store.mjs:820-825).
NothingLost == {m.id : m \in row.notifs} = 1..posted

\* The deployment the guard was written for: enforced, behind a queue, on a board whose
\* sweep leaves a gate alone that has just moved; readable.
Guarded == /\ setting.guard = "enforce" /\ setting.delivery = "queue" /\ setting.board = "ddb"
           /\ budget.errors = 0

\* Under the guard one rejection re-opens the upstream at most once, however often it is
\* delivered (index.mjs:1889-1895).
ReworkedOnce == Guarded => \A n \in 1..MaxDecisions : reworks[n] <= 1

\* Behind a queue and with a ledger that can be written, fewer than maxRounds new rounds go
\* to rework between two authorizations of the person, whatever the guard
\* (index.mjs:2035-2042).  A rejection that repeats the feedback of the last round is no new
\* round (review-cap.mjs:307-313): it is taken for a redelivery, does not count, and is
\* reworked however often it is made.
CapStopsNewRounds ==
    setting.delivery = "queue" /\ budget.errors = 0 => newRounds < MaxRounds

Mishap == budget.errors + budget.crashes > 0

\* A gate that is in review behind a finished upstream gets in front of the person
\* (requested, if the guard keeps states, and with an open notification), or is decided or
\* its upstream re-opened first: the sweep repairs a presentation that an approval has
\* overtaken (cascade.mjs:472-522).  A gate whose upstream is open waits for it
\* (reconcile-sweep.mjs:301).
ComesBeforeThePerson ==
    (gate.status = "in_review" /\ upstream = "done")
      ~> \/ gate.status # "in_review" \/ upstream = "open" \/ Mishap
         \/ OpenReviews(row) # {} /\ (setting.guard # "off" => row.state = "requested")

\* A rejection is answered at a gate that asks for rework: the upstream is open again, or the
\* gate is parked with a comment, back with the person or done (index.mjs:1984-2477).
RejectionAnswered ==
    (SentBack /\ upstream = "done" /\ setting.onReject = "rework" /\ budget.looks = 0)
      ~> upstream = "open" \/ gate.parked \/ gate.status # "blocked" \/ Mishap

\* The way out of an advisory park that its comment offers works: a rejection with a line
\* DECISION: continue, made after moving the gate back to In Review, is not dropped
\* (index.mjs:2248-2252, and "the dangerous failure here is DROPPING a human's
\* Request-changes", index.mjs:153-154).
OverrideHeard == \A d \in heard.dropped : ~(d.parked /\ d.note \in Continue)
=============================================================================
