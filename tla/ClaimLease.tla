------------------------------ MODULE ClaimLease ------------------------------
(***************************************************************************)
(* The invocation claim of one agent ticket of one workflow run, and every *)
(* actor of the orchestrator that takes, steals, completes or overwrites   *)
(* it: the Ready handler, the dead-session detector, the reconcile sweep,  *)
(* the self-park release, the done handler, and the agent sessions and     *)
(* people around them (lambda/orchestrator).                               *)
(*                                                                         *)
(* A handler is one Lambda invocation.  Between two awaits on DynamoDB any *)
(* other handler may run, so each conditional write or group of reads is   *)
(* one action, and what a handler read earlier lives in job[w].snap.       *)
(*                                                                         *)
(* A claim's startedAt is its generation; the model numbers generations    *)
(* and keeps the age of each, in ticks, saturating at AgeCap.  Two claims  *)
(* of one ticket within the same millisecond are left out.                 *)
(***************************************************************************)
EXTENDS Naturals, FiniteSets

CONSTANTS
  Handlers,       \* concurrent Lambda invocations of the orchestrator
  MaxClaims,      \* bound: generations handed out in a behaviour
  MaxFaults,      \* bound: crashes, failed calls and repeated deliveries
  MaxMoves,       \* bound: moves and decisions of people
  Endings,        \* bound: the ways a session may end
  LEASE_TTL,      \* the lease TTL, in ticks
  DetectAfter,    \* the detector's silence threshold, in ticks
  TICKET_PROVIDER,
  DetectorMode,   \* DEAD_SESSION_DETECTOR_MODE
  ReconcileMode   \* RECONCILE_SWEEP_MODE

Modes == {"off", "shadow", "enforce"}

ASSUME ClaimsAssumption == MaxClaims \in Nat \ {0}
ASSUME FaultsAssumption == MaxFaults \in Nat /\ MaxMoves \in Nat
\* A tick is half the TTL or less, and the detector's threshold is floored at the TTL
\* (computeThreshold).
ASSUME TimeAssumption ==
  LEASE_TTL \in Nat /\ LEASE_TTL >= 2 /\ DetectAfter \in Nat /\ DetectAfter >= LEASE_TTL
ASSUME ModeAssumption ==
  /\ TICKET_PROVIDER \in {"jira", "ddb"}
  /\ DetectorMode \in Modes /\ ReconcileMode \in Modes

STALE_CLAIM_MULTIPLIER == 2
StaleAge == STALE_CLAIM_MULTIPLIER * LEASE_TTL
AgeCap == 1 + IF StaleAge > DetectAfter THEN StaleAge ELSE DetectAfter
SilenceCap == 1 + DetectAfter
\* Only the reconcile sweep reads how long the board has stood still, and only
\* on DynamoDB: a Jira ticket has no updatedAt (mapJiraIssueToTicket), and one
\* without passes for parked long enough.
BoardAgeCap == IF ReconcileMode = "off" \/ TICKET_PROVIDER = "jira" THEN 0 ELSE LEASE_TTL

Gens == 1 .. MaxClaims
GensOrNone == 0 .. MaxClaims
LiveStatuses == {"running", "in_progress"}
TaskStatuses == {"pending", "running", "ready", "error", "complete"}
BoardStatuses == {"todo", "ready", "in_progress", "blocked", "done", "cancelled"}
Ended == {"silent", "died", "exhausted", "parked", "done"}
Sessions == {"none", "alive"} \cup Ended
ASSUME EndingsAssumption == Endings \subseteq Ended

\* What waits for delivery: the ticket's status events; a park event names
\* the generation its parkClaim carries.
ReadyEvent == [kind |-> "ready", gen |-> 0]
DoneEvent == [kind |-> "done", gen |-> 0]
ParkEvent(g) == [kind |-> "park", gen |-> g]
Events == [kind : {"ready", "done", "park"}, gen : GensOrNone]

\* agentTasks[ticketId]: its status, the generation of its startedAt, and the
\* generation deadSessionDetectedAt was written for (0: not stamped).
Tasks == [status : TaskStatuses, gen : GensOrNone, stamp : GensOrNone]

Steps == {"idle", "claim", "board", "check", "send", "release", "park_ticket",
          "detect", "stamp", "recheck", "clear", "steal", "decide", "redo",
          "reconcile", "rc_recheck", "rc_steal", "rc_redo", "count",
          "park_steal", "wake", "wake_steal", "announce", "error", "block", "page"}
Roles == {"none", "ready", "detector", "reconcile", "redrive", "park", "done"}
Jobs == [pc : Steps, role : Roles, snap : Tasks, retries : Nat,
         exhausted : BOOLEAN, recovery : BOOLEAN, late : BOOLEAN]

VARIABLES
  open,      \* no cancelledAt and a non-terminal phase
  task,      \* agentTasks[ticketId]
  retries,   \* deadSessionRetries[ticketId]
  board,     \* the ticket's status on the board
  boardAge,  \* age of the ticket's updatedAt, saturating at BoardAgeCap
  waits,     \* the ticket has an open, never completed blocker
  age,       \* age[g] of generation g, saturating at AgeCap
  silence,   \* age of the agent's newest heartbeat, saturating at SilenceCap
  sess,      \* sess[g]: the agent session started for generation g
  lastDone,  \* the generation current at the newest agent.complete event
  inbox,     \* status events not yet (finally) delivered
  paged,     \* a manager_escalation page was written for this ticket
  auto,      \* history: automatic re-dispatches since a person last decided
  faults,    \* crashes, failed calls and repeated deliveries so far
  moves,     \* moves and decisions of people so far
  job        \* job[w]: where handler w stands and what it has read

vars == <<open, task, retries, board, boardAge, waits, age, silence, sess,
          lastDone, inbox, paged, auto, faults, moves, job>>

Idle == [pc |-> "idle", role |-> "none",
         snap |-> [status |-> "pending", gen |-> 0, stamp |-> 0],
         retries |-> 0, exhausted |-> FALSE, recovery |-> FALSE, late |-> FALSE]

Init ==
  /\ open = TRUE
  /\ task = [status |-> "pending", gen |-> 0, stamp |-> 0]
  /\ retries = 0 /\ auto = 0 /\ faults = 0 /\ moves = 0
  /\ board = "todo" /\ boardAge = 0 /\ waits = FALSE
  /\ age = [g \in Gens |-> 0]
  /\ silence = SilenceCap
  /\ sess = [g \in Gens |-> "none"]
  /\ lastDone = 0
  /\ inbox = {ReadyEvent}
  /\ paged = FALSE
  /\ job = [w \in Handlers |-> Idle]

-------------------------------------------------------------------------------
(* Shared pieces *)

\* lease.mjs: running, and claimed or heard from within the TTL.
IsLeaseLive(t) ==
  /\ t.status \in LiveStatuses
  /\ t.gen # 0
  /\ age[t.gen] < LEASE_TTL \/ silence < LEASE_TTL

\* A handler that starts while a late one runs is over before the next tick too.
Fresh == [Idle EXCEPT !.late = \E v \in Handlers : job[v].late]
Go(w, pc) == job' = [job EXCEPT ![w].pc = pc]
Finish(w) == job' = [job EXCEPT ![w] = Idle]

\* One more fault, while the bound allows it.
Fault == faults < MaxFaults /\ faults' = faults + 1

\* A person acts, while the bound allows it.
Move == moves < MaxMoves /\ moves' = moves + 1

\* At-least-once delivery: an event may be delivered again.
Deliver(e) ==
  /\ e \in inbox
  /\ \/ inbox' = inbox \ {e} /\ UNCHANGED faults
     \/ Fault /\ UNCHANGED inbox

SetBoard(b) == board' = b /\ boardAge' = 0

\* Mutants: the claim ignores the status, or the run's end.
CanClaimHeld == open
CanClaimClosed == task.status # "running" \/ (task.gen # 0 /\ age[task.gen] > StaleAge)

\* claimInvocation: the conditional write every dispatch goes through.
CanClaim ==
  /\ open
  /\ task.status # "running" \/ (task.gen # 0 /\ age[task.gen] > StaleAge)

\* Mutants: the write keeps the old stamp, keeps the old startedAt, or writes
\* a status no reader knows.
NewClaimKeepsStamp == [status |-> "running", gen |-> task.gen + 1, stamp |-> task.stamp]
NewClaimKeepsStart ==
  [status |-> "running", gen |-> IF task.gen = 0 THEN 1 ELSE task.gen, stamp |-> 0]
NewClaimUnknownStatus == [status |-> "claimed", gen |-> task.gen + 1, stamp |-> 0]

NewClaim == [status |-> "running", gen |-> task.gen + 1, stamp |-> 0]

WinClaim(w, next) ==
  /\ CanClaim /\ task.gen < MaxClaims
  /\ task' = NewClaim
  /\ age' = [age EXCEPT ![task.gen + 1] = 0]
  /\ job' = [job EXCEPT ![w].pc = next, ![w].snap = NewClaim,
                        ![w].retries = 0, ![w].exhausted = FALSE]

\* The condition failed (or the bound on claims is reached).
LoseClaim == ~CanClaim \/ task.gen = MaxClaims

\* stealClaim: flip to ready only the exact live generation that was read.
CanSteal(t) == task.status \in LiveStatuses /\ task.gen = t.gen

Steal(w, next) ==
  \/ /\ CanSteal(job[w].snap)
     /\ task' = [task EXCEPT !.status = "ready"]
     /\ Go(w, next)
  \/ /\ ~CanSteal(job[w].snap)
     /\ Finish(w)
     /\ UNCHANGED task

\* What a dispatch returns to: the reconcile sweep still counts its retry.
AfterInvoke(w) == IF job[w].role = "reconcile" THEN Go(w, "count") ELSE Finish(w)

\* blockTicket / blockTicketForFailedInvoke: best effort, never throws.
ParkOnBoard ==
  \/ /\ \E b \in IF TICKET_PROVIDER = "jira" THEN {"blocked", "todo"} ELSE {"blocked"} :
          SetBoard(b)
     /\ UNCHANGED faults
  \/ Fault /\ UNCHANGED <<board, boardAge>>

clockVars == <<age, silence>>
boardVars == <<board, boardAge, waits>>
worldVars == <<sess, lastDone, inbox, paged, moves>>

-------------------------------------------------------------------------------
(* Ready handler and invocation *)

\* handleTicketReady / handleTicketReadyUnified up to the claim.  The DynamoDB
\* stream also checks the ticket's blockers first.
StartReady(w) ==
  /\ job[w] = Idle
  /\ Deliver(ReadyEvent)
  /\ TICKET_PROVIDER = "ddb" => ~waits
  /\ job' = [job EXCEPT ![w] =
       [Fresh EXCEPT !.pc = "claim", !.role = "ready",
                    !.recovery = board \in {"todo", "blocked"}]]
  /\ UNCHANGED <<open, task, retries, boardVars, clockVars, sess, lastDone,
                 paged, moves, auto>>

\* claimTicketInvocation, from the Ready handler.
ReadyClaim(w) ==
  /\ job[w].pc = "claim"
  /\ \/ WinClaim(w, "board")
     \/ LoseClaim /\ Finish(w) /\ UNCHANGED <<task, age>>
  /\ UNCHANGED <<open, retries, boardVars, silence, worldVars, auto, faults>>

\* The board moves to In Progress, which also publishes agent.started, a
\* heartbeat.  DynamoDB: a conditional write; refused, the handler returns and
\* keeps the claim.
MoveInProgress(w) ==
  /\ job[w].pc = "board"
  /\ TICKET_PROVIDER = "ddb" => board \notin {"in_progress", "cancelled"}
  /\ SetBoard("in_progress")
  /\ silence' = IF board = "in_progress" THEN silence ELSE 0
  /\ Go(w, "check")
  /\ UNCHANGED <<open, task, retries, waits, age, worldVars, auto, faults>>

MoveRefused(w) ==
  /\ job[w].pc = "board"
  /\ TICKET_PROVIDER = "ddb" /\ board \in {"in_progress", "cancelled"}
  /\ Finish(w)
  /\ UNCHANGED <<open, task, retries, boardVars, clockVars, worldVars, auto, faults>>

\* Jira without the transition: a recovery gives its own claim back, any other
\* dispatch invokes anyway.
MoveUnavailable(w) ==
  /\ job[w].pc = "board"
  /\ TICKET_PROVIDER = "jira"
  /\ Fault
  /\ IF job[w].recovery
     THEN /\ Finish(w)
          /\ task' = IF CanSteal(job[w].snap) THEN [task EXCEPT !.status = "ready"] ELSE task
     ELSE Go(w, "check") /\ UNCHANGED task
  /\ UNCHANGED <<open, retries, boardVars, clockVars, worldVars, auto>>

\* Mutant: the send is not preceded by a look at the run.
CheckNothing(w) ==
  /\ job[w].pc = "check"
  /\ Go(w, "send")
  /\ UNCHANGED <<open, task, retries, boardVars, clockVars, worldVars, auto, faults>>

\* advancePhase and workflowStillLive; the latter fails open.
CheckStillLive(w) ==
  /\ job[w].pc = "check"
  /\ \/ open /\ Go(w, "send") /\ UNCHANGED faults
     \/ ~open /\ AfterInvoke(w) /\ UNCHANGED faults
     \/ ~open /\ Fault /\ Go(w, "send")
  /\ UNCHANGED <<open, task, retries, boardVars, clockVars, worldVars, auto>>

StartSession(g) == sess' = [sess EXCEPT ![g] = "alive"]

Send(w) ==
  /\ job[w].pc = "send"
  /\ StartSession(job[w].snap.gen)
  /\ AfterInvoke(w)
  /\ UNCHANGED <<open, task, retries, boardVars, clockVars, lastDone, inbox,
                 paged, moves, auto, faults>>

\* The send throws; the session may have started all the same.
SendFails(w) ==
  /\ job[w].pc = "send"
  /\ Fault
  /\ StartSession(job[w].snap.gen) \/ UNCHANGED sess
  /\ Go(w, "release")
  /\ UNCHANGED <<open, task, retries, boardVars, clockVars, lastDone, inbox,
                 paged, moves, auto>>

\* releaseClaimOnFailure: setTaskStatus names no generation.
ReleaseOnFailure(w) ==
  /\ job[w].pc = "release"
  /\ task' = [task EXCEPT !.status = "error"]
  /\ Go(w, "park_ticket")
  /\ UNCHANGED <<open, retries, boardVars, clockVars, worldVars, auto, faults>>

ParkAfterFailure(w) ==
  /\ job[w].pc = "park_ticket"
  /\ ParkOnBoard
  /\ AfterInvoke(w)
  /\ UNCHANGED <<open, task, retries, waits, clockVars, worldVars, auto>>

-------------------------------------------------------------------------------
(* Dead-session detector *)

\* Mutant: no backstop for stolen claims.
NeverStalled(t) == FALSE

Stalled(t) == t.status = "ready" /\ t.stamp # 0

\* The holder's own agent.died row, fenced to the generation of t.
Exhausted(t) == t.gen # 0 /\ sess[t.gen] = "exhausted"
Died(t) == t.gen # 0 /\ sess[t.gen] \in {"died", "exhausted"}

\* Shadow mode writes only on the holder's own exhaustion death.
Enforced(t) == DetectorMode = "enforce" \/ Exhausted(t)
Untouchable(t) == IsLeaseLive(t) /\ ~Exhausted(t)
\* lastAgentActivity looks back one TTL only: with the lease dead it returns
\* nothing, and the silence the detector measures is the age of the claim.
SilentTooLong(t) == age[t.gen] > DetectAfter

\* Mutant: a claim that already carries a stamp is skipped.
FiresUnstamped(t) ==
  /\ t.status \in LiveStatuses
  /\ t.stamp = 0
  /\ ~Untouchable(t)
  /\ lastDone < t.gen
  /\ Died(t) \/ SilentTooLong(t)
  /\ Enforced(t)

\* GUARD 1, the completion check, positive death or GUARD 2, and the mode.
Fires(t) ==
  /\ t.status \in LiveStatuses
  /\ ~Untouchable(t)
  /\ lastDone < t.gen
  /\ Died(t) \/ SilentTooLong(t)
  /\ Enforced(t)

\* One candidate of a sweep: what the scan returned for this ticket.
Scan(w, role, pc) ==
  /\ job[w] = Idle
  /\ open
  /\ job' = [job EXCEPT ![w] = [Fresh EXCEPT !.pc = pc, !.role = role,
                                            !.snap = task, !.retries = retries]]
  /\ UNCHANGED <<open, task, retries, boardVars, clockVars, worldVars, auto, faults>>

DetectorScan(w) ==
  /\ DetectorMode # "off"
  /\ task.status \in LiveStatuses \/ Stalled(task)
  /\ Scan(w, "detector", "detect")

unchangedByDetect ==
  <<open, task, retries, boardVars, clockVars, worldVars, auto, faults>>

\* The backstop: re-read a stolen but never re-driven task, decide again.
RedriveStalled(w) ==
  /\ job[w].pc = "detect" /\ board = "in_progress"
  /\ Stalled(job[w].snap) /\ Enforced(job[w].snap)
  /\ Stalled(task) /\ task.gen = job[w].snap.gen
  /\ job' = [job EXCEPT ![w].pc = "decide", ![w].snap = task, ![w].retries = retries]
  /\ UNCHANGED unchangedByDetect

\* A stamp on a live lease is residue: retry its clear, touch nothing else.
FindResidue(w) ==
  /\ job[w].pc = "detect" /\ board = "in_progress"
  /\ Untouchable(job[w].snap) /\ job[w].snap.stamp # 0
  /\ DetectorMode = "enforce"
  /\ Go(w, "clear")
  /\ UNCHANGED unchangedByDetect

\* A stamp already on the scanned claim counts as won.
FindDead(w) ==
  /\ job[w].pc = "detect" /\ board = "in_progress"
  /\ Fires(job[w].snap)
  /\ job' = [job EXCEPT ![w].pc = IF job[w].snap.stamp # 0 THEN "recheck" ELSE "stamp",
                        ![w].exhausted = IsLeaseLive(job[w].snap)]
  /\ UNCHANGED unchangedByDetect

SkipCandidate(w) ==
  /\ job[w].pc = "detect"
  /\ LET t == job[w].snap
     IN \/ board # "in_progress"
        \/ Stalled(t) /\ ~(Enforced(t) /\ Stalled(task) /\ task.gen = t.gen)
        \/ Untouchable(t) /\ (t.stamp = 0 \/ DetectorMode # "enforce")
        \/ t.status \in LiveStatuses /\ ~Untouchable(t) /\ ~Fires(t)
  /\ Finish(w)
  /\ UNCHANGED unchangedByDetect

\* markDeadSessionDetected: compare-and-set on the scanned generation.
Stamp(w) ==
  /\ job[w].pc = "stamp"
  /\ IF task.gen = job[w].snap.gen /\ task.stamp = 0
     THEN task' = [task EXCEPT !.stamp = job[w].snap.gen] /\ Go(w, "recheck")
     ELSE Finish(w) /\ UNCHANGED task
  /\ UNCHANGED <<open, retries, boardVars, clockVars, worldVars, auto, faults>>

\* The re-read of the lease before the steal; the exhaustion death needs none.
Recheck(w) ==
  /\ job[w].pc = "recheck"
  /\ Go(w, IF IsLeaseLive(job[w].snap) /\ ~job[w].exhausted THEN "clear" ELSE "steal")
  /\ UNCHANGED unchangedByDetect

\* clearDeadSessionDetected.
ClearStamp(w) ==
  /\ job[w].pc = "clear"
  /\ task' = IF task.gen = job[w].snap.gen THEN [task EXCEPT !.stamp = 0] ELSE task
  /\ Finish(w)
  /\ UNCHANGED <<open, retries, boardVars, clockVars, worldVars, auto, faults>>

DetectorSteal(w) ==
  /\ job[w].pc = "steal"
  /\ Steal(w, "decide")
  /\ UNCHANGED <<open, retries, boardVars, clockVars, worldVars, auto, faults>>

\* Mutant: one retry too many.
DecideLate(w) ==
  /\ job[w].pc = "decide"
  /\ IF job[w].retries <= 2
     THEN retries' = retries + 1 /\ Go(w, "redo")
     ELSE UNCHANGED retries /\ Go(w, "error")
  /\ UNCHANGED <<open, task, boardVars, clockVars, worldVars, auto, faults>>

\* retryOrEscalate, on the retry counter of the scan.
Decide(w) ==
  /\ job[w].pc = "decide"
  /\ IF job[w].retries <= 1
     THEN retries' = retries + 1 /\ Go(w, "redo")
     ELSE UNCHANGED retries /\ Go(w, "error")
  /\ UNCHANGED <<open, task, boardVars, clockVars, worldVars, auto, faults>>

\* redispatchTicket: claim and invoke, the board is left alone.
Redispatch(w) ==
  /\ job[w].pc \in {"redo", "rc_redo"}
  /\ \/ WinClaim(w, "check") /\ auto' = auto + 1
     \/ LoseClaim /\ AfterInvoke(w) /\ UNCHANGED <<task, age, auto>>
  /\ UNCHANGED <<open, retries, boardVars, silence, worldVars, faults>>

\* Escalation: the claim is set to error, naming no generation...
EscalateError(w) ==
  /\ job[w].pc = "error"
  /\ task' = [task EXCEPT !.status = "error"]
  /\ Go(w, "block")
  /\ UNCHANGED <<open, retries, boardVars, clockVars, worldVars, auto, faults>>

\* ...the ticket is parked, whatever its status...
EscalateBlock(w) ==
  /\ job[w].pc = "block"
  /\ ParkOnBoard
  /\ Go(w, "page")
  /\ UNCHANGED <<open, task, retries, waits, clockVars, worldVars, auto>>

\* ...and a person is paged.
EscalatePage(w) ==
  /\ job[w].pc = "page"
  /\ paged' = TRUE
  /\ Finish(w)
  /\ UNCHANGED <<open, task, retries, boardVars, clockVars, sess, lastDone,
                 inbox, moves, auto, faults>>

-------------------------------------------------------------------------------
(* Reconcile sweep *)

ReconcileScan(w) == ReconcileMode = "enforce" /\ Scan(w, "reconcile", "reconcile")

\* Mutant: a ticket held for a person is recovered like any other.
RecoverableHeld(w) ==
  /\ board \in {"blocked", "todo", "ready", "in_progress"}
  /\ ~waits /\ boardAge >= BoardAgeCap
  /\ ~IsLeaseLive(job[w].snap)

\* allBlockersResolved, parkedLongEnough, not held for a person, lease dead.
Recoverable(w) ==
  /\ board \in {"blocked", "todo", "ready", "in_progress"}
  /\ ~waits /\ boardAge >= BoardAgeCap
  /\ ~(job[w].snap.status = "error" /\ job[w].retries >= 1)
  /\ ~IsLeaseLive(job[w].snap)

\* reconcileDependent: through the Ready handler, or the retry budget of the
\* sweep (stealWithRetryBudget).
Reconcile(w) ==
  /\ job[w].pc = "reconcile"
  /\ CASE ~Recoverable(w) -> Finish(w)
       [] Recoverable(w) /\ board # "in_progress" ->
            job' = [job EXCEPT ![w].pc = "claim", ![w].role = "redrive",
                               ![w].recovery = board \in {"todo", "blocked"}]
       [] Recoverable(w) /\ board = "in_progress" ->
            Go(w, IF job[w].retries = 0 THEN "rc_recheck" ELSE "error")
  /\ UNCHANGED unchangedByDetect

ReconcileRecheck(w) ==
  /\ job[w].pc = "rc_recheck"
  /\ IF IsLeaseLive(job[w].snap) THEN Finish(w) ELSE Go(w, "rc_steal")
  /\ UNCHANGED unchangedByDetect

ReconcileSteal(w) ==
  /\ job[w].pc = "rc_steal"
  /\ Steal(w, "rc_redo")
  /\ UNCHANGED <<open, retries, boardVars, clockVars, worldVars, auto, faults>>

\* Mutant: the sweep's own re-dispatch is not counted.
CountNothing(w) ==
  /\ job[w].pc = "count"
  /\ Finish(w)
  /\ UNCHANGED <<open, task, retries, boardVars, clockVars, worldVars, auto, faults>>

\* The counter is bumped only after the re-dispatch.
CountRetry(w) ==
  /\ job[w].pc = "count"
  /\ retries' = retries + 1
  /\ Finish(w)
  /\ UNCHANGED <<open, task, boardVars, clockVars, worldVars, auto, faults>>

-------------------------------------------------------------------------------
(* Self-park release, escalation wake, completion *)

\* releaseClaimOnSelfPark, up to its steal.  Jira also wants the ticket to be
\* blocked still.
ReceivePark(w, g) ==
  /\ job[w] = Idle
  /\ Deliver(ParkEvent(g))
  /\ IF task.status = "running" /\ task.gen = g /\ waits
        /\ (TICKET_PROVIDER = "jira" => board = "blocked")
     THEN job' = [job EXCEPT ![w] = [Fresh EXCEPT !.pc = "park_steal",
                                                 !.role = "park", !.snap = task]]
     ELSE UNCHANGED job
  /\ UNCHANGED <<open, task, retries, boardVars, clockVars, sess, lastDone,
                 paged, moves, auto>>

ReleaseParked(w) ==
  /\ job[w].pc = "park_steal"
  /\ task' = IF CanSteal(job[w].snap) THEN [task EXCEPT !.status = "ready"] ELSE task
  /\ Finish(w)
  /\ UNCHANGED <<open, retries, boardVars, clockVars, worldVars, auto, faults>>

\* wakeHeldTicketAfterEscalationGate: a person decided, the budget starts over.
WakeAfterDecision(w) ==
  /\ job[w] = Idle
  /\ open /\ board # "done" /\ board # "cancelled"
  /\ Move
  /\ retries' = 0 /\ auto' = 0
  /\ job' = [job EXCEPT ![w] = [Fresh EXCEPT !.pc = "wake", !.role = "ready", !.snap = task]]
  /\ UNCHANGED <<open, task, boardVars, clockVars, sess, lastDone, inbox, paged,
                 faults>>

WakeCheck(w) ==
  /\ job[w].pc = "wake"
  /\ IF IsLeaseLive(job[w].snap) THEN Finish(w) ELSE Go(w, "wake_steal")
  /\ UNCHANGED unchangedByDetect

\* Steal whether or not it succeeds, then re-drive: Jira by a Ready event, the
\* rest through the Ready handler.
WakeSteal(w) ==
  /\ job[w].pc = "wake_steal"
  /\ task' = IF CanSteal(job[w].snap) THEN [task EXCEPT !.status = "ready"] ELSE task
  /\ \/ /\ TICKET_PROVIDER = "jira"
        /\ SetBoard("ready")
        /\ inbox' = inbox \cup {ReadyEvent}
        /\ Finish(w)
        /\ UNCHANGED faults
     \/ /\ IF TICKET_PROVIDER = "jira" THEN Fault ELSE UNCHANGED faults
        /\ job' = [job EXCEPT ![w].pc = "claim",
                              ![w].recovery = board \in {"todo", "blocked"}]
        /\ UNCHANGED <<board, boardAge, inbox>>
  /\ UNCHANGED <<open, retries, waits, clockVars, sess, lastDone, paged, moves, auto>>

\* handleTicketDone(Unified) up to completeTaskEntry.  The handler does not ask
\* which generation reported done; only Jira skips a task that is complete.  A
\* session that reports done leaves a completion record, so a cancelled run
\* completes its task too.
ReceiveDone(w) ==
  /\ job[w] = Idle
  /\ Deliver(DoneEvent)
  /\ IF TICKET_PROVIDER = "jira" /\ task.status = "complete"
     THEN UNCHANGED <<task, job>>
     ELSE /\ task' = [task EXCEPT !.status = "complete"]
          /\ job' = [job EXCEPT ![w] = [Fresh EXCEPT !.pc = "announce", !.role = "done"]]
  /\ UNCHANGED <<open, retries, boardVars, clockVars, sess, lastDone, paged,
                 moves, auto>>

\* agent.complete, published once the cascade has run: it counts as a completion
\* of whatever claim started before it.
AnnounceDone(w) ==
  /\ job[w].pc = "announce"
  /\ lastDone' = task.gen
  /\ Finish(w)
  /\ UNCHANGED <<open, task, retries, boardVars, clockVars, sess, inbox, paged,
                 moves, auto, faults>>

-------------------------------------------------------------------------------
(* Sessions, people, time *)

Beat(g) ==
  /\ sess[g] = "alive" /\ silence # 0
  /\ silence' = 0
  /\ UNCHANGED <<open, task, retries, boardVars, age, worldVars, auto, faults, job>>

\* A session ends without a result: killed, killed with an agent.died row, or
\* out of transient retries with an agent.died row of that reason.
SessionDies(g) ==
  /\ sess[g] = "alive"
  /\ \E end \in Endings \cap {"silent", "died", "exhausted"} :
       sess' = [sess EXCEPT ![g] = end]
  /\ UNCHANGED <<open, task, retries, boardVars, clockVars, lastDone, inbox,
                 paged, moves, auto, faults, job>>

SessionCompletes(g) ==
  /\ "done" \in Endings
  /\ sess[g] = "alive" /\ board # "cancelled"
  /\ sess' = [sess EXCEPT ![g] = "done"]
  /\ SetBoard("done")
  /\ inbox' = inbox \cup {DoneEvent}
  /\ UNCHANGED <<open, task, retries, waits, clockVars, lastDone, paged, moves, auto,
                 faults, job>>

\* The agent files a fix ticket and parks its own behind it.  The runtime
\* refuses the park of a superseded generation.
SessionParks(g) ==
  /\ "parked" \in Endings
  /\ sess[g] = "alive" /\ board = "in_progress"
  /\ task.gen = g /\ task.status = "running"
  /\ sess' = [sess EXCEPT ![g] = "parked"]
  /\ SetBoard("blocked")
  /\ waits' = TRUE
  /\ inbox' = inbox \cup {ParkEvent(g)}
  /\ UNCHANGED <<open, task, retries, clockVars, lastDone, paged, moves, auto, faults, job>>

\* The last blocker closes; the cascade readies the ticket, or is missed.
BlockerCloses ==
  /\ waits
  /\ waits' = FALSE
  /\ \/ /\ board \in {"blocked", "todo"}
        /\ SetBoard(IF TICKET_PROVIDER = "jira" THEN "ready" ELSE "todo")
        /\ inbox' = inbox \cup {ReadyEvent}
     \/ UNCHANGED <<board, boardAge, inbox>>
  /\ UNCHANGED <<open, task, retries, clockVars, sess, lastDone, paged, moves, auto,
                 faults, job>>

\* A person moves the ticket to Ready: an answered page, a nudge, a rework.
PersonReadies ==
  /\ board \in {"blocked", "todo", "in_progress", "done"}
  /\ Move
  /\ SetBoard("ready")
  /\ inbox' = inbox \cup {ReadyEvent}
  /\ paged' = FALSE
  /\ UNCHANGED <<open, task, retries, waits, clockVars, sess, lastDone, auto,
                 faults, job>>

CloseRun ==
  /\ open
  /\ open' = FALSE
  /\ SetBoard("cancelled") \/ UNCHANGED <<board, boardAge>>
  /\ UNCHANGED <<task, retries, waits, clockVars, worldVars, auto, faults, job>>

\* A handler dies between two steps: an unexpected error, or its timeout.
Crash(w) ==
  /\ job[w] # Idle
  /\ Fault
  /\ Finish(w)
  /\ UNCHANGED <<open, task, retries, boardVars, clockVars, worldVars, auto>>

Saturate(n, cap) == IF n < cap THEN n + 1 ELSE n

\* A tick is half the TTL or less, and a Lambda times out well within it: no
\* handler, and no handler that overlaps a late one, sees another.
Tick ==
  /\ \A w \in Handlers : ~job[w].late
  /\ age' = [g \in Gens |-> IF g <= task.gen THEN Saturate(age[g], AgeCap) ELSE age[g]]
  /\ silence' = Saturate(silence, SilenceCap)
  /\ boardAge' = Saturate(boardAge, BoardAgeCap)
  /\ job' = [w \in Handlers |-> IF job[w] = Idle THEN Idle ELSE [job[w] EXCEPT !.late = TRUE]]
  /\ UNCHANGED <<open, task, retries, board, waits, worldVars, auto, faults>>

-------------------------------------------------------------------------------

Begin(w) ==
  \/ StartReady(w) \/ DetectorScan(w) \/ ReconcileScan(w)
  \/ WakeAfterDecision(w) \/ ReceiveDone(w) \/ \E g \in Gens : ReceivePark(w, g)

Continue(w) ==
  \/ ReadyClaim(w) \/ MoveInProgress(w) \/ MoveRefused(w) \/ MoveUnavailable(w)
  \/ CheckStillLive(w) \/ Send(w) \/ SendFails(w)
  \/ ReleaseOnFailure(w) \/ ParkAfterFailure(w)
  \/ RedriveStalled(w) \/ FindResidue(w) \/ FindDead(w) \/ SkipCandidate(w)
  \/ Stamp(w) \/ Recheck(w) \/ ClearStamp(w) \/ DetectorSteal(w)
  \/ Decide(w) \/ Redispatch(w)
  \/ EscalateError(w) \/ EscalateBlock(w) \/ EscalatePage(w)
  \/ Reconcile(w) \/ ReconcileRecheck(w) \/ ReconcileSteal(w) \/ CountRetry(w)
  \/ ReleaseParked(w) \/ WakeCheck(w) \/ WakeSteal(w) \/ AnnounceDone(w)

World ==
  \/ BlockerCloses \/ PersonReadies \/ CloseRun
  \/ \E g \in Gens : Beat(g) \/ SessionDies(g) \/ SessionCompletes(g) \/ SessionParks(g)

Next ==
  \/ \E w \in Handlers : Begin(w) \/ Continue(w) \/ Crash(w)
  \/ World
  \/ Tick

Spec == Init /\ [][Next]_vars

-------------------------------------------------------------------------------
(* Properties *)

\* Every variable stays in its domain.
TypeOK ==
  /\ open \in BOOLEAN /\ waits \in BOOLEAN /\ paged \in BOOLEAN
  /\ task \in Tasks
  /\ {retries, auto, faults, moves, boardAge, silence} \subseteq Nat
  /\ board \in BoardStatuses
  /\ age \in [Gens -> Nat]
  /\ sess \in [Gens -> Sessions]
  /\ lastDone \in GensOrNone
  /\ inbox \subseteq Events
  /\ job \in [Handlers -> Jobs]

\* A dead-session stamp belongs to the claim that carries it: no re-issued
\* claim inherits the detection of an earlier one, which would let a sweep
\* recover it without ever having found it dead (claimInvocation's REMOVE
\* against markDeadSessionDetected's compare-and-set).
StampIsOwn == task.stamp \in {0, task.gen}

\* Handlers between a won claim and the end of its dispatch.
Dispatching(w) == job[w].pc \in {"board", "check", "send"}

\* One agent session per claim: two dispatches never hold the same generation,
\* and the generation a dispatch holds has no session yet (race R7).
OneSessionPerClaim ==
  \A w \in Handlers : Dispatching(w) =>
    /\ sess[job[w].snap.gen] = "none"
    /\ \A v \in Handlers \ {w} : Dispatching(v) => job[v].snap.gen # job[w].snap.gen

\* The claim implements the abstract lock, whoever steals, releases, completes
\* or overwrites it: generations are handed out one at a time, to an open run,
\* and only when the claim is free or past the stale-claim hatch.
Lock == INSTANCE ClaimLock WITH
  gen <- task.gen,
  held <- task.status = "running",
  expired <- task.gen # 0 /\ age[task.gen] > StaleAge,
  sent <- {g \in Gens : sess[g] # "none"}

LockSpec == Lock!Spec

\* Between two decisions of a person a ticket is automatically re-dispatched
\* at most twice, plus once for every handler that dies or fails on the way
\* (retryOrEscalate's cap; stealWithRetryBudget counts after the fact).  Proved where the
\* detector writes nothing, or no two sweeps overlap; otherwise three sweeps of one ticket in
\* flight at once may exceed it, as one that reads the spent budget frees a claim it does not
\* know.
RetryBudget == auto <= 2 + faults

\* The reconcile sweep re-dispatches, by the Ready handler or redispatchTicket.
SweepTakes(w) ==
  /\ job[w].role \in {"reconcile", "redrive"}
  /\ job[w].pc \in {"claim", "rc_redo"}
  /\ job'[w].pc \in {"board", "check"}

\* A ticket escalated to a person, with the page still open, is re-dispatched
\* by no reconcile sweep, however old the sweep's view of it is (escalationHeld).
EscalationHolds ==
  [][\A w \in Handlers : SweepTakes(w) => ~(paged /\ task.status = "error")]_vars

\* Once the run is closed, a dispatch goes on to start a session only when its
\* own last look at the run failed (workflowStillLive fails open).
ClosedRunStartsNothing ==
  [][\A w \in Handlers :
       ~open /\ job[w].pc # "send" /\ job'[w].pc = "send" => faults' > faults]_vars

-------------------------------------------------------------------------------
(* Fairness: a Lambda that runs goes on, status events are delivered, and the *)
(* scheduled sweeps keep coming round.                                        *)

Fairness ==
  /\ WF_vars(Tick)
  /\ \A w \in Handlers :
       /\ WF_vars(Continue(w))
       /\ SF_vars(StartReady(w)) /\ SF_vars(ReceiveDone(w))
       /\ SF_vars(DetectorScan(w))
       /\ SF_vars(ReconcileScan(w))

FairSpec == Spec /\ Fairness

NoSession == \A g \in Gens : sess[g] # "alive"

\* A claim held for a session that is gone does not stay so: a sweep releases
\* it, whatever crashed on the way and however often it was stamped before.
DeadClaimRecovered ==
  []<>~(open /\ board = "in_progress" /\ task.status = "running" /\ NoSession)

\* A stolen claim does not stay stolen with the ticket in progress: it is
\* dispatched again or escalated.
StolenClaimRedriven ==
  []<>~(open /\ board = "in_progress" /\ task.status = "ready" /\ NoSession)
=============================================================================
