# agentcore-hub: a TLA+ model of the orchestrator

agentcore-hub runs config-driven workflows of AI agents. Tickets live on a
board (Jira or a DynamoDB table); an agent ticket that becomes Ready is
dispatched to an agent session; a finished ticket unblocks the next ones; the
last one completes the run. The part that decides all this is
`lambda/orchestrator`, a set of short Lambda invocations that meet only in
conditional writes on one row per run (`workflow-store.mjs`). Beside it stand
the console's routes (cancel, complete, retry) and the tools by which a session
reports its work and closes its ticket. That is what this directory models,
checks with TLC and proves about with TLAPS.

## Inventory

| Component | State it keeps | Operations | What is hard | What makes it correct |
|---|---|---|---|---|
| Invocation claim, lease (`workflow-store.mjs`, `lease.mjs`) | `agentTasks[ticket]`: status, `startedAt` (the generation), `deadSessionDetectedAt`; `deadSessionRetries` | claim, steal, complete, set status, stamp, clear, count, reset | every caller acts on a row it read earlier; sessions outlive claims | one session per generation; a generation goes to an open run only; no stamp is inherited |
| Ready handler, dispatch (`index.mjs`) | the board status, the phase | claim, move In Progress, last look, send, release on failure | repeated events; a cancel in flight; an ambiguous send | nothing starts in a closed run; a failed send is released |
| Dead-session detector | the stamp, the counter | scan, stamp, re-check, clear, steal, retry or escalate; backstops | overlapping sweeps, crashes between steps, heartbeats in between | a dead claim is recovered, a live one is not; a bounded number of retries |
| Reconcile sweep, cascade (`reconcile-sweep.mjs`, `cascade.mjs`) | none of its own | re-check, steal, re-dispatch, escalate; unblock dependents | stale index reads, snapshots, the retry budget shared with the detector | a missed unblock is caught; an escalated ticket waits for the person |
| Done handler, park, wake (`index.mjs`) | task status, events | complete, announce, release a parked claim, reset the counter | late and repeated events, no generation on Done | a park releases its own claim only |
| Run closure (`index.mjs`, `workflow-store.mjs`, complete route) | phase, `completedAt`, `finalizedAt` | complete, close as blocked, finalize, take over | a completer that dies between the write and its effects | one terminal phase; finalized once, and in the end |
| Cancellation (cancel route) | phase, `cancelledAt`, pending markers, close-out lease, the post-run epic | cancel, move follow-ups, sweep children, close the epic, publish, resume | partial failure, concurrent and slow calls, agents still at work | the marker goes only when all is done; one post-run epic; a live session is spared |
| Review gates (`index.mjs`, `gate-state.mjs`, `review-cap.mjs`) | gate state, review ledger, notifications | present, reject, approve, append, acknowledge, escalate at the cap | two handlers for one decision; list replaced under a version fence; decisions overtake presentations | one effect per decision; no notification lost; new rounds of rework stop at the cap; the person is asked and answered |
| Completion record and Done (`workflow-output`, `agentcore-hub-jira`, `gate-contract.mjs`) | one S3 record per ticket: brief hold, follow-ups, Done-intent, queued writes; a replay queue | report, drain, guard, fence, commit, clear | three writers of one object, a ticket in another service, lost answers | no Done lands over a hold; no stale write erases a hold; the queue drains |
| Sweep window (`sweep-scan.mjs`) | none (time) | rotate a capped window | the list changes between sweeps | every open run is reached in as many quanta as there are pages |
| Command queue (`index.mjs`) | an SQS FIFO group per run | run a batch, fail from the first failure on | retries, batches cut short | commands of a run in order |
| Agent invoker, the other tools, pipeline tools, console routes, reporting Lambdas, agent runtimes | their own tables, files, streams | I/O, formatting, prompts | mostly external services | outside the scope, or external actions (see "Not modelled") |

How they interact: events of the board reach the orchestrator at least once
(queue or stream); EventBridge starts the two sweeps from one rule, once a minute
by default (`lambda/orchestrator/deploy.sh`), so that they overlap; sessions write heartbeats and
`agent.died` rows into the events table, which is all the sweeps know of them;
people move tickets. A session reports through `report_completion`, which writes
the ticket's completion record and asks the ticket Lambda for Done; what an
outage keeps it from doing goes to a queue that a probe drains. Everything else
is shared state in the run's row.

## Plan

1. **ClaimLock, ClaimLease** (done): the claim and all its users, with the
   abstract lock it implements.
2. **RunTerminal** and its abstraction **RunOutcome** (done): completion, blocked close,
   cancel and finalization racing for the terminal phase.
3. **CancelCloseout** (done): lease, resume and event marker of the cancel
   route. **ReviewCap, ReviewGate** (done): ledger, gate state, notifications, with
   the run's command queue and the direct delivery.
4. **DoneFence** (done): the completion record, the Done-intent and the replay
   queue; it was not in the first plan and came before the next ones because more
   writers meet there than anywhere else outside the run's row.
5. **SweepScan** (done): the rotation as a function of time and list length.
6. **Cascade** (done): closers on a stale index, the deferred retry, the Ready
   handler and the sweep over the tickets of one run, composed with the window.
7. The start fence, the invoker's retry; the DynamoDB twin of the cascade.

Abstractions worth stating: a lock (done), "one writer of the terminal phase"
for RunTerminal (done). Theorems worth proving: type correctness and fencing of
the claim and its refinement of the lock (done); at most one terminal phase and
one finalizer (done); the Done fence and the holds (done); no ticket begun before its blockers (done);
the rotation covers a fixed list (done); the marker of the close-out (done); no notification
lost, and the rework of new rounds stops at the cap (done); the retry budget and the escalations held (done, under
the hypotheses named below).

## Modules

| Module | What it is |
|---|---|
| `ClaimLock` | abstract: numbered generations, handed out one at a time to an open run, each with at most one session |
| `ClaimLease` | the code: Ready handler, dispatch, detector, reconcile sweep, park, wake, done, around one agent ticket |
| `MCClaimLease` | the symmetry of the handlers, for TLC |
| `ClaimLeaseProofs` | theorems about `ClaimLease`: types, fencing, the lock, the closed run |
| `ClaimSweepProofs` | theorems about its sweeps: the retry budget, and what is escalated |
| `RunOutcome` | abstract: a run ends once, with one outcome, and events name that outcome |
| `RunTerminal` | the code: completion, blocked close, finalization, complete route, the cancelling write, phase advances, around one run |
| `MCRunTerminal` | the symmetry of the invocations, for TLC |
| `RunTerminalProofs` | theorems about `RunTerminal` |
| `CancelCloseout` | the code: the cancel route's close-out of one run, with agents and the retry route beside it |
| `CancelCloseoutProofs` | theorems about `CancelCloseout` |
| `ReviewCap` | the review ledger as operators: rounds, regressions, the count, the cap |
| `ReviewGate` | the code: one human review gate, its handlers, the person, the sweep |
| `MCReviewGate` | the deployments considered, for TLC |
| `ReviewGateProofs` | theorems about `ReviewGate` |
| `DoneFence` | the code: `report_completion`, the replay drain and the Jira twin around one completion record |
| `MCDoneFence` | the budgets of the runs, for TLC |
| `DoneFenceProofs` | theorems about `DoneFence` |
| `SweepScan` | pages, rotation and window of the sweeps' scan, as operators |
| `Cascade` | the code: Done handler, cascade, Ready handler and reconcile sweep over the tickets of one run, composed with `SweepScan` |
| `MCCascade` | the dependency graph of the run, for TLC |
| `SweepScanProofs` | lemmas on remainders, theorem about the rotation |
| `CascadeProofs` | theorems about `Cascade`, with `SweepScanProofs` |

The systems meet in the run's row: `ClaimLease` sees the end of the run as
one step (`CloseRun`), `RunTerminal` sees the claims as `AdvancePhase` and the
tickets as facts that arrive. `RunOutcome` is what each may assume of the other:
once closed, closed for ever. `CancelCloseout` begins where `RunTerminal`'s
`CancelClaim` ends and sees a claim as `ClaimLease` makes it: on an open run only.
`ReviewGate` stands between two agent tickets: what readies the gate is the
cascade, what it re-opens is a claim again. `DoneFence` is how a ticket gets the
Done that the others receive.

### ClaimLease

One agent ticket of one run. `task` is `agentTasks[ticketId]`; its `gen` stands
for `startedAt` (the generation), `stamp` for `deadSessionDetectedAt`. `board`,
`boardAge`, `waits` are the ticket's status, the age of its `updatedAt` and
whether it has an open blocker. `sess[g]` is the agent session of generation
`g`, `silence` the age of the newest heartbeat, `inbox` the status events still
to be delivered. A handler `w` is one Lambda invocation: `job[w].pc` is its next
step, `job[w].snap` and `job[w].retries` are what it has read. Any other
handler may run between two steps, so every stale read of the code is there.

One step is one conditional write, or one group of reads, with what follows it
until the next write. In particular:

* `StartReady .. MoveUnavailable` are `handleTicketReadyUnified` (and its
  stream twin); `CheckStillLive, Send, SendFails, ReleaseOnFailure,
  ParkAfterFailure` are `invokeAgent`. A send that throws may have started the
  session.
* `DetectorScan .. EscalatePage` are `dead-session-detector.mjs`, with its
  re-check, both backstops and the shadow-mode exception for an exhaustion
  death. `lastAgentActivity` looks back one TTL only, so the detector's silence
  is the age of the claim (`SilentTooLong`).
* `ReconcileScan .. CountRetry` are `reconcile-sweep.mjs` with
  `reconcileDependent` and `stealWithRetryBudget` of `cascade.mjs`. The second
  liveness read before `dispatchReady` is merged with the first: both answer a
  live lease with a nudge.
* `ReceivePark .. AnnounceDone` are the park release, the wake after an
  escalation gate, and the done handler.
* `Beat, SessionDies, SessionCompletes, SessionParks, BlockerCloses,
  PersonReadies, CloseRun, Crash, Tick` are the world: the runtime, the cascade
  seen from its dependent, people, the end of the run, the death of a Lambda,
  and time.

Time is counted in ticks of half a TTL or less. A Lambda times out well within a
tick (60 s against 30 min), which `late` expresses: no handler, and no handler
that overlaps a late one, sees two ticks.

Left out: the status `in_review` and `handleInReviewDependent`; the event path
of the cascade for in_progress dependents (`CASCADE_EXTENDED_STATES`); two
claims of one ticket within the same millisecond, which would share a
`startedAt`; the sweeps' watches and metrics; the escalation tree that may
replace the page. The re-wake of a review gate is in `ReviewGate`.

### RunTerminal

One run. `row` is its row in the workflows table as far as its end goes:
`phase`, `cancelledAt`, `finalizedAt`, `age` (the time since `completedAt`),
`paged` (an escalation is open in `humanNotifications`). `inv[i]` is an
orchestrator invocation inside `completeWorkflow`: its next step, the phase of
the snapshot it was given, the ship verdict it has resolved, whether it is a
`taker` of somebody else's completion. `age[i]` is how long it has been
running, `route[r]` a call of the complete route, `cancel` the close-out of a
cancel. `work` holds the facts the gates ask for, `told` the terminal events
published, `epic` the board's epic.

* `Deliver, Enter`: a Done event with every ticket closed, the snapshot
  (`resolveWorkflow`; through the epicId-index it may be old: `IndexLags`), the
  early return and the second look at the live phase.
* `Evidence, Verdict, Probe`: the gates. What they look at is three facts;
  their error paths are all there, because each ends somewhere else: deferred,
  skipped, left open. A fact does not go away again: a pull request opened after
  the probe is out of scope.
* `ClaimTerminalOutcome .. StampBlocked` are `closeWorkflowBlocked`, and what
  the surrounding catch makes of a throw in it.
* `ClaimComplete, ClaimFinalization, SideEffects, PublishComplete,
  MarkFinalized` are the claim, the take-over and the side effects. The pull
  request, the delivery record and the epic are one step: each is tried and
  passed over when it fails.
* `RouteRead .. RoutePublish` are the complete route, with the order it has:
  epic first, then the write. It is a web request without a limit of its own;
  the time between its clock and its write is taken to be at most `InvLimit`.
* `CancelClaim, CancelPublish` are the write of the cancel route and its event;
  `AdvancePhase` is any dispatcher that has read the run open.
* `Die, RouteDie, Mishap`: crashes, failed reads, lost answers of conditional
  writes (`PerhapsWritten`), events that cannot be published.
* `Tick`: an invocation does not live past `InvLimit` (`Timeout: 60` in
  template.yaml); a completion may be taken over after `StaleWindow` (five
  minutes). The proofs use only that the window is two lifetimes or more.

Left out: the phase `error`, which the start route writes; the opt-out
`COMPLETION_EVIDENCE_REQUIRED=off`; the text of pages; the acknowledgement of a
page.

### CancelCloseout

One run, its children and the calls of the cancel route. `row` is what the
cancel writes: `cancelled`, `pending` (the close-out is not finished), `owed` (its
event is not out), the post-run epic and the lease with its owner. `ticket[t]` is
a child's status and epic, `record` the completion records in S3, `live` the
claims of the row's `agentTasks`. `caller[c]` is a call: its step, the decision
to resume, the claims and the epic it read with the row, its listing, and the
sets it still has to work through.

* `Read, Commit, ClaimCloseoutLease` are the entry: phase and both markers in one
  write, then the lease of five minutes.
* `List .. MovesDone` move the follow-ups that wait for the deployment ticket to
  an epic of their own: found, or created under a `client_token` that the ticket
  backend locks (`Minted`), and claimed onto the row once.
* `Examine, CancelTicket, SweepDone` are `sweepTickets`. Reads and writes of a
  batch are separate steps and interleave freely.
* `CloseEpic, PublishCancelled, ReleaseCloseoutLease` end the call; the markers
  go as far as the attempt got, and only while the lease is one's own.
* `Start, Claim, Report, Done` are agents, `RetryRelease, RetryReady` the retry
  route, whose second write puts the ticket back whatever its status is by then.

A release that finds another's lease answers `closeoutPending: true` even when
that other attempt has cleared the markers: the answers are not in the model.
Nothing automatic frees the claim of a dead session on a cancelled run; every
close-out leaves its ticket alone and the marker stays. Left out: the Jira path,
where a follow-up's move is two calls; the lag of the listing's index; an epic
that is closed by hand while its `client_token` still answers with it.

### ReviewGate and ReviewCap

One human gate behind one reviewed ticket (`upstream`). `gate` is the ticket,
`row` what the run's row says: `gateStates[gate].state`, `humanNotifications`,
`notifVersion`, `reviewGateHistory[gate]` (`ReviewCap`'s ledger). `handler[h]` is an
invocation: the event it has taken, the run it resolved (`wf`), what a
notification writer has read (`fresh`) and its attempts left. `setting` is the
deployment: the mode of `GATE_STATE_GUARD` (off by default), the board, what the
gate does on a rejection (`onReject`: rework or hold), and how events arrive. A queue
hands them out in order and one at a time: the run's FIFO group on Jira, the stream
on the DynamoDB board, where a record whose handler throws is logged and consumed
(`Consume`). On Jira without a command queue they come directly, in any order and to
several handlers.

* `Park .. Mark` are `handleHumanReviewGate` with
  `appendReviewNotificationOnce`, started by a Ready event, the sweep
  (`Rewake`) or the cap.
* `AckRead .. MarkApproved` are `ackNotifications`, for both decisions.
* `Rewake` is the reconcile sweep at a gate in review: its blocker is Done and no
  review notification is open. On the DynamoDB board the gate must have stood still
  for half an hour, which outlasts the deliveries; a Jira ticket has no `updatedAt`,
  so there the sweep comes at any time.
* `Guard, ClaimRejection` are `gateRejectionAdmitted` with the two conditional
  writes, `Begin .. Reopen` `handleReviewRejection` with the hold, the advisory park,
  the ledger, the cap, the escalation, and on Jira a re-open of which either hop
  may not land.
* `Reject, Approve, LookAgain` are the person, `UpstreamDone` the agent and the
  cascade, `AppendNotification` every other writer, `Crash, CallFails` failures.

Two steps rest on time: a person is slower than a presentation in flight, and a
rework outlasts the handler that ordered it (`Timeout: 60`). A gate that a person
has rejected (`blocked`) is not presented again by the sweep.
Left out: several gates in one run, the cap's shadow mode, the fail-closed count of
ledger failures, escalation trees, the cut of a failed command's batch (the queue
hands out event by event), the re-wake on the cascade's event path
(`CASCADE_EXTENDED_STATES`, off by default).

### DoneFence

One Jira ticket. `rec` is its completion record, whose ETag is a hash of its
content: a conditional write compares content, and so does `CAS`. `fresh` says
that its Done-intent is younger than the TTL of ten minutes, `gated` whether the
ticket's Done needs the record (ship phase). `twin[c]` is the ticket Lambda's
invocation for each caller: the report, the drain, a person. `drain` and
`report` are the two writers of the record, `queued` the one message of the
replay queue, `filed` and `onGate` whether the follow-up and the merge brief have
reached the board.

* `Call, Judge, Fence, FenceLost, Commit .. ClearIntent` are a Done: the guard, the
  intent as the last write before the transition (or a reservation where there is
  no record), the transition with lost answers, the clearing. A Done asked for
  again on a ticket that is Done is acknowledged without a fence.
* `DrainTake .. DrainRetry` are `drainCompletion` and the probe's loop: what a
  message asks for is done again, a hold is stamped and the message dropped, or
  the record restamped and the ticket closed; a Done in flight puts a hold off. A
  message whose record holds follow-ups that it does not carry (`others`) is
  superseded by a newer report's and deleted; one that is refused for good (400, 403,
  404, 422), by the ticket's read or by the transition, is dropped and the ticket left
  open (`DrainDrop`).
* `ReportStart .. ReportLost` are `report_completion`: deliver, write, close,
  rewrite, enqueue, stamp. `AdoptHold` is what a write takes over from the record;
  what an attempt has adopted stays on the call's report, also when the attempt
  loses its conditional write (`Adopting`).
* `Files` is the filing of follow-ups, by either. One flag stands for all: that
  they are reported unfiled although they have been filed is a scan that failed,
  or a re-submit with further entries.
* `Expire`: no twin outlives its own intent (the TTL is twenty times the
  Lambda's limit).

`crossed` marks a Done during whose flight another hand has fenced or closed the
ticket, or which found it closed when it fenced: `FenceHolds` is about the others.
One call of `report_completion` at a time; every report names the brief; one
message, since SQS collapses repeats; the drain waits for the twin of its earlier
tick. Left out: residual findings and their provisional admissions, amendments,
settled gates and releases of the brief, the check after the commit, the
dead-letter queue after twelve receives. With one message, the drain's own Done is
never refused on a brief hold: that drop is in the model and not reached.

### Cascade and SweepScan

The tickets of one run on a Jira board, all with agents. `board` is the truth,
`index` what Jira's search says of it, `task` the run's `agentTasks`, `session` the
newest session, `events` the webhooks under way, in any order. `job[w]` is a Lambda
invocation with the rows it has read: `waiting` and `ready` are the dependents it
will handle, by the status their rows showed, `deferred` those whose blockers looked
open. `ahead` and `behind` are the other open runs, which with `quantum` decide
whether a sweep has this run in its window.

* `ReceiveDone, MarkComplete` are `handleTicketDoneUnified` up to the cascade,
  `ReadChildren .. LevelDispatch` `cascadeUnblock` with its deferred retry: one
  read of the index, then one dependent after the other.
* `Dispatch` is `handleTicketReadyUnified` as one step: `ClaimLease` is about what
  happens inside. `ReceiveReady`, `LevelDispatch` and `Redrive` lead to it.
* `ScanRuns, ReadSiblings, Redrive` are the reconcile sweep, and `ScanRuns` moves
  the clock: a sweep comes in the same quantum as the last one or in the next,
  which is what `sweep-scan.mjs` says of the schedule.
* `Complete, Reopen, Propagate, LoseEvent, Crash, ListChanges` are agents, a
  rejected review, the index, the webhooks, Lambda and the other runs.

`jiraTransition` answers false where the cascade expects a throw, so a move that
Jira refuses passes for done (`MakeReady`); the cascade then journals
`orchestrator.unblocked` for it, which its own comment (cascade.mjs:221-222)
excludes. Left out: the DynamoDB twin (`handleTicketDone` of the stream), the
extended states, gates among the tickets, dead sessions (`ClaimLease`).

## Runs

Bounds are named constants: `MaxClaims` generations, `MaxFaults` crashes, failed
calls and repeated deliveries, `MaxMoves` moves of people, `Endings` the ways a
session may end. Two handlers are the least with which a read can go stale;
two claims the least with which a stale handler meets a newer claim; three or
four let the retry counter run out. One fault is enough for each crash window,
since each of the properties is about a single death. `CHECK_DEADLOCK FALSE`
in all runs but `run_terminal`: a bounded behaviour stops when its claims, calls,
decisions or moves are used up, and a run that has ended has nothing left to do.

| Run | Bounds | Question |
|---|---|---|
| `claim_detector` | 2 handlers, 2 claims, 1 fault, detector enforce | `OneSessionPerClaim` (race R7 of docs/race-condition-study.md), the lock `LockSpec`, `ClosedRunStartsNothing`, `TypeOK` |
| `claim_reconcile` | 2 handlers, 4 claims, DynamoDB board, reconcile enforce, detector off | `EscalationHolds`: no reconcile sweep, however old its snapshot, re-dispatches a ticket escalated to a person; `RetryBudget` for two sweeps at a time |
| `claim_parks` | 1 handler, 2 claims, 1 fault, 1 move; DynamoDB board, detector shadow; parks, completions, exhaustion deaths | `StampIsOwn`, `LockSpec` where claims are also released by parks, dones and people |
| `claim_recovery` | 1 handler, 4 claims, 1 crash, detector enforce, fair | `DeadClaimRecovered`, `StolenClaimRedriven`; `RetryBudget` through a crash: two automatic dispatches between two decisions of a person, and one for each crash |
| `run_terminal` | 2 invocations, 1 route call, 2 phases, lifetime 1, window 2, lagging index, 1 crash or failure | the run ends once and its events say so (`OutcomeSpec`), its side effects have one owner at a time (`OneFinalizer`) and belong to a complete run (`EffectsFollowTheClaim`), `TypeOK` |
| `cancel_closeout` | 2 calls, 2 children (one a follow-up), 2 epic ids, 1 mishap, fair | `CloseoutHonest`: once the marker is gone, the event is out, the epic closed and every child settled; `OnePostRunEpic`; `ResumeSparesSessions`: a resumed call cancels no ticket under a live session; `CloseoutCompletes`; `TypeOK` |
| `review_gate` | 2 handlers, 4 notes (plain, advisory, with a decision line, both), cap 2, 3 decisions on the DynamoDB board and 2 on Jira, 1 other notification, 1 failure or second look behind a queue and none without; the guard off, enforced on a gate that asks for rework and on one that holds (DynamoDB board), enforced behind the queue and directly, in shadow mode directly (Jira), fair | `NothingLost`, `OneOpenReview`: lists rewritten from copies; `ReworkedOnce`: under the guard one rejection is one rework; `CapStopsNewRounds`: fewer than the cap go to rework as new rounds; `ComesBeforeThePerson`, `RejectionAnswered`; `TypeOK` |
| `cascade` | 3 tickets, two of which block the third, 2 handlers, level trigger on, windows of 2 runs among up to 3, 1 upset, fair | `NotBeforeItsBlockers`, `WindowComesRound`, `UnblockedIsBegun`; `TypeOK` |
| `done_fence` | both kinds of ticket; 2 reports with 1 move and 1 fault, 1 with 2 and 1, 1 with 1 and 2, fair | `FenceHolds`, `HoldSticks`, `FollowUpsHonest`, `QueueDrains`, `TypeOK` |

`cancel_closeout`: two calls are one that is slow or dies and one that resumes; two
children are one that moves and one that is swept; more mishaps than one lengthen
a behaviour without a new meeting of two calls. `review_gate`: three decisions reach
the cap of two and one rejection after it; Jira, where the sweep comes at any time,
and the direct delivery, where every order of events exists, have smaller bounds. `done_fence`: the three budgets each give
one of reports, moves and faults room for two; fence attempts are the code's three.
`cascade`: two blockers are the least with which each closer may see the other open;
three runs in windows of two give a last page that is not full; the upset is a crash,
a failed call, a lost or repeated event, a rework or a change of the list.

`run_terminal`: two invocations are a completer and a taker; the lagging index is
the one way to the take-over, so it is on; one mishap gives each crash and each
lost answer. It needs no `CHECK_DEADLOCK FALSE`: Done events keep coming.

Each property of these runs has a mutant in the module it is about (named in
PROJECT.json): a plausible bug of the code with which TLC finds the property
violated under the same configuration.

Runs that are meant to fail, each a disagreement between the code and what its
own comments say (quoted in PROJECT.json):

| Run | What happens |
|---|---|
| `fake_complete` | the write of a blocked close throws; the catch meant for the verdict check swallows it and the run is completed, with the verdict against it in hand. Orchestrator and complete route alike |
| `override_swallowed` | an advisory park tells the person to move the gate back to In Review and reject again with `DECISION: continue`. No handler listens to that move, the gate stays `rejected` unless a reconcile sweep happens to come in between, and under `enforce` the second rejection is dropped as a duplicate |
| `escalation_undone` | a Jira ticket has no `updatedAt`, so nothing keeps a sweep from a ticket that was parked a moment ago: one that scanned the run before an escalation re-dispatches the escalated ticket |

Counterexamples that TLC found in these models and that no run repeats, so that a
reader knows where a stronger property would fail:

* The reconcile sweep dies between its steal and its re-dispatch: the task is
  `ready` and unstamped, the board says In Progress. Later steals want a running
  claim, the detector's backstop wants a stamp; nothing recovers the ticket.
  `claim_recovery` therefore has that sweep off.
* With both sweeps on, the detector counts a retry before its re-dispatch; a
  reconcile sweep in between escalates and pages, and the detector's dispatch
  then claims the escalated ticket: its dispatch is not a reconcile sweep's, and
  `EscalationHolds` says nothing of it.
* An escalation dies between `setTaskStatus(error)` and its page: the ticket is
  held for a person nobody paged.
* That status write names no generation and may hit a claim issued in between.
* `lastAgentActivity` looks back one TTL, so a claim older than the detector's
  threshold is found dead after one TTL of silence.
* A completer that dies before `finalizedAt` is not resumed: every later Done
  event reads the run complete and returns at the top of `completeWorkflow`
  (`TakeOverUnreachable` below).
* Under `enforce`, a handler that dies after claiming a rejection loses it: the
  retry is dropped as a duplicate. `RejectionAnswered` excepts crashes.
* Delivered directly, a late copy of a rejection is admitted again once the cap has
  presented the gate anew. `ReworkedOnce` is about the queue.
* On Jira, behind the queue as well: a person moves the gate back to In Review while
  its rejection is still in hand, a sweep presents it (nothing makes it wait there) and
  marks it `requested`, the handler re-opens the upstream and dies before it returns;
  the redelivery is admitted and re-opens the upstream again. `ReworkedOnce` is about
  the DynamoDB board.
* A rejection that repeats the feedback of the last round, as with the fallback
  "Reviewer requested changes." (index.mjs:2033), is taken for a redelivery
  (review-cap.mjs:307-313): no round is recorded, nothing counts towards the cap, and
  the upstream is re-opened. A person, or a reviewing agent, who rejects every time
  with the same words is answered with rework for ever. The comments say otherwise:
  index.mjs:2043-2044 that "every rejection is therefore its own round", and
  review-cap.mjs:290-292 that un-counting a round "is the unbounded-loop direction, the
  one failure this module must never have". `CapStopsNewRounds` counts the other
  rejections only; that the loop ends is not true.
* Two Dones in flight: the second overwrites the intent of the first, fails and
  clears it; the drain sees no Done in flight and stamps a hold; the first commits
  over it (against gate-contract.mjs:1201, "Exactly one side wins every
  interleaving"). `FenceHolds` excepts crossed Dones.
* The slower of two closers moves a dependent at work back to Ready. Once it has
  completed, a Ready event, or a sweep whose row still says Ready, starts it again:
  the claim refuses only `running` (reconcile-sweep.mjs:29-31 has such a sweep "lose
  that CAS harmlessly").
* `report_completion` enqueues and dies before its stamp: the agent's retry closes
  the ticket before the brief has been delivered.

### Fairness

For `ClaimLease`, `FairSpec` asks for: time passes; a Lambda that is running goes on (it may still
crash, which ends it); an event that stays in the inbox and can be delivered
again and again is delivered (strong, since the handler's slot is shared; queue
and stream redeliver); the sweeps keep being started (a five-minute schedule;
strong, since a sweep can start only when a slot is free). Nothing is assumed
of people or of sessions.

`CancelCloseout`: a call that is taken goes on, and somebody calls again while the
close-out is pending (the console's answer asks for it); a lease runs out; a
session at work reports, and a retry that has begun ends. The last two are what
the code itself relies on: a close-out leaves a child at work alone and waits.

`ReviewGate`: events are delivered and invocations run, the sweep comes round.
Nothing is assumed of the person or the agent.

`Cascade`: a handler that runs goes on, the index catches up, sweeps keep coming as
time passes (the schedule is shorter than a quantum). No event need be delivered.

`DoneFence`: the probe's schedule comes back to the queue, an invocation of the
twin and a call of the report end, and a TTL passes. Nobody has to report or to
close anything.

## Proofs

Each module's theorems hold for every value of its constants: any number of
handlers, claims, faults and moves, every mode of the sweeps, either board.
The assumptions are the named ASSUMEs of the module (positive bounds, the
detector's threshold not below the TTL, a TTL of at least two ticks, known modes).

`ClaimLeaseProofs`:

* `TypeCorrect`: `TypeOK` is inductive. The state is split into data and the
  table of handlers, and the steps into families (dispatch, sweeps, events,
  world), each with its lemma.
* `StampCorrect`: `StampIsOwn` is inductive by itself, because every step is of
  one of few kinds as far as run, claim and sessions go (`Kinds`): a claim is
  won, freed, stamped with its own generation, a session starts or ends, the run
  closes, time passes.
* `SessionsFenced`: `OneSessionPerClaim` is not inductive: nothing in it says
  that the generation a new claim gets is new to everybody. `Fencing` adds that
  no generation beyond the current one has a session, and that a dispatch holds
  an issued generation; it is inductive (`FencingCorrect`) and implies the
  property. The step that needs care is the send: the sender leaves its
  dispatch, successful or not.
* `LockImplemented`: `Spec => LockSpec`. Initial states map to initial states;
  by `Kinds` and `Fencing` every step is a step of the lock or a stutter: a won
  claim is `Acquire`, any other overwrite of the status is `Release`, the send
  is `StartSession`, a tick may be `Expire`, a cancel or completion `Close`.
* `ClosedRunCorrect`: `ClosedRunStartsNothing`, an action property. `HandlerArrives` goes
  through every step of a handler and finds one that leads to the send, the last look
  at the run; on a closed run that look lets it through only when it fails.

`ClaimSweepProofs`, where the properties need hypotheses and the theorems name them:

* `BudgetCorrect`: `RetryBudget` for reconcile sweeps that overlap as they like, next to a
  detector that writes nothing (`DetectorSilent`: off, or in shadow mode, which is the
  default, where no session ends by exhausting its retries). The sweep counts
  only after it has dispatched, so two that both read 0 might both go through. `Account`
  says why not: whoever has stolen a claim, and has yet to count, is `Alone`, with
  nothing counted and no live claim but one younger than itself; and a sweep that saw
  nothing counted is right as long as the claim it saw lives (`Watch`). A steal needs a
  live claim that has been dead for a TTL, so an old one. This rests on time: a TTL is
  at least two ticks, and a handler is over before it sees a second tick.
* `BudgetApart`: `RetryBudget` in every mode of both sweeps, as long as no two sweeps of the
  ticket, nor a sweep and the wake of a person's decision, are in flight at once
  (`SweepsApart`, a hypothesis on the behaviour: what the schedule and the timeout
  give for sweeps of one kind; all other handlers overlap freely).
  `Ledger` is the balance: what the detector counts and has yet to dispatch, what the
  reconcile sweep has dispatched and has yet to count, and a fault for each that died
  in between.
* `EscalationCorrect`: `EscalationHolds` on DynamoDB, with `DetectorSilent` and as long as no
  send fails (its release sets the claim to `error` as well) and no decision of a person
  wakes the ticket (it resets the counter, and so lets the sweeps begin again); crashes, repeated
  deliveries and moves of the ticket are allowed. `Held` says that a sweep's look is of one time
  with the escalation or of none: an escalation leaves from a board in progress, a
  re-drive from one that is not and has stood still for a TTL, handlers that overlap
  are late together, and a board that moved within the life of either is too young for
  the other. A sweep about to re-drive therefore knows that the claim is not
  escalated, and that nobody is on the way to it; one that has stolen knows by
  `Account` that nothing is counted, and nobody escalates before a count.

`RunTerminalProofs`:

* `RunTypeCorrect`, `EffectsCorrect`: the inductive invariant `IInv` says what a
  party may conclude from where it is: a completer in its side effects, that the
  run is complete; one about to announce a blocked close, that the row has that
  outcome; what has been told is what the row says; and `cancelledAt` goes with
  the phase. Each family of steps has a lemma on what it does to the row (keep
  the phase, close an open run, advance an open run), and `PhaseStays` does the
  rest: what others know of a closed run survives every write.
* `OutcomeImplemented`: `Spec => OutcomeSpec`, from the same lemmas: a closing
  write is `Decide`, an event is `Announce`.
* `OneFinalizerCorrect`: needs the clock. `FinInv` adds that a completer is at
  least as old as its completion, and a taker has stamped the row. So a taker
  finds the completer dead, as it waits longer than a lifetime, and the claimer
  of an open run finds nobody.
* `TakeOverUnreachable`: with a consistent snapshot (`~IndexLags`), no
  invocation ever stands at the take-over with an abandoned completion. `LagInv`:
  one that is past the early return has read the run open, so the completion is
  older than it by at most one lifetime (the age of the completer's clock), and
  two lifetimes do not exceed the window. So a completer killed before its marker
  is not resumed by later Done events, whatever the limits.

`DoneFenceProofs`:

* `TypeCorrect`: `TypeOK` is inductive. The step that needs an argument is the
  fence's nonce: at most six intents can be read or kept at one time, so one of
  the six is unused.
* `FollowUpsAreHonest`, `HoldsStick`: `HonestInv` says that whoever is about to
  write a record without the pending flag has filed the follow-up, and that a
  writer that believes the brief on its gate has put it there. A hold leaves the
  record only by such a writer, since every write is conditional on the content
  its writer has read.
* `FenceKeepsHoldsOut`: `FenceInv` says that a twin between its fence and its
  commit, not crossed, has its intent on the record, fresh, and finds no hold
  there: the fence is written on an admitted record, every writer carries the
  intent on, and one that would add a hold stands back while the intent is fresh
  and the ticket open. A second fence, which would break this, crosses it.

`CascadeProofs`, with `SweepScanProofs`:

* `TypeCorrect`: `TypeOK` is inductive with `MarksATicket`, that a Done handler
  which has yet to mark knows its ticket.
* `BlockersFirst`: `NotBeforeItsBlockers` is not inductive, since nothing in it
  says that what the index shows and what a handler has listed is true of the
  past. `Order` does: whoever shows a ticket Done, or acts on its Done, is right
  (the board, the index, an event, a handler); whatever is listed or announced
  Ready is due, each of its blockers having been Done once; and what has been Done
  has been begun, so that a reopen begins nothing new. Being due never ends, which
  is why a stale row cannot begin a ticket too early.
* `WindowCorrect`: the property counts quanta and says nothing of what they showed.
  `ElsewhereSince` says that each of the quanta waited showed another page of the
  list as it stands now; it is inductive because counting the clock modulo `Cycle`
  changes no rotation (`WindowOfMod`). `EveryPlaceIsShown`, the arithmetic, says
  that as many quanta in a row as there are pages cannot all miss a place.

`CancelCloseoutProofs`, for any number of calls, children, epics and mishaps:

* `TypeCorrect`, `OneEpicCorrect`: one inductive invariant, as an epic's type rests
  on the token. `OneEpic` says that the epics there are, the row's, the children's
  and those in a call's hand are all the one the client token is locked on, or none.
  The assumption is that an epic can be made and is not the run's own.
* `MarkerCorrect`: `CloseoutHonest` speaks of a marker already written; `Honest`
  adds what each call on its way there may conclude. A call that has the event
  behind it is right that the event is out; up to its sweep each child is settled,
  or in one of its lists, or the call is `dirty`; after it all are settled and the
  epic closed. What one call knows, no step of another undoes (`NothingUndone`): the
  event stays out, a settled child settled, a run cancelled. A retry resets a child
  that was settled, but then it is one of `reset`, which is settled by definition:
  the operator took it out of the close-out's hands.
* `SessionsSpared`, an action property, from the same invariant: no claim begins on
  a cancelled run, so the claims a resumed call has read cover all there are, and
  the write it makes is conditional on the status it listed.

`ReviewGateProofs`, for any number of handlers, notes, decisions, rounds and mishaps,
every guard mode and either delivery:

* `TypeCorrect`: `TypeOK` with `Known`. An event names a decision that was made, a
  handler's place goes with its event, and a handler's copy of the ledger is no
  longer than the row's: without that the round it escalates need not be one.
* `NotificationsKept`, `OneReviewCorrect`: from `Fence`. Whoever is about to write the
  list back has read it at a version not beyond the row's, and if at the row's, has
  the row's list; about to append, it saw no open review there. So a conditional
  write that goes through writes back the list as it is.
* `ReworkCorrect`: under the guard (enforced, behind the queue of the DynamoDB board,
  nothing unreadable). `InOrder` is what that gives: one handler at a time on the first
  event, none for the sweep while one is queued, no rejection in it twice. `GuardHolds`
  then says that a rejection in hand has not been reworked before its claim, that
  from the claim to the rework the gate stays rejected, and that one already reworked
  is the first of the queue with the gate still rejected (so the second delivery finds
  the claim gone).
* `CapCorrect`: behind any queue, whatever the guard and the board, as long as the
  ledger can be written. By `InOrder` one handler at a time has a rejection in hand;
  `CapHolds` says that its copy of the rounds is the row's until it records its own, and
  that the new rounds which went to rework are among those counted. The rest is the ledger's
  arithmetic (`ReviewCap`): a round recorded is counted until a person authorizes it.

Only model-checked, or not true without more:

* Liveness (`DeadClaimRecovered`, `StolenClaimRedriven`, `CloseoutCompletes`,
  `ComesBeforeThePerson`, `RejectionAnswered`, `QueueDrains`, `UnblockedIsBegun`) and
  ENABLED, which are out of the prover's reach.
* `RetryBudget` without its hypotheses is not a theorem: with the detector writing, TLC finds
  three of its sweeps in flight at once and a third re-dispatch, without a fault. Two
  have counted on one stolen claim; the first re-dispatches; the third, having read
  the spent budget, escalates and sets the new claim to `error`, as that write names no
  generation; the second finds the claim free and re-dispatches as well. A decision of a
  person between a count and its re-dispatch makes it one too many, too. Sweeps of one
  kind are scheduled a minute or more apart (deploy.sh, template.yaml) and time out
  after 60 seconds, so that three of a kind take repeated invocations. One rule invokes both
  kinds, though: with both switched on, one of each is in flight at a time, which
  neither theorem covers; a search of the first eight million states of two such
  handlers has found no violation. The runs check `RetryBudget` with a writing
  detector for one handler at a time.
* `EscalationHolds` without its hypotheses fails on Jira (`escalation_undone`).

## Not modelled

* The agent runtimes, the invoker and the boards are external: what they can do
  to a claim is an action, how they do it is not.
* Pipeline tools, reporting Lambdas, console pages, prompts and deployment: I/O,
  formatting and presentation. Of the ticket backends and the workflow output
  tools, only what takes part in Done and in the close-out of a cancel is
  modelled; the rest translates calls to an external service.
* Within the modelled parts: wording, metrics, manifests, branches, contexts.
* What the plan has left, in its order: the start fence, the invoker's retry, the
  DynamoDB twin of the cascade.
