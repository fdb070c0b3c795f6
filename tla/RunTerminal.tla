----------------------------- MODULE RunTerminal -----------------------------
(***************************************************************************)
(* The end of a run.  Every Done event of a run whose tickets are all      *)
(* closed brings an orchestrator invocation to completeWorkflow (index.mjs *)
(* 3287), which passes its gates and then closes the run by a conditional  *)
(* write: complete, or one of the two honest non-shipping outcomes.  A     *)
(* person or the workflow manager may close it through the complete route, *)
(* and anyone may cancel it.  The winner of the write owes the run its     *)
(* side effects - pull request, delivery record, epic, event - and stamps  *)
(* finalizedAt behind them.  An invocation that loses the write may take   *)
(* over the side effects of one that died (claimFinalization).             *)
(*                                                                         *)
(* Time is counted in units of the invocation limit; the model keeps the   *)
(* age of every invocation and of the run's completedAt.                   *)
(***************************************************************************)
EXTENDS Naturals, FiniteSets

CONSTANTS
    Invs,         \* concurrent orchestrator invocations
    Routes,       \* concurrent calls of the complete route
    OpenPhases,   \* the phases of a run that is still open
    FirstPhase,   \* the one a run starts in
    InvLimit,     \* an invocation is killed at this age (template.yaml: 60 s)
    StaleWindow,  \* a completion older than this may be taken over (5 min)
    IndexLags,    \* the handler found the run through the epicId-index
    MaxMishaps    \* bound on crashes, failed reads and failed writes

\* completion.mjs SHIP_BLOCKED_OUTCOMES and TERMINAL_WORKFLOW_PHASES.
ShipBlockedOutcomes == {"deploy-blocked", "static-ci-only"}
TerminalPhases == {"complete", "cancelled", "error"} \cup ShipBlockedOutcomes

ASSUME PhasesAssumption == /\ FirstPhase \in OpenPhases
                           /\ OpenPhases \cap TerminalPhases = {}
ASSUME TimeAssumption == /\ InvLimit \in Nat
                         /\ StaleWindow \in Nat
                         /\ 2 * InvLimit <= StaleWindow
                         /\ InvLimit > 0
ASSUME BoundAssumption == IndexLags \in BOOLEAN /\ MaxMishaps \in Nat

VARIABLES
    row,      \* the run's row in the workflows table
    inv,      \* where each orchestrator invocation is, and what it holds
    age,      \* how long each invocation has been running
    route,    \* the same for each call of the complete route
    cancel,   \* the cancel route
    work,     \* what the agents have delivered and GitHub knows
    epic,     \* where the epic stands on the board
    told,     \* the terminal events that have been published
    mishaps   \* crashes and failed calls so far

vars == <<row, inv, age, route, cancel, work, epic, told, mishaps>>

\* The facts a gate asks for: every required ticket has a deliverable; the ship
\* ticket reports a merge; GitHub shows the branch merged and no fix PR open.
Facts == {"evidence", "verdict", "landed"}

Verdicts == {"none", "shipped"} \cup ShipBlockedOutcomes

\* What an invocation holds: the phase of its snapshot of the run, the verdict
\* it has resolved, and whether it is finishing the completion of another.
Idle == [pc |-> "idle", snap |-> "none", verdict |-> "none", taker |-> FALSE]
Quiet == [pc |-> "idle", verdict |-> "none", seen |-> FALSE]

\* The steps of the side effects of a completion.
EffectSteps == {"deliver", "publish", "mark"}
InvSteps == {"idle", "enter", "evidence", "verdict", "probe", "block",
             "announce", "page", "stamp", "complete", "takeover"} \cup EffectSteps
RouteSteps == {"idle", "block", "announce", "rollup", "complete", "publish"}

Invocation == [pc : InvSteps, snap : {"none"} \cup OpenPhases \cup TerminalPhases,
               verdict : Verdicts, taker : BOOLEAN]
RouteCall == [pc : RouteSteps, verdict : Verdicts, seen : BOOLEAN]

\* The attributes of the row: age is the time since completedAt; paged says that
\* humanNotifications holds an escalation of the completion.
Row == [phase : OpenPhases \cup TerminalPhases,
        cancelledAt : BOOLEAN,
        finalizedAt : BOOLEAN,
        age : 0..(StaleWindow + 1),
        paged : BOOLEAN]

Init == /\ row = [phase |-> FirstPhase, cancelledAt |-> FALSE, finalizedAt |-> FALSE,
                  age |-> 0, paged |-> FALSE]
        /\ inv = [i \in Invs |-> Idle]
        /\ age = [i \in Invs |-> 0]
        /\ route = [r \in Routes |-> Quiet]
        /\ cancel = "idle"
        /\ work = {}
        /\ epic = "open"
        /\ told = {}
        /\ mishaps = 0

-----------------------------------------------------------------------------
(***************************** The run's row ******************************)

Terminal(phase) == phase \in TerminalPhases

\* The guard of every closing write of the completers.
Open == ~Terminal(row.phase) /\ ~row.cancelledAt

\* The closing write: phase and completedAt together.  completedAt was read
\* from the clock a moment d before the write took effect.
Closed(outcome, d) == [row EXCEPT !.phase = outcome, !.age = d]

\* markFinalized and the write of claimFinalization.
Finalized == [row EXCEPT !.finalizedAt = TRUE]

\* notifyCompletionBlockedOnce and the page of a blocked close.
Paged == [row EXCEPT !.paged = TRUE]

Mishap == /\ mishaps < MaxMishaps
          /\ mishaps' = mishaps + 1

\* publishEvent: a failure to publish is swallowed.
Publish(outcome) == \/ told' = told \cup {outcome} /\ UNCHANGED mishaps
                    \/ Mishap /\ UNCHANGED told

\* A conditional write whose answer is lost.
PerhapsWritten(guard, new) == row' \in {row} \cup (IF guard THEN {new} ELSE {})

Goto(i, pc) == inv' = [inv EXCEPT ![i].pc = pc]
Leave(i) == inv' = [inv EXCEPT ![i] = Idle]
At(i, pc) == inv[i].pc = pc

-----------------------------------------------------------------------------
(**************** completeWorkflow: from the Done event to the claim *******)

DeliverWith(i, phase) ==
    inv' = [inv EXCEPT ![i] = [Idle EXCEPT !.pc = "enter", !.snap = phase]]

\* A Done event finds every ticket of the run closed and calls completeWorkflow
\* with the row the handler has read: the row as it is now, or an older copy of
\* it if the run was looked up by its epic (the index is eventually consistent).
Deliver(i) ==
    /\ At(i, "idle")
    /\ \/ DeliverWith(i, row.phase)
       \/ IndexLags /\ \E p \in OpenPhases : DeliverWith(i, p)
    /\ age' = [age EXCEPT ![i] = 0]
    /\ UNCHANGED <<row, route, cancel, work, epic, told, mishaps>>

\* Nothing is owed by a run that is closed: neither by the snapshot nor, unless
\* the read fails, by the row as it is now.
EnterWith(i, live) == IF inv[i].snap = "complete" \/ Terminal(live)
                      THEN Leave(i)
                      ELSE inv' = [inv EXCEPT ![i] = [Idle EXCEPT !.pc = "evidence"]]

Enter(i) ==
    /\ At(i, "enter")
    /\ \/ EnterWith(i, row.phase) /\ UNCHANGED mishaps
       \/ EnterWith(i, inv[i].snap) /\ Mishap
    /\ UNCHANGED <<row, age, route, cancel, work, epic, told>>

\* The run stays open and a person is told, once.
LeaveOpen(i) == /\ row' = Paged
                /\ Leave(i)

\* The evidence gate.  A roster that cannot be read defers the completion, a
\* check that fails otherwise is skipped.
Evidence(i) ==
    /\ At(i, "evidence")
    /\ \/ "evidence" \notin work /\ LeaveOpen(i) /\ UNCHANGED mishaps
       \/ "evidence" \in work /\ Goto(i, "verdict") /\ UNCHANGED <<row, mishaps>>
       \/ Mishap /\ LeaveOpen(i)
       \/ Mishap /\ Goto(i, "verdict") /\ UNCHANGED row
    /\ UNCHANGED <<age, route, cancel, work, epic, told>>

\* The verdicts the ship tickets' entries support now.
VerdictNow == IF "verdict" \in work THEN {"shipped"} ELSE ShipBlockedOutcomes

\* The ship verdict; none when it cannot be resolved.
Verdict(i) ==
    /\ At(i, "verdict")
    /\ \/ /\ \E v \in VerdictNow :
                inv' = [inv EXCEPT ![i].pc = "probe", ![i].verdict = v]
          /\ UNCHANGED <<row, mishaps>>
       \/ Mishap /\ Goto(i, "probe") /\ UNCHANGED row
       \/ Mishap /\ LeaveOpen(i)
    /\ UNCHANGED <<age, route, cancel, work, epic, told>>

\* Where the verdict leads.
NextClaim(v) == IF v \in ShipBlockedOutcomes THEN "block" ELSE "complete"

\* The merge probe.  A branch that is provably not landed leaves the run open; a
\* proof is stamped on the ship entries, and the verdict taken again, unless an
\* entry records a block; a probe that is not configured, does not apply to a
\* handoff or does not answer changes nothing.  If the run cannot be read again
\* for the second verdict, the check is passed over with the first.
Probe(i) ==
    /\ At(i, "probe")
    /\ \/ "landed" \notin work /\ LeaveOpen(i) /\ UNCHANGED <<work, mishaps>>
       \/ /\ "landed" \in work
          /\ inv[i].verdict \in ShipBlockedOutcomes
          /\ inv' = [inv EXCEPT ![i].pc = "complete", ![i].verdict = "shipped"]
          /\ work' = work \cup {"verdict"}
          /\ UNCHANGED <<row, mishaps>>
       \/ /\ "landed" \in work
          /\ inv[i].verdict \in ShipBlockedOutcomes
          /\ Mishap
          /\ Goto(i, "complete")
          /\ work' \in {work, work \cup {"verdict"}}
          /\ UNCHANGED row
       \/ Goto(i, NextClaim(inv[i].verdict)) /\ UNCHANGED <<row, work, mishaps>>
    /\ UNCHANGED <<age, route, cancel, epic, told>>

-----------------------------------------------------------------------------
(***************** closeWorkflowBlocked: the honest close ******************)

\* claimTerminalOutcome.  The loser returns.  A write that throws - it may have
\* taken effect - is caught in completeWorkflow as a failed verdict check, and
\* the invocation goes on to claim the completion.
ClaimTerminalOutcome(i) ==
    /\ At(i, "block")
    /\ \/ /\ Open
          /\ \E d \in 0..age[i] : row' = Closed(inv[i].verdict, d)
          /\ Goto(i, "announce")
          /\ UNCHANGED mishaps
       \/ ~Open /\ Leave(i) /\ UNCHANGED <<row, mishaps>>
       \/ /\ Mishap
          /\ Goto(i, "complete")
          /\ \E d \in 0..age[i] : PerhapsWritten(Open, Closed(inv[i].verdict, d))
    /\ UNCHANGED <<age, route, cancel, work, epic, told>>

\* The terminal verdict event.
AnnounceBlocked(i) ==
    /\ At(i, "announce")
    /\ Publish(inv[i].verdict)
    /\ Goto(i, "page")
    /\ UNCHANGED <<row, age, route, cancel, work, epic>>

\* A person is told; a failure is swallowed.
PageBlocked(i) ==
    /\ At(i, "page")
    /\ Goto(i, "stamp")
    /\ \/ row' = Paged /\ UNCHANGED mishaps
       \/ Mishap /\ UNCHANGED row
    /\ UNCHANGED <<age, route, cancel, work, epic, told>>

\* finalizedAt.  A failed write is caught in completeWorkflow like a failed claim.
StampBlocked(i) ==
    /\ At(i, "stamp")
    /\ \/ row' = Finalized /\ Leave(i) /\ UNCHANGED mishaps
       \/ Mishap /\ Goto(i, "complete") /\ UNCHANGED row
    /\ UNCHANGED <<age, route, cancel, work, epic, told>>

-----------------------------------------------------------------------------
(************** completeWorkflow: the claim and the side effects ***********)

\* Mutant: a write whose answer is lost is taken for won.
ClaimCompleteOptimistic(i) ==
    /\ At(i, "complete")
    /\ \/ /\ Open
          /\ row' = Closed("complete", 0)
          /\ Goto(i, "deliver")
          /\ UNCHANGED mishaps
       \/ ~Open /\ Goto(i, "takeover") /\ UNCHANGED <<row, mishaps>>
       \/ /\ Mishap
          /\ Goto(i, "deliver")
          /\ PerhapsWritten(Open, Closed("complete", 0))
    /\ UNCHANGED <<age, route, cancel, work, epic, told>>

\* store.completeWorkflow.  A write that throws fails the invocation; the event
\* comes again.
ClaimComplete(i) ==
    /\ At(i, "complete")
    /\ \/ /\ Open
          /\ \E d \in 0..age[i] : row' = Closed("complete", d)
          /\ Goto(i, "deliver")
          /\ UNCHANGED mishaps
       \/ ~Open /\ Goto(i, "takeover") /\ UNCHANGED <<row, mishaps>>
       \/ /\ Mishap
          /\ Leave(i)
          /\ \E d \in 0..age[i] : PerhapsWritten(Open, Closed("complete", d))
    /\ UNCHANGED <<age, route, cancel, work, epic, told>>

\* Mutant: the take-over does not wait.
AbandonedAtOnce == row.phase = "complete" /\ ~row.finalizedAt /\ ~row.cancelledAt

\* The guard of claimFinalization: the completion is old and nobody finished it.
Abandoned == /\ row.phase = "complete"
             /\ ~row.finalizedAt
             /\ ~row.cancelledAt
             /\ row.age > StaleWindow

\* claimFinalization by an invocation that has lost the claim.
ClaimFinalization(i) ==
    /\ At(i, "takeover")
    /\ \/ /\ Abandoned
          /\ row' = Finalized
          /\ inv' = [inv EXCEPT ![i].pc = "deliver", ![i].taker = TRUE]
          /\ UNCHANGED mishaps
       \/ ~Abandoned /\ Leave(i) /\ UNCHANGED <<row, mishaps>>
       \/ /\ Mishap
          /\ Leave(i)
          /\ PerhapsWritten(Abandoned, Finalized)
    /\ UNCHANGED <<age, route, cancel, work, epic, told>>

\* The pull request of a run without a ship phase, the delivery record, and the
\* epic's move to Done.  Each is tried; one that fails is logged and passed over.
SideEffects(i) ==
    /\ At(i, "deliver")
    /\ epic' \in {epic, "Done"}
    /\ Goto(i, "publish")
    /\ UNCHANGED <<row, age, route, cancel, work, told, mishaps>>

\* The event workflow.complete.
PublishComplete(i) ==
    /\ At(i, "publish")
    /\ Publish("complete")
    /\ Goto(i, "mark")
    /\ UNCHANGED <<row, age, route, cancel, work, epic>>

\* markFinalized: the durable marker, behind the side effects.
MarkFinalized(i) ==
    /\ At(i, "mark")
    /\ Leave(i)
    /\ \/ row' = Finalized /\ UNCHANGED mishaps
       \/ Mishap /\ UNCHANGED row
    /\ UNCHANGED <<age, route, cancel, work, epic, told>>

\* The invocation is killed, at its limit or before.
Die(i) ==
    /\ ~At(i, "idle")
    /\ Mishap
    /\ Leave(i)
    /\ UNCHANGED <<row, age, route, cancel, work, epic, told>>

-----------------------------------------------------------------------------
(*************************** The complete route ****************************)

\* The consistent read and the gates.  The verdict and the notifications are
\* those of this read; a landing probe that proves nothing lets the call pass.
RouteRead(r) ==
    /\ route[r].pc = "idle"
    /\ Open
    /\ \/ "evidence" \in work /\ UNCHANGED mishaps
       \/ Mishap
    /\ \E v \in VerdictNow \cup {"none"} :
          route' = [route EXCEPT ![r] =
             [pc |-> IF v \in ShipBlockedOutcomes THEN "block" ELSE "rollup",
              verdict |-> v, seen |-> row.paged]]
    /\ UNCHANGED <<row, inv, age, cancel, work, epic, told>>

RouteGoto(r, pc) == route' = [route EXCEPT ![r].pc = pc]
RouteLeave(r) == route' = [route EXCEPT ![r] = Quiet]

\* The route's closing writes put back the notifications it has read.  It has no
\* time limit of its own; between its clock and its write lies at most one call of
\* the board, taken to be shorter than an invocation's limit.
RouteClosed(r, outcome, d) == [Closed(outcome, d) EXCEPT !.paged = route[r].seen]

\* closeBlocked: its write.  As in the orchestrator, a write that throws is
\* caught as a failed verdict check and the call goes on to complete the run.
RouteClaimBlocked(r) ==
    /\ route[r].pc = "block"
    /\ \/ /\ Open
          /\ \E d \in 0..InvLimit : row' = RouteClosed(r, route[r].verdict, d)
          /\ RouteGoto(r, "announce")
          /\ UNCHANGED mishaps
       \/ ~Open /\ RouteLeave(r) /\ UNCHANGED <<row, mishaps>>
       \/ /\ Mishap
          /\ RouteGoto(r, "rollup")
          /\ \E d \in 0..InvLimit :
                PerhapsWritten(Open, RouteClosed(r, route[r].verdict, d))
    /\ UNCHANGED <<inv, age, cancel, work, epic, told>>

RouteAnnounceBlocked(r) ==
    /\ route[r].pc = "announce"
    /\ Publish(route[r].verdict)
    /\ RouteLeave(r)
    /\ UNCHANGED <<row, inv, age, cancel, work, epic>>

\* The epic is moved to Done before the route knows that it closes the run.
RouteRollUp(r) ==
    /\ route[r].pc = "rollup"
    /\ epic' \in {epic, "Done"}
    /\ RouteGoto(r, "complete")
    /\ UNCHANGED <<row, inv, age, cancel, work, told, mishaps>>

\* The completing write; the loser answers 409, a write that throws 500.
RouteClaimComplete(r) ==
    /\ route[r].pc = "complete"
    /\ \/ /\ Open
          /\ \E d \in 0..InvLimit : row' = RouteClosed(r, "complete", d)
          /\ RouteGoto(r, "publish")
          /\ UNCHANGED mishaps
       \/ ~Open /\ RouteLeave(r) /\ UNCHANGED <<row, mishaps>>
       \/ /\ Mishap
          /\ RouteLeave(r)
          /\ \E d \in 0..InvLimit : PerhapsWritten(Open, RouteClosed(r, "complete", d))
    /\ UNCHANGED <<inv, age, cancel, work, epic, told>>

\* The event workflow.complete; the route writes no finalizedAt.
RoutePublish(r) ==
    /\ route[r].pc = "publish"
    /\ Publish("complete")
    /\ RouteLeave(r)
    /\ UNCHANGED <<row, inv, age, cancel, work, epic>>

RouteDie(r) ==
    /\ route[r].pc # "idle"
    /\ Mishap
    /\ RouteLeave(r)
    /\ UNCHANGED <<row, inv, age, cancel, work, epic, told>>

-----------------------------------------------------------------------------
(************************** Everyone else **********************************)

\* The cancelling write: phase and cancelledAt together, guarded by the phase.
CancelClaim ==
    /\ ~Terminal(row.phase)
    /\ row' = [row EXCEPT !.phase = "cancelled", !.cancelledAt = TRUE]
    /\ cancel' = "closeout"
    /\ UNCHANGED <<inv, age, route, work, epic, told, mishaps>>

\* The event of the close-out.  A cancel that dies before it, or fails to publish,
\* is resumed by the next call from the marker the cancelling write has left.
CancelPublish ==
    /\ cancel = "closeout"
    /\ told' = told \cup {"cancelled"}
    /\ cancel' = "done"
    /\ UNCHANGED <<row, inv, age, route, work, epic, mishaps>>

\* Mutant: the write has no condition.
AdvanceAnyPhase(p) ==
    /\ row' = [row EXCEPT !.phase = p]
    /\ UNCHANGED <<inv, age, route, cancel, work, epic, told, mishaps>>

\* advancePhase of a dispatcher that has claimed a ticket of phase p, however
\* long ago it has read the run.
AdvancePhase(p) ==
    /\ Open
    /\ row' = [row EXCEPT !.phase = p]
    /\ UNCHANGED <<inv, age, route, cancel, work, epic, told, mishaps>>

\* The agents deliver; GitHub learns of a merge.
WorkArrives(fact) ==
    /\ fact \notin work
    /\ work' = work \cup {fact}
    /\ UNCHANGED <<row, inv, age, route, cancel, epic, told, mishaps>>

\* Mutant: an invocation may run for ever.
TickWithoutLimit ==
    /\ age' = [i \in Invs |-> IF At(i, "idle") THEN age[i] ELSE age[i] + 1]
    /\ UNCHANGED <<row, inv, route, cancel, work, epic, told, mishaps>>

\* Time passes; an invocation is not let past its limit.
Tick ==
    /\ \A i \in Invs : At(i, "idle") \/ age[i] < InvLimit
    /\ age' = [i \in Invs |-> IF At(i, "idle") THEN age[i] ELSE age[i] + 1]
    /\ row' = [row EXCEPT !.age = IF row.phase \in {"complete"} \cup ShipBlockedOutcomes
                                     /\ @ <= StaleWindow THEN @ + 1 ELSE @]
    /\ UNCHANGED <<inv, route, cancel, work, epic, told, mishaps>>

-----------------------------------------------------------------------------
InvStep(i) == \/ Enter(i) \/ Evidence(i) \/ Verdict(i) \/ Probe(i)
              \/ ClaimTerminalOutcome(i) \/ AnnounceBlocked(i) \/ PageBlocked(i)
              \/ StampBlocked(i) \/ ClaimComplete(i) \/ ClaimFinalization(i)
              \/ SideEffects(i) \/ PublishComplete(i) \/ MarkFinalized(i)

RouteStep(r) == \/ RouteClaimBlocked(r) \/ RouteAnnounceBlocked(r) \/ RouteRollUp(r)
                \/ RouteClaimComplete(r) \/ RoutePublish(r)

Next == \/ \E i \in Invs : Deliver(i) \/ InvStep(i) \/ Die(i)
        \/ \E r \in Routes : RouteRead(r) \/ RouteStep(r) \/ RouteDie(r)
        \/ CancelClaim
        \/ CancelPublish
        \/ \E p \in OpenPhases : AdvancePhase(p)
        \/ \E fact \in Facts : WorkArrives(fact)
        \/ Tick

Spec == Init /\ [][Next]_vars

-----------------------------------------------------------------------------
(****************************** Properties *********************************)

TypeOK ==
    /\ row \in Row
    /\ inv \in [Invs -> Invocation]
    /\ age \in [Invs -> 0..InvLimit]
    /\ route \in [Routes -> RouteCall]
    /\ cancel \in {"idle", "closeout", "done"}
    /\ work \subseteq Facts
    /\ epic \in {"open", "Done"}
    /\ told \subseteq TerminalPhases
    /\ mishaps \in 0..MaxMishaps

Outcome == IF Terminal(row.phase) THEN row.phase ELSE "open"

Ending == INSTANCE RunOutcome WITH Outcomes <- TerminalPhases,
                                   outcome <- Outcome, told <- told

\* The run is closed once, with one outcome, whoever closes it and whatever a
\* dispatcher still writes to it; and no event names another outcome than the
\* row: a completer that dies, falls through a failed block or arrives late
\* never announces what did not happen (workflow-store.mjs:981-990).
OutcomeSpec == Ending!Spec

\* Two invocations never carry out the side effects of one completion at the
\* same time: an invocation that takes over finds its predecessor dead, and
\* only one takes over (workflow-store.mjs:1063-1070).
OneFinalizer == \A i, j \in Invs :
    inv[i].pc \in EffectSteps /\ inv[j].pc \in EffectSteps => i = j

\* The side effects belong to a run that is complete: no pull request, epic move
\* or event is started for a run that was cancelled or closed as not shipped
\* while the completer was on its way (index.mjs:3558-3571).
EffectsFollowTheClaim ==
    (\E i \in Invs : inv[i].pc \in EffectSteps) => row.phase = "complete"

\* An invocation that has lost the completing write finds the completion
\* abandoned.  Without an old row from the index none ever does: a snapshot read
\* before the completion is too young for the window by the time it is used.
TakeOverGranted == \E i \in Invs : inv[i].pc = "takeover" /\ Abandoned

\* What the ship gate promises (index.mjs:3431-3435): work that did not ship
\* closes the run on an honest outcome, "never a silent stall, never a fake
\* complete".  Whoever wins the completing write has not itself resolved a
\* verdict against it.
NeverFakeComplete ==
    /\ \A i \in Invs : inv[i].pc \in EffectSteps /\ ~inv[i].taker
                           => inv[i].verdict \notin ShipBlockedOutcomes
    /\ \A r \in Routes : route[r].pc = "publish"
                           => route[r].verdict \notin ShipBlockedOutcomes
=============================================================================
