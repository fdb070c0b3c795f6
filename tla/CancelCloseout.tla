---------------------------- MODULE CancelCloseout ----------------------------
(***************************************************************************)
(* Cancelling a run: POST /api/workflow/[id]/cancel (cancel/route.ts).     *)
(* The first call moves the row to cancelled and marks the close-out and   *)
(* its event pending in one write; then, under a lease of five minutes, it *)
(* moves the follow-ups that wait for the deployment to an epic of their   *)
(* own, cancels the other open children, closes the run's epic and         *)
(* publishes workflow.cancelled.  The markers go only when all of that has *)
(* happened; until then every further call resumes the close-out.          *)
(*                                                                         *)
(* A call may be slow, die, or find a service failing at any step, agents  *)
(* go on working on the run's tickets, and a person may retry one.  The    *)
(* ticket backend is DynamoDB.                                             *)
(***************************************************************************)
EXTENDS Naturals, FiniteSets

CONSTANTS
    Callers,    \* concurrent calls of the route
    Tickets,    \* the children of the run's epic
    FollowUps,  \* those of them that wait for the deployment ticket only
    Epics,      \* ids a post-run epic may get
    Nobody,     \* no caller, no epic
    MaxMishaps  \* bound on crashes, failed calls and leases that run out

ASSUME FollowUpsAssumption == FollowUps \subseteq Tickets
ASSUME NobodyAssumption == Nobody \notin Callers \cup Epics
ASSUME EpicsAssumption == Epics # {} /\ "run" \notin Epics
ASSUME BoundAssumption == MaxMishaps \in Nat

VARIABLES
    row,      \* the run's row: what the cancel writes of it
    ticket,   \* status and epic of every child
    record,   \* children with a completion record in S3
    live,     \* children with a live claim in the row's agentTasks
    runEpic,  \* the status of the run's epic
    token,    \* the ticket backend's lock of the post-run epic's client_token
    epic,     \* the post-run epics there are
    caller,   \* where each call is, and what it holds
    sent,     \* workflow.cancelled has reached the event bus
    retry,    \* a retry that has released a claim and not yet moved its ticket
    reset,    \* children a retry has put back to ready
    mishaps   \* crashes and failed calls so far

vars == <<row, ticket, record, live, runEpic, token, epic, caller, sent, retry,
          reset, mishaps>>

\* What the calls leave alone: the agents' and the retry route's own state.
work == <<record, live, retry, reset>>

Closed == {"done", "cancelled"}
Statuses == {"blocked", "todo", "in_progress"} \cup Closed
Child == [status : Statuses, parent : {"run"} \cup Epics]

\* The lease holds its owner and whether its time is over.
Row == [cancelled : BOOLEAN, pending : BOOLEAN, owed : BOOLEAN,
        postRun : Epics \cup {Nobody}, lease : Callers \cup {Nobody}, expired : BOOLEAN]

Steps == {"idle", "commit", "lease", "list", "records", "find", "create", "claim",
          "move", "sweep", "epic", "publish", "release"}

\* What a call holds: its decision to resume, the claims and the post-run epic it
\* read with the row, the children it has listed, the sets it still has to work
\* through, whether anything was left open, and the event it owes.
Call == [pc : Steps, resume : BOOLEAN, live : SUBSET Tickets,
         epic : Epics \cup {Nobody}, seen : [Tickets -> Statuses \cup {"gone"}],
         todo : SUBSET Tickets, moving : SUBSET Tickets, sweep : SUBSET Tickets,
         dirty : BOOLEAN, event : {"none", "owed", "sent", "unsent"}]

Idle == [pc |-> "idle", resume |-> FALSE, live |-> {}, epic |-> Nobody,
         seen |-> [t \in Tickets |-> "gone"], todo |-> {}, moving |-> {},
         sweep |-> {}, dirty |-> FALSE, event |-> "none"]

TypeOK == /\ row \in Row
          /\ ticket \in [Tickets -> Child]
          /\ record \subseteq Tickets
          /\ live \subseteq Tickets
          /\ runEpic \in {"open", "cancelled"}
          /\ token \in Epics \cup {Nobody}
          /\ epic \subseteq Epics
          /\ caller \in [Callers -> Call]
          /\ sent \in BOOLEAN
          /\ retry \subseteq Tickets
          /\ reset \subseteq Tickets
          /\ mishaps \in 0..MaxMishaps

Init == /\ row = [cancelled |-> FALSE, pending |-> FALSE, owed |-> FALSE,
                  postRun |-> Nobody, lease |-> Nobody, expired |-> FALSE]
        /\ ticket = [t \in Tickets |->
                       [status |-> IF t \in FollowUps THEN "blocked" ELSE "todo",
                        parent |-> "run"]]
        /\ record = {} /\ live = {} /\ retry = {} /\ reset = {}
        /\ runEpic = "open"
        /\ token = Nobody /\ epic = {}
        /\ caller = [c \in Callers |-> Idle]
        /\ sent = FALSE
        /\ mishaps = 0

Mishap == /\ mishaps < MaxMishaps
          /\ mishaps' = mishaps + 1

At(c, pc) == caller[c].pc = pc
Leave(c) == caller' = [caller EXCEPT ![c] = Idle]
Goto(c, pc) == caller' = [caller EXCEPT ![c].pc = pc]

\* Something was left open or failed: the epic stays, and so does the marker.
GotoDirty(c, pc) == caller' = [caller EXCEPT ![c].pc = pc, ![c].dirty = TRUE]

\* A conditional write whose answer is lost.
PerhapsWritten(guard, new) == row' \in {row} \cup (IF guard THEN {new} ELSE {})

-----------------------------------------------------------------------------
(********************* The call: decision, commit, lease *******************)

\* The consistent read of the row.  A cancelled run with a pending close-out is
\* resumed, an open one is cancelled; every other call is refused.
Read(c) ==
    /\ At(c, "idle")
    /\ row.cancelled => row.pending
    /\ caller' = [caller EXCEPT ![c] =
           [Idle EXCEPT !.pc = IF row.cancelled THEN "lease" ELSE "commit",
                        !.resume = row.cancelled,
                        !.live = live,
                        !.epic = row.postRun,
                        !.event = IF row.cancelled /\ ~row.owed THEN "none" ELSE "owed"]]
    /\ UNCHANGED <<row, ticket, work, runEpic, token, epic, sent, mishaps>>

\* Phase and both markers in one write.
Cancelled == [row EXCEPT !.cancelled = TRUE, !.pending = TRUE, !.owed = TRUE]

\* Only an open run is cancelled; the loser of two cancels is refused.
Commit(c) ==
    /\ At(c, "commit")
    /\ \/ ~row.cancelled /\ row' = Cancelled /\ Goto(c, "lease") /\ UNCHANGED mishaps
       \/ row.cancelled /\ Leave(c) /\ UNCHANGED <<row, mishaps>>
       \/ Mishap /\ PerhapsWritten(~row.cancelled, Cancelled) /\ Leave(c)
    /\ UNCHANGED <<ticket, work, runEpic, token, epic, sent>>

\* Mutant: a lease does not expire.
LeaseReleased == row.lease = Nobody

\* Free when absent or expired.
LeaseFree == row.lease = Nobody \/ row.expired
Leased(c) == [row EXCEPT !.lease = c, !.expired = FALSE]

\* claimCloseoutLease.  A claim that throws ends the call, with the lease perhaps
\* on the row until it expires.
ClaimCloseoutLease(c) ==
    /\ At(c, "lease")
    /\ \/ LeaseFree /\ row' = Leased(c) /\ Goto(c, "list") /\ UNCHANGED mishaps
       \/ ~LeaseFree /\ Leave(c) /\ UNCHANGED <<row, mishaps>>
       \/ Mishap /\ PerhapsWritten(LeaseFree, Leased(c)) /\ Leave(c)
    /\ UNCHANGED <<ticket, work, runEpic, token, epic, sent>>

\* The five minutes are over.  That a call at work is slower counts as a mishap.
Expire ==
    /\ row.lease # Nobody /\ ~row.expired
    /\ row' = [row EXCEPT !.expired = TRUE]
    /\ \/ caller[row.lease].pc \in {"idle", "commit", "lease"} /\ UNCHANGED mishaps
       \/ Mishap
    /\ UNCHANGED <<ticket, work, runEpic, token, epic, caller, sent>>

-----------------------------------------------------------------------------
(********************* Follow-ups leave the run ****************************)

\* The children of the run's epic as they are listed.
Listing == [t \in Tickets |-> IF ticket[t].parent = "run" THEN ticket[t].status
                                                          ELSE "gone"]
Listed(seen) == {t \in Tickets : seen[t] # "gone"}

\* cdBlockedFollowUps: open children that wait for the deployment ticket alone.
CdBlocked(seen) == {t \in Listed(seen) \cap FollowUps : seen[t] \notin Closed}

\* The listing before any write.  Without it only the event is left to do.
List(c) ==
    /\ At(c, "list")
    /\ \/ /\ caller' = [caller EXCEPT ![c].pc = "records", ![c].seen = Listing,
                                      ![c].todo = CdBlocked(Listing)]
          /\ UNCHANGED mishaps
       \/ Mishap /\ GotoDirty(c, "publish")
    /\ UNCHANGED <<row, ticket, work, runEpic, token, epic, sent>>

\* One read of a follow-up's completion record: only one without a record moves.
ReadFollowUpRecord(c, t) ==
    /\ At(c, "records")
    /\ t \in caller[c].todo
    /\ \/ /\ caller' = [caller EXCEPT ![c].todo = @ \ {t},
                                      ![c].moving = @ \cup ({t} \ record)]
          /\ UNCHANGED mishaps
       \/ Mishap /\ caller' = [caller EXCEPT ![c].todo = @ \ {t}]
    /\ UNCHANGED <<row, ticket, work, runEpic, token, epic, sent>>

\* Mutant: the call moves its follow-ups without an epic to move them to.
AfterRecordsUnchecked(c) == "move"

\* Where a call goes with its follow-ups chosen; the sweep gets the others.
AfterRecords(c) == IF caller[c].epic # Nobody THEN "move"
                   ELSE IF caller[c].moving = {} THEN "sweep" ELSE "find"

ChooseFollowUps(c) ==
    /\ At(c, "records")
    /\ caller[c].todo = {}
    /\ caller' = [caller EXCEPT ![c].pc = AfterRecords(c),
                                ![c].sweep = Listed(caller[c].seen) \ caller[c].moving]
    /\ UNCHANGED <<row, ticket, work, runEpic, token, epic, sent, mishaps>>

\* No post-run epic, no move: the follow-ups stay, and the close-out is not clean.
GiveUpMove(c) == caller' = [caller EXCEPT ![c].pc = "sweep", ![c].moving = {},
                                          ![c].dirty = TRUE]

\* findPostRunEpic: an open epic nobody has claimed onto the row.
FindPostRunEpic(c) ==
    /\ At(c, "find")
    /\ \/ /\ \E e \in epic : caller' = [caller EXCEPT ![c].pc = "claim", ![c].epic = e]
          /\ UNCHANGED mishaps
       \/ epic = {} /\ Goto(c, "create") /\ UNCHANGED mishaps
       \/ Mishap /\ GiveUpMove(c)
    /\ UNCHANGED <<row, ticket, work, runEpic, token, epic, sent>>

\* Mutant: the create carries no client_token.
MintedAnew == CHOOSE e \in Epics : e \notin epic

\* The id a create answers with: the one its client_token is locked on, or else a
\* fresh one, whichever it is.
Minted == IF token = Nobody THEN CHOOSE e \in Epics : e \notin epic ELSE token

\* Tickets___create_ticket of the ticket backend: the lock first, then the epic.
CreatePostRunEpic(c) ==
    /\ At(c, "create")
    /\ LET e == Minted IN
          \/ /\ token' = e /\ epic' = epic \cup {e}
             /\ caller' = [caller EXCEPT ![c].pc = "claim", ![c].epic = e]
             /\ UNCHANGED mishaps
          \/ /\ Mishap
             /\ token' \in {token, e}
             /\ epic' \in IF token' = e THEN {epic, epic \cup {e}} ELSE {epic}
             /\ GiveUpMove(c)
    /\ UNCHANGED <<row, ticket, work, runEpic, sent>>

\* postRunEpicKey, written once.  The loser takes the winner's epic.
ClaimPostRunEpic(c) ==
    /\ At(c, "claim")
    /\ \/ /\ row.postRun = Nobody
          /\ row' = [row EXCEPT !.postRun = caller[c].epic]
          /\ Goto(c, "move")
          /\ UNCHANGED mishaps
       \/ /\ row.postRun # Nobody
          /\ caller' = [caller EXCEPT ![c].pc = "move", ![c].epic = row.postRun]
          /\ UNCHANGED <<row, mishaps>>
       \/ /\ Mishap
          /\ PerhapsWritten(row.postRun = Nobody, [row EXCEPT !.postRun = caller[c].epic])
          /\ GiveUpMove(c)
    /\ UNCHANGED <<ticket, work, runEpic, token, epic, sent>>

\* The status is the one the call has listed.
Unmoved(c, t) == ticket[t].status = caller[c].seen[t]

\* A follow-up under its new epic: detached, and unblocked if it was blocked.
Moved(c, t) == [status |-> IF ticket[t].status = "blocked" THEN "todo"
                                                           ELSE ticket[t].status,
                parent |-> caller[c].epic]

\* moveFollowUp: one conditional write.
MoveFollowUp(c, t) ==
    /\ At(c, "move")
    /\ t \in caller[c].moving
    /\ \/ /\ Unmoved(c, t)
          /\ ticket' = [ticket EXCEPT ![t] = Moved(c, t)]
          /\ caller' = [caller EXCEPT ![c].moving = @ \ {t}]
          /\ UNCHANGED mishaps
       \/ /\ ~Unmoved(c, t)
          /\ caller' = [caller EXCEPT ![c].moving = @ \ {t}, ![c].dirty = TRUE]
          /\ UNCHANGED <<ticket, mishaps>>
       \/ /\ Mishap
          /\ ticket' \in {ticket} \cup
                (IF Unmoved(c, t) THEN {[ticket EXCEPT ![t] = Moved(c, t)]} ELSE {})
          /\ caller' = [caller EXCEPT ![c].moving = @ \ {t}, ![c].dirty = TRUE]
    /\ UNCHANGED <<row, work, runEpic, token, epic, sent>>

\* What an earlier attempt has moved is counted, which takes another listing.
MovesDone(c) ==
    /\ At(c, "move")
    /\ caller[c].moving = {}
    /\ \/ Goto(c, "sweep") /\ UNCHANGED mishaps
       \/ Mishap /\ GotoDirty(c, "sweep")
    /\ UNCHANGED <<row, ticket, work, runEpic, token, epic, sent>>

-----------------------------------------------------------------------------
(************************ The sweep of the children ************************)

\* A child at work: its agent's claim was live when the row was read.
AtWork(c, t) == caller[c].seen[t] = "in_progress" /\ t \in caller[c].live

\* sweepTickets, first half: what is closed, at work or recorded is left alone.
Examine(c, t) ==
    /\ At(c, "sweep")
    /\ t \in caller[c].sweep
    /\ LET examined == [caller EXCEPT ![c].sweep = @ \ {t}]
           left == [examined EXCEPT ![c].dirty = TRUE]
       IN \/ /\ caller[c].seen[t] \in Closed
             /\ caller' = examined /\ UNCHANGED mishaps
          \/ /\ AtWork(c, t)
             /\ caller' = left /\ UNCHANGED mishaps
          \/ /\ caller[c].seen[t] \notin Closed /\ ~AtWork(c, t)
             /\ \/ /\ caller' = [examined EXCEPT ![c].todo = @ \cup ({t} \ record)]
                   /\ UNCHANGED mishaps
                \/ Mishap /\ caller' = left
    /\ UNCHANGED <<row, ticket, work, runEpic, token, epic, sent>>

\* Second half: the conditional cancel, lost if the status has changed.
CancelTicket(c, t) ==
    /\ At(c, "sweep")
    /\ t \in caller[c].todo
    /\ LET tried == [caller EXCEPT ![c].todo = @ \ {t}]
           left == [tried EXCEPT ![c].dirty = TRUE]
           hit == [ticket EXCEPT ![t].status = "cancelled"]
       IN \/ /\ Unmoved(c, t) /\ ticket' = hit
             /\ caller' = tried /\ UNCHANGED mishaps
          \/ /\ ~Unmoved(c, t)
             /\ caller' = left /\ UNCHANGED <<ticket, mishaps>>
          \/ /\ Mishap /\ caller' = left
             /\ ticket' \in {ticket} \cup (IF Unmoved(c, t) THEN {hit} ELSE {})
    /\ UNCHANGED <<row, work, runEpic, token, epic, sent>>

SweepDone(c) ==
    /\ At(c, "sweep")
    /\ caller[c].sweep = {} /\ caller[c].todo = {}
    /\ caller' = [caller EXCEPT ![c] =
           [Idle EXCEPT !.pc = IF caller[c].dirty THEN "publish" ELSE "epic",
                        !.dirty = caller[c].dirty,
                        !.event = caller[c].event]]
    /\ UNCHANGED <<row, ticket, work, runEpic, token, epic, sent, mishaps>>

\* The run's epic, closed by a clean sweep only.
CloseEpic(c) ==
    /\ At(c, "epic")
    /\ \/ runEpic' = "cancelled" /\ Goto(c, "publish") /\ UNCHANGED mishaps
       \/ Mishap /\ runEpic' \in {runEpic, "cancelled"} /\ GotoDirty(c, "publish")
    /\ UNCHANGED <<row, ticket, work, token, epic, sent>>

-----------------------------------------------------------------------------
(************************ The event and the release ************************)

\* publishCancelled, unless an earlier attempt has delivered the event.
PublishCancelled(c) ==
    /\ At(c, "publish")
    /\ \/ /\ caller[c].event = "none"
          /\ Goto(c, "release") /\ UNCHANGED <<sent, mishaps>>
       \/ /\ caller[c].event = "owed"
          /\ \/ /\ sent' = TRUE /\ UNCHANGED mishaps
                /\ caller' = [caller EXCEPT ![c].pc = "release", ![c].event = "sent"]
             \/ /\ Mishap /\ sent' \in {sent, TRUE}
                /\ caller' = [caller EXCEPT ![c].pc = "release", ![c].event = "unsent",
                                            ![c].dirty = TRUE]
    /\ UNCHANGED <<row, ticket, work, runEpic, token, epic>>

\* Mutant: only the event keeps the marker.
ReleasedWithEvent(c) == [row EXCEPT !.lease = Nobody,
                                    !.expired = FALSE,
                                    !.pending = @ /\ caller[c].event = "unsent",
                                    !.owed = @ /\ caller[c].event # "sent"]

\* The row without this attempt's lease: the markers go as far as the attempt got.
Released(c) == [row EXCEPT !.lease = Nobody,
                           !.expired = FALSE,
                           !.pending = @ /\ caller[c].dirty,
                           !.owed = @ /\ caller[c].event # "sent"]

\* releaseCloseoutLease: only as long as the lease on the row is one's own.
ReleaseCloseoutLease(c) ==
    /\ At(c, "release")
    /\ Leave(c)
    /\ \/ row.lease = c /\ row' = Released(c) /\ UNCHANGED mishaps
       \/ row.lease # c /\ UNCHANGED <<row, mishaps>>
       \/ Mishap /\ PerhapsWritten(row.lease = c, Released(c))
    /\ UNCHANGED <<ticket, work, runEpic, token, epic, sent>>

\* The process behind a call dies; its lease stays.
Die(c) ==
    /\ ~At(c, "idle")
    /\ Mishap
    /\ Leave(c)
    /\ UNCHANGED <<row, ticket, work, runEpic, token, epic, sent>>

-----------------------------------------------------------------------------
(********************* Agents and the retry route **************************)

others == <<row, runEpic, token, epic, caller, sent, mishaps>>

\* A dispatch moves the ticket to in_progress; it has seen the run open, perhaps
\* some time ago.
Start(t) ==
    /\ ticket[t] = [status |-> "todo", parent |-> "run"]
    /\ ticket' = [ticket EXCEPT ![t].status = "in_progress"]
    /\ UNCHANGED <<others, work>>

\* Mutant: the claim does not look at the phase.
ClaimAnyRun(t) ==
    /\ ticket[t] = [status |-> "in_progress", parent |-> "run"]
    /\ t \notin live \cup record
    /\ live' = live \cup {t}
    /\ UNCHANGED <<others, ticket, record, retry, reset>>

\* claimTicketInvocation: a cancelled run is never claimed.
Claim(t) ==
    /\ ticket[t] = [status |-> "in_progress", parent |-> "run"]
    /\ t \notin live \cup record
    /\ ~row.cancelled
    /\ live' = live \cup {t}
    /\ UNCHANGED <<others, ticket, record, retry, reset>>

\* The session writes its completion record, and its ticket is done.
Report(t) ==
    /\ t \in live \ record
    /\ record' = record \cup {t}
    /\ UNCHANGED <<others, ticket, live, retry, reset>>

Done(t) ==
    /\ t \in live \cap record
    /\ ticket[t].status = "in_progress"
    /\ ticket' = [ticket EXCEPT ![t].status = "done"]
    /\ live' = live \ {t}
    /\ UNCHANGED <<others, record, retry, reset>>

\* The retry route releases the claim of a session that is silent, or is forced
\* to, and then puts the ticket back to ready whatever its status is by then.
\* The bound: a child is retried once.
RetryRelease(t) ==
    /\ t \in live \ reset
    /\ live' = live \ {t}
    /\ retry' = retry \cup {t}
    /\ UNCHANGED <<others, ticket, record, reset>>

RetryReady(t) ==
    /\ t \in retry
    /\ retry' = retry \ {t}
    /\ reset' = reset \cup {t}
    /\ ticket' = [ticket EXCEPT ![t].status = "todo"]
    /\ UNCHANGED <<others, record, live>>

-----------------------------------------------------------------------------
CallStep(c) == \/ Commit(c) \/ ClaimCloseoutLease(c) \/ List(c) \/ ChooseFollowUps(c)
               \/ FindPostRunEpic(c) \/ CreatePostRunEpic(c) \/ ClaimPostRunEpic(c)
               \/ MovesDone(c) \/ SweepDone(c) \/ CloseEpic(c)
               \/ PublishCancelled(c) \/ ReleaseCloseoutLease(c)
               \/ \E t \in Tickets : \/ ReadFollowUpRecord(c, t) \/ MoveFollowUp(c, t)
                                     \/ Examine(c, t) \/ CancelTicket(c, t)

Agent(t) == Start(t) \/ Claim(t) \/ Report(t) \/ Done(t)

Next == \/ \E c \in Callers : Read(c) \/ CallStep(c) \/ Die(c)
        \/ \E t \in Tickets : Agent(t) \/ RetryRelease(t) \/ RetryReady(t)
        \/ Expire

Spec == Init /\ [][Next]_vars

\* The route's process goes on with a call it has taken; a lease runs out; as long
\* as the close-out is pending somebody calls again; a session that is at work
\* reports, and a retry that has begun ends.  No fault has to happen.
Fairness == /\ \A c \in Callers : WF_vars(Read(c) \/ CallStep(c))
            /\ \A t \in Tickets : WF_vars(Report(t) \/ Done(t) \/ RetryReady(t))
            /\ WF_vars(Expire)

FairSpec == Spec /\ Fairness

-----------------------------------------------------------------------------
(******************************* Properties ********************************)

\* A child the cancel has dealt with, or that keeps its status for a reason: it
\* has a completion record, or a person has put it back to ready.
Settled(t) == \/ ticket[t].parent # "run"
              \/ ticket[t].status \in Closed
              \/ t \in record \cup reset

\* The marker is honest.  Once the close-out of a cancelled run is no longer
\* pending (releaseCloseoutLease), the event has reached the bus, the run's epic is
\* closed and every child is settled - whichever calls took part, however slow they
\* were and wherever they died.
CloseoutHonest == row.cancelled /\ ~row.pending =>
                     /\ sent
                     /\ runEpic = "cancelled"
                     /\ \A t \in Tickets : Settled(t)

\* ensurePostRunEpic creates at most one post-run epic for a run, and every
\* follow-up that has left the run is under the one its row names.
OnePostRunEpic == /\ Cardinality(epic) <= 1
                  /\ \A t \in Tickets : ticket[t].parent \in {"run", row.postRun}

\* A resumed close-out never cancels a child under a live session (sweepTickets):
\* no claim begins after the cancel, so the claims read with the row cover them.
ResumeSparesSessions ==
    [][\A c \in Callers, t \in Tickets :
          CancelTicket(c, t) /\ ticket'[t] # ticket[t] /\ caller[c].resume
              => ~(ticket[t].status = "in_progress" /\ t \in live)]_vars

\* A cancelled run is closed out in the end, by whoever calls again (cancel/route.ts
\* head comment: the markers are kept "so a re-POST resumes").
CloseoutCompletes == row.cancelled ~> ~row.pending
=============================================================================
