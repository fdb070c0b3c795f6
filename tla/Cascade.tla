-------------------------------- MODULE Cascade --------------------------------
(***************************************************************************)
(* How the tickets of one run set each other going: the Done handler's     *)
(* cascade to the tickets a closed one blocked, the Ready handler it leads *)
(* to, and the reconcile sweep behind them, which comes round through the  *)
(* rotating window (lambda/orchestrator: index.mjs, cascade.mjs,           *)
(* reconcile-sweep.mjs, sweep-scan.mjs), on a Jira board, with the sweep   *)
(* in the mode enforce and CASCADE_EXTENDED_STATES off.                    *)
(*                                                                         *)
(* A handler is one Lambda invocation.  It reads its tickets from a search *)
(* index that lags behind the board, and acts on those rows later.  Status *)
(* events arrive in any order, as they do without the command queue, whose *)
(* order is one of these; a crashed handler's event comes again or is      *)
(* lost.  A dispatch is one step here: what happens between its claim and  *)
(* its session, and to a session that dies, is ClaimLease's.               *)
(***************************************************************************)
EXTENDS SweepScan, FiniteSets

CONSTANTS
  Tickets,      \* the tickets of the run, all with agents
  NoTicket,
  BlockedBy,    \* BlockedBy[t]: the tickets that block t
  Handlers,     \* concurrent Lambda invocations
  LevelTrigger, \* LEVEL_TRIGGER_DISPATCH
  MaxUpsets,    \* bound: crashes, failed calls, lost and repeated events,
                \* tickets sent back for rework, other runs that open or close
  Completing,   \* bound: tickets whose agents finish
  MaxOthers,    \* bound: other open runs at a time
  Cycle         \* quanta are counted modulo this

ASSUME TicketsAssumption == NoTicket \notin Tickets
ASSUME BlockedByAssumption ==
  BlockedBy \in [Tickets -> SUBSET Tickets] /\ \A t \in Tickets : t \notin BlockedBy[t]
ASSUME LevelTriggerAssumption == LevelTrigger \in {"off", "enforce"}
ASSUME BoundsAssumption ==
  MaxUpsets \in Nat /\ MaxOthers \in Nat /\ Completing \subseteq Tickets
\* Counting modulo Cycle changes no rotation.
ASSUME CycleAssumption ==
  Cycle \in Nat \ {0} /\ \A n \in 1 .. MaxOthers + 1 : Cycle % Pages(n) = 0

\* "blocked" stands for Blocked and To Do, which the cascade treats alike.
Statuses == {"blocked", "ready", "in_progress", "done"}
TaskStatuses == {"pending", "ready", "running", "complete"}
Rows == [Tickets -> Statuses]
Events == {"ready", "done"} \X Tickets
Steps == {"idle", "mark", "children", "fan", "level", "siblings", "redrive"}
\* closed: whose Done it handles, while that matters.  waiting, ready: the
\* dependents due, by the status their rows showed.  deferred: those whose
\* blockers looked open.  now: the one being dispatched.  claimed: the claims
\* a sweep saw held.
Jobs == [pc : Steps, closed : Tickets \cup {NoTicket}, now : Tickets \cup {NoTicket},
         waiting : SUBSET Tickets, ready : SUBSET Tickets,
         deferred : SUBSET Tickets, claimed : SUBSET Tickets]

VARIABLES
  board,    \* board[t]: the ticket's status
  index,    \* index[t]: the status the search index has for it
  task,     \* task[t]: agentTasks[t].status
  session,  \* session[t]: the newest agent session of the ticket
  ever,     \* history: the tickets that have been Done
  events,   \* status events not yet (finally) delivered
  job,      \* job[w]: where handler w stands and what it has read
  ahead,    \* other open runs, newer than this one...
  behind,   \* ...and older
  quantum,  \* the rotation quantum of the clock
  waited,   \* quanta begun since a sweep had this run, or the list changed
  upsets    \* crashes, failed calls, reopens... so far

vars == <<board, index, task, session, ever, events, job, ahead, behind,
          quantum, waited, upsets>>
ticketVars == <<board, index, task, session, ever, events>>
listVars == <<ahead, behind>>
sweepVars == <<quantum, waited>>

Roots == {t \in Tickets : BlockedBy[t] = {}}
Open == ahead + behind + 1

Idle == [pc |-> "idle", closed |-> NoTicket, now |-> NoTicket, waiting |-> {},
         ready |-> {}, deferred |-> {}, claimed |-> {}]

\* The run has begun: the tickets nothing blocks are at work.
Init ==
  /\ board = [t \in Tickets |-> IF t \in Roots THEN "in_progress" ELSE "blocked"]
  /\ index = board
  /\ task = [t \in Tickets |-> IF t \in Roots THEN "running" ELSE "pending"]
  /\ session = [t \in Tickets |-> IF t \in Roots THEN "alive" ELSE "none"]
  /\ ever = {} /\ events = {}
  /\ job = [w \in Handlers |-> Idle]
  /\ ahead \in 0 .. MaxOthers /\ behind = MaxOthers - ahead
  /\ quantum = 0 /\ waited = 0
  /\ upsets = 0

-------------------------------------------------------------------------------
(* Shared pieces *)

\* A handler with nothing left to do is over.
Over(j) == j.pc \in {"fan", "redrive"} /\ j.waiting \cup j.ready \cup j.deferred = {}
Go(w, j) == job' = [job EXCEPT ![w] = IF Over(j) THEN Idle ELSE j]
Finish(w) == job' = [job EXCEPT ![w] = Idle]

\* One more upset, while the bound allows it.
Upset == upsets < MaxUpsets /\ upsets' = upsets + 1

\* A delivered event may be delivered again.
Deliver(e) ==
  /\ e \in events
  /\ \/ events' = events \ {e} /\ UNCHANGED upsets
     \/ Upset /\ UNCHANGED events

\* Mutant: one closed blocker is enough.
SomeBlockerResolved(t, closed) ==
  \E b \in BlockedBy[t] : b = closed \/ index[b] = "done"

\* allBlockersResolved, in the rows just read; the ticket that closed counts.
BlockersResolved(t, closed) ==
  \A b \in BlockedBy[t] : b = closed \/ index[b] = "done"

WithRow(ts, status) == {t \in ts : index[t] = status}

\* Mutant: the board's word for it in the task table.
StartAsOnBoard(t) ==
  /\ task' = [task EXCEPT ![t] = "in_progress"]
  /\ session' = [session EXCEPT ![t] = "alive"]

Start(t) ==
  /\ task' = [task EXCEPT ![t] = "running"]
  /\ session' = [session EXCEPT ![t] = "alive"]

\* handleTicketReadyUnified: the claim, In Progress, the session.  Without the
\* transition a recovery gives its claim back and any other dispatch goes on.
Dispatch(t) ==
  \/ /\ task[t] = "running"
     /\ UNCHANGED <<task, session, board, upsets>>
  \/ /\ task[t] # "running"
     /\ Start(t)
     /\ board' = [board EXCEPT ![t] = "in_progress"]
     /\ UNCHANGED upsets
  \/ /\ task[t] # "running"
     /\ Upset
     /\ IF board[t] = "blocked"
        THEN task' = [task EXCEPT ![t] = "ready"] /\ UNCHANGED session
        ELSE Start(t)
     /\ UNCHANGED board

-------------------------------------------------------------------------------
(* The Done handler and its cascade *)

\* handleTicketDoneUnified: a completion already marked is not cascaded again.
ReceiveDone(w, t) ==
  /\ job[w] = Idle
  /\ Deliver(<<"done", t>>)
  /\ job' = IF task[t] = "complete" THEN job
            ELSE [job EXCEPT ![w] = [Idle EXCEPT !.pc = "mark", !.closed = t]]
  /\ UNCHANGED <<board, index, task, session, ever, listVars, sweepVars>>

\* markTaskComplete.
MarkComplete(w) ==
  /\ job[w].pc = "mark"
  /\ task' = [task EXCEPT ![job[w].closed] = "complete"]
  /\ Go(w, [job[w] EXCEPT !.pc = "children"])
  /\ UNCHANGED <<board, index, session, ever, events, listVars, sweepVars, upsets>>

\* Goes on with the dependents that are due; one that is under way or closed
\* gets at most a nudge, while its lease is live.
FanOut(w, due, deferred) ==
  Go(w, [job[w] EXCEPT !.pc = "fan", !.waiting = WithRow(due, "blocked"),
                       !.ready = WithRow(due, "ready"), !.deferred = deferred,
                       !.closed = IF deferred = {} THEN NoTicket ELSE @])

\* cascadeUnblock reads the children: a dependent with all its blockers resolved
\* in these rows is due, any other is deferred.  A failed read is caught.
ReadChildren(w) ==
  /\ job[w].pc = "children"
  /\ LET waits == {t \in Tickets : job[w].closed \in BlockedBy[t]}
         due == {t \in waits : BlockersResolved(t, job[w].closed)}
     IN \/ FanOut(w, due, waits \ due) /\ UNCHANGED upsets
        \/ Upset /\ Finish(w)
  /\ UNCHANGED <<ticketVars, listVars, sweepVars>>

\* The one retry, against rows read again.
ReadAgain(w) ==
  /\ job[w].pc = "fan" /\ job[w].waiting \cup job[w].ready = {}
  /\ \/ /\ FanOut(w, {t \in job[w].deferred : BlockersResolved(t, job[w].closed)}, {})
        /\ UNCHANGED upsets
     \/ Upset /\ Finish(w)
  /\ UNCHANGED <<ticketVars, listVars, sweepVars>>

\* The dependent has been handled, but for the level trigger.
Handled(w, t) ==
  LET rest == [job[w] EXCEPT !.waiting = @ \ {t}, !.ready = @ \ {t}]
  IN Go(w, IF LevelTrigger = "enforce"
           THEN [rest EXCEPT !.pc = "level", !.now = t] ELSE rest)

\* transitionToReady: it looks at no status but the one in the rows, and a
\* transition Jira refuses goes unnoticed.
MakeReady(w, t) ==
  /\ job[w].pc = "fan" /\ t \in job[w].waiting
  /\ \/ /\ board' = [board EXCEPT ![t] = "ready"]
        /\ events' = IF board[t] = "ready" THEN events ELSE events \cup {<<"ready", t>>}
        /\ UNCHANGED upsets
     \/ Upset /\ UNCHANGED <<board, events>>
  /\ Handled(w, t)
  /\ UNCHANGED <<index, task, session, ever, listVars, sweepVars>>

\* Ready already: only the level trigger dispatches it.
FindReady(w, t) ==
  /\ job[w].pc = "fan" /\ t \in job[w].ready
  /\ Handled(w, t)
  /\ UNCHANGED <<ticketVars, listVars, sweepVars, upsets>>

\* levelDispatch, in process; a throw is caught.
LevelDispatch(w) ==
  /\ job[w].pc = "level"
  /\ Dispatch(job[w].now)
  /\ Go(w, [job[w] EXCEPT !.pc = "fan", !.now = NoTicket])
  /\ UNCHANGED <<index, ever, events, listVars, sweepVars>>

-------------------------------------------------------------------------------
(* The Ready handler *)

\* processStatusChange: on Jira no blocker and no status is looked at again.
ReceiveReady(t) ==
  /\ <<"ready", t>> \in events
  /\ events' = events \ {<<"ready", t>>}
  /\ Dispatch(t)
  /\ UNCHANGED <<index, ever, job, listVars, sweepVars>>

-------------------------------------------------------------------------------
(* The reconcile sweep *)

\* The scan: the runs of this quantum's window, with their claims.  A sweep is
\* scheduled no more often than its Lambda times out, and often enough for the
\* quantum to advance by at most one between two sweeps.
ScanRuns(w, ticks) ==
  /\ job[w] = Idle
  /\ \A v \in Handlers : job[v].pc \notin {"siblings", "redrive"}
  /\ quantum' = (quantum + ticks) % Cycle
  /\ IF InWindow(ahead, Open, quantum')
     THEN /\ Go(w, [Idle EXCEPT !.pc = "siblings",
                         !.claimed = {t \in Tickets : task[t] = "running"}])
          /\ waited' = 0
     ELSE waited' = waited + ticks /\ UNCHANGED job
  /\ UNCHANGED <<ticketVars, listVars, upsets>>

\* Mutant: a ticket that is still blocked is no candidate.
ReadyCandidates(held) ==
  {t \in WithRow(Tickets \ held, "ready") : BlockersResolved(t, NoTicket)}

\* Waiting, all blockers closed, the claim not live.  A Jira ticket has no
\* updatedAt and passes for parked long enough.
Candidates(held) ==
  {t \in WithRow(Tickets \ held, "blocked") \cup WithRow(Tickets \ held, "ready") :
    BlockersResolved(t, NoTicket)}

\* The run's tickets are read once for all its candidates.
ReadSiblings(w) ==
  /\ job[w].pc = "siblings"
  /\ \/ /\ Go(w, [Idle EXCEPT !.pc = "redrive", !.waiting = Candidates(job[w].claimed)])
        /\ UNCHANGED upsets
     \/ Upset /\ Finish(w)
  /\ UNCHANGED <<ticketVars, listVars, sweepVars>>

\* reconcileDependent: dispatchReady, whatever became of the ticket since.
Redrive(w, t) ==
  /\ job[w].pc = "redrive" /\ t \in job[w].waiting
  /\ Dispatch(t)
  /\ Go(w, [job[w] EXCEPT !.waiting = @ \ {t}])
  /\ UNCHANGED <<index, ever, events, listVars, sweepVars>>

-------------------------------------------------------------------------------
(* Agents, people, Lambda, the index and the other runs *)

\* The agent reports its ticket Done.
Complete(t) ==
  /\ t \in Completing /\ session[t] = "alive"
  /\ session' = [session EXCEPT ![t] = "ended"]
  /\ board' = [board EXCEPT ![t] = "done"]
  /\ ever' = ever \cup {t}
  /\ events' = events \cup {<<"done", t>>}
  /\ UNCHANGED <<index, task, job, listVars, sweepVars, upsets>>

\* A rejected review sends a ticket that nothing blocks back to its agent: Ready
\* and dispatched (ReviewGate).
Reopen(t) ==
  /\ Upset
  /\ board[t] = "done" /\ task[t] = "complete"
  /\ \A b \in BlockedBy[t] : board[b] = "done"
  /\ Start(t)
  /\ board' = [board EXCEPT ![t] = "in_progress"]
  /\ UNCHANGED <<index, ever, events, job, listVars, sweepVars>>

\* A handler dies; its event comes again or, sent directly, is lost.  Once it is
\* marked, an event that comes again is dropped.
Crash(w) ==
  /\ job[w] # Idle
  /\ Upset
  /\ Finish(w)
  /\ \/ UNCHANGED events
     \/ job[w].pc = "mark" /\ events' = events \cup {<<"done", job[w].closed>>}
  /\ UNCHANGED <<board, index, task, session, ever, listVars, sweepVars>>

LoseEvent(e) ==
  /\ e \in events
  /\ Upset
  /\ events' = events \ {e}
  /\ UNCHANGED <<board, index, task, session, ever, job, listVars, sweepVars>>

\* The search index catches up with one ticket.
Propagate(t) ==
  /\ index[t] # board[t]
  /\ index' = [index EXCEPT ![t] = board[t]]
  /\ UNCHANGED <<board, task, session, ever, events, job, listVars, sweepVars, upsets>>

\* Another run opens, as the newest, or closes.
ListChanges ==
  /\ Upset
  /\ \/ ahead + behind < MaxOthers /\ ahead' = ahead + 1 /\ UNCHANGED behind
     \/ ahead > 0 /\ ahead' = ahead - 1 /\ UNCHANGED behind
     \/ behind > 0 /\ behind' = behind - 1 /\ UNCHANGED ahead
  /\ waited' = 0
  /\ UNCHANGED <<ticketVars, job, quantum>>

-------------------------------------------------------------------------------

Continue(w) ==
  \/ MarkComplete(w) \/ ReadChildren(w) \/ ReadAgain(w) \/ LevelDispatch(w)
  \/ \E t \in Tickets : MakeReady(w, t) \/ FindReady(w, t)
  \/ ReadSiblings(w) \/ \E t \in Tickets : Redrive(w, t)

World ==
  \/ \E t \in Tickets : Complete(t) \/ Reopen(t) \/ Propagate(t)
  \/ \E e \in events : LoseEvent(e)
  \/ ListChanges

Next ==
  \/ \E w \in Handlers :
       \/ \E t \in Tickets : ReceiveDone(w, t)
       \/ \E ticks \in 0 .. 1 : ScanRuns(w, ticks)
       \/ Continue(w) \/ Crash(w)
  \/ \E t \in Tickets : ReceiveReady(t)
  \/ World

Spec == Init /\ [][Next]_vars

-------------------------------------------------------------------------------
(* Properties *)

\* Every variable stays in its domain.
TypeOK ==
  /\ {board, index} \subseteq Rows
  /\ task \in [Tickets -> TaskStatuses]
  /\ session \in [Tickets -> {"none", "alive", "ended"}]
  /\ ever \subseteq Tickets /\ events \subseteq Events
  /\ job \in [Handlers -> Jobs]
  /\ {ahead, behind, quantum, waited, upsets} \subseteq Nat

\* No ticket is begun before each of its blockers has been Done: whatever the
\* index shows, however the cascade, the level trigger, the Ready handler and
\* the sweep race, and though the Ready handler looks at no blocker.
NotBeforeItsBlockers ==
  \A t \in Tickets : session[t] # "none" => BlockedBy[t] \subseteq ever

\* While the list of open runs stands, a sweep has each run within as many quanta
\* as there are pages (sweep-scan.mjs).
WindowComesRound == waited < Pages(Open)

-------------------------------------------------------------------------------
(* Fairness: handlers go on, the index catches up, and sweeps go on being      *)
(* scheduled as time passes.  No status event need ever be delivered.          *)

Fairness ==
  /\ WF_vars(\E t \in Tickets : Propagate(t))
  /\ WF_vars(\E w \in Handlers : ScanRuns(w, 1))
  /\ \A w \in Handlers : WF_vars(Continue(w))

FairSpec == Spec /\ Fairness

\* A ticket whose blockers are closed is begun, unless one of them is reopened:
\* through a crash, a lost event, a failed call, an index that lags and a window
\* that moves on.
UnblockedIsBegun ==
  \A t \in Tickets :
    (\A b \in BlockedBy[t] : board[b] = "done")
      ~> (session[t] # "none" \/ \E b \in BlockedBy[t] : board[b] # "done")
=============================================================================
