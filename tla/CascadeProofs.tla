----------------------------- MODULE CascadeProofs -----------------------------
(***************************************************************************)
(* Proofs about Cascade, for every set of tickets, every graph of blockers *)
(* and every bound: types, that no ticket is begun before its blockers     *)
(* have been Done, and that the sweep's window comes round.                *)
(***************************************************************************)
EXTENDS Cascade, SweepScanProofs, TLAPS

\* A Done handler that has yet to mark knows its ticket.
MarksATicket == \A w \in Handlers : job[w].pc = "mark" => job[w].closed \in Tickets

Types == TypeOK /\ MarksATicket

-------------------------------------------------------------------------------
(* Types *)

\* What Go does to the table of handlers.
LEMMA GoTypes ==
  ASSUME NEW w \in Handlers, NEW j \in Jobs, Go(w, j), Types,
         j.pc = "mark" => j.closed \in Tickets
  PROVE  job' \in [Handlers -> Jobs] /\ MarksATicket'
<1>1. Idle \in Jobs /\ Idle.pc # "mark" BY DEF Idle, Jobs, Steps
<1>. QED BY <1>1 DEF Go, Types, TypeOK, MarksATicket

\* What Finish does to it.
LEMMA FinishTypes ==
  ASSUME NEW w \in Handlers, Finish(w), Types
  PROVE  job' \in [Handlers -> Jobs] /\ MarksATicket'
<1>1. Idle \in Jobs /\ Idle.pc # "mark" BY DEF Idle, Jobs, Steps
<1>. QED BY <1>1 DEF Finish, Types, TypeOK, MarksATicket

\* A fan-out is a job of dependents.
LEMMA FanOutTypes ==
  ASSUME NEW w \in Handlers, NEW due \in SUBSET Tickets, NEW deferred \in SUBSET Tickets,
         FanOut(w, due, deferred), Types
  PROVE  job' \in [Handlers -> Jobs] /\ MarksATicket'
<1>1. job[w] \in Jobs BY DEF Types, TypeOK
<1>2. WithRow(due, "blocked") \in SUBSET Tickets /\ WithRow(due, "ready") \in SUBSET Tickets
  BY DEF WithRow
<1>. DEFINE j == [job[w] EXCEPT !.pc = "fan", !.waiting = WithRow(due, "blocked"),
                       !.ready = WithRow(due, "ready"), !.deferred = deferred,
                       !.closed = IF deferred = {} THEN NoTicket ELSE @]
<1>3. j \in Jobs /\ j.pc = "fan" BY <1>1, <1>2 DEF Jobs, Steps
<1>4. Go(w, j) BY DEF FanOut
<1>. QED BY <1>3, <1>4, GoTypes

\* Handling a dependent takes it off the list.
LEMMA HandledTypes ==
  ASSUME NEW w \in Handlers, NEW t \in Tickets, Handled(w, t), Types, job[w].pc = "fan"
  PROVE  job' \in [Handlers -> Jobs] /\ MarksATicket'
<1>1. job[w] \in Jobs BY DEF Types, TypeOK
<1>. DEFINE rest == [job[w] EXCEPT !.waiting = @ \ {t}, !.ready = @ \ {t}]
            next == IF LevelTrigger = "enforce"
                    THEN [rest EXCEPT !.pc = "level", !.now = t] ELSE rest
<1>2. rest \in Jobs /\ rest.pc = "fan" BY <1>1 DEF Jobs
<1>3. next \in Jobs /\ next.pc # "mark" BY <1>2 DEF Jobs, Steps
<1>4. Go(w, next) BY DEF Handled
<1>. QED BY <1>3, <1>4, GoTypes

\* A dispatch keeps the types of what it writes.
LEMMA DispatchTypes ==
  ASSUME NEW t, Dispatch(t), TypeOK
  PROVE  /\ board' \in Rows /\ task' \in [Tickets -> TaskStatuses]
         /\ session' \in [Tickets -> {"none", "alive", "ended"}]
         /\ upsets' \in Nat
BY DEF Dispatch, Start, Upset, TypeOK, Rows, Statuses, TaskStatuses

\* The Done handler and its cascade.
LEMMA DoneTypes ==
  ASSUME Types, NEW w \in Handlers
  PROVE  /\ (\E t \in Tickets : ReceiveDone(w, t)) => Types'
         /\ MarkComplete(w) \/ ReadChildren(w) \/ ReadAgain(w) => Types'
         /\ (\E t \in Tickets : MakeReady(w, t) \/ FindReady(w, t)) => Types'
         /\ LevelDispatch(w) => Types'
<1>. USE DEF ticketVars, listVars, sweepVars
<1>0. job[w] \in Jobs BY DEF Types, TypeOK
<1>1. ASSUME NEW t \in Tickets, ReceiveDone(w, t) PROVE Types'
  <2>1. [Idle EXCEPT !.pc = "mark", !.closed = t] \in Jobs BY DEF Idle, Jobs, Steps
  <2>2. job' \in [Handlers -> Jobs] /\ MarksATicket'
    <3>1. CASE task[t] = "complete" BY <1>1, <3>1 DEF ReceiveDone, Types, TypeOK, MarksATicket
    <3>2. CASE task[t] # "complete"
      <4>1. job' = [job EXCEPT ![w] = [Idle EXCEPT !.pc = "mark", !.closed = t]]
        BY <1>1, <3>2 DEF ReceiveDone
      <4>2. [Idle EXCEPT !.pc = "mark", !.closed = t].closed = t BY DEF Idle
      <4>. QED BY <4>1, <4>2, <2>1 DEF Types, TypeOK, MarksATicket
    <3>. QED BY <3>1, <3>2
  <2>3. events' \subseteq Events /\ upsets' \in Nat
    BY <1>1 DEF ReceiveDone, Deliver, Upset, Types, TypeOK
  <2>. QED BY <1>1, <2>2, <2>3 DEF ReceiveDone, Types, TypeOK
<1>2. ASSUME MarkComplete(w) PROVE Types'
  <2>1. [job[w] EXCEPT !.pc = "children"] \in Jobs BY <1>0 DEF Jobs, Steps
  <2>2. job' \in [Handlers -> Jobs] /\ MarksATicket'
    BY <1>2, <2>1, <1>0, GoTypes DEF MarkComplete, Jobs
  <2>3. task' \in [Tickets -> TaskStatuses]
    BY <1>2 DEF MarkComplete, Types, TypeOK, TaskStatuses
  <2>. QED BY <1>2, <2>2, <2>3 DEF MarkComplete, Types, TypeOK
<1>3. ASSUME ReadChildren(w) PROVE Types'
  <2>1. job' \in [Handlers -> Jobs] /\ MarksATicket' /\ upsets' \in Nat
    <3>. DEFINE waits == {t \in Tickets : job[w].closed \in BlockedBy[t]}
                due == {t \in waits : BlockersResolved(t, job[w].closed)}
    <3>1. CASE FanOut(w, due, waits \ due) /\ UNCHANGED upsets
      <4>. HIDE DEF waits
      <4>1. waits \in SUBSET Tickets BY DEF waits
      <4>2. due \in SUBSET Tickets /\ waits \ due \in SUBSET Tickets BY <4>1
      <4>. HIDE DEF due
      <4>. QED BY <3>1, <4>2, FanOutTypes DEF Types, TypeOK
    <3>2. CASE Upset /\ Finish(w) BY <3>2, FinishTypes DEF Upset, Types, TypeOK
    <3>. QED BY <1>3, <3>1, <3>2 DEF ReadChildren
  <2>. QED BY <1>3, <2>1 DEF ReadChildren, Types, TypeOK
<1>4. ASSUME ReadAgain(w) PROVE Types'
  <2>1. job' \in [Handlers -> Jobs] /\ MarksATicket' /\ upsets' \in Nat
    <3>. DEFINE due == {t \in job[w].deferred : BlockersResolved(t, job[w].closed)}
    <3>1. CASE FanOut(w, due, {}) /\ UNCHANGED upsets
      <4>1. due \in SUBSET Tickets BY <1>0 DEF Jobs
      <4>. HIDE DEF due
      <4>. QED BY <3>1, <4>1, FanOutTypes DEF Types, TypeOK
    <3>2. CASE Upset /\ Finish(w) BY <3>2, FinishTypes DEF Upset, Types, TypeOK
    <3>. QED BY <1>4, <3>1, <3>2 DEF ReadAgain
  <2>. QED BY <1>4, <2>1 DEF ReadAgain, Types, TypeOK
<1>5. ASSUME NEW t \in Tickets, MakeReady(w, t) PROVE Types'
  <2>1. job' \in [Handlers -> Jobs] /\ MarksATicket' BY <1>5, HandledTypes DEF MakeReady
  <2>2. board' \in Rows /\ events' \subseteq Events /\ upsets' \in Nat
    BY <1>5 DEF MakeReady, Upset, Types, TypeOK, Rows, Statuses, Events
  <2>. QED BY <1>5, <2>1, <2>2 DEF MakeReady, Types, TypeOK
<1>6. ASSUME NEW t \in Tickets, FindReady(w, t) PROVE Types'
  BY <1>6, HandledTypes DEF FindReady, Types, TypeOK
<1>7. ASSUME LevelDispatch(w) PROVE Types'
  <2>1. [job[w] EXCEPT !.pc = "fan", !.now = NoTicket] \in Jobs BY <1>0 DEF Jobs, Steps
  <2>2. job' \in [Handlers -> Jobs] /\ MarksATicket'
    BY <1>7, <2>1, <1>0, GoTypes DEF LevelDispatch, Jobs
  <2>. QED BY <1>7, <2>2, DispatchTypes DEF LevelDispatch, Types, TypeOK
<1>. QED BY <1>1, <1>2, <1>3, <1>4, <1>5, <1>6, <1>7

\* The sweep and the death of a handler.
LEMMA SweepTypes ==
  ASSUME Types, NEW w \in Handlers
  PROVE  /\ (\E t \in Tickets : Redrive(w, t)) => Types'
         /\ (\E ticks \in 0 .. 1 : ScanRuns(w, ticks)) => Types'
         /\ ReadSiblings(w) \/ Crash(w) => Types'
<1>. USE DEF ticketVars, listVars, sweepVars
<1>0. job[w] \in Jobs BY DEF Types, TypeOK
<1>2. ASSUME NEW t \in Tickets, Redrive(w, t) PROVE Types'
  <2>1. [job[w] EXCEPT !.waiting = @ \ {t}] \in Jobs BY <1>0 DEF Jobs
  <2>2. job' \in [Handlers -> Jobs] /\ MarksATicket'
    BY <1>2, <2>1, <1>0, GoTypes DEF Redrive, Jobs
  <2>. QED BY <1>2, <2>2, DispatchTypes DEF Redrive, Types, TypeOK
<1>3. ASSUME NEW ticks \in 0 .. 1, ScanRuns(w, ticks) PROVE Types'
  <2>1. quantum' \in Nat BY <1>3, CycleAssumption DEF ScanRuns, Types, TypeOK
  <2>2. job' \in [Handlers -> Jobs] /\ MarksATicket' /\ waited' \in Nat
    <3>. DEFINE j == [Idle EXCEPT !.pc = "siblings",
                         !.claimed = {t \in Tickets : task[t] = "running"}]
    <3>1. j \in Jobs /\ j.pc = "siblings" BY DEF Idle, Jobs, Steps
    <3>2. CASE InWindow(ahead, Open, quantum')
      <4>1. Go(w, j) /\ waited' = 0 BY <1>3, <3>2 DEF ScanRuns
      <4>. QED BY <4>1, <3>1, GoTypes
    <3>3. CASE ~InWindow(ahead, Open, quantum')
      BY <1>3, <3>3 DEF ScanRuns, Types, TypeOK, MarksATicket
    <3>. QED BY <3>2, <3>3
  <2>. QED BY <1>3, <2>1, <2>2 DEF ScanRuns, Types, TypeOK
<1>4. ASSUME ReadSiblings(w) PROVE Types'
  <2>1. job' \in [Handlers -> Jobs] /\ MarksATicket' /\ upsets' \in Nat
    <3>. DEFINE j == [Idle EXCEPT !.pc = "redrive", !.waiting = Candidates(job[w].claimed)]
    <3>0. Candidates(job[w].claimed) \in SUBSET Tickets BY DEF Candidates, WithRow
    <3>1. j \in Jobs /\ j.pc = "redrive" BY <3>0 DEF Idle, Jobs, Steps
    <3>2. CASE Go(w, j) /\ UNCHANGED upsets BY <3>1, <3>2, GoTypes DEF Types, TypeOK
    <3>3. CASE Upset /\ Finish(w) BY <3>3, FinishTypes DEF Upset, Types, TypeOK
    <3>. QED BY <1>4, <3>2, <3>3 DEF ReadSiblings
  <2>. QED BY <1>4, <2>1 DEF ReadSiblings, Types, TypeOK
<1>5. ASSUME Crash(w) PROVE Types'
  <2>1. events' \subseteq Events
    BY <1>5 DEF Crash, Types, TypeOK, MarksATicket, Events
  <2>. QED BY <1>5, <2>1, FinishTypes DEF Crash, Upset, Types, TypeOK
<1>. QED BY <1>2, <1>3, <1>4, <1>5

\* The Ready handler, which holds no slot.
LEMMA ReadyTypes ==
  ASSUME Types, NEW t \in Tickets, ReceiveReady(t)
  PROVE  Types'
BY DispatchTypes DEF ReceiveReady, Types, TypeOK, MarksATicket, listVars, sweepVars

\* Agents, people, the index and the other runs.
LEMMA WorldTypes == Types /\ World => Types'
<1>. SUFFICES ASSUME Types, World PROVE Types' OBVIOUS
<1>. USE DEF ticketVars, listVars, sweepVars
<1>1. ASSUME NEW t \in Tickets, Complete(t) PROVE Types'
  BY <1>1 DEF Complete, Types, TypeOK, MarksATicket, Rows, Statuses, Events
<1>2. ASSUME NEW t \in Tickets, Reopen(t) PROVE Types'
  BY <1>2 DEF Reopen, Start, Upset, Types, TypeOK, MarksATicket, Rows, Statuses, TaskStatuses
<1>3. ASSUME NEW t \in Tickets, Propagate(t) PROVE Types'
  BY <1>3 DEF Propagate, Types, TypeOK, MarksATicket, Rows
<1>4. ASSUME NEW e \in events, LoseEvent(e) PROVE Types'
  BY <1>4 DEF LoseEvent, Upset, Types, TypeOK, MarksATicket
<1>5. ASSUME ListChanges PROVE Types'
  BY <1>5 DEF ListChanges, Upset, Types, TypeOK, MarksATicket
<1>. QED BY <1>1, <1>2, <1>3, <1>4, <1>5 DEF World

\* Types hold at the start and after every step.
LEMMA TypesInductive == (Init => Types) /\ (Types /\ [Next]_vars => Types')
<1>1. ASSUME Init PROVE Types
  <2>1. Idle \in Jobs /\ Idle.pc # "mark" BY DEF Idle, Jobs, Steps
  <2>2. ahead \in Nat /\ behind \in Nat BY <1>1, BoundsAssumption DEF Init
  <2>. QED BY <1>1, <2>1, <2>2
       DEF Init, Types, TypeOK, MarksATicket, Rows, Statuses, TaskStatuses, Events
<1>2. ASSUME Types, Next PROVE Types'
  <2>1. ASSUME NEW w \in Handlers, Continue(w) PROVE Types'
    BY <1>2, <2>1, DoneTypes, SweepTypes DEF Continue
  <2>. QED BY <1>2, <2>1, DoneTypes, SweepTypes, ReadyTypes, WorldTypes DEF Next
<1>3. ASSUME Types, UNCHANGED vars PROVE Types'
  BY <1>3 DEF vars, Types, TypeOK, MarksATicket
<1>. QED BY <1>1, <1>2, <1>3

\* Every variable stays in its domain, whatever the tickets, the graph of blockers,
\* the number of handlers and the other runs.
THEOREM TypeCorrect == Spec => []TypeOK
<1>1. Types => TypeOK BY DEF Types
<1>. QED BY <1>1, TypesInductive, PTL DEF Spec

-------------------------------------------------------------------------------
(* No ticket before its blockers *)

\* A ticket may be begun.
Due(t) == BlockedBy[t] \subseteq ever

\* Whoever shows a ticket Done, or acts on its Done, is right; whatever is about to
\* begin a ticket finds it due; and what has been Done was begun.
DoneIsKnown ==
  /\ \A t \in Tickets : board[t] = "done" \/ index[t] = "done" => t \in ever
  /\ \A t \in Tickets : <<"done", t>> \in events => t \in ever
  /\ \A w \in Handlers : job[w].closed \in Tickets => job[w].closed \in ever
BegunIsDue ==
  /\ \A t \in Tickets : session[t] # "none" => Due(t)
  /\ \A t \in ever : session[t] # "none"
  /\ \A t \in Tickets : <<"ready", t>> \in events => Due(t)
ListedIsDue ==
  \A w \in Handlers : \A t \in Tickets :
    t \in job[w].waiting \cup job[w].ready \cup {job[w].now} => Due(t)

Order == DoneIsKnown /\ BegunIsDue /\ ListedIsDue

\* A job may be given to a handler.
Sound(j) ==
  /\ j.closed \in Tickets => j.closed \in ever
  /\ \A t \in Tickets : t \in j.waiting \cup j.ready \cup {j.now} => Due(t)

\* An idle handler lists nothing.
LEMMA IdleSound == Sound(Idle)
BY TicketsAssumption DEF Sound, Idle

\* The handlers' part of Order, for a step that changes one job and closes no ticket.
LEMMA GoSound ==
  ASSUME Types, Order, NEW w \in Handlers, NEW j \in Jobs, Sound(j), Go(w, j), ever' = ever
  PROVE  ListedIsDue' /\ \A v \in Handlers : job'[v].closed \in Tickets => job'[v].closed \in ever
<1>1. \A v \in Handlers : Sound(job[v])
  BY DEF Order, DoneIsKnown, ListedIsDue, Sound
<1>2. \A v \in Handlers : job'[v] \in {job[v], Idle, j} BY DEF Go, Types, TypeOK
<1>3. \A v \in Handlers : Sound(job'[v])
  <2>. TAKE v \in Handlers
  <2>. QED BY <1>1, <1>2, IdleSound
<1>. QED BY <1>3 DEF Sound, ListedIsDue, Due

\* The same for a handler that ends.
LEMMA FinishSound ==
  ASSUME Types, Order, NEW w \in Handlers, Finish(w), ever' = ever
  PROVE  ListedIsDue' /\ \A v \in Handlers : job'[v].closed \in Tickets => job'[v].closed \in ever
<1>1. \A v \in Handlers : job'[v] = job[v] \/ job'[v] = Idle BY DEF Finish, Types, TypeOK
<1>2. \A v \in Handlers : Sound(job'[v])
  <2>. TAKE v \in Handlers
  <2>1. Sound(job[v]) BY DEF Order, DoneIsKnown, ListedIsDue, Sound
  <2>. QED BY <1>1, <2>1, IdleSound
<1>. QED BY <1>2 DEF Sound, ListedIsDue, Due

\* Blockers that look closed have been Done, though the index lags.
LEMMA ResolvedIsDue ==
  ASSUME Order, NEW t \in Tickets, NEW closed, closed \in Tickets => closed \in ever,
         BlockersResolved(t, closed)
  PROVE  Due(t)
<1>1. BlockedBy[t] \subseteq Tickets BY BlockedByAssumption
<1>. QED BY <1>1 DEF BlockersResolved, Due, Order, DoneIsKnown

\* A dispatch of a ticket that is due begins nothing else.
LEMMA DispatchSound ==
  ASSUME Types, Order, NEW t, t \in Tickets => Due(t), Dispatch(t), ever' = ever
  PROVE  /\ \A u \in Tickets : session'[u] # "none" => Due(u)
         /\ \A u \in ever : session'[u] # "none"
         /\ \A u \in Tickets : board'[u] = "done" => board[u] = "done"
<1>1. ever \subseteq Tickets BY DEF Types, TypeOK
<1>2. session' = session \/ session' = [session EXCEPT ![t] = "alive"]
  BY DEF Dispatch, Start
<1>3. board' = board \/ board' = [board EXCEPT ![t] = "in_progress"]
  BY DEF Dispatch
<1>. QED BY <1>1, <1>2, <1>3 DEF Order, BegunIsDue, Types, TypeOK, Rows

\* A fan-out lists what its rows show to be due.
LEMMA FanOutSound ==
  ASSUME Types, Order, NEW w \in Handlers, NEW due \in SUBSET Tickets,
         NEW deferred \in SUBSET Tickets, \A t \in due : Due(t),
         FanOut(w, due, deferred), ever' = ever
  PROVE  ListedIsDue' /\ \A v \in Handlers : job'[v].closed \in Tickets => job'[v].closed \in ever
<1>1. job[w] \in Jobs BY DEF Types, TypeOK
<1>2. WithRow(due, "blocked") \subseteq due /\ WithRow(due, "ready") \subseteq due
  BY DEF WithRow
<1>. DEFINE j == [job[w] EXCEPT !.pc = "fan", !.waiting = WithRow(due, "blocked"),
                       !.ready = WithRow(due, "ready"), !.deferred = deferred,
                       !.closed = IF deferred = {} THEN NoTicket ELSE @]
<1>3. j \in Jobs BY <1>1, <1>2 DEF Jobs, Steps
<1>4. Go(w, j) BY DEF FanOut
<1>5. Sound(j)
  <2>1. j.closed = NoTicket \/ j.closed = job[w].closed BY <1>1 DEF Jobs
  <2>2. j.waiting = WithRow(due, "blocked") /\ j.ready = WithRow(due, "ready")
        /\ j.now = job[w].now
    BY <1>1 DEF Jobs
  <2>. QED BY <2>1, <2>2, <1>2, TicketsAssumption
       DEF Sound, Order, DoneIsKnown, ListedIsDue
<1>. HIDE DEF j
<1>. QED BY <1>3, <1>4, <1>5, GoSound

\* What a handled dependent leaves is sound.
LEMMA HandledSound ==
  ASSUME Types, Order, NEW w \in Handlers, NEW t \in Tickets, Due(t), Handled(w, t),
         ever' = ever
  PROVE  ListedIsDue' /\ \A v \in Handlers : job'[v].closed \in Tickets => job'[v].closed \in ever
<1>1. job[w] \in Jobs BY DEF Types, TypeOK
<1>. DEFINE rest == [job[w] EXCEPT !.waiting = @ \ {t}, !.ready = @ \ {t}]
            next == IF LevelTrigger = "enforce"
                    THEN [rest EXCEPT !.pc = "level", !.now = t] ELSE rest
<1>2. rest \in Jobs BY <1>1 DEF Jobs
<1>3. next \in Jobs BY <1>2 DEF Jobs, Steps
<1>4. Go(w, next) BY DEF Handled
<1>5. Sound(next)
  <2>1. next.closed = job[w].closed /\ next.now \in {job[w].now, t}
    BY <1>1, <1>2 DEF Jobs
  <2>2. next.waiting \subseteq job[w].waiting /\ next.ready \subseteq job[w].ready
    BY <1>1, <1>2 DEF Jobs
  <2>. QED BY <2>1, <2>2 DEF Sound, Order, DoneIsKnown, ListedIsDue
<1>. HIDE DEF next
<1>. QED BY <1>3, <1>4, <1>5, GoSound

\* The Done handler and its cascade.
LEMMA DoneOrder ==
  ASSUME Types, Order, NEW w \in Handlers
  PROVE  /\ (\E t \in Tickets : ReceiveDone(w, t)) => Order'
         /\ MarkComplete(w) \/ ReadChildren(w) \/ ReadAgain(w) => Order'
         /\ (\E t \in Tickets : MakeReady(w, t) \/ FindReady(w, t)) => Order'
         /\ LevelDispatch(w) => Order'
<1>. USE DEF ticketVars, listVars, sweepVars
<1>0. job[w] \in Jobs /\ Sound(job[w])
  BY DEF Types, TypeOK, Order, DoneIsKnown, ListedIsDue, Sound
<1>1. ASSUME NEW t \in Tickets, ReceiveDone(w, t) PROVE Order'
  <2>. DEFINE j == [Idle EXCEPT !.pc = "mark", !.closed = t]
  <2>1. t \in ever BY <1>1 DEF ReceiveDone, Deliver, Order, DoneIsKnown
  <2>2. j.closed = t /\ j.waiting = {} /\ j.ready = {} /\ j.now = NoTicket BY DEF Idle
  <2>3. Sound(j) BY <2>1, <2>2, TicketsAssumption DEF Sound
  <2>. HIDE DEF j
  <2>4. \A v \in Handlers : job'[v] = job[v] \/ job'[v] = j
    BY <1>1 DEF ReceiveDone, Types, TypeOK, j
  <2>5. \A v \in Handlers : Sound(job'[v])
    <3>. TAKE v \in Handlers
    <3>1. Sound(job[v]) BY DEF Order, DoneIsKnown, ListedIsDue, Sound
    <3>. QED BY <3>1, <2>3, <2>4
  <2>6. ever' = ever /\ events' \subseteq events BY <1>1 DEF ReceiveDone, Deliver
  <2>7. ListedIsDue' BY <2>5, <2>6 DEF ListedIsDue, Sound, Due
  <2>. QED BY <1>1, <2>5, <2>6, <2>7
       DEF ReceiveDone, Order, DoneIsKnown, BegunIsDue, Sound, Due
<1>2. ASSUME MarkComplete(w) PROVE Order'
  <2>1. [job[w] EXCEPT !.pc = "children"] \in Jobs BY <1>0 DEF Jobs, Steps
  <2>2. Sound([job[w] EXCEPT !.pc = "children"]) BY <1>0 DEF Sound, Jobs
  <2>. QED BY <1>2, <2>1, <2>2, GoSound DEF MarkComplete, Order, DoneIsKnown, BegunIsDue, Due
<1>3. ASSUME ReadChildren(w) PROVE Order'
  <2>1. ListedIsDue' /\ \A v \in Handlers : job'[v].closed \in Tickets => job'[v].closed \in ever
    <3>. DEFINE waits == {t \in Tickets : job[w].closed \in BlockedBy[t]}
                due == {t \in waits : BlockersResolved(t, job[w].closed)}
    <3>1. CASE FanOut(w, due, waits \ due)
      <4>1. \A t \in due : Due(t) BY <1>0, ResolvedIsDue DEF Sound
      <4>2. waits \in SUBSET Tickets OBVIOUS
      <4>. HIDE DEF waits
      <4>3. due \in SUBSET Tickets /\ waits \ due \in SUBSET Tickets BY <4>2
      <4>4. ever' = ever BY <1>3 DEF ReadChildren
      <4>. HIDE DEF due
      <4>. QED BY <3>1, <4>1, <4>3, <4>4, FanOutSound
    <3>2. CASE Finish(w) BY <1>3, <3>2, FinishSound DEF ReadChildren
    <3>. QED BY <1>3, <3>1, <3>2 DEF ReadChildren
  <2>. QED BY <1>3, <2>1 DEF ReadChildren, Order, DoneIsKnown, BegunIsDue, Due
<1>4. ASSUME ReadAgain(w) PROVE Order'
  <2>1. ListedIsDue' /\ \A v \in Handlers : job'[v].closed \in Tickets => job'[v].closed \in ever
    <3>. DEFINE due == {t \in job[w].deferred : BlockersResolved(t, job[w].closed)}
    <3>1. CASE FanOut(w, due, {})
      <4>1. due \in SUBSET Tickets BY <1>0 DEF Jobs
      <4>2. \A t \in due : Due(t) BY <4>1, <1>0, ResolvedIsDue DEF Sound
      <4>3. ever' = ever BY <1>4 DEF ReadAgain
      <4>. HIDE DEF due
      <4>. QED BY <3>1, <4>1, <4>2, <4>3, FanOutSound
    <3>2. CASE Finish(w) BY <1>4, <3>2, FinishSound DEF ReadAgain
    <3>. QED BY <1>4, <3>1, <3>2 DEF ReadAgain
  <2>. QED BY <1>4, <2>1 DEF ReadAgain, Order, DoneIsKnown, BegunIsDue, Due
<1>5. ASSUME NEW t \in Tickets, MakeReady(w, t) PROVE Order'
  <2>1. Due(t) BY <1>5, <1>0 DEF MakeReady, Sound
  <2>2. ever' = ever BY <1>5 DEF MakeReady
  <2>3. ListedIsDue' /\ \A v \in Handlers : job'[v].closed \in Tickets => job'[v].closed \in ever
    BY <1>5, <2>1, <2>2, HandledSound DEF MakeReady
  <2>4. \A u \in Tickets : board'[u] = "done" => board[u] = "done"
    BY <1>5 DEF MakeReady, Types, TypeOK, Rows
  <2>5. events' \subseteq events \cup {<<"ready", t>>} BY <1>5 DEF MakeReady
  <2>6. index' = index /\ session' = session BY <1>5 DEF MakeReady
  <2>7. \A u \in Tickets : /\ <<"done", u>> \in events' => <<"done", u>> \in events
                           /\ <<"ready", u>> \in events' => <<"ready", u>> \in events \/ u = t
    BY <2>5
  <2>8. DoneIsKnown' BY <2>2, <2>3, <2>4, <2>6, <2>7 DEF Order, DoneIsKnown
  <2>9. \A u \in Tickets : Due(u) => Due(u)' BY <2>2 DEF Due
  <2>10. BegunIsDue' BY <2>1, <2>2, <2>6, <2>7, <2>9 DEF Order, BegunIsDue
  <2>. QED BY <2>3, <2>8, <2>10 DEF Order
<1>6. ASSUME NEW t \in Tickets, FindReady(w, t) PROVE Order'
  <2>1. Due(t) BY <1>6, <1>0 DEF FindReady, Sound
  <2>2. ListedIsDue' /\ \A v \in Handlers : job'[v].closed \in Tickets => job'[v].closed \in ever
    BY <1>6, <2>1, HandledSound DEF FindReady
  <2>. QED BY <1>6, <2>2 DEF FindReady, Order, DoneIsKnown, BegunIsDue, Due
<1>7. ASSUME LevelDispatch(w) PROVE Order'
  <2>. DEFINE j == [job[w] EXCEPT !.pc = "fan", !.now = NoTicket]
  <2>1. j \in Jobs BY <1>0 DEF Jobs, Steps
  <2>2. Sound(j)
    <3>1. /\ j.closed = job[w].closed /\ j.now = NoTicket
          /\ j.waiting = job[w].waiting /\ j.ready = job[w].ready
      BY <1>0 DEF Jobs
    <3>. HIDE DEF j
    <3>. QED BY <3>1, <1>0, TicketsAssumption DEF Sound
  <2>3. Go(w, j) /\ ever' = ever BY <1>7 DEF LevelDispatch
  <2>. HIDE DEF j
  <2>4. ListedIsDue' /\ \A v \in Handlers : job'[v].closed \in Tickets => job'[v].closed \in ever
    BY <2>1, <2>2, <2>3, GoSound
  <2>5. job[w].now \in Tickets => Due(job[w].now) BY <1>0 DEF Sound
  <2>6. /\ \A u \in Tickets : session'[u] # "none" => Due(u)
        /\ \A u \in ever : session'[u] # "none"
        /\ \A u \in Tickets : board'[u] = "done" => board[u] = "done"
    BY <1>7, <2>3, <2>5, DispatchSound DEF LevelDispatch
  <2>. QED BY <1>7, <2>4, <2>6 DEF LevelDispatch, Order, DoneIsKnown, BegunIsDue, Due
<1>. QED BY <1>1, <1>2, <1>3, <1>4, <1>5, <1>6, <1>7

\* The Ready handler: a Ready event is about a ticket that is due.
LEMMA ReadyOrder ==
  ASSUME Types, Order, NEW t \in Tickets, ReceiveReady(t)
  PROVE  Order'
<1>. USE DEF listVars, sweepVars
<1>1. Due(t) /\ ever' = ever /\ events' \subseteq events
  BY DEF ReceiveReady, Order, BegunIsDue
<1>2. /\ \A u \in Tickets : session'[u] # "none" => Due(u)
      /\ \A u \in ever : session'[u] # "none"
      /\ \A u \in Tickets : board'[u] = "done" => board[u] = "done"
  BY <1>1, DispatchSound DEF ReceiveReady
<1>. QED BY <1>1, <1>2 DEF ReceiveReady, Order, DoneIsKnown, BegunIsDue, ListedIsDue, Due

\* The sweep and the death of a handler.
LEMMA SweepOrder ==
  ASSUME Types, Order, NEW w \in Handlers
  PROVE  /\ (\E t \in Tickets : Redrive(w, t)) => Order'
         /\ (\E ticks \in 0 .. 1 : ScanRuns(w, ticks)) => Order'
         /\ ReadSiblings(w) \/ Crash(w) => Order'
<1>. USE DEF ticketVars, listVars, sweepVars
<1>0. job[w] \in Jobs /\ Sound(job[w])
  BY DEF Types, TypeOK, Order, DoneIsKnown, ListedIsDue, Sound
<1>1. ASSUME NEW t \in Tickets, Redrive(w, t) PROVE Order'
  <2>. DEFINE j == [job[w] EXCEPT !.waiting = @ \ {t}]
  <2>1. j \in Jobs /\ Sound(j) BY <1>0 DEF Jobs, Sound
  <2>2. Go(w, j) /\ ever' = ever /\ Due(t) BY <1>1, <1>0 DEF Redrive, Sound
  <2>. HIDE DEF j
  <2>3. ListedIsDue' /\ \A v \in Handlers : job'[v].closed \in Tickets => job'[v].closed \in ever
    BY <2>1, <2>2, GoSound
  <2>4. /\ \A u \in Tickets : session'[u] # "none" => Due(u)
        /\ \A u \in ever : session'[u] # "none"
        /\ \A u \in Tickets : board'[u] = "done" => board[u] = "done"
    BY <1>1, <2>2, DispatchSound DEF Redrive
  <2>. QED BY <1>1, <2>3, <2>4 DEF Redrive, Order, DoneIsKnown, BegunIsDue, Due
<1>2. ASSUME NEW ticks \in 0 .. 1, ScanRuns(w, ticks) PROVE Order'
  <2>. DEFINE j == [Idle EXCEPT !.pc = "siblings",
                       !.claimed = {t \in Tickets : task[t] = "running"}]
  <2>1. j \in Jobs /\ Sound(j) BY TicketsAssumption DEF Idle, Jobs, Steps, Sound
  <2>2. Go(w, j) \/ job' = job BY <1>2 DEF ScanRuns
  <2>. HIDE DEF j
  <2>3. ListedIsDue' /\ \A v \in Handlers : job'[v].closed \in Tickets => job'[v].closed \in ever
    BY <1>2, <2>1, <2>2, GoSound DEF ScanRuns, Order, DoneIsKnown, ListedIsDue, Due
  <2>. QED BY <1>2, <2>3 DEF ScanRuns, Order, DoneIsKnown, BegunIsDue, Due
<1>3. ASSUME ReadSiblings(w) PROVE Order'
  <2>. DEFINE j == [Idle EXCEPT !.pc = "redrive", !.waiting = Candidates(job[w].claimed)]
  <2>1. \A t \in Candidates(job[w].claimed) : t \in Tickets /\ Due(t)
    BY ResolvedIsDue, TicketsAssumption DEF Candidates, WithRow
  <2>2. j \in Jobs /\ Sound(j)
    BY <2>1, TicketsAssumption DEF Idle, Jobs, Steps, Sound
  <2>3. Go(w, j) \/ Finish(w) BY <1>3 DEF ReadSiblings
  <2>. HIDE DEF j
  <2>4. ListedIsDue' /\ \A v \in Handlers : job'[v].closed \in Tickets => job'[v].closed \in ever
    BY <1>3, <2>2, <2>3, GoSound, FinishSound DEF ReadSiblings
  <2>. QED BY <1>3, <2>4 DEF ReadSiblings, Order, DoneIsKnown, BegunIsDue, Due
<1>4. ASSUME Crash(w) PROVE Order'
  <2>1. ever' = ever /\ Finish(w) BY <1>4 DEF Crash
  <2>2. ListedIsDue' /\ \A v \in Handlers : job'[v].closed \in Tickets => job'[v].closed \in ever
    BY <2>1, FinishSound
  <2>3. /\ \A u \in Tickets : <<"done", u>> \in events' => u \in ever
        /\ \A u \in Tickets : <<"ready", u>> \in events' => Due(u)
    <3>1. CASE events' = events BY <3>1 DEF Order, DoneIsKnown, BegunIsDue
    <3>2. CASE job[w].pc = "mark" /\ events' = events \cup {<<"done", job[w].closed>>}
      BY <3>2, <1>0 DEF Order, DoneIsKnown, BegunIsDue, Sound
    <3>. QED BY <1>4, <3>1, <3>2 DEF Crash
  <2>. QED BY <1>4, <2>1, <2>2, <2>3 DEF Crash, Order, DoneIsKnown, BegunIsDue, Due
<1>. QED BY <1>1, <1>2, <1>3, <1>4

\* Agents, people, the index and the other runs.
LEMMA WorldOrder == Types /\ Order /\ World => Order'
<1>. SUFFICES ASSUME Types, Order, World PROVE Order' OBVIOUS
<1>. USE DEF ticketVars, listVars, sweepVars
<1>1. ASSUME NEW t \in Tickets, Complete(t) PROVE Order'
  <2>1. ever' = ever \cup {t} /\ job' = job /\ index' = index
        /\ events' = events \cup {<<"done", t>>}
    BY <1>1 DEF Complete
  <2>2. \A u \in Tickets : Due(u) => Due(u)' BY <2>1 DEF Due
  <2>3. \A u \in Tickets : board'[u] = "done" => board[u] = "done" \/ u = t
    BY <1>1 DEF Complete, Types, TypeOK, Rows
  <2>4. \A u \in Tickets : session'[u] # "none" <=> session[u] # "none"
    BY <1>1 DEF Complete, Types, TypeOK
  <2>5. session[t] # "none" BY <1>1 DEF Complete
  <2>6. \A u \in Tickets : /\ <<"done", u>> \in events' => <<"done", u>> \in events \/ u = t
                           /\ <<"ready", u>> \in events' => <<"ready", u>> \in events
    BY <2>1
  <2>7. DoneIsKnown' BY <2>1, <2>3, <2>6 DEF Order, DoneIsKnown
  <2>8. ever \subseteq Tickets BY DEF Types, TypeOK
  <2>9. BegunIsDue' BY <2>1, <2>2, <2>4, <2>5, <2>6, <2>8 DEF Order, BegunIsDue
  <2>10. ListedIsDue' BY <2>1, <2>2 DEF Order, ListedIsDue
  <2>. QED BY <2>7, <2>9, <2>10 DEF Order
<1>2. ASSUME NEW t \in Tickets, Reopen(t) PROVE Order'
  <2>1. t \in ever BY <1>2 DEF Reopen, Order, DoneIsKnown
  <2>2. session[t] # "none" BY <2>1 DEF Order, BegunIsDue
  <2>3. \A u \in Tickets : session'[u] # "none" <=> session[u] # "none"
    BY <1>2, <2>2 DEF Reopen, Start, Types, TypeOK
  <2>4. \A u \in Tickets : board'[u] = "done" => board[u] = "done"
    BY <1>2 DEF Reopen, Types, TypeOK, Rows
  <2>5. ever \subseteq Tickets BY DEF Types, TypeOK
  <2>. QED BY <1>2, <2>3, <2>4, <2>5
       DEF Reopen, Order, DoneIsKnown, BegunIsDue, ListedIsDue, Due
<1>3. ASSUME NEW t \in Tickets, Propagate(t) PROVE Order'
  <2>1. \A u \in Tickets : index'[u] = "done" => index[u] = "done" \/ board[u] = "done"
    BY <1>3 DEF Propagate, Types, TypeOK, Rows
  <2>. QED BY <1>3, <2>1 DEF Propagate, Order, DoneIsKnown, BegunIsDue, ListedIsDue, Due
<1>4. ASSUME NEW e \in events, LoseEvent(e) PROVE Order'
  BY <1>4 DEF LoseEvent, Order, DoneIsKnown, BegunIsDue, ListedIsDue, Due
<1>5. ASSUME ListChanges PROVE Order'
  BY <1>5 DEF ListChanges, Order, DoneIsKnown, BegunIsDue, ListedIsDue, Due
<1>. QED BY <1>1, <1>2, <1>3, <1>4, <1>5 DEF World

\* Order is inductive, with the types.
LEMMA OrderInductive == (Init => Order) /\ (Types /\ Order /\ [Next]_vars => Order')
<1>1. ASSUME Init PROVE Order
  <2>1. \A t \in Tickets : session[t] # "none" => Due(t) BY <1>1 DEF Init, Roots, Due
  <2>2. \A t \in Tickets : board[t] # "done" /\ index[t] # "done" BY <1>1 DEF Init
  <2>3. \A w \in Handlers : Sound(job[w]) BY <1>1, IdleSound DEF Init
  <2>. QED BY <1>1, <2>1, <2>2, <2>3
       DEF Init, Order, DoneIsKnown, BegunIsDue, ListedIsDue, Sound
<1>2. ASSUME Types, Order, Next PROVE Order'
  <2>1. ASSUME NEW w \in Handlers, Continue(w) PROVE Order'
    BY <1>2, <2>1, DoneOrder, SweepOrder DEF Continue
  <2>. QED BY <1>2, <2>1, DoneOrder, SweepOrder, ReadyOrder, WorldOrder DEF Next
<1>3. ASSUME Order, UNCHANGED vars PROVE Order'
  BY <1>3 DEF vars, Order, DoneIsKnown, BegunIsDue, ListedIsDue, Due
<1>. QED BY <1>1, <1>2, <1>3

\* No ticket is begun before each of its blockers has been Done: for every graph of
\* blockers, any number of handlers, crashes, lost and repeated events, and an index
\* that lags for ever.
THEOREM BlockersFirst == Spec => []NotBeforeItsBlockers
<1>1. Order => NotBeforeItsBlockers
  BY DEF Order, BegunIsDue, Due, NotBeforeItsBlockers
<1>. QED BY <1>1, TypesInductive, OrderInductive, PTL DEF Spec

-------------------------------------------------------------------------------
(* The window *)

\* The quanta waited are quanta in a row that showed another page.
ElsewhereSince ==
  /\ ahead + behind <= MaxOthers
  /\ \A k \in 0 .. waited - 1 : ~InWindow(ahead, Open, quantum - k)

\* Only a sweep and the other runs touch the list and its clock.
LEMMA WindowSteps ==
  Next => \/ \E w \in Handlers, ticks \in 0 .. 1 : ScanRuns(w, ticks)
          \/ ListChanges
          \/ UNCHANGED <<listVars, sweepVars>>
<1>1. ASSUME NEW w \in Handlers, Continue(w) PROVE UNCHANGED <<listVars, sweepVars>>
  BY <1>1 DEF Continue, MarkComplete, ReadChildren, ReadAgain, LevelDispatch, MakeReady,
              FindReady, ReadSiblings, Redrive
<1>2. World => ListChanges \/ UNCHANGED <<listVars, sweepVars>>
  BY DEF World, Complete, Reopen, Propagate, LoseEvent
<1>. QED BY <1>1, <1>2 DEF Next, ReceiveDone, Crash, ReceiveReady

\* One more quantum that shows another page.
LEMMA OneMoreQuantum ==
  ASSUME Types, ElsewhereSince, NEW w \in Handlers, NEW ticks \in 0 .. 1, ScanRuns(w, ticks)
  PROVE  ElsewhereSince'
<1>1. /\ ahead \in Nat /\ behind \in Nat /\ quantum \in Nat /\ waited \in Nat
      /\ MaxOthers \in Nat /\ Cycle \in Nat \ {0}
  BY CycleAssumption, BoundsAssumption DEF Types, TypeOK
<1>2. ahead' = ahead /\ behind' = behind /\ Open' = Open
  BY <1>1 DEF ScanRuns, listVars, Open
<1>3. Open \in 1 .. MaxOthers + 1 BY <1>1 DEF Open, ElsewhereSince
<1>4. quantum' = (quantum + ticks) % Cycle BY DEF ScanRuns
<1>5. CASE InWindow(ahead, Open, quantum')
  <2>1. waited' = 0 BY <1>5 DEF ScanRuns
  <2>. QED BY <1>2, <2>1 DEF ElsewhereSince
<1>6. CASE ~InWindow(ahead, Open, quantum')
  <2>1. waited' = waited + ticks BY <1>6 DEF ScanRuns
  <2>2. quantum' \in Int BY <1>1, <1>4, Division
  <2>3. Cycle % Pages(Open) = 0 /\ Open \in Nat BY <1>1, <1>3, CycleAssumption
  <2>4. \A k \in 0 .. waited + ticks - 1 : ~InWindow(ahead, Open, quantum' - k)
    BY <1>1, <1>4, <1>6, <2>2, <2>3, NextQuantum DEF ElsewhereSince
  <2>5. ahead' + behind' <= MaxOthers BY <1>2 DEF ElsewhereSince
  <2>6. \A k \in 0 .. waited' - 1 : ~InWindow(ahead', Open', quantum' - k)
    BY <1>1, <1>2, <2>1, <2>4
  <2>. QED BY <2>5, <2>6 DEF ElsewhereSince
<1>. QED BY <1>5, <1>6

\* ElsewhereSince is inductive, with the types.
LEMMA ElsewhereInductive ==
  (Init => ElsewhereSince) /\ (Types /\ ElsewhereSince /\ [Next]_vars => ElsewhereSince')
<1>1. ASSUME Init PROVE ElsewhereSince
  BY <1>1, BoundsAssumption DEF Init, ElsewhereSince
<1>2. ASSUME Types, ElsewhereSince, ListChanges PROVE ElsewhereSince'
  <2>1. ahead' + behind' <= MaxOthers
    BY <1>2, BoundsAssumption DEF ListChanges, ElsewhereSince, Types, TypeOK
  <2>2. waited' = 0 BY <1>2 DEF ListChanges
  <2>. QED BY <2>1, <2>2 DEF ElsewhereSince
<1>3. ASSUME ElsewhereSince, UNCHANGED <<listVars, sweepVars>> PROVE ElsewhereSince'
  BY <1>3 DEF ElsewhereSince, listVars, sweepVars, Open
<1>. QED BY <1>1, <1>2, <1>3, WindowSteps, OneMoreQuantum DEF vars, listVars, sweepVars

\* While the list of open runs stands, a sweep has each run within as many quanta as
\* there are pages: for every cap, every place and every number of open runs.
THEOREM WindowCorrect == Spec => []WindowComesRound
<1>1. ASSUME Types, ElsewhereSince PROVE WindowComesRound
  <2>1. ahead \in Nat /\ Open \in Nat /\ ahead < Open /\ quantum \in Nat /\ waited \in Nat
    BY <1>1 DEF Types, TypeOK, Open
  <2>2. Pages(Open) \in Nat BY <2>1, PagesHold
  <2>3. PICK k \in 0 .. Pages(Open) - 1 : InWindow(ahead, Open, quantum - k)
    BY <2>1, EveryPlaceIsShown
  <2>4. k \notin 0 .. waited - 1 BY <1>1, <2>3 DEF ElsewhereSince
  <2>. QED BY <2>1, <2>2, <2>3, <2>4 DEF WindowComesRound
<1>. QED BY <1>1, TypesInductive, ElsewhereInductive, PTL DEF Spec
=============================================================================
